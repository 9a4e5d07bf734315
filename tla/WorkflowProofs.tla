--------------------------- MODULE WorkflowProofs ---------------------------
(***************************************************************************)
(* Proofs about the workflows that write or spend: the sections and saved  *)
(* versions of a proposal (Proposals), the plan a run delegates            *)
(* (Delegation), the worker process that serves a run (CodexWorker), the   *)
(* token capacity of a campaign's run (CampaignCapacity), the campaign     *)
(* that produces a manuscript (SpecialistCampaign), and the composition of *)
(* them and the paid evaluation.  For any number of requests, revisions,   *)
(* children, turns, reviewers, drafts, edits and runs, and any limit and   *)
(* reserve.                                                                *)
(* Each part has its own inductive invariant: what a step that was begun   *)
(* still remembers, related to what the tables have become.                *)
(***************************************************************************)
EXTENDS MCWorkflows, EvaluationProofs

-----------------------------------------------------------------------------
(* Sections and saved versions of a proposal: Proposals.                   *)

Pen == [at : {"rest", "index", "ask", "apply", "human", "undo", "generated", "approved",
              "rejected", "save", "save_all", "number"},
        row : Chapter, text : Prose, cites : SUBSET PassageId,
        key : Keys \cup {Empty}, kind : Stages \cup {Empty},
        ver : 0 .. (MaxSource + MaxSaved + 1)]
RecordRow == [before : Prose, after : Prose, undone : BOOLEAN,
              origin : {"none", "human", "generated", "undo"}]
PassageRow == [ver : 0 .. MaxSource, status : {"none", "current", "stale", "deleted"}]

(* What a request loaded is the section's, if the section is still at the  *)
(* revision it loaded; an undo puts back what that revision replaced; and  *)
(* what a version will cite is of the extraction it read the evidence at.  *)
Remembers(job) ==
  /\ job.ver \in 0 .. MaxSource
  /\ job.at \in {"ask", "generated"} => job.key \in Keys
  /\ job.at \in {"human", "undo", "generated"} =>
       /\ job.row.revision <= chapter.revision
       /\ job.row.revision = chapter.revision => job.row.text = chapter.text
  /\ job.at = "undo" =>
       job.row.revision >= 1 /\ job.text = record[job.row.revision].before
  /\ job.at \in {"human", "undo", "generated", "approved", "rejected", "save", "save_all", "number"} =>
       chapter.state # "missing"
  /\ job.at = "number" =>
       \A p \in job.cites : passage[p].status # "none" /\ passage[p].ver = job.ver

(* The story up to the section's revision, which no undo has undone yet.   *)
Told ==
  /\ RevisionsChain
  /\ chapter.revision > 0 => ~record[chapter.revision].undone
  /\ chapter.revision = 0 => chapter.text = Empty
  /\ chapter.state = "missing" => chapter.revision = 0

OfOneSource ==
  /\ \A p \in PassageId : passage[p].status = "none" => passage[p] = NoPassage
  /\ \A p \in fit : passage[p].status # "none"
  /\ \A i \in DOMAIN saved : \A p \in saved[i].cites :
       passage[p].status # "none" /\ passage[p].ver = saved[i].source

ProposalsSound ==
  /\ TypeOKProposals
  /\ \A w \in Writers : Remembers(writer[w])
  /\ Told
  /\ OfOneSource

-----------------------------------------------------------------------------
LEMMA PenTypes ==
  /\ NoChapter \in Chapter /\ AtRest \in Pen /\ AtRest.at = "rest" /\ NoPassage \in PassageRow
  /\ NoRecord \in RecordRow
  /\ \A row \in Chapter :
       /\ row.text \in Prose /\ row.revision \in 0 .. MaxRevision
       /\ row.state \in {"missing", "proposed", "approved", "rejected"}
       /\ row.cites \in SUBSET PassageId
  /\ \A job \in Pen :
       /\ job.row \in Chapter /\ job.text \in Prose /\ job.cites \in SUBSET PassageId
       /\ job.ver \in 0 .. (MaxSource + MaxSaved + 1)
<1>1. NoChapter \in Chapter
  BY ProposalAssumptions DEF NoChapter, Chapter, Prose
<1>2. AtRest \in Pen /\ AtRest.at = "rest"
  BY <1>1, ProposalAssumptions DEF AtRest, Pen, Prose
<1>3. NoPassage \in PassageRow /\ NoRecord \in RecordRow
  BY ProposalAssumptions DEF NoPassage, PassageRow, NoRecord, RecordRow, Prose
<1>4. \A row \in Chapter :
       /\ row.text \in Prose /\ row.revision \in 0 .. MaxRevision
       /\ row.state \in {"missing", "proposed", "approved", "rejected"}
       /\ row.cites \in SUBSET PassageId
  BY DEF Chapter
<1>5. \A job \in Pen :
       /\ job.row \in Chapter /\ job.text \in Prose /\ job.cites \in SUBSET PassageId
       /\ job.ver \in 0 .. (MaxSource + MaxSaved + 1)
  BY DEF Pen
<1> QED BY <1>1, <1>2, <1>3, <1>4, <1>5

LEMMA PropTypes ==
  ASSUME TypeOKProposals
  PROVE  /\ source \in 0 .. MaxSource /\ passage \in [PassageId -> PassageRow]
         /\ fit \subseteq PassageId /\ cited \subseteq PassageId /\ chapter \in Chapter
         /\ record \in [1 .. MaxRevision -> RecordRow] /\ generation \subseteq Keys
         /\ saved \in Seq(Saved) /\ writer \in [Writers -> Pen] /\ reviewed \in BOOLEAN
         /\ \A p \in PassageId : /\ passage[p] \in PassageRow /\ passage[p].ver \in 0 .. MaxSource
                                 /\ passage[p].status \in {"none", "current", "stale", "deleted"}
<1>1. /\ source \in 0 .. MaxSource /\ passage \in [PassageId -> PassageRow]
      /\ fit \subseteq PassageId /\ cited \subseteq PassageId /\ chapter \in Chapter
      /\ record \in [1 .. MaxRevision -> RecordRow] /\ generation \subseteq Keys
      /\ saved \in Seq(Saved) /\ writer \in [Writers -> Pen] /\ reviewed \in BOOLEAN
  BY DEF TypeOKProposals, PassageRow, RecordRow, Pen
<1>2. \A p \in PassageId : /\ passage[p] \in PassageRow /\ passage[p].ver \in 0 .. MaxSource
                           /\ passage[p].status \in {"none", "current", "stale", "deleted"}
  BY <1>1 DEF PassageRow
<1> QED BY <1>1, <1>2

LEMMA ProposalsInitSound == ProposalsInit => ProposalsSound
<1> SUFFICES ASSUME ProposalsInit PROVE ProposalsSound
  OBVIOUS
<1>1. TypeOKProposals
  <2>1. source \in 0 .. MaxSource /\ fit \subseteq PassageId /\ cited \subseteq PassageId
        /\ chapter \in Chapter /\ generation \subseteq Keys
    BY PenTypes, ProposalAssumptions DEF ProposalsInit
  <2>2. passage \in [PassageId -> PassageRow] /\ record \in [1 .. MaxRevision -> RecordRow]
        /\ writer \in [Writers -> Pen]
    BY PenTypes DEF ProposalsInit
  <2>3. saved \in Seq(Saved)
    BY DEF ProposalsInit
  <2>4. reviewed \in BOOLEAN
    BY DEF ProposalsInit
  <2> QED BY <2>1, <2>2, <2>3, <2>4 DEF TypeOKProposals, Pen, RecordRow, PassageRow
<1>2. chapter.revision = 0 /\ chapter.text = Empty /\ saved = <<>> /\ DOMAIN saved = {} /\ fit = {}
      /\ \A m \in 1 .. MaxRevision : record[m] = NoRecord
      /\ \A p \in PassageId : passage[p] = NoPassage
  BY DEF ProposalsInit, NoChapter
<1>3. Told
  BY <1>2, ProposalAssumptions DEF Told, RevisionsChain
<1>4. OfOneSource
  <2>1. \A p \in PassageId : passage[p].status = "none" => passage[p] = NoPassage
    <3> TAKE p \in PassageId
    <3>1. passage[p] = NoPassage
      BY DEF ProposalsInit
    <3> QED BY <3>1
  <2>2. \A p \in fit : passage[p].status # "none"
    BY DEF ProposalsInit
  <2>3. \A i \in DOMAIN saved : \A p \in saved[i].cites :
           passage[p].status # "none" /\ passage[p].ver = saved[i].source
    <3>1. DOMAIN saved = {}
      BY <1>2
    <3> QED BY <3>1
  <2> QED BY <2>1, <2>2, <2>3 DEF OfOneSource
<1>5. \A w \in Writers : Remembers(writer[w])
  <2>1. Remembers(AtRest)
    BY PenTypes, ProposalAssumptions DEF Remembers, AtRest
  <2> QED BY <2>1 DEF ProposalsInit
<1> QED BY <1>1, <1>3, <1>4, <1>5 DEF ProposalsSound

(* A request loads or gives up: the tables are as they were.               *)
LEMMA TurnKeeps ==
  ASSUME ProposalsSound, NEW w \in Writers, NEW job \in Pen, Turns(w, job), Remembers(job),
         UNCHANGED <<source, passage, fit, rows, generation, saved, reviewed>>
  PROVE  ProposalsSound'
<1>1. /\ writer' \in [Writers -> Pen] /\ writer'[w] = job
      /\ \A v \in Writers \ {w} : writer'[v] = writer[v]
  BY PropTypes DEF Turns, ProposalsSound
<1>2. TypeOKProposals'
  BY <1>1 DEF ProposalsSound, TypeOKProposals, Pen, rows
<1>3. \A v \in Writers : Remembers(writer[v])'
  BY <1>1 DEF ProposalsSound, Remembers, rows
<1>4. Told' /\ OfOneSource'
  BY DEF ProposalsSound, Told, RevisionsChain, OfOneSource, rows
<1> QED BY <1>2, <1>3, <1>4 DEF ProposalsSound

(* A request ends; the section has the text and the revision it had, and   *)
(* no passage is taken back or changes its extraction.                     *)
LEMMA EndKeeps ==
  ASSUME ProposalsSound, (\E w \in Writers : Ends(w)) \/ UNCHANGED writer,
         UNCHANGED record, chapter'.text = chapter.text, chapter'.revision = chapter.revision,
         chapter.state # "missing" => chapter'.state # "missing",
         \A p \in PassageId : passage[p].status # "none" =>
           passage'[p].status # "none" /\ passage'[p].ver = passage[p].ver
  PROVE  /\ writer' \in [Writers -> Pen] /\ \A v \in Writers : Remembers(writer[v])'
         /\ Told'
<1>1. \A v \in Writers : writer'[v] = AtRest \/ writer'[v] = writer[v]
  BY PropTypes DEF ProposalsSound, Ends, Turns
<1>2. writer' \in [Writers -> Pen]
  BY PropTypes, PenTypes DEF ProposalsSound, Ends, Turns
<1>3. \A v \in Writers : Remembers(writer[v])'
  <2> TAKE v \in Writers
  <2>1. CASE writer'[v] = AtRest
    BY <2>1, PenTypes, ProposalAssumptions DEF Remembers, AtRest
  <2>2. CASE writer'[v] = writer[v]
    <3>1. Remembers(writer[v]) /\ writer[v].cites \subseteq PassageId
      BY PropTypes, PenTypes DEF ProposalsSound
    <3> QED BY <2>2, <3>1 DEF Remembers
  <2> QED BY <1>1, <2>1, <2>2
<1>4. Told'
  BY DEF ProposalsSound, Told, RevisionsChain
<1> QED BY <1>2, <1>3, <1>4
-----------------------------------------------------------------------------
(* The types that EndKeeps leaves to the action.                           *)
LEMMA EndTypes ==
  ASSUME ProposalsSound, (\E w \in Writers : Ends(w)) \/ UNCHANGED writer,
         UNCHANGED record, chapter'.text = chapter.text, chapter'.revision = chapter.revision,
         chapter.state # "missing" => chapter'.state # "missing",
         \A p \in PassageId : passage[p].status # "none" =>
           passage'[p].status # "none" /\ passage'[p].ver = passage[p].ver,
         source' \in 0 .. MaxSource, passage' \in [PassageId -> PassageRow],
         fit' \subseteq PassageId, cited' \subseteq PassageId, chapter' \in Chapter,
         generation' \subseteq Keys, saved' \in Seq(Saved), reviewed' \in BOOLEAN, OfOneSource'
  PROVE  ProposalsSound'
<1>1. writer' \in [Writers -> Pen] /\ (\A v \in Writers : Remembers(writer[v])') /\ Told'
  BY EndKeeps
<1>2. record' \in [1 .. MaxRevision -> RecordRow]
  BY PropTypes DEF ProposalsSound
<1>3. TypeOKProposals'
  <2>1. /\ (source \in 0 .. MaxSource)' /\ (passage \in [PassageId -> PassageRow])'
        /\ (fit \subseteq PassageId)' /\ (cited \subseteq PassageId)' /\ (chapter \in Chapter)'
        /\ (record \in [1 .. MaxRevision -> RecordRow])' /\ (generation \subseteq Keys)'
        /\ (saved \in Seq(Saved))' /\ (writer \in [Writers -> Pen])'
    BY <1>1, <1>2 DEF Chapter, Prose, PassageId
  <2> QED BY <2>1 DEF TypeOKProposals, Pen, RecordRow, PassageRow
<1> QED BY <1>1, <1>3 DEF ProposalsSound

(* What a citation may rest on is of the source's extraction.              *)
LEMMA PackOfSource ==
  ASSUME ProposalsSound
  PROVE  /\ \A p \in Pack : p \in PassageId /\ passage[p].status # "none" /\ passage[p].ver = source
         /\ \A p \in Evidence : p \in PassageId /\ passage[p].status # "none"
         /\ Pack \in SUBSET PassageId /\ Evidence \in SUBSET PassageId
         /\ Row \in Chapter /\ Row.text = chapter.text /\ Row.revision = chapter.revision
         /\ Row.state = chapter.state
<1>1. fit \subseteq PassageId /\ chapter \in Chapter /\ (\A p \in fit : passage[p].status # "none")
  BY PropTypes DEF ProposalsSound, OfOneSource
<1>2. /\ \A p \in Pack : p \in PassageId /\ passage[p].status # "none" /\ passage[p].ver = source
      /\ \A p \in Evidence : p \in PassageId /\ passage[p].status # "none"
      /\ Pack \in SUBSET PassageId /\ Evidence \in SUBSET PassageId
  BY <1>1 DEF Pack, Evidence, FromSource
<1>3. Row \in Chapter /\ Row.text = chapter.text /\ Row.revision = chapter.revision
      /\ Row.state = chapter.state
  BY <1>1 DEF Row, Chapter
<1> QED BY <1>2, <1>3

(* The requests that only read.                                            *)
LEMMA ReadsKeepSound ==
  ASSUME ProposalsSound, NEW w \in Writers,
         \/ ReadSource(w)
         \/ \E k \in Keys, kind \in Stages : StartGeneration(w, k, kind)
         \/ ReadForDraft(w) \/ UpdateSection(w) \/ UndoSection(w)
         \/ ReviewSection(w, "approved") \/ ReviewSection(w, "rejected")
         \/ SaveVersion(w, "save") \/ SaveVersion(w, "save_all")
         \/ ReadEvidence(w) \/ RollBack(w)
  PROVE  ProposalsSound'
<1> USE DEF ProposalsSound
<1>0. /\ source \in 0 .. MaxSource /\ source \in 0 .. (MaxSource + MaxSaved + 1)
      /\ chapter \in Chapter /\ writer[w] \in Pen /\ AtRest.ver = 0 /\ 0 \in 0 .. MaxSource
      /\ AtRest \in Pen /\ AtRest.at = "rest" /\ Remembers(writer[w]) /\ Told
      /\ chapter.revision \in 0 .. MaxRevision /\ chapter.text \in Prose
      /\ chapter.cites \in SUBSET PassageId
  BY PropTypes, PenTypes, ProposalAssumptions DEF AtRest
<1>1. CASE ReadSource(w)
  <2>1. PICK job : job = [AtRest EXCEPT !.at = "index", !.ver = source]
    OBVIOUS
  <2>2. job \in Pen /\ job.ver \in 0 .. MaxSource /\ job.at = "index"
    BY <1>0, <2>1 DEF Pen
  <2>3. Remembers(job)
    BY <2>2 DEF Remembers
  <2> QED BY <1>1, <2>1, <2>2, <2>3, TurnKeeps DEF ReadSource
<1>2. ASSUME NEW k \in Keys, NEW kind \in Stages, StartGeneration(w, k, kind)
      PROVE  ProposalsSound'
  <2>1. PICK job : job = [AtRest EXCEPT !.at = "ask", !.key = k, !.kind = kind]
    OBVIOUS
  <2>2. job \in Pen /\ job.ver \in 0 .. MaxSource /\ job.at = "ask" /\ job.key = k
    BY <1>0, <2>1 DEF Pen, Stages
  <2>3. Remembers(job)
    BY <2>2 DEF Remembers
  <2> QED BY <1>2, <2>1, <2>2, <2>3, TurnKeeps DEF StartGeneration
<1>3. CASE ReadForDraft(w)
  <2>1. PICK text \in Drafts : Turns(w, [writer[w] EXCEPT !.at = "generated", !.row = Row,
                                         !.text = text, !.cites = Evidence])
    BY <1>3 DEF ReadForDraft
  <2>2. PICK job : job = [writer[w] EXCEPT !.at = "generated", !.row = Row, !.text = text,
                                          !.cites = Evidence]
    OBVIOUS
  <2>3. job \in Pen /\ job.at = "generated" /\ job.row = Row /\ job.ver = writer[w].ver
        /\ job.key = writer[w].key
    BY <1>0, <2>2, PackOfSource DEF Pen, Prose
  <2>4. Remembers(job)
    <3>1. chapter.state # "missing"
      BY <1>3 DEF ReadForDraft
    <3>2. job.row.revision = chapter.revision /\ job.row.text = chapter.text
      BY <2>3, PackOfSource
    <3>3. job.ver \in 0 .. MaxSource /\ job.key \in Keys
      BY <1>0, <1>3, <2>3 DEF Remembers, ReadForDraft
    <3> QED BY <1>0, <2>3, <3>1, <3>2, <3>3 DEF Remembers
  <2> QED BY <1>3, <2>1, <2>2, <2>3, <2>4, TurnKeeps DEF ReadForDraft
<1>4. CASE UpdateSection(w)
  <2>1. PICK text \in Drafts, cites \in {chapter.cites} \cup SUBSET Pack :
          Turns(w, [AtRest EXCEPT !.at = "human", !.row = Row, !.text = text, !.cites = cites])
    BY <1>4 DEF UpdateSection
  <2>2. PICK job : job = [AtRest EXCEPT !.at = "human", !.row = Row, !.text = text,
                                       !.cites = cites]
    OBVIOUS
  <2>3. cites \in SUBSET PassageId
    BY <1>0, PackOfSource
  <2>4. job \in Pen /\ job.at = "human" /\ job.row = Row /\ job.ver = 0
    BY <1>0, <2>2, <2>3, PackOfSource DEF Pen, Prose
  <2>5. Remembers(job)
    <3>1. chapter.state # "missing"
      BY <1>4 DEF UpdateSection
    <3>2. job.row.revision = chapter.revision /\ job.row.text = chapter.text
      BY <2>4, PackOfSource
    <3> QED BY <1>0, <2>4, <3>1, <3>2 DEF Remembers
  <2> QED BY <1>4, <2>1, <2>2, <2>4, <2>5, TurnKeeps DEF UpdateSection
<1>5. CASE UndoSection(w)
  <2>1. PICK job : job = [AtRest EXCEPT !.at = "undo", !.row = Row,
                                       !.text = record[chapter.revision].before]
    OBVIOUS
  <2>2. chapter.revision \in 1 .. MaxRevision /\ record[chapter.revision] \in RecordRow
    BY <1>0, <1>5, PropTypes, ProposalAssumptions DEF UndoSection
  <2>3. record[chapter.revision].before \in Prose
    BY <2>2 DEF RecordRow
  <2>4. job \in Pen /\ job.at = "undo" /\ job.row = Row /\ job.ver = 0
        /\ job.text = record[chapter.revision].before
    BY <1>0, <2>1, <2>3, PackOfSource DEF Pen
  <2>5. chapter.state # "missing"
    BY <1>0, <2>2 DEF Told
  <2>6. Remembers(job)
    BY <1>0, <2>2, <2>4, <2>5, PackOfSource DEF Remembers
  <2> QED BY <1>5, <2>1, <2>4, <2>6, TurnKeeps DEF UndoSection
<1>6. ASSUME NEW decision \in {"approved", "rejected"}, ReviewSection(w, decision)
      PROVE  ProposalsSound'
  <2>1. PICK job : job = [AtRest EXCEPT !.at = decision, !.row = [Row EXCEPT !.text = Empty]]
    OBVIOUS
  <2>2. [Row EXCEPT !.text = Empty] \in Chapter
    BY PackOfSource DEF Chapter, Prose
  <2>3. job \in Pen /\ job.at = decision /\ job.ver = 0
    BY <1>0, <2>1, <2>2 DEF Pen
  <2>4. Remembers(job)
    BY <1>0, <1>6, <2>3 DEF Remembers, ReviewSection
  <2> QED BY <1>6, <2>1, <2>3, <2>4, TurnKeeps DEF ReviewSection
<1>7. ASSUME NEW scope \in {"save", "save_all"}, SaveVersion(w, scope)
      PROVE  ProposalsSound'
  <2>1. PICK job : job = [AtRest EXCEPT !.at = scope, !.row = Row]
    OBVIOUS
  <2>2. job \in Pen /\ job.at = scope /\ job.ver = 0
    BY <1>0, <2>1, PackOfSource DEF Pen
  <2>3. Remembers(job)
    BY <1>0, <1>7, <2>2 DEF Remembers, SaveVersion, Loads
  <2> QED BY <1>7, <2>1, <2>2, <2>3, TurnKeeps DEF SaveVersion, Loads
<1>8. CASE ReadEvidence(w)
  <2>1. PICK all \in BOOLEAN : all = (writer[w].at = "save_all" /\ writer[w].row.state # "approved")
    OBVIOUS
  <2>2. PICK job : job = [writer[w] EXCEPT !.at = "number",
                            !.cites = chapter.cites \cup Evidence, !.ver = source,
                            !.kind = IF all THEN "draft" ELSE Empty]
    OBVIOUS
  <2>3. chapter.cites \cup Evidence \in SUBSET PassageId
    BY <1>0, PackOfSource
  <2>4. (IF all THEN "draft" ELSE Empty) \in Stages \cup {Empty}
    BY DEF Stages
  <2>5. job \in Pen /\ job.at = "number" /\ job.cites = chapter.cites \cup Evidence /\ job.ver = source
    BY <1>0, <2>2, <2>3, <2>4 DEF Pen
  <2>6. \A p \in job.cites : passage[p].status # "none" /\ passage[p].ver = source
    BY <1>8, <2>5, PackOfSource DEF ReadEvidence, FromSource
  <2>7. chapter.state # "missing"
    BY <1>0, <1>8 DEF ReadEvidence, Remembers
  <2>8. Remembers(job)
    BY <1>0, <2>5, <2>6, <2>7 DEF Remembers
  <2> QED BY <1>8, <2>1, <2>2, <2>5, <2>8, TurnKeeps DEF ReadEvidence
<1>9. CASE RollBack(w)
  <2>1. Remembers(AtRest)
    BY <1>0 DEF Remembers
  <2> QED BY <1>0, <1>9, <2>1, TurnKeeps DEF RollBack, Ends
<1> QED BY <1>1, <1>2, <1>3, <1>4, <1>5, <1>6, <1>7, <1>8, <1>9

-----------------------------------------------------------------------------
(* Passages only gain rows; what was cited keeps its extraction.           *)
LEMMA PassagesMove ==
  ASSUME ProposalsSound, passage' \in [PassageId -> PassageRow], UNCHANGED saved,
         fit' \subseteq PassageId, \A p \in fit' : passage'[p].status # "none",
         \A p \in PassageId :
           /\ passage'[p].status = "none" => passage'[p] = NoPassage
           /\ passage[p].status # "none" =>
                passage'[p].status # "none" /\ passage'[p].ver = passage[p].ver
  PROVE  OfOneSource'
<1>1. \A i \in DOMAIN saved : saved[i].cites \subseteq PassageId
  <2> TAKE i \in DOMAIN saved
  <2>1. saved[i] \in Saved
    BY PropTypes, ElementOfSeq, LenProperties DEF ProposalsSound
  <2> QED BY <2>1 DEF Saved
<1>2. \A i \in DOMAIN saved : \A p \in saved[i].cites :
        passage[p].status # "none" /\ passage[p].ver = saved[i].source
  BY DEF ProposalsSound, OfOneSource
<1>3. \A i \in DOMAIN saved' : \A p \in saved'[i].cites :
        passage'[p].status # "none" /\ passage'[p].ver = saved'[i].source
  BY <1>1, <1>2
<1>4. \A p \in PassageId : passage'[p].status = "none" => passage'[p] = NoPassage
  OBVIOUS
<1> QED BY <1>3, <1>4 DEF OfOneSource, PassageId, NoPassage

LEMMA WritePassagesKeepsSound ==
  ASSUME ProposalsSound, NEW w \in Writers, WritePassages(w) PROVE ProposalsSound'
<1> DEFINE v == writer[w].ver
           indexed == [p \in PassageId |->
             IF passage[p].status = "current" /\ passage[p].ver # v
             THEN [passage[p] EXCEPT !.status = "stale"] ELSE passage[p]]
<1>1. v \in 0 .. MaxSource
  BY DEF ProposalsSound, Remembers
<1>2. /\ passage \in [PassageId -> PassageRow]
      /\ \A p \in PassageId : passage[p].status = "none" => passage[p] = NoPassage
      /\ \A p \in fit : p \in PassageId /\ passage[p].status # "none"
  BY PropTypes DEF ProposalsSound, OfOneSource
<1> HIDE DEF v
<1>3. /\ indexed \in [PassageId -> PassageRow]
      /\ \A p \in PassageId : /\ indexed[p].status = "none" <=> passage[p].status = "none"
                              /\ indexed[p].status = "none" => indexed[p] = passage[p]
                              /\ indexed[p].ver = passage[p].ver
  <2>1. \A p \in PassageId : passage[p] \in PassageRow
    BY <1>2
  <2>2. \A p \in PassageId : [passage[p] EXCEPT !.status = "stale"] \in PassageRow
                             /\ [passage[p] EXCEPT !.status = "stale"].status = "stale"
                             /\ [passage[p] EXCEPT !.status = "stale"].ver = passage[p].ver
    BY <2>1 DEF PassageRow
  <2> QED BY <2>1, <2>2
<1> HIDE DEF indexed
<1>4. \/ passage' = indexed
      \/ \E p \in PassageId, before \in {indexed, passage} :
           /\ passage[p] = NoPassage
           /\ passage' = [before EXCEPT ![p] = [ver |-> v, status |-> "current"]]
  BY DEF WritePassages, v, indexed
<1>5. /\ passage' \in [PassageId -> PassageRow]
      /\ \A p \in PassageId : /\ passage'[p].status = "none" => passage'[p] = NoPassage
                              /\ passage[p].status # "none" =>
                                   passage'[p].status # "none" /\ passage'[p].ver = passage[p].ver
  <2>1. CASE passage' = indexed
    BY <1>2, <1>3, <2>1
  <2>2. ASSUME NEW p \in PassageId, NEW before \in {indexed, passage}, passage[p] = NoPassage,
               passage' = [before EXCEPT ![p] = [ver |-> v, status |-> "current"]]
        PROVE  <1>5!:
    <3>1. [ver |-> v, status |-> "current"] \in PassageRow
      BY <1>1 DEF PassageRow
    <3>2. before \in [PassageId -> PassageRow]
      BY <1>2, <1>3
    <3>3. passage' \in [PassageId -> PassageRow] /\ passage'[p].status = "current"
          /\ \A q \in PassageId \ {p} : passage'[q] = before[q]
      BY <2>2, <3>1, <3>2
    <3>4. passage[p].status = "none"
      BY <2>2 DEF NoPassage
    <3>5. \A q \in PassageId \ {p} :
            /\ passage'[q].status = "none" => passage'[q] = NoPassage
            /\ passage[q].status # "none" =>
                 passage'[q].status # "none" /\ passage'[q].ver = passage[q].ver
      BY <1>2, <1>3, <3>3
    <3> QED BY <3>3, <3>4, <3>5
  <2> QED BY <1>4, <2>1, <2>2
<1>6. UNCHANGED <<source, fit, chapter, record, cited, generation, saved, reviewed>> /\ Ends(w)
  BY DEF WritePassages, rows
<1>7. OfOneSource'
  BY <1>2, <1>5, <1>6, PassagesMove
<1>8. /\ source' \in 0 .. MaxSource /\ fit' \subseteq PassageId /\ cited' \subseteq PassageId
      /\ chapter' \in Chapter /\ generation' \subseteq Keys /\ saved' \in Seq(Saved)
      /\ reviewed' \in BOOLEAN
  BY <1>6, PropTypes DEF ProposalsSound
<1> QED BY <1>5, <1>6, <1>7, <1>8, EndTypes

(* The actions that touch no section.                                      *)
LEMMA TablesKeepSound ==
  ASSUME ProposalsSound,
         \/ \E p \in PassageId : DeletePassage(p)
         \/ SourceChanges \/ \E w \in Writers : GenerateFitMatrix(w)
  PROVE  ProposalsSound'
<1>1. /\ passage \in [PassageId -> PassageRow] /\ fit \subseteq PassageId
      /\ \A p \in PassageId : passage[p].status = "none" => passage[p] = NoPassage
      /\ \A p \in fit : passage[p].status # "none"
      /\ source \in 0 .. MaxSource
  BY PropTypes DEF ProposalsSound, OfOneSource
<1>2. /\ cited \subseteq PassageId /\ chapter \in Chapter /\ generation \subseteq Keys
      /\ saved \in Seq(Saved) /\ reviewed \in BOOLEAN
  BY PropTypes DEF ProposalsSound
<1>3. ASSUME NEW p \in PassageId, DeletePassage(p) PROVE ProposalsSound'
  <2>1. passage' = [passage EXCEPT ![p].status = "deleted"] /\ passage[p].status # "none"
    BY <1>3 DEF DeletePassage
  <2>2. passage[p] \in PassageRow /\ passage'[p] = [passage[p] EXCEPT !.status = "deleted"]
        /\ \A q \in PassageId \ {p} : passage'[q] = passage[q]
    BY <1>1, <2>1
  <2>3. passage'[p] \in PassageRow /\ passage'[p].status = "deleted" /\ passage'[p].ver = passage[p].ver
    BY <2>2 DEF PassageRow
  <2>4. passage' \in [PassageId -> PassageRow]
    BY <1>1, <2>1, <2>2, <2>3
  <2>5. UNCHANGED <<source, fit, chapter, record, cited, generation, saved, reviewed, writer>>
    BY <1>3 DEF DeletePassage, rows
  <2>6. \A q \in PassageId : /\ passage'[q].status = "none" => passage'[q] = NoPassage
                             /\ passage[q].status # "none" =>
                                  passage'[q].status # "none" /\ passage'[q].ver = passage[q].ver
    BY <1>1, <2>2, <2>3
  <2>7. OfOneSource'
    BY <1>1, <2>4, <2>5, <2>6, PassagesMove
  <2> QED BY <1>1, <1>2, <2>4, <2>5, <2>6, <2>7, EndTypes
<1>4. CASE SourceChanges
  <2>1. UNCHANGED <<passage, fit, chapter, record, cited, generation, saved, reviewed, writer>>
        /\ source' \in 0 .. MaxSource
    BY <1>1, <1>4, ProposalAssumptions DEF SourceChanges, rows
  <2>2. OfOneSource'
    BY <1>1, <2>1, PassagesMove
  <2> QED BY <1>1, <1>2, <2>1, <2>2, EndTypes
<1>5. ASSUME NEW w \in Writers, GenerateFitMatrix(w) PROVE ProposalsSound'
  <2>1. UNCHANGED <<source, passage, chapter, record, cited, saved, reviewed>> /\ Ends(w)
        /\ fit' \in SUBSET Pack /\ generation' = generation \cup {writer[w].key}
        /\ writer[w].at = "ask"
    BY <1>5 DEF GenerateFitMatrix, rows, FinishGeneration
  <2>2. OfOneSource'
    BY <1>1, <2>1, PackOfSource, PassagesMove
  <2>3. generation' \subseteq Keys
    BY <1>2, <2>1, PenTypes, PropTypes DEF ProposalsSound, Remembers
  <2> QED BY <1>1, <1>2, <2>1, <2>2, <2>3, PackOfSource, EndTypes
<1> QED BY <1>3, <1>4, <1>5

(* The actions that write the section's state, or a version.               *)
LEMMA StatesKeepSound ==
  ASSUME ProposalsSound, NEW w \in Writers,
         GenerateOutline(w) \/ WriteReview(w) \/ CommitVersion(w)
  PROVE  ProposalsSound'
<1>1. /\ source \in 0 .. MaxSource /\ passage \in [PassageId -> PassageRow]
      /\ fit \subseteq PassageId /\ cited \subseteq PassageId /\ generation \subseteq Keys
      /\ chapter \in Chapter /\ saved \in Seq(Saved) /\ reviewed \in BOOLEAN
  BY PropTypes DEF ProposalsSound
<1>2. writer[w] \in Pen /\ Remembers(writer[w]) /\ Told
  BY PropTypes DEF ProposalsSound
<1>3. /\ \A p \in PassageId : passage[p].status = "none" => passage[p] = NoPassage
      /\ \A p \in fit : passage[p].status # "none"
  BY DEF ProposalsSound, OfOneSource
<1>4. ASSUME UNCHANGED <<passage, fit, saved>> PROVE OfOneSource'
  BY <1>1, <1>3, <1>4, PassagesMove
<1>5. CASE GenerateOutline(w)
  <2>1. /\ UNCHANGED <<source, passage, fit, record, cited, saved, reviewed>> /\ Ends(w)
        /\ chapter' = [NoChapter EXCEPT !.state = "proposed"]
        /\ generation' = generation \cup {writer[w].key} /\ writer[w].at = "ask"
        /\ chapter.state = "missing"
    BY <1>5 DEF GenerateOutline, FinishGeneration
  <2>2. chapter' \in Chapter /\ chapter'.text = Empty /\ chapter'.revision = 0
        /\ chapter'.state = "proposed"
    BY <2>1, PenTypes DEF NoChapter, Chapter
  <2>3. chapter.text = Empty /\ chapter.revision = 0
    BY <1>2, <2>1 DEF Told
  <2>4. generation' \subseteq Keys
    BY <1>1, <1>2, <2>1 DEF Remembers
  <2> QED BY <1>1, <1>4, <2>1, <2>2, <2>3, <2>4, EndTypes
<1>6. CASE WriteReview(w)
  <2>1. /\ UNCHANGED <<source, passage, fit, record, cited, generation, saved>> /\ Ends(w)
        /\ writer[w].at \in {"approved", "rejected"}
        /\ chapter' = chapter \/ chapter' = [chapter EXCEPT !.state = writer[w].at]
    BY <1>6 DEF WriteReview
  <2>2. reviewed' \in BOOLEAN
    BY <1>1, <1>6 DEF WriteReview
  <2>3. chapter' \in Chapter /\ chapter'.text = chapter.text /\ chapter'.revision = chapter.revision
        /\ (chapter.state # "missing" => chapter'.state # "missing")
    BY <1>1, <2>1 DEF Chapter
  <2> QED BY <1>1, <1>4, <2>1, <2>2, <2>3, EndTypes
<1>7. CASE CommitVersion(w)
  <2> DEFINE entry == [text |-> writer[w].row.text, cites |-> writer[w].cites,
                      source |-> writer[w].ver]
  <2>1. /\ UNCHANGED <<source, passage, fit, record, cited, generation>> /\ Ends(w)
        /\ writer[w].at = "number" /\ saved' = Append(saved, entry)
        /\ chapter' = chapter \/ chapter' = [chapter EXCEPT !.state = "approved"]
    BY <1>7 DEF CommitVersion
  <2>2. reviewed' \in BOOLEAN
    BY <1>1, <1>7 DEF CommitVersion
  <2>3. chapter' \in Chapter /\ chapter'.text = chapter.text /\ chapter'.revision = chapter.revision
        /\ (chapter.state # "missing" => chapter'.state # "missing")
    BY <1>1, <2>1 DEF Chapter
  <2>4. entry \in Saved
    BY <1>2, PenTypes DEF Saved, Remembers
  <2>5. \A p \in entry.cites : passage[p].status # "none" /\ passage[p].ver = entry.source
    BY <1>2, <2>1 DEF Remembers
  <2> HIDE DEF entry
  <2>6. /\ saved' \in Seq(Saved) /\ DOMAIN saved' = 1 .. (Len(saved) + 1)
        /\ DOMAIN saved = 1 .. Len(saved) /\ Len(saved) \in Nat
        /\ saved'[Len(saved) + 1] = entry
        /\ \A i \in 1 .. Len(saved) : saved'[i] = saved[i]
    BY <1>1, <2>1, <2>4, AppendProperties, LenProperties
  <2>7. \A i \in DOMAIN saved' : \A p \in saved'[i].cites :
          passage[p].status # "none" /\ passage[p].ver = saved'[i].source
    <3> TAKE i \in DOMAIN saved'
    <3>1. CASE i = Len(saved) + 1
      BY <2>5, <2>6, <3>1
    <3>2. CASE i # Len(saved) + 1
      <4>1. i \in DOMAIN saved /\ saved'[i] = saved[i]
        BY <2>6, <3>2
      <4> QED BY <4>1 DEF ProposalsSound, OfOneSource
    <3> QED BY <3>1, <3>2
  <2>8. OfOneSource'
    <3>1. \A p \in PassageId : passage'[p].status = "none" => passage'[p] = NoPassage
      BY <1>3, <2>1
    <3>2. \A p \in fit' : passage'[p].status # "none"
      BY <1>3, <2>1
    <3>3. \A i \in DOMAIN saved' : \A p \in saved'[i].cites :
            passage'[p].status # "none" /\ passage'[p].ver = saved'[i].source
      BY <2>1, <2>7
    <3> QED BY <3>1, <3>2, <3>3 DEF OfOneSource, PassageId, NoPassage
  <2> QED BY <1>1, <2>1, <2>2, <2>3, <2>6, <2>8, EndTypes
<1> QED BY <1>5, <1>6, <1>7

(* The commit of an edit, an undo or a draft: its revision number is free, *)
(* so the section is at the revision the request loaded.                   *)
LEMMA WriteTextKeepsSound ==
  ASSUME ProposalsSound, NEW w \in Writers, WriteText(w) PROVE ProposalsSound'
<1> DEFINE job == writer[w]
           n == chapter.revision + 1
<1>1. /\ source \in 0 .. MaxSource /\ passage \in [PassageId -> PassageRow]
      /\ fit \subseteq PassageId /\ cited \subseteq PassageId /\ generation \subseteq Keys
      /\ chapter \in Chapter /\ saved \in Seq(Saved) /\ reviewed \in BOOLEAN
      /\ record \in [1 .. MaxRevision -> RecordRow] /\ chapter.revision \in 0 .. MaxRevision
      /\ writer \in [Writers -> Pen]
  BY PropTypes, PenTypes DEF ProposalsSound
<1>2. /\ job \in Pen /\ job.row \in Chapter /\ job.row.revision \in 0 .. MaxRevision
      /\ job.row.text \in Prose /\ job.text \in Prose /\ job.cites \in SUBSET PassageId
      /\ Remembers(job) /\ Told
  BY <1>1, PenTypes DEF ProposalsSound
<1>3. /\ job.at \in {"human", "undo", "generated"} /\ job.row.revision + 1 <= MaxRevision
      /\ record[job.row.revision + 1] = NoRecord
  BY DEF WriteText, RecordFree
<1>4. job.row.revision = chapter.revision /\ job.row.text = chapter.text
      /\ chapter.state # "missing" /\ n \in 1 .. MaxRevision
  <2>1. job.row.revision <= chapter.revision /\ chapter.state # "missing"
    BY <1>2, <1>3 DEF Remembers
  <2>2. job.row.revision + 1 \in 1 .. MaxRevision
    BY <1>2, <1>3, ProposalAssumptions
  <2>3. ~(job.row.revision + 1 <= chapter.revision)
    BY <1>2, <1>3, <2>2 DEF Told, RevisionsChain
  <2>4. job.row.revision = chapter.revision
    BY <1>1, <1>2, <2>1, <2>3, ProposalAssumptions
  <2> QED BY <1>2, <1>3, <2>1, <2>2, <2>4 DEF Remembers
<1>5. /\ chapter' = [text |-> job.text, revision |-> n,
                     state |-> IF job.row.state = "proposed" THEN chapter.state ELSE "proposed",
                     cites |-> IF job.at = "undo" THEN chapter.cites ELSE job.cites]
      /\ record' = [m \in 1 .. MaxRevision |->
           CASE m = n -> [before |-> job.row.text, after |-> job.text, origin |-> job.at,
                          undone |-> FALSE]
             [] m = n - 1 /\ job.at = "undo" -> [record[m] EXCEPT !.undone = TRUE]
             [] OTHER -> record[m]]
      /\ cited' = cited \cup job.cites /\ reviewed' = FALSE /\ Ends(w)
      /\ UNCHANGED <<source, passage, fit, saved>>
      /\ generation' = generation \/ (/\ generation' = generation \cup {job.key}
                                     /\ job.at = "generated")
  BY <1>4 DEF WriteText, FinishGeneration
<1> HIDE DEF job, n
<1>6. /\ chapter' \in Chapter /\ chapter'.text = job.text /\ chapter'.revision = n
      /\ chapter'.state # "missing"
  <2>1. chapter.state \in {"proposed", "approved", "rejected"} /\ chapter.cites \in SUBSET PassageId
    BY <1>1, <1>4 DEF Chapter
  <2>2. n \in 0 .. MaxRevision
    BY <1>4
  <2> QED BY <1>2, <1>5, <2>1, <2>2 DEF Chapter
<1>7. PICK row \in RecordRow : row = [before |-> job.row.text, after |-> job.text,
                                     origin |-> job.at, undone |-> FALSE]
  BY <1>2, <1>3 DEF RecordRow
<1>8. /\ row.before = chapter.text /\ row.after = job.text /\ row.origin = job.at
      /\ row.undone = FALSE /\ row # NoRecord /\ row.origin # "none"
  BY <1>3, <1>4, <1>7 DEF NoRecord
<1>9. /\ record' \in [1 .. MaxRevision -> RecordRow]
      /\ record'[n] = row
      /\ \A m \in (1 .. MaxRevision) \ {n} :
           /\ record'[m].before = record[m].before /\ record'[m].after = record[m].after
           /\ record'[m].origin = record[m].origin
           /\ ~(m = n - 1 /\ job.at = "undo") => record'[m] = record[m]
           /\ (m = n - 1 /\ job.at = "undo") => record'[m].undone
  <2>1. \A m \in 1 .. MaxRevision :
          /\ record[m] \in RecordRow /\ [record[m] EXCEPT !.undone = TRUE] \in RecordRow
          /\ [record[m] EXCEPT !.undone = TRUE].before = record[m].before
          /\ [record[m] EXCEPT !.undone = TRUE].after = record[m].after
          /\ [record[m] EXCEPT !.undone = TRUE].origin = record[m].origin
          /\ [record[m] EXCEPT !.undone = TRUE].undone
    BY <1>1 DEF RecordRow
  <2>2. n # n - 1
    BY <1>4
  <2>3. /\ DOMAIN record' = 1 .. MaxRevision /\ record' = [m \in 1 .. MaxRevision |-> record'[m]]
        /\ record'[n] = row
        /\ \A m \in (1 .. MaxRevision) \ {n} :
             record'[m] = IF m = n - 1 /\ job.at = "undo"
                          THEN [record[m] EXCEPT !.undone = TRUE] ELSE record[m]
    BY <1>4, <1>5, <1>7, <2>2
  <2>4. \A m \in 1 .. MaxRevision : record'[m] \in RecordRow
    BY <2>1, <2>3
  <2>5. record' \in [1 .. MaxRevision -> RecordRow]
    BY <2>3, <2>4
  <2> QED BY <2>1, <2>3, <2>5
<1>10. Told'
  <2>1. /\ \A m \in 1 .. MaxRevision : (record[m] # NoRecord) <=> (m <= chapter.revision)
        /\ chapter.revision > 0 => /\ chapter.text = record[chapter.revision].after
                                  /\ record[1].before = Empty /\ ~record[chapter.revision].undone
        /\ \A m \in 2 .. chapter.revision :
             /\ record[m].before = record[m - 1].after
             /\ (record[m].origin = "undo") <=> record[m - 1].undone
             /\ record[m].origin = "undo" => record[m].after = record[m - 1].before
        /\ chapter.revision = 0 => chapter.text = Empty
    BY <1>2 DEF Told, RevisionsChain
  <2>2. n = chapter.revision + 1 /\ n \in 1 .. MaxRevision /\ chapter.revision \in Nat
        /\ MaxRevision \in Nat
    BY <1>1, <1>4, ProposalAssumptions DEF n
  <2>3. ASSUME NEW m \in 1 .. MaxRevision PROVE (record'[m] # NoRecord) <=> (m <= n)
    <3>1. CASE m = n
      BY <1>8, <1>9, <2>2, <3>1
    <3>2. CASE m # n /\ m = n - 1 /\ job.at = "undo"
      <4>1. record'[m].undone /\ ~NoRecord.undone
        BY <1>9, <3>2 DEF NoRecord
      <4> QED BY <2>2, <3>2, <4>1
    <3>3. CASE m # n /\ ~(m = n - 1 /\ job.at = "undo")
      <4>1. record'[m] = record[m]
        BY <1>9, <3>3
      <4> QED BY <2>1, <2>2, <3>3, <4>1
    <3> QED BY <3>1, <3>2, <3>3
  <2>4. job.text = record'[n].after /\ record'[1].before = Empty
    <3>1. CASE n = 1
      BY <1>8, <1>9, <2>1, <2>2, <3>1
    <3>2. CASE n # 1
      BY <1>8, <1>9, <2>1, <2>2, <3>2
    <3> QED BY <3>1, <3>2
  <2>5. ASSUME NEW m \in 2 .. n
        PROVE  /\ record'[m].before = record'[m - 1].after
               /\ (record'[m].origin = "undo") <=> record'[m - 1].undone
               /\ record'[m].origin = "undo" => record'[m].after = record'[m - 1].before
    <3>1. CASE m # n
      <4>1. m \in 2 .. chapter.revision /\ m \in (1 .. MaxRevision) \ {n}
            /\ m - 1 \in (1 .. MaxRevision) \ {n} /\ m - 1 # n - 1
        BY <2>2, <3>1
      <4>2. /\ record'[m - 1] = record[m - 1] /\ record'[m].before = record[m].before
            /\ record'[m].after = record[m].after /\ record'[m].origin = record[m].origin
        BY <1>9, <4>1
      <4> QED BY <2>1, <4>1, <4>2
    <3>2. CASE m = n
      <4>1. n - 1 = chapter.revision /\ n - 1 \in (1 .. MaxRevision) \ {n} /\ chapter.revision > 0
        BY <2>2, <3>2
      <4>2. /\ record'[n].before = record[n - 1].after /\ record'[n - 1].after = record[n - 1].after
            /\ record'[n - 1].before = record[n - 1].before /\ ~record[n - 1].undone
            /\ record'[n].origin = job.at /\ record'[n].after = job.text
        BY <1>8, <1>9, <2>1, <4>1
      <4>3. CASE job.at = "undo"
        <5>1. job.text = record[n - 1].before
          BY <1>2, <1>4, <4>1, <4>3 DEF Remembers
        <5>2. record'[n - 1].undone
          BY <1>9, <4>1, <4>3
        <5> QED BY <3>2, <4>2, <4>3, <5>1, <5>2
      <4>4. CASE job.at # "undo"
        <5>1. record'[n - 1] = record[n - 1]
          BY <1>9, <4>1, <4>4
        <5> QED BY <3>2, <4>2, <4>4, <5>1
      <4> QED BY <4>3, <4>4
    <3> QED BY <3>1, <3>2
  <2>6. ~record'[n].undone
    BY <1>8, <1>9
  <2>7. chapter'.revision = n /\ chapter'.text = job.text /\ chapter'.state # "missing" /\ n > 0
    BY <1>6, <2>2
  <2> HIDE DEF n
  <2> QED BY <2>3, <2>4, <2>5, <2>6, <2>7 DEF Told, RevisionsChain
<1>11. \A v \in Writers : writer'[v] = AtRest \/ writer'[v] = writer[v]
  BY <1>1, <1>5 DEF Ends, Turns
<1>12. \A v \in Writers : Remembers(writer[v])'
  <2> TAKE v \in Writers
  <2>1. CASE writer'[v] = AtRest
    BY <2>1, PenTypes, ProposalAssumptions DEF Remembers, AtRest
  <2>2. CASE writer'[v] = writer[v]
    <3>1. Remembers(writer[v]) /\ writer[v].row.revision \in 0 .. MaxRevision
      BY <1>1, PenTypes DEF ProposalsSound
    <3>2. writer[v].at \in {"human", "undo", "generated"} =>
            writer[v].row.revision <= chapter.revision /\ writer[v].row.revision < chapter'.revision
      BY <1>1, <1>4, <1>6, <3>1 DEF Remembers, n
    <3>3. writer[v].at = "undo" => writer[v].text = record'[writer[v].row.revision].before
      <4>1. writer[v].at = "undo" => /\ writer[v].row.revision \in (1 .. MaxRevision) \ {n}
                                     /\ writer[v].text = record[writer[v].row.revision].before
        BY <1>1, <1>4, <3>1, <3>2 DEF Remembers, n
      <4> QED BY <1>9, <4>1
    <3>4. passage' = passage /\ chapter'.state # "missing"
      BY <1>5, <1>6
    <3> QED BY <1>1, <1>6, <2>2, <3>1, <3>2, <3>3, <3>4 DEF Remembers, n
  <2> QED BY <1>11, <2>1, <2>2
<1>13. writer' \in [Writers -> Pen]
  BY <1>1, <1>5, PenTypes DEF Ends, Turns
<1>14. generation' \subseteq Keys /\ cited' \subseteq PassageId /\ reviewed' \in BOOLEAN
  BY <1>1, <1>2, <1>5 DEF Remembers
<1>15. TypeOKProposals'
  <2>1. UNCHANGED <<source, passage, fit, saved>>
    BY <1>5
  <2>2. /\ (source \in 0 .. MaxSource)' /\ (passage \in [PassageId -> PassageRow])'
        /\ (fit \subseteq PassageId)' /\ (cited \subseteq PassageId)' /\ (chapter \in Chapter)'
        /\ (record \in [1 .. MaxRevision -> RecordRow])' /\ (generation \subseteq Keys)'
        /\ (saved \in Seq(Saved))' /\ (writer \in [Writers -> Pen])'
    BY <1>1, <1>6, <1>9, <1>13, <1>14, <2>1 DEF Chapter, Prose, PassageId
  <2>3. (reviewed \in BOOLEAN)'
    BY <1>14
  <2> QED BY <2>2, <2>3 DEF TypeOKProposals, Pen, RecordRow, PassageRow
<1>16. OfOneSource'
  BY <1>5 DEF ProposalsSound, OfOneSource
<1> QED BY <1>10, <1>12, <1>15, <1>16 DEF ProposalsSound

-----------------------------------------------------------------------------
LEMMA ProposalsNextSound == ProposalsSound /\ [ProposalsNext]_propvars => ProposalsSound'
<1> SUFFICES ASSUME ProposalsSound, [ProposalsNext]_propvars PROVE ProposalsSound'
  OBVIOUS
<1>1. ASSUME NEW w \in Writers,
             \/ ReadSource(w)
             \/ \E k \in Keys, kind \in Stages : StartGeneration(w, k, kind)
             \/ ReadForDraft(w) \/ UpdateSection(w) \/ UndoSection(w)
             \/ ReviewSection(w, "approved") \/ ReviewSection(w, "rejected")
             \/ SaveVersion(w, "save") \/ SaveVersion(w, "save_all")
             \/ ReadEvidence(w) \/ RollBack(w)
      PROVE  ProposalsSound'
  BY <1>1, ReadsKeepSound
<1>2. ASSUME NEW w \in Writers, WritePassages(w) PROVE ProposalsSound'
  BY <1>2, WritePassagesKeepsSound
<1>3. ASSUME NEW w \in Writers, GenerateFitMatrix(w) PROVE ProposalsSound'
  BY <1>3, TablesKeepSound
<1>4. ASSUME NEW w \in Writers, GenerateOutline(w) \/ WriteReview(w) \/ CommitVersion(w)
      PROVE  ProposalsSound'
  BY <1>4, StatesKeepSound
<1>5. ASSUME NEW w \in Writers, WriteText(w) PROVE ProposalsSound'
  BY <1>5, WriteTextKeepsSound
<1>6. CASE (\E p \in PassageId : DeletePassage(p)) \/ SourceChanges
  BY <1>6, TablesKeepSound
<1>7. CASE UNCHANGED propvars
  <2>1. ProposalsSound <=> ProposalsSound'
    BY <1>7 DEF propvars, ProposalsSound, TypeOKProposals, Remembers, Told, RevisionsChain,
                OfOneSource, rows
  <2> QED BY <2>1
<1> QED BY <1>1, <1>2, <1>3, <1>4, <1>5, <1>6, <1>7 DEF ProposalsNext

(* What a request loaded is still the section's while the section is at    *)
(* the revision it loaded (proposals.py).                                  *)
THEOREM ProposalsHold == ProposalsSpec => []ProposalsSound
<1>1. ProposalsInit => ProposalsSound
  BY ProposalsInitSound
<1> QED BY <1>1, ProposalsNextSound, PTL DEF ProposalsSpec

(* However edits, undos and generated drafts overlap, the revision records *)
(* tell the section's whole story (update_section, undo_section,           *)
(* generate_section).                                                      *)
THEOREM RevisionsChainHolds == ProposalsSpec => []RevisionsChain
<1>1. ProposalsSound => RevisionsChain
  BY DEF ProposalsSound, Told
<1> QED BY <1>1, ProposalsHold, PTL

(* A saved version rests on passages of one extraction of the source,      *)
(* whatever is indexed, corrected and deleted around it (save_version).    *)
THEOREM VersionsOfOneSourceHolds == ProposalsSpec => []VersionsOfOneSource
<1>1. ProposalsSound => VersionsOfOneSource
  BY DEF ProposalsSound, OfOneSource, VersionsOfOneSource
<1> QED BY <1>1, ProposalsHold, PTL

-----------------------------------------------------------------------------
(* The plan a run delegates: Delegation.                                   *)

ChildState == {"starting", "running", "completed", "failed", "limit_reached", "cancelled"}
ChildRow == [state : ChildState, report : BOOLEAN, saved : BOOLEAN, returned : BOOLEAN]
SynthesisText == [by : {"none", "parent", "fallback"}, cites : SUBSET Assignments,
         unfinished : SUBSET Assignments]

(* Assignments are carried out in the order of the plan.                   *)
PlanShape ==
  /\ child \in [Assignments -> ChildRow] /\ synthesis \in SynthesisText
  /\ stage = "plan" => plan = {}
  /\ stage = "spawn" => \E n \in Assignments : plan = 1 .. n
  /\ plan \in SUBSET Assignments /\ children \in SUBSET plan
  /\ \E k \in Nat : children = 1 .. k

(* A report is that of a completed child, which has returned and is one    *)
(* of the plan.                                                            *)
ChildSound(a) ==
  /\ child[a].report <=> child[a].state = "completed"
  /\ child[a].state = "completed" => child[a].returned
  /\ child[a].state # "starting" => a \in children
  /\ child[a].state = "failed" => terminal # "completed"

(* Nothing is reported after the parent was asked, a synthesis is the      *)
(* parent's answer to those reports, and only a run whose assignments were *)
(* all carried out is still to end as completed.                           *)
SynthesisSound ==
  /\ handoff => terminal # "completed"
  /\ stage \in {"plan", "spawn", "wait", "synthesis"} => synthesis.by = "none"
  /\ stage = "synthesis" => asked = Reports
  /\ stage \in {"drain", "finish"} =>
       /\ synthesis.by \in {"none", "parent"}
       /\ synthesis.by = "parent" => synthesis.cites = Reports
       /\ terminal = "completed" => synthesis.by = "parent"
  /\ terminal = "completed" /\ stage \in {"synthesis", "drain", "finish"} =>
       \A a \in plan : child[a].state = "completed"
  /\ stage \notin {"plan", "drain", "finish", "done"} => plan # {}
  /\ stage \in {"drain", "finish"} /\ terminal = "completed" => plan # {}
  /\ AccountsForAll

PlanSound == PlanShape /\ (\A a \in Assignments : ChildSound(a)) /\ SynthesisSound

LEMMA PlanInitSound == DelegationInit => PlanSound
<1> SUFFICES ASSUME DelegationInit PROVE PlanSound
  OBVIOUS
<1>1. Nobody \in ChildRow /\ Nobody.state = "starting" /\ ~Nobody.report
  BY DEF Nobody, ChildRow, ChildState
<1>2. NoSynthesis \in SynthesisText /\ NoSynthesis.by = "none"
  BY DEF NoSynthesis, SynthesisText
<1>3. children = 1 .. 0
  BY DEF DelegationInit
<1>4. PlanShape
  BY <1>1, <1>2, <1>3 DEF DelegationInit, PlanShape
<1>5. \A a \in Assignments : ChildSound(a)
  BY <1>1 DEF DelegationInit, ChildSound
<1>6. SynthesisSound
  BY <1>1, <1>2 DEF DelegationInit, SynthesisSound, AccountsForAll
<1> QED BY <1>4, <1>5, <1>6 DEF PlanSound

LEMMA PlanStep ==
  ASSUME PlanSound, NEW n \in Assignments, PlanArrives(n)
  PROVE  PlanSound'
<1>1. /\ stage = "plan" /\ plan' = 1 .. n /\ plan = {}
      /\ \/ stage' = "spawn" /\ UNCHANGED terminal
         \/ stage' = "drain" /\ terminal' = "failed_partial"
      /\ UNCHANGED <<children, child, asked, answer, handoff, synthesis>>
  BY DEF PlanArrives, Breaks, parentvars, PlanSound, PlanShape
<1>2. 1 .. n \subseteq Assignments
  BY DelegationAssumption DEF Assignments
<1>3. PlanShape'
  BY <1>1, <1>2 DEF PlanSound, PlanShape
<1>4. \A a \in Assignments : ChildSound(a)'
  BY <1>1 DEF PlanSound, ChildSound
<1>5. plan' # {}
  <2>1. 1 \in 1 .. n
    BY DelegationAssumption DEF Assignments
  <2> QED BY <1>1, <2>1
<1>6. SynthesisSound'
  BY <1>1, <1>5 DEF PlanSound, SynthesisSound, AccountsForAll
<1> QED BY <1>3, <1>4, <1>6 DEF PlanSound

LEMMA SpawnStep ==
  ASSUME PlanSound, SpawnChild
  PROVE  PlanSound'
<1>1. PICK n \in Assignments, k \in Nat : plan = 1 .. n /\ children = 1 .. k
  BY DEF SpawnChild, PlanSound, PlanShape
<1>2. Cardinality(children) = k
  BY <1>1, FS_Interval
<1> DEFINE a == k + 1
<1>3. a \in plan /\ a \notin children /\ a \in Assignments /\ children \cup {a} = 1 .. a
  BY <1>1, DelegationAssumption DEF SpawnChild, PlanSound, PlanShape, Assignments
<1>4. /\ stage = "spawn" /\ children' = children \cup {a}
      /\ \/ /\ child' = [child EXCEPT ![a].state = "running"] /\ stage' \in {"spawn", "wait"}
            /\ UNCHANGED terminal
         \/ stage' = "drain" /\ terminal' = "failed_partial" /\ UNCHANGED child
      /\ UNCHANGED <<plan, asked, answer, handoff, synthesis>>
  BY <1>2 DEF SpawnChild, Breaks, parentvars
<1>5. child[a] \in ChildRow /\ child[a].state = "starting" /\ ChildSound(a)
  BY <1>3 DEF PlanSound, PlanShape, ChildSound
<1>6. /\ child' \in [Assignments -> ChildRow]
      /\ \A b \in Assignments \ {a} : child'[b] = child[b]
      /\ child'[a].state \in {"starting", "running"} /\ child'[a].report = child[a].report
  <2>1. CASE UNCHANGED child
    BY <1>3, <1>5, <2>1 DEF PlanSound, PlanShape
  <2>2. CASE child' = [child EXCEPT ![a].state = "running"]
    <3> DEFINE row == [child[a] EXCEPT !.state = "running"]
    <3>1. row \in ChildRow /\ row.state = "running" /\ row.report = child[a].report
      BY <1>5 DEF ChildRow, ChildState
    <3>2. child' = [child EXCEPT ![a] = row]
      BY <2>2
    <3> HIDE DEF row
    <3> QED BY <1>3, <3>1, <3>2 DEF PlanSound, PlanShape
  <2> QED BY <1>4, <2>1, <2>2
<1> HIDE DEF a
<1>7. a \in Nat
  BY <1>3, DelegationAssumption DEF Assignments
<1>8. PlanShape'
  BY <1>1, <1>3, <1>4, <1>6, <1>7 DEF PlanSound, PlanShape
<1>9. \A b \in Assignments : ChildSound(b)'
  BY <1>4, <1>5, <1>6 DEF PlanSound, ChildSound
<1>10. SynthesisSound'
  BY <1>4 DEF PlanSound, SynthesisSound, AccountsForAll
<1> QED BY <1>8, <1>9, <1>10 DEF PlanSound

(* One child's row changes while the parent waits.                         *)
LEMMA PlanChildStep ==
  ASSUME PlanSound, NEW a \in Assignments, NEW row \in ChildRow, stage = "wait",
         child' = [child EXCEPT ![a] = row],
         row.report <=> row.state = "completed",
         row.state = "completed" => row.returned,
         row.state # "starting" => a \in children,
         row.state = "failed" => terminal' # "completed",
         terminal' \in {terminal, "failed_partial"},
         UNCHANGED <<stage, plan, children, asked, answer, handoff, synthesis>>
  PROVE  PlanSound'
<1>1. child'[a] = row /\ \A b \in Assignments \ {a} : child'[b] = child[b]
  BY DEF PlanSound, PlanShape
<1>2. PlanShape'
  BY DEF PlanSound, PlanShape
<1>3. \A b \in Assignments : ChildSound(b)'
  BY <1>1 DEF PlanSound, ChildSound
<1>4. SynthesisSound'
  BY DEF PlanSound, SynthesisSound, AccountsForAll
<1> QED BY <1>2, <1>3, <1>4 DEF PlanSound

LEMMA PollStep ==
  ASSUME PlanSound, NEW a \in Assignments, PollCheckpoint(a) \/ PollReport(a) \/ PollFailure(a)
  PROVE  PlanSound'
<1>1. child[a] \in ChildRow /\ ChildSound(a) /\ stage = "wait"
      /\ UNCHANGED <<stage, plan, children, asked, answer, handoff, synthesis>>
  BY DEF PollCheckpoint, PollReport, PollFailure, parentvars, PlanSound, PlanShape
<1>2. CASE PollCheckpoint(a)
  <2> DEFINE row == [child[a] EXCEPT !.saved = TRUE]
  <2>1. /\ row \in ChildRow /\ row.state = child[a].state /\ row.report = child[a].report
        /\ row.returned = child[a].returned
    BY <1>1 DEF ChildRow
  <2>2. child' = [child EXCEPT ![a] = row] /\ UNCHANGED terminal
    BY <1>2 DEF PollCheckpoint
  <2> HIDE DEF row
  <2> QED BY <1>1, <2>1, <2>2, PlanChildStep DEF ChildSound
<1>3. CASE PollReport(a)
  <2> DEFINE row == [child[a] EXCEPT !.state = "completed", !.report = TRUE, !.returned = TRUE]
  <2>1. row \in ChildRow /\ row.state = "completed" /\ row.report /\ row.returned
    BY <1>1 DEF ChildRow, ChildState
  <2>2. child' = [child EXCEPT ![a] = row] /\ UNCHANGED terminal /\ a \in children
    BY <1>1, <1>3 DEF PollReport, ChildSound
  <2> HIDE DEF row
  <2> QED BY <1>1, <2>1, <2>2, PlanChildStep
<1>4. CASE PollFailure(a)
  <2> DEFINE returned == process[a].queue = "invalid"
             row == [child[a] EXCEPT !.state = "failed", !.returned = returned]
  <2>1. returned \in BOOLEAN
    OBVIOUS
  <2>2. child' = [child EXCEPT ![a] = row] /\ terminal' = "failed_partial" /\ a \in children
        /\ ~child[a].report
    BY <1>1, <1>4 DEF PollFailure, ChildSound
  <2> HIDE DEF returned
  <2>3. row \in ChildRow /\ row.state = "failed" /\ ~row.report
    BY <1>1, <2>1, <2>2 DEF ChildRow, ChildState
  <2> HIDE DEF row
  <2> QED BY <1>1, <2>2, <2>3, PlanChildStep
<1> QED BY <1>2, <1>3, <1>4

(* Steps of the parent and of the runner that touch no child.              *)
LEMMA ParentStep ==
  ASSUME PlanSound,
         \/ Integrate \/ PollSynthesis
         \/ \E a \in Assignments, what \in {"report", "invalid", "error", "limit"} : ChildSends(a, what)
         \/ \E cites \in SUBSET Assignments : ParentSends(cites)
         \/ \E state \in {"cancelled_partial", "failed_partial"} : EndsEarly(state)
         \/ \E beforeDeadline \in BOOLEAN : Limit(beforeDeadline)
  PROVE  PlanSound'
<1> SUFFICES PlanShape' /\ (\A a \in Assignments : ChildSound(a)') /\ SynthesisSound'
  BY DEF PlanSound
<1>1. CASE Integrate
  <2>1. /\ stage = "wait" /\ stage' = "synthesis" /\ asked' = Reports
        /\ \A a \in plan : child[a].state \in {"completed", "failed"}
        /\ UNCHANGED <<plan, children, child, handoff, synthesis, terminal>>
    BY <1>1 DEF Integrate, Asks
  <2>2. terminal = "completed" => \A a \in plan : child[a].state = "completed"
    BY <2>1 DEF PlanSound, PlanShape, ChildSound
  <2> QED BY <2>1, <2>2 DEF PlanSound, PlanShape, ChildSound, SynthesisSound, AccountsForAll, Reports
<1>2. CASE PollSynthesis
  <2>1. /\ stage = "synthesis" /\ stage' = "drain"
        /\ \/ /\ Accounts(answer) /\ UNCHANGED terminal
              /\ synthesis' = [by |-> "parent", cites |-> answer, unfinished |-> {}]
           \/ UNCHANGED synthesis /\ ((handoff /\ UNCHANGED terminal) \/ terminal' = "failed_partial")
        /\ UNCHANGED <<plan, children, child, asked, handoff>>
    BY <1>2 DEF PollSynthesis, Breaks
  <2>2. Reports \in SUBSET Assignments /\ asked = Reports
    BY <2>1 DEF PlanSound, PlanShape, SynthesisSound, Reports
  <2>3. synthesis' \in SynthesisText
    <3>1. CASE UNCHANGED synthesis
      BY <3>1 DEF PlanSound, PlanShape
    <3>2. CASE Accounts(answer) /\ synthesis' = [by |-> "parent", cites |-> answer, unfinished |-> {}]
      <4>1. answer \in SUBSET Assignments
        BY <2>2, <3>2 DEF Accounts
      <4> QED BY <3>2, <4>1 DEF SynthesisText
    <3> QED BY <2>1, <3>1, <3>2
  <2> QED BY <2>1, <2>2, <2>3 DEF PlanSound, PlanShape, ChildSound, SynthesisSound, AccountsForAll, Accounts, Reports
<1>3. CASE \/ \E a \in Assignments, what \in {"report", "invalid", "error", "limit"} : ChildSends(a, what)
           \/ \E cites \in SUBSET Assignments : ParentSends(cites)
  <2>1. UNCHANGED <<stage, plan, children, child, asked, handoff, synthesis, terminal>>
    BY <1>3 DEF ChildSends, ParentSends, parentvars
  <2> QED BY <2>1 DEF PlanSound, PlanShape, ChildSound, SynthesisSound, AccountsForAll, Reports
<1>4. CASE \E state \in {"cancelled_partial", "failed_partial"} : EndsEarly(state)
  <2>1. /\ stage \in {"plan", "spawn", "wait", "synthesis"} /\ stage' = "drain"
        /\ terminal' # "completed"
        /\ UNCHANGED <<plan, children, child, asked, handoff, synthesis>>
    BY <1>4 DEF EndsEarly, Breaks, parentvars, PlanSound, SynthesisSound
  <2> QED BY <2>1 DEF PlanSound, PlanShape, ChildSound, SynthesisSound, AccountsForAll
<1>5. CASE \E beforeDeadline \in BOOLEAN : Limit(beforeDeadline)
  <2>1. /\ stage \in {"plan", "spawn", "wait", "synthesis"} /\ terminal' = "limit_reached_partial"
        /\ \/ stage \in {"spawn", "wait"} /\ asked' = Reports /\ stage' = "synthesis"
           \/ stage' = "drain"
        /\ UNCHANGED <<plan, children, child, synthesis>>
    BY <1>5 DEF Limit, Asks
  <2> QED BY <2>1 DEF PlanSound, PlanShape, ChildSound, SynthesisSound, AccountsForAll, Reports
<1> QED BY <1>1, <1>2, <1>3, <1>4, <1>5

LEMMA DrainStep ==
  ASSUME PlanSound, Drain
  PROVE  PlanSound'
<1>1. /\ stage = "drain" /\ stage' = "finish"
      /\ UNCHANGED <<plan, children, asked, answer, handoff, synthesis, terminal>>
  BY DEF Drain, parentvars
<1>2. /\ child' \in [Assignments -> ChildRow]
      /\ \A a \in Assignments : /\ child'[a].state = child[a].state
                                 /\ child'[a].report = child[a].report
                                 /\ child'[a].returned \in {child[a].returned, TRUE}
  <2>1. CASE UNCHANGED child
    BY <2>1 DEF PlanSound, PlanShape
  <2>2. CASE child' = [a \in Assignments |->
               IF process[a].queue \in {"report", "invalid"} THEN [child[a] EXCEPT !.returned = TRUE]
               ELSE child[a]]
    <3>1. ASSUME NEW a \in Assignments
          PROVE  /\ [child[a] EXCEPT !.returned = TRUE] \in ChildRow
                 /\ [child[a] EXCEPT !.returned = TRUE].state = child[a].state
                 /\ [child[a] EXCEPT !.returned = TRUE].report = child[a].report
                 /\ [child[a] EXCEPT !.returned = TRUE].returned
                 /\ child[a] \in ChildRow
      BY DEF PlanSound, PlanShape, ChildRow
    <3> QED BY <2>2, <3>1
  <2> QED BY <2>1, <2>2 DEF Drain
<1>3. (\A a \in plan : a \in Assignments) /\ \A a \in children : a \in Assignments
  BY DEF PlanSound, PlanShape
<1>4. PlanShape'
  BY <1>1, <1>2 DEF PlanSound, PlanShape
<1>5. ASSUME NEW a \in Assignments PROVE ChildSound(a)'
  <2>1. /\ child'[a].state = child[a].state /\ child'[a].report = child[a].report
        /\ child'[a].returned \in {child[a].returned, TRUE}
    BY <1>2
  <2> QED BY <1>1, <2>1 DEF PlanSound, ChildSound
<1>6. Reports' = Reports
  <2>1. \A a \in children : child'[a].state = child[a].state
    BY <1>2, <1>3
  <2> QED BY <1>1, <2>1 DEF Reports
<1>7. SynthesisSound'
  <2>1. \A a \in plan : child'[a].state = child[a].state
    BY <1>2, <1>3
  <2> QED BY <1>1, <1>6, <2>1 DEF PlanSound, SynthesisSound, AccountsForAll
<1> QED BY <1>4, <1>5, <1>7 DEF PlanSound

(* The end: children that ran become what the run became, and the text     *)
(* cites what was reported.                                                *)
LEMMA FinishStep ==
  ASSUME PlanSound, Finish
  PROVE  PlanSound'
<1> DEFINE ended == IF terminal = "limit_reached_partial" THEN "limit_reached" ELSE "cancelled"
           text == IF synthesis.by = "none"
                   THEN [NoSynthesis EXCEPT !.by = "fallback",
                                            !.cites = {a \in children : child[a].report}]
                   ELSE synthesis
           unfinished == {a \in plan : a \notin children \/ child[a].state # "completed"}
<1>1. /\ stage = "finish" /\ stage' = "done"
      /\ UNCHANGED <<plan, children, asked, answer, handoff, terminal>>
      /\ child' = [a \in Assignments |->
            IF a \in children /\ child[a].state \notin {"completed", "failed"}
            THEN [child[a] EXCEPT !.state = ended] ELSE child[a]]
      /\ synthesis' = [text EXCEPT !.unfinished = unfinished]
  BY DEF Finish
<1>2. ended \in {"limit_reached", "cancelled"}
  OBVIOUS
<1>3. /\ Reports \in SUBSET Assignments /\ Reports = {a \in children : child[a].report}
      /\ Reports = {a \in plan : child[a].report} /\ unfinished = plan \ Reports
      /\ unfinished \in SUBSET Assignments
  BY DEF Reports, PlanSound, PlanShape, ChildSound
<1> HIDE DEF ended, unfinished
<1>4. text \in SynthesisText /\ text.cites = Reports /\ (synthesis.by = "parent" => text.by = "parent")
  <2>1. CASE synthesis.by = "none"
    BY <1>3, <2>1 DEF NoSynthesis, SynthesisText
  <2>2. CASE synthesis.by = "parent"
    BY <1>1, <2>2 DEF PlanSound, PlanShape, SynthesisSound
  <2> QED BY <1>1, <2>1, <2>2 DEF PlanSound, SynthesisSound
<1> HIDE DEF text
<1>5. /\ synthesis' \in SynthesisText /\ synthesis'.cites = Reports /\ synthesis'.unfinished = plan \ Reports
      /\ (synthesis.by = "parent" => synthesis'.by = "parent")
  BY <1>1, <1>3, <1>4 DEF SynthesisText
<1>6. ASSUME NEW a \in Assignments
      PROVE  /\ child'[a] \in ChildRow /\ child'[a].report = child[a].report
             /\ child'[a].returned = child[a].returned
             /\ child[a].state \in {"completed", "failed"} => child'[a].state = child[a].state
             /\ child[a].state \notin {"completed", "failed"} =>
                  child'[a].state \notin {"completed", "failed"}
             /\ child'[a].state # "starting" => child[a].state # "starting" \/ a \in children
  <2>1. child[a] \in ChildRow
    BY DEF PlanSound, PlanShape
  <2>2. CASE a \in children /\ child[a].state \notin {"completed", "failed"}
    <3> DEFINE row == [child[a] EXCEPT !.state = ended]
    <3>1. /\ row \in ChildRow /\ row.state = ended /\ row.report = child[a].report
          /\ row.returned = child[a].returned
      BY <1>2, <2>1 DEF ChildRow, ChildState
    <3>2. child'[a] = row
      BY <1>1, <2>2
    <3> HIDE DEF row
    <3> QED BY <1>2, <2>2, <3>1, <3>2
  <2>3. CASE ~(a \in children /\ child[a].state \notin {"completed", "failed"})
    <3>1. child'[a] = child[a]
      BY <1>1, <2>3
    <3> QED BY <2>1, <3>1
  <2> QED BY <2>2, <2>3
<1>7. PlanShape'
  <2>1. child' \in [Assignments -> ChildRow]
    <3>1. \A a \in Assignments : child'[a] \in ChildRow
      BY <1>6
    <3> QED BY <1>1, <3>1
  <2> QED BY <1>1, <1>5, <2>1 DEF PlanSound, PlanShape
<1>8. \A a \in Assignments : ChildSound(a)'
  BY <1>1, <1>6 DEF PlanSound, ChildSound
<1>9. AccountsForAll'
  <2>1. \A a \in plan : a \in Assignments
    BY DEF PlanSound, PlanShape
  <2>2. synthesis'.cites = {a \in plan' : child'[a].report}
    BY <1>1, <1>3, <1>5, <1>6, <2>1
  <2>3. ASSUME terminal = "completed"
        PROVE  /\ synthesis'.by = "parent" /\ synthesis'.cites = plan /\ plan # {} /\ ~handoff
               /\ \A a \in plan : child'[a].state = "completed" /\ child'[a].returned
    <3>1. synthesis.by = "parent" /\ ~handoff /\ \A a \in plan : child[a].state = "completed"
      BY <1>1, <2>3 DEF PlanSound, SynthesisSound
    <3>2. Reports = plan
      BY <2>1, <3>1, <1>3 DEF PlanSound, ChildSound
    <3>3. plan # {}
      BY <1>1, <2>3 DEF PlanSound, SynthesisSound
    <3>4. \A a \in plan : child'[a].state = "completed" /\ child'[a].returned
      BY <1>6, <2>1, <3>1 DEF PlanSound, ChildSound
    <3> QED BY <1>5, <3>1, <3>2, <3>3, <3>4
  <2> QED BY <1>1, <1>3, <1>5, <2>2, <2>3 DEF AccountsForAll
<1>10. SynthesisSound'
  BY <1>1, <1>9 DEF PlanSound, SynthesisSound
<1> QED BY <1>7, <1>8, <1>10 DEF PlanSound

LEMMA PlanNextSound ==
  ASSUME PlanSound, [DelegationNext]_delegvars
  PROVE  PlanSound'
<1>1. CASE UNCHANGED delegvars
  BY <1>1 DEF delegvars, PlanSound, PlanShape, ChildSound, SynthesisSound, AccountsForAll, Reports
<1>2. CASE DelegationNext
  BY <1>2, PlanStep, SpawnStep, PollStep, ParentStep, DrainStep, FinishStep DEF DelegationNext
<1> QED BY <1>1, <1>2

-----------------------------------------------------------------------------
(* Reports are those of children that completed, and the parent is asked   *)
(* about all of them once no more can come (research_runner.py: event,     *)
(* integrate and finish).                                                  *)
THEOREM PlanHolds == DelegationSpec => []PlanSound
<1>1. PlanSound /\ [DelegationNext]_delegvars => PlanSound'
  BY PlanNextSound
<1> QED BY <1>1, PlanInitSound, PTL DEF DelegationSpec

(* However a run ends, its synthesis accounts for the whole plan, and it   *)
(* is completed only if everything was carried out and integrated by the   *)
(* parent itself, for any number of children.                              *)
THEOREM AccountsForAllHolds == DelegationSpec => []AccountsForAll
<1>1. PlanSound => AccountsForAll
  BY DEF PlanSound, SynthesisSound
<1> QED BY <1>1, PlanHolds, PTL

Worker == [open : BOOLEAN, queue : {"working", "report", "invalid", "error", "limit", "read"}]

LEMMA NoAnswer == {0} \in Answers
<1>1. {0} \in {{0}}
  OBVIOUS
<1> QED BY <1>1, Zenon DEF Answers

LEMMA PlanTypesNext ==
  ASSUME PlanSound, TypeOKDelegation, PlanSound', [DelegationNext]_delegvars
  PROVE  TypeOKDelegation'
<1>1. /\ plan' \in SUBSET Assignments /\ children' \in SUBSET plan'
      /\ child' \in [Assignments -> ChildRow] /\ synthesis' \in SynthesisText
  BY DEF PlanSound, PlanShape
<1>2. stage' \in {"plan", "spawn", "wait", "synthesis", "drain", "finish", "done"}
  BY DEF TypeOKDelegation, delegvars, DelegationNext, PlanArrives, SpawnChild, ChildSends, PollCheckpoint,
         PollReport, PollFailure, Integrate, Asks, ParentSends, PollSynthesis, EndsEarly, Limit, Drain,
         Finish, Breaks
<1>3. terminal' \in {"completed", "failed_partial", "limit_reached_partial", "cancelled_partial"}
  BY DEF TypeOKDelegation, delegvars, DelegationNext, PlanArrives, SpawnChild, ChildSends, PollCheckpoint,
         PollReport, PollFailure, Integrate, Asks, ParentSends, PollSynthesis, EndsEarly, Limit, Drain,
         Finish, Breaks
<1>4. process' \in [Assignments -> Worker]
  <2>1. process \in [Assignments -> Worker]
    BY DEF TypeOKDelegation, Worker
  <2>2. \A among : Closed(among) \in [Assignments -> Worker]
    BY <2>1 DEF Closed, Worker
  <2>3. ASSUME NEW a \in Assignments, NEW what \in {"report", "invalid", "error", "limit"},
               PollReport(a) \/ PollFailure(a) \/ PollCheckpoint(a) \/ ChildSends(a, what)
        PROVE  process' \in [Assignments -> Worker]
    <3>1. process[a] \in Worker /\ [open |-> FALSE, queue |-> "read"] \in Worker
      BY <2>1 DEF Worker
    <3>2. [process[a] EXCEPT !.queue = what] \in Worker
      BY <3>1 DEF Worker
    <3> HIDE DEF Worker
    <3> QED BY <2>1, <2>3, <3>1, <3>2 DEF PollReport, PollFailure, PollCheckpoint, ChildSends, Read
  <2>4. CASE SpawnChild
    <3>1. [open |-> TRUE, queue |-> "working"] \in Worker
      BY DEF Worker
    <3> QED BY <2>1, <2>4, <3>1 DEF SpawnChild
  <2>5. ASSUME NEW now \in BOOLEAN, Limit(now) PROVE process' \in [Assignments -> Worker]
    BY <2>1, <2>2, <2>5 DEF Limit
  <2>6. CASE Drain
    BY <2>2, <2>6 DEF Drain
  <2> QED BY <2>1, <2>3, <2>4, <2>5, <2>6
          DEF delegvars, DelegationNext, PlanArrives, Integrate, ParentSends, PollSynthesis,
              EndsEarly, Finish
<1>5. asked' \in SUBSET Assignments /\ answer' \in Answers /\ handoff' \in BOOLEAN
  <2>1. asked \in SUBSET Assignments /\ answer \in Answers /\ handoff \in BOOLEAN
    BY DEF TypeOKDelegation
  <2>6. Reports \in SUBSET Assignments /\ {0} \in Answers
    <3>1. Reports \in SUBSET Assignments
      BY DEF PlanSound, PlanShape, Reports
    <3>2. {0} \in Answers
      BY NoAnswer
    <3> QED BY <3>1, <3>2
  <2>2. CASE UNCHANGED <<asked, answer, handoff>>
    BY <2>1, <2>2
  <2>3. ASSUME NEW cites \in SUBSET Assignments, ParentSends(cites)
        PROVE  asked' \in SUBSET Assignments /\ answer' \in Answers /\ handoff' \in BOOLEAN
    BY <2>1, <2>3 DEF ParentSends, Answers
  <2>4. CASE Integrate \/ \E now \in BOOLEAN : Limit(now)
    BY <2>1, <2>4, <2>6 DEF Integrate, Limit, Asks
  <2>5. \/ UNCHANGED <<asked, answer, handoff>> \/ Integrate
        \/ \E now \in BOOLEAN : Limit(now)
        \/ \E cites \in SUBSET Assignments : ParentSends(cites)
    BY DEF delegvars, DelegationNext, PlanArrives, SpawnChild, ChildSends, PollCheckpoint, PollReport,
           PollFailure, PollSynthesis, EndsEarly, Drain, Finish, parentvars
  <2> QED BY <2>2, <2>3, <2>4, <2>5
<1> QED BY <1>1, <1>2, <1>3, <1>4, <1>5 DEF TypeOKDelegation, ChildRow, ChildState, SynthesisText, Worker

LEMMA PlanTypesHold == DelegationSpec => []TypeOKDelegation
<1>1. DelegationInit => TypeOKDelegation
  <2>1. Nobody \in ChildRow /\ NoSynthesis \in SynthesisText
    BY DEF Nobody, ChildRow, ChildState, NoSynthesis, SynthesisText
  <2>2. [open |-> FALSE, queue |-> "read"] \in Worker
    BY DEF Worker
  <2>3. SUFFICES ASSUME DelegationInit PROVE TypeOKDelegation
    OBVIOUS
  <2>4. child \in [Assignments -> ChildRow] /\ process \in [Assignments -> Worker]
    BY <2>1, <2>2, <2>3 DEF DelegationInit
  <2>5. /\ plan \in SUBSET Assignments /\ children \in SUBSET plan /\ asked \in SUBSET Assignments
        /\ synthesis \in SynthesisText
    BY <2>1, <2>3 DEF DelegationInit
  <2>6. {0} \in Answers
    BY NoAnswer
  <2> QED BY <2>3, <2>4, <2>5, <2>6
          DEF DelegationInit, TypeOKDelegation, ChildRow, ChildState, SynthesisText, Worker
<1>2. PlanSound /\ TypeOKDelegation /\ PlanSound' /\ [DelegationNext]_delegvars => TypeOKDelegation'
  BY PlanTypesNext
<1> QED BY <1>1, <1>2, PlanHolds, PTL DEF DelegationSpec


-----------------------------------------------------------------------------
(* The worker process: CodexWorker.                                        *)

CodexState ==
  [state : {"new", "ready", "busy", "exited"}, stage : WorkerStages, attempted : BOOLEAN,
   turns : 0 .. MaxTurns, total : 0 .. MaxBurned, returned : Texts,
   op : Operations, corrected : BOOLEAN, candidate : Texts, audited : BOOLEAN, denied : BOOLEAN]
OrderState ==
  [op : Operations, correction : BOOLEAN, bounded : BOOLEAN, base : Texts,
   turn : 0 .. MaxTurns, usage : 0 .. MaxBurned, counted : BOOLEAN, checks : 0 .. MaxChecks]
ThreadState == [open : BOOLEAN, tool : BOOLEAN, burned : 0 .. MaxBurned]
Notice == [turn : 1 .. MaxTurns, total : 0 .. MaxBurned, done : BOOLEAN]
AccountState == [shown : 0 .. MaxBurned, reported : Nat, limited : BOOLEAN]

(* The worker counts from the last total it took over: what the operations *)
(* of the thread reported and the usage of this one cover what was shown,  *)
(* exactly, unless one was left at its limit.                              *)
Metered ==
  /\ codex.total + order.usage <= account.shown /\ account.shown <= thread.burned
  /\ account.reported >= codex.total /\ account.reported + order.usage >= account.shown
  /\ ~account.limited => /\ account.reported = codex.total
                         /\ account.reported + order.usage = account.shown
  /\ (codex.state \in {"new", "ready"} \/ codex.stage # "turn_stream") => order.usage = 0
  /\ ~thread.open => thread.burned = 0

(* What the provider announced and the worker has not read is above what   *)
(* it has read, and grows.                                                 *)
Announced ==
  /\ \A i \in DOMAIN stream : ~stream[i].done =>
       account.shown < stream[i].total /\ stream[i].total <= thread.burned
  /\ \A i, j \in DOMAIN stream : i < j /\ ~stream[i].done /\ ~stream[j].done =>
       stream[i].total < stream[j].total

(* Where the operation is in its turn.                                     *)
Placed ==
  /\ codex.stage \in {"turn_start", "turn_stream"} => order.turn >= 1
  /\ codex.stage \in LocalStages \cup {"setup"} => order.turn = 0
  /\ (order.turn >= 1 \/ codex.stage = "prompt_preparation") => thread.open
  /\ codex.returned <= codex.turns
  /\ codex.state = "busy" /\ codex.stage \in LocalStages => codex.turns < MaxTurns
  /\ codex.state = "busy" /\ codex.stage \in {"turn_start", "turn_stream", "report_validation"} =>
       order.turn = codex.turns /\ codex.returned < codex.turns

(* A correction that was let in and has not reached the provider yet.      *)
Correcting ==
  /\ codex.state = "busy" /\ codex.stage = "prompt_preparation"
  /\ order.correction /\ order.op \in Authoring /\ order.base # 0

(* Only the text returned last may be corrected, and then it is marked.    *)
Owned ==
  /\ \A t \in 1 .. MaxTurns : corrections[t] <= 1 /\ (corrections[t] > 0 => t <= codex.returned)
  /\ codex.returned # 0 /\ ~codex.corrected => corrections[codex.returned] = 0
  /\ Correcting => order.base = codex.returned /\ codex.corrected /\ corrections[order.base] = 0

WorkerSound == TypeOKWorker /\ Metered /\ Announced /\ Placed /\ Owned

-----------------------------------------------------------------------------
LEMMA WorkerTypes ==
  ASSUME TypeOKWorker
  PROVE  /\ codex \in CodexState /\ order \in OrderState /\ thread \in ThreadState
         /\ stream \in Seq(Notice) /\ account \in AccountState
         /\ corrections \in [1 .. MaxTurns -> Nat]
BY DEF TypeOKWorker, CodexState, OrderState, ThreadState, Notice, AccountState

LEMMA WorkerFields ==
  ASSUME TypeOKWorker
  PROVE  /\ codex.stage \in WorkerStages /\ codex.turns \in 0 .. MaxTurns
         /\ codex.total \in 0 .. MaxBurned /\ codex.returned \in Texts /\ codex.op \in Operations
         /\ codex.corrected \in BOOLEAN
         /\ order.op \in Operations /\ order.correction \in BOOLEAN /\ order.bounded \in BOOLEAN
         /\ order.base \in Texts /\ order.turn \in 0 .. MaxTurns /\ order.usage \in 0 .. MaxBurned
         /\ order.checks \in 0 .. MaxChecks
         /\ thread.open \in BOOLEAN /\ thread.burned \in 0 .. MaxBurned
         /\ account.shown \in 0 .. MaxBurned /\ account.reported \in Nat /\ account.limited \in BOOLEAN
         /\ Len(stream) \in Nat /\ DOMAIN stream = 1 .. Len(stream)
         /\ \A i \in DOMAIN stream : /\ stream[i] \in Notice /\ stream[i].total \in 0 .. MaxBurned
                                     /\ stream[i].done \in BOOLEAN
<1>1. /\ codex.stage \in WorkerStages /\ codex.turns \in 0 .. MaxTurns
      /\ codex.total \in 0 .. MaxBurned /\ codex.returned \in Texts /\ codex.op \in Operations
      /\ codex.corrected \in BOOLEAN
  BY WorkerTypes DEF CodexState
<1>2. /\ order.op \in Operations /\ order.correction \in BOOLEAN /\ order.bounded \in BOOLEAN
      /\ order.base \in Texts /\ order.turn \in 0 .. MaxTurns /\ order.usage \in 0 .. MaxBurned
      /\ order.checks \in 0 .. MaxChecks
  BY WorkerTypes DEF OrderState
<1>3. /\ thread.open \in BOOLEAN /\ thread.burned \in 0 .. MaxBurned
      /\ account.shown \in 0 .. MaxBurned /\ account.reported \in Nat /\ account.limited \in BOOLEAN
  BY WorkerTypes DEF ThreadState, AccountState
<1>4. Len(stream) \in Nat /\ DOMAIN stream = 1 .. Len(stream)
  BY WorkerTypes, LenProperties
<1>5. \A i \in DOMAIN stream : stream[i] \in Notice
  BY <1>4, WorkerTypes, ElementOfSeq
<1>6. \A i \in DOMAIN stream : stream[i].total \in 0 .. MaxBurned /\ stream[i].done \in BOOLEAN
  BY <1>5 DEF Notice
<1> QED BY <1>1, <1>2, <1>3, <1>4, <1>5, <1>6

(* Types of the next state, one variable at a time.                        *)
LEMMA TypesAfter ==
  ASSUME codex' \in CodexState, order' \in OrderState, thread' \in ThreadState,
         stream' \in Seq(Notice), account' \in AccountState, corrections' \in [1 .. MaxTurns -> Nat]
  PROVE  TypeOKWorker'
BY DEF TypeOKWorker, CodexState, OrderState, ThreadState, Notice, AccountState, Texts

LEMMA WorkerInitSound == WorkerInit => WorkerSound
<1> SUFFICES ASSUME WorkerInit PROVE WorkerSound
  OBVIOUS
<1>1. codex \in CodexState /\ order \in OrderState /\ thread \in ThreadState
      /\ account \in AccountState /\ corrections \in [1 .. MaxTurns -> Nat]
  BY WorkerAssumptions DEF WorkerInit, CodexState, OrderState, ThreadState, AccountState, NoOrder,
     NoAccount, WorkerStages, LocalStages, Operations, Authoring, Texts
<1>2. stream \in Seq(Notice) /\ stream = <<>> /\ DOMAIN stream = {}
  BY DEF WorkerInit
<1>3. TypeOKWorker
  BY <1>1, <1>2 DEF TypeOKWorker, CodexState, OrderState, ThreadState, Notice, AccountState
<1>4. Metered
  BY DEF WorkerInit, Metered, NoOrder, NoAccount
<1>5. Announced
  BY <1>2 DEF Announced
<1>6. Placed
  BY DEF WorkerInit, Placed, NoOrder, LocalStages
<1>7. Owned
  BY DEF WorkerInit, Owned, Correcting
<1> QED BY <1>3, <1>4, <1>5, <1>6, <1>7 DEF WorkerSound

-----------------------------------------------------------------------------
(* Steps that leave the meter alone.                                       *)
LEMMA MeterKept ==
  ASSUME WorkerSound, UNCHANGED <<stream, account>>, order'.usage = order.usage,
         codex'.total = codex.total, thread'.burned = thread.burned, thread'.open = thread.open,
         (codex'.state \in {"new", "ready"} \/ codex'.stage # "turn_stream") => order.usage = 0
  PROVE  Metered' /\ Announced'
BY DEF WorkerSound, Metered, Announced

(* Fail, Hello and RejectLocally: the process changes its state.           *)
LEMMA StateMoves ==
  ASSUME WorkerSound, Fail \/ Hello \/ RejectLocally PROVE WorkerSound'
<1> USE DEF WorkerSound
<1>1. PICK state \in {"new", "ready", "busy", "exited"}, denied \in BOOLEAN :
        /\ codex' = [codex EXCEPT !.state = state, !.denied = denied]
        /\ state # "busy" /\ (state \in {"new", "ready"} => codex.state = "new"
                                                         \/ codex.stage \in LocalStages)
        /\ UNCHANGED <<order, thread, stream, account, corrections>>
  <2>1. CASE Fail
    BY <2>1 DEF Fail
  <2>2. CASE Hello
    <3>1. codex.denied \in BOOLEAN /\ codex' = [codex EXCEPT !.state = "ready", !.denied = codex.denied]
      BY <2>2, WorkerTypes DEF Hello, CodexState
    <3> QED BY <2>2, <3>1 DEF Hello
  <2>3. CASE RejectLocally
    BY <2>3 DEF RejectLocally
  <2> QED BY <2>1, <2>2, <2>3
<1>2. /\ codex' \in CodexState /\ codex'.state = state /\ codex'.stage = codex.stage
      /\ codex'.total = codex.total /\ codex'.turns = codex.turns
      /\ codex'.returned = codex.returned /\ codex'.corrected = codex.corrected
  BY <1>1, WorkerTypes DEF CodexState
<1>3. TypeOKWorker'
  BY <1>1, <1>2, WorkerTypes, TypesAfter
<1>4. Metered' /\ Announced'
  <2>1. (codex'.state \in {"new", "ready"} \/ codex'.stage # "turn_stream") => order.usage = 0
    BY <1>1, <1>2 DEF Metered, LocalStages
  <2> QED BY <1>1, <1>2, <2>1, MeterKept
<1>5. Placed' /\ Owned'
  BY <1>1, <1>2 DEF Placed, Owned, Correcting
<1> QED BY <1>3, <1>4, <1>5

LEMMA ReceiveSound ==
  ASSUME WorkerSound, NEW op \in Operations, NEW correction \in BOOLEAN, NEW bounded \in BOOLEAN,
         NEW base \in Texts, Receive(op, correction, bounded, base)
  PROVE  WorkerSound'
<1> USE DEF WorkerSound
<1>1. /\ codex' = [codex EXCEPT !.state = "busy", !.attempted = FALSE, !.stage = "input_check",
                              !.denied = FALSE]
      /\ order' = [NoOrder EXCEPT !.op = op, !.correction = correction, !.bounded = bounded,
                                 !.base = base]
      /\ UNCHANGED <<thread, stream, account, corrections>>
      /\ codex.state = "ready" /\ codex.turns < MaxTurns
  BY DEF Receive
<1>2. /\ codex' \in CodexState /\ codex'.state = "busy" /\ codex'.stage = "input_check"
      /\ codex'.total = codex.total /\ codex'.turns = codex.turns
      /\ codex'.returned = codex.returned /\ codex'.corrected = codex.corrected
  BY <1>1, WorkerTypes DEF CodexState, WorkerStages, LocalStages
<1>3. order' \in OrderState /\ order'.usage = 0 /\ order'.turn = 0
  <2>1. NoOrder \in OrderState /\ NoOrder.usage = 0 /\ NoOrder.turn = 0
    BY WorkerAssumptions DEF NoOrder, OrderState, Operations, Texts
  <2> QED BY <1>1, <2>1 DEF OrderState
<1>4. TypeOKWorker'
  BY <1>1, <1>2, <1>3, WorkerTypes, TypesAfter
<1>5. Metered' /\ Announced'
  <2>1. order.usage = 0
    BY <1>1 DEF Metered
  <2> QED BY <1>1, <1>2, <1>3, <2>1, MeterKept
<1>6. Placed' /\ Owned'
  BY <1>1, <1>2, <1>3 DEF Placed, Owned, Correcting
<1> QED BY <1>4, <1>5, <1>6

LEMMA PrepareSound ==
  ASSUME WorkerSound, Prepare PROVE WorkerSound'
<1> USE DEF WorkerSound
<1>0. /\ codex \in CodexState /\ thread \in ThreadState /\ account \in AccountState
      /\ order \in OrderState /\ stream \in Seq(Notice) /\ corrections \in [1 .. MaxTurns -> Nat]
      /\ codex.total \in 0 .. MaxBurned /\ order.bounded \in BOOLEAN /\ order.op \in Operations
      /\ codex.returned \in Texts /\ thread.burned \in 0 .. MaxBurned
  BY WorkerTypes, WorkerFields
<1>1. /\ codex' = [Marked EXCEPT !.stage = "prompt_preparation", !.total = Counter] /\ Bound
      /\ codex.state = "busy" /\ codex.stage = "input_check" /\ order.usage = 0
      /\ UNCHANGED <<order, corrections>>
  BY DEF Prepare, Metered
<1>2. Counter \in 0 .. MaxBurned /\ Counter = IF Fresh THEN 0 ELSE codex.total
  BY <1>0, WorkerAssumptions DEF Counter
<1>3. PICK audited \in BOOLEAN, corrected \in BOOLEAN, op \in Operations :
        /\ Marked = [codex EXCEPT !.audited = audited, !.corrected = corrected, !.op = op]
        /\ (order.correction /\ order.op \in Authoring) => corrected
        /\ ~(order.correction /\ order.op \in Authoring) => corrected = codex.corrected
  <2>1. codex = [codex EXCEPT !.audited = codex.audited, !.corrected = codex.corrected, !.op = codex.op]
        /\ codex.audited \in BOOLEAN /\ codex.corrected \in BOOLEAN /\ codex.op \in Operations
    BY <1>0 DEF CodexState
  <2>2. CASE order.op = "audit" /\ order.correction
    <3>1. Marked = [codex EXCEPT !.audited = TRUE]
      BY <2>2 DEF Marked, Authoring
    <3>2. Marked = [codex EXCEPT !.audited = TRUE, !.corrected = codex.corrected, !.op = codex.op]
      BY <1>0, <3>1 DEF CodexState
    <3> QED BY <2>1, <2>2, <3>2 DEF Authoring
  <2>3. CASE order.op \in Authoring /\ order.correction
    <3>1. Marked = [codex EXCEPT !.corrected = TRUE, !.op = order.op]
      BY <2>3 DEF Marked, Authoring
    <3>2. Marked = [codex EXCEPT !.audited = codex.audited, !.corrected = TRUE, !.op = order.op]
      BY <1>0, <3>1 DEF CodexState
    <3> QED BY <1>0, <2>1, <2>3, <3>2
  <2>4. CASE ~order.correction \/ order.op \notin Authoring \cup {"audit"}
    <3>1. Marked = codex
      BY <2>4 DEF Marked
    <3> QED BY <2>1, <2>4, <3>1
  <2> QED BY <2>2, <2>3, <2>4
<1>4. /\ codex' \in CodexState /\ codex'.state = "busy" /\ codex'.stage = "prompt_preparation"
      /\ codex'.total = Counter /\ codex'.turns = codex.turns
      /\ codex'.returned = codex.returned /\ codex'.corrected = corrected
  BY <1>0, <1>1, <1>2, <1>3, ZenonT(30) DEF CodexState, WorkerStages, LocalStages
<1>5. ASSUME Fresh \/ ~thread.open PROVE TypeOKWorker' /\ Metered' /\ Announced'
  <2>1. /\ thread' = [open |-> TRUE, tool |-> order.bounded, burned |-> 0]
        /\ stream' = <<>> /\ account' = NoAccount
    BY <1>5 DEF Prepare
  <2>2. thread' \in ThreadState /\ account' \in AccountState /\ stream' \in Seq(Notice)
        /\ DOMAIN stream' = {} /\ thread'.burned = 0 /\ thread'.open
        /\ account'.shown = 0 /\ account'.reported = 0 /\ ~account'.limited
    BY <1>0, <2>1, WorkerAssumptions DEF ThreadState, AccountState, NoAccount
  <2>3. codex'.total = 0
    BY <1>0, <1>2, <1>4, <1>5, WorkerFields DEF Metered
  <2>4. TypeOKWorker'
    BY <1>0, <1>1, <1>4, <2>2, TypesAfter
  <2>5. Metered' /\ Announced'
    BY <1>1, <1>4, <2>2, <2>3 DEF Metered, Announced
  <2> QED BY <2>4, <2>5
<1>6. ASSUME ~Fresh, thread.open PROVE TypeOKWorker' /\ Metered' /\ Announced'
  <2>1. UNCHANGED <<thread, stream, account>> /\ codex'.total = codex.total
    BY <1>2, <1>4, <1>6 DEF Prepare
  <2>2. TypeOKWorker'
    BY <1>0, <1>1, <1>4, <2>1, TypesAfter
  <2>3. Metered' /\ Announced'
    BY <1>1, <1>4, <2>1, MeterKept
  <2> QED BY <2>2, <2>3
<1>7. Placed'
  <2>1. thread'.open
    BY <1>0, <1>1 DEF Prepare, ThreadState
  <2> QED BY <1>1, <1>4, <2>1 DEF Placed, LocalStages
<1>8. Owned'
  <2>1. ASSUME Correcting' PROVE order.base = codex.returned /\ corrected /\ corrections[order.base] = 0
    <3>1. order.correction /\ order.op \in Authoring /\ order.base # 0
      BY <1>1, <2>1 DEF Correcting
    <3>2. CorrectionBound
      BY <1>1, <3>1 DEF Bound, Authoring
    <3>3. order.base = codex.returned /\ ~codex.corrected /\ codex.returned # 0
      BY <3>1, <3>2 DEF CorrectionBound, Restored
    <3> QED BY <1>3, <3>1, <3>3 DEF Owned
  <2>2. codex.returned # 0 /\ ~corrected => corrections[codex.returned] = 0
    BY <1>3 DEF Owned
  <2> QED BY <1>1, <1>4, <2>1, <2>2 DEF Owned
<1> QED BY <1>5, <1>6, <1>7, <1>8

LEMMA StartTurnSound ==
  ASSUME WorkerSound, StartTurn PROVE WorkerSound'
<1> USE DEF WorkerSound
<1>1. /\ codex' = [codex EXCEPT !.stage = "turn_start", !.attempted = TRUE, !.turns = @ + 1]
      /\ order' = [order EXCEPT !.turn = codex.turns + 1]
      /\ corrections' = IF order.correction /\ order.op \in Authoring /\ order.base # 0
                        THEN [corrections EXCEPT ![order.base] = @ + 1] ELSE corrections
      /\ UNCHANGED <<thread, stream, account>>
      /\ codex.state = "busy" /\ codex.stage = "prompt_preparation"
      /\ codex.turns + 1 \in 1 .. MaxTurns /\ codex.turns \in 0 .. MaxTurns
      /\ codex.returned \in 0 .. MaxTurns /\ codex.returned <= codex.turns
  <2>1. /\ codex.turns \in 0 .. MaxTurns /\ codex.returned \in 0 .. MaxTurns
        /\ codex.state = "busy" /\ codex.stage = "prompt_preparation"
    BY WorkerFields DEF StartTurn, Texts
  <2>2. codex.turns < MaxTurns /\ codex.returned <= codex.turns
    BY <2>1 DEF Placed, LocalStages
  <2> QED BY <2>1, <2>2, WorkerAssumptions DEF StartTurn
<1>2. /\ codex' \in CodexState /\ codex'.state = "busy" /\ codex'.stage = "turn_start"
      /\ codex'.total = codex.total /\ codex'.turns = codex.turns + 1
      /\ codex'.returned = codex.returned /\ codex'.corrected = codex.corrected
  <2>1. codex.turns + 1 \in 0 .. MaxTurns
    BY <1>1
  <2> QED BY <1>1, <2>1, WorkerTypes DEF CodexState, WorkerStages
<1>3. order' \in OrderState /\ order'.usage = order.usage /\ order'.turn = codex.turns + 1
  <2>1. codex.turns + 1 \in 0 .. MaxTurns
    BY <1>1
  <2> QED BY <1>1, <2>1, WorkerTypes DEF OrderState
<1>4. corrections \in [1 .. MaxTurns -> Nat]
  BY WorkerTypes
<1>5. corrections' \in [1 .. MaxTurns -> Nat]
      /\ \A t \in 1 .. MaxTurns : /\ corrections'[t] <= 1
                                  /\ corrections'[t] > 0 => t <= codex.returned
      /\ codex.returned # 0 /\ ~codex.corrected => corrections'[codex.returned] = 0
  <2>1. CASE Correcting
    <3>1. /\ order.base = codex.returned /\ codex.corrected /\ corrections[order.base] = 0
          /\ order.base \in 1 .. MaxTurns
      BY <1>1, <2>1 DEF Owned, Correcting
    <3>2. corrections' = [corrections EXCEPT ![order.base] = @ + 1]
      BY <1>1, <2>1 DEF Correcting
    <3>3. corrections' \in [1 .. MaxTurns -> Nat] /\ corrections'[order.base] = 1
          /\ \A t \in (1 .. MaxTurns) \ {order.base} : corrections'[t] = corrections[t]
      BY <1>4, <3>1, <3>2
    <3> QED BY <1>1, <3>1, <3>3 DEF Owned
  <2>2. CASE ~Correcting
    <3>1. corrections' = corrections
      BY <1>1, <2>2 DEF Correcting
    <3> QED BY <1>4, <3>1 DEF Owned
  <2> QED BY <2>1, <2>2
<1>6. TypeOKWorker'
  BY <1>1, <1>2, <1>3, <1>5, WorkerTypes, TypesAfter
<1>7. Metered' /\ Announced'
  <2>1. order.usage = 0
    BY <1>1 DEF Metered
  <2> QED BY <1>1, <1>2, <1>3, <2>1, MeterKept
<1>8. Placed' /\ Owned'
  BY <1>1, <1>2, <1>3, <1>5 DEF Placed, Owned, Correcting, LocalStages
<1> QED BY <1>6, <1>7, <1>8

LEMMA TurnStartedSound ==
  ASSUME WorkerSound, TurnStarted \/ MeasureLength \/ ReturnResult PROVE WorkerSound'
<1> USE DEF WorkerSound
<1>0. /\ codex.turns \in 0 .. MaxTurns /\ codex.returned \in 0 .. MaxTurns
      /\ order.turn \in 0 .. MaxTurns /\ order.correction \in BOOLEAN /\ order.op \in Operations
      /\ codex \in CodexState /\ order \in OrderState /\ order.checks \in 0 .. MaxChecks
  BY WorkerFields, WorkerTypes DEF Texts
<1>1. CASE TurnStarted
  <2>1. /\ codex' = [codex EXCEPT !.stage = "turn_stream"] /\ codex.stage = "turn_start"
        /\ codex.state = "busy" /\ UNCHANGED <<order, thread, stream, account, corrections>>
    BY <1>1 DEF TurnStarted
  <2>2. /\ codex' \in CodexState /\ codex'.state = "busy" /\ codex'.stage = "turn_stream"
        /\ codex'.total = codex.total /\ codex'.turns = codex.turns
        /\ codex'.returned = codex.returned /\ codex'.corrected = codex.corrected
    BY <1>0, <2>1 DEF CodexState, WorkerStages
  <2>3. TypeOKWorker'
    BY <2>1, <2>2, WorkerTypes, TypesAfter
  <2>4. Metered' /\ Announced'
    BY <2>1, <2>2, MeterKept
  <2>5. Placed' /\ Owned'
    BY <2>1, <2>2 DEF Placed, Owned, Correcting, LocalStages
  <2> QED BY <2>3, <2>4, <2>5
<1>2. CASE MeasureLength
  <2>1. /\ order' = [order EXCEPT !.checks = @ + 1] /\ order.checks < MaxChecks
        /\ codex.state = "busy" /\ codex.stage = "turn_stream"
        /\ UNCHANGED <<codex, thread, stream, account, corrections>>
    BY <1>2 DEF MeasureLength
  <2>2. order.checks + 1 \in 0 .. MaxChecks
    BY <1>0, <2>1, WorkerAssumptions
  <2>3. order' \in OrderState /\ order'.usage = order.usage /\ order'.turn = order.turn
    BY <1>0, <2>1, <2>2 DEF OrderState
  <2>4. TypeOKWorker'
    BY <2>1, <2>3, WorkerTypes, TypesAfter
  <2>5. Metered' /\ Announced'
    BY <2>1, <2>3, MeterKept
  <2>6. Placed' /\ Owned'
    BY <2>1, <2>3 DEF Placed, Owned, Correcting, LocalStages
  <2> QED BY <2>4, <2>5, <2>6
<1>3. CASE ReturnResult
  <2>1. /\ codex.state = "busy" /\ codex.stage = "report_validation"
        /\ UNCHANGED <<order, thread, stream, account, corrections>>
        /\ order.turn = codex.turns /\ codex.returned < codex.turns
    BY <1>3 DEF ReturnResult, Placed
  <2>2. PICK returned \in {codex.returned, order.turn}, corrected \in BOOLEAN :
          /\ codex' \in CodexState /\ codex'.state = "ready" /\ codex'.stage = "report_validation"
          /\ codex'.total = codex.total /\ codex'.turns = codex.turns
          /\ codex'.returned = returned /\ codex'.corrected = corrected
          /\ returned # order.turn => (corrected \/ corrected = codex.corrected)
    <3>1. CASE /\ order.op \in Authoring
               /\ codex' = [codex EXCEPT !.state = "ready", !.candidate = order.turn,
                               !.returned = IF order.correction THEN @ ELSE order.turn,
                               !.op = IF order.correction THEN @ ELSE order.op,
                               !.corrected = order.correction]
      <4>1. CASE order.correction
        BY <1>0, <2>1, <3>1, <4>1 DEF CodexState, Texts
      <4>2. CASE ~order.correction
        BY <1>0, <2>1, <3>1, <4>2 DEF CodexState, Texts
      <4> QED BY <1>0, <4>1, <4>2
    <3>2. CASE codex' = [codex EXCEPT !.state = "ready"]
      <4>1. codex.corrected \in BOOLEAN
        BY <1>0 DEF CodexState
      <4> QED BY <1>0, <2>1, <3>2, <4>1 DEF CodexState
    <3> QED BY <1>3, <3>1, <3>2 DEF ReturnResult
  <2>3. TypeOKWorker'
    BY <2>1, <2>2, WorkerTypes, TypesAfter
  <2>4. Metered' /\ Announced'
    <3>1. order.usage = 0
      BY <2>1 DEF Metered
    <3> QED BY <2>1, <2>2, <3>1, MeterKept
  <2>5. Placed'
    BY <1>0, <2>1, <2>2 DEF Placed, LocalStages
  <2>6. Owned'
    <3>1. \A t \in 1 .. MaxTurns : corrections[t] \in Nat
      BY WorkerTypes
    <3>2. \A t \in 1 .. MaxTurns : corrections[t] <= 1 /\ (corrections[t] > 0 => t <= returned)
      BY <1>0, <2>1, <2>2, <3>1 DEF Owned
    <3>3. returned # 0 /\ ~corrected => corrections[returned] = 0
      <4>1. CASE returned = order.turn /\ returned # 0
        BY <1>0, <2>1, <3>1, <4>1 DEF Owned
      <4>2. CASE returned # order.turn
        BY <2>2, <4>2 DEF Owned
      <4> QED BY <4>1, <4>2
    <3>4. ~Correcting'
      BY <2>2 DEF Correcting
    <3> QED BY <2>1, <2>2, <3>2, <3>3, <3>4 DEF Owned
  <2> QED BY <2>3, <2>4, <2>5, <2>6
<1> QED BY <1>1, <1>2, <1>3

(* The provider announces more of the turn, or its end.                    *)
LEMMA ProviderSound ==
  ASSUME WorkerSound, Burn \/ Complete PROVE WorkerSound'
<1> USE DEF WorkerSound
<1>0. /\ order.turn \in 0 .. MaxTurns /\ thread.burned \in 0 .. MaxBurned
      /\ thread \in ThreadState /\ stream \in Seq(Notice) /\ account.shown \in 0 .. MaxBurned
      /\ Len(stream) \in Nat /\ DOMAIN stream = 1 .. Len(stream)
      /\ \A i \in DOMAIN stream : stream[i].total \in 0 .. MaxBurned /\ stream[i].done \in BOOLEAN
  BY WorkerFields, WorkerTypes
<1>1. ASSUME NEW notice \in Notice, stream' = Append(stream, notice)
      PROVE  /\ stream' \in Seq(Notice) /\ DOMAIN stream' = 1 .. (Len(stream) + 1)
             /\ stream'[Len(stream) + 1] = notice
             /\ \A i \in DOMAIN stream : stream'[i] = stream[i]
  BY <1>0, <1>1, AppendProperties, LenProperties
<1>2. CASE Burn
  <2>1. PICK notice \in Notice :
          /\ notice.total = thread.burned + 1 /\ notice.done = FALSE
          /\ stream' = Append(stream, notice)
    <3>1. [turn |-> order.turn, total |-> thread.burned + 1, done |-> FALSE] \in Notice
      BY <1>0, <1>2, WorkerAssumptions DEF Burn, Notice
    <3> QED BY <1>2, <3>1 DEF Burn
  <2>2. /\ thread' = [thread EXCEPT !.burned = @ + 1] /\ thread.burned + 1 \in 0 .. MaxBurned
        /\ UNCHANGED <<codex, order, account, corrections>>
    BY <1>0, <1>2, WorkerAssumptions DEF Burn
  <2>3. thread' \in ThreadState /\ thread'.burned = thread.burned + 1 /\ thread'.open = thread.open
    BY <1>0, <2>2 DEF ThreadState
  <2>4. TypeOKWorker'
    BY <1>1, <2>1, <2>2, <2>3, WorkerTypes, TypesAfter
  <2>5. thread.open
    BY <1>0, <1>2 DEF Burn, Placed
  <2>6. Metered'
    BY <1>0, <2>2, <2>3, <2>5 DEF Metered
  <2>7. Announced'
    <3>1. /\ \A i \in DOMAIN stream' : ~stream'[i].done =>
               account.shown < stream'[i].total /\ stream'[i].total <= thread.burned + 1
          /\ \A i, j \in DOMAIN stream' : i < j /\ ~stream'[i].done /\ ~stream'[j].done =>
               stream'[i].total < stream'[j].total
      BY <1>0, <1>1, <2>1 DEF Announced, Metered
    <3> QED BY <2>2, <2>3, <3>1 DEF Announced
  <2>8. Placed' /\ Owned'
    BY <2>2, <2>3 DEF Placed, Owned, Correcting
  <2> QED BY <2>4, <2>6, <2>7, <2>8
<1>3. CASE Complete
  <2>1. PICK notice \in Notice : notice.done = TRUE /\ stream' = Append(stream, notice)
    <3>1. [turn |-> order.turn, total |-> 0, done |-> TRUE] \in Notice
      BY <1>0, <1>3, WorkerAssumptions DEF Complete, Notice, Placed
    <3> QED BY <1>3, <3>1 DEF Complete
  <2>2. UNCHANGED <<codex, order, thread, account, corrections>>
    BY <1>3 DEF Complete
  <2>3. TypeOKWorker'
    BY <1>1, <2>1, <2>2, WorkerTypes, TypesAfter
  <2>4. Metered'
    BY <2>2 DEF Metered
  <2>5. Announced'
    <3>1. /\ \A i \in DOMAIN stream' : ~stream'[i].done =>
               account.shown < stream'[i].total /\ stream'[i].total <= thread.burned
          /\ \A i, j \in DOMAIN stream' : i < j /\ ~stream'[i].done /\ ~stream'[j].done =>
               stream'[i].total < stream'[j].total
      BY <1>0, <1>1, <2>1 DEF Announced
    <3> QED BY <2>2, <3>1 DEF Announced
  <2>6. Placed' /\ Owned'
    BY <2>2 DEF Placed, Owned, Correcting
  <2> QED BY <2>3, <2>4, <2>5, <2>6
<1> QED BY <1>2, <1>3

(* The worker reads the next notification.                                 *)
LEMMA ReadSound ==
  ASSUME WorkerSound, ReadNotification PROVE WorkerSound'
<1> USE DEF WorkerSound
<1>1. /\ codex \in CodexState /\ order \in OrderState /\ account \in AccountState
      /\ stream \in Seq(Notice) /\ Len(stream) \in Nat /\ DOMAIN stream = 1 .. Len(stream)
      /\ \A i \in DOMAIN stream : /\ stream[i] \in Notice /\ stream[i].total \in 0 .. MaxBurned
                                  /\ stream[i].done \in BOOLEAN
      /\ codex.total \in 0 .. MaxBurned /\ order.usage \in 0 .. MaxBurned
      /\ account.shown \in 0 .. MaxBurned /\ account.reported \in Nat /\ account.limited \in BOOLEAN
      /\ thread.burned \in 0 .. MaxBurned
  BY WorkerTypes, WorkerFields
<1>2. /\ stream # <<>> /\ stream' = Tail(stream) /\ codex.state = "busy" /\ codex.stage = "turn_stream"
      /\ UNCHANGED <<thread, corrections>>
  BY DEF ReadNotification
<1>3. /\ stream' \in Seq(Notice) /\ Len(stream) >= 1 /\ DOMAIN stream' = 1 .. (Len(stream) - 1)
      /\ \A i \in DOMAIN stream' : stream'[i] = stream[i + 1]
  BY <1>1, <1>2, HeadTailProperties, LenProperties
<1>4. PICK event \in Notice : event = Head(stream) /\ event = stream[1]
  BY <1>1, <1>2, <1>3
<1>5. event.total \in 0 .. MaxBurned /\ event.done \in BOOLEAN
  BY <1>4 DEF Notice
<1>6. ~event.done => account.shown < event.total /\ event.total <= thread.burned
                     /\ codex.total <= event.total
  BY <1>1, <1>3, <1>4 DEF Announced, Metered
<1>7. ASSUME NEW shown \in 0 .. MaxBurned, account'.shown = shown,
             shown = account.shown \/ (shown = event.total /\ ~event.done)
      PROVE  Announced'
  <2>1. \A i \in DOMAIN stream' : i + 1 \in DOMAIN stream /\ stream'[i] = stream[i + 1] /\ 1 < i + 1
    BY <1>1, <1>3
  <2>2. \A i \in DOMAIN stream' : ~stream'[i].done =>
          shown < stream'[i].total /\ stream'[i].total <= thread.burned
    <3> TAKE i \in DOMAIN stream'
    <3>1. ~stream[i + 1].done => account.shown < stream[i + 1].total /\ stream[i + 1].total <= thread.burned
      BY <2>1 DEF Announced
    <3>2. ~stream[i + 1].done /\ ~event.done => event.total < stream[i + 1].total
      BY <1>1, <1>3, <1>4, <2>1, SMTT(30) DEF Announced
    <3> QED BY <1>7, <2>1, <3>1, <3>2
  <2>3. \A i, j \in DOMAIN stream' : i < j /\ ~stream'[i].done /\ ~stream'[j].done =>
          stream'[i].total < stream'[j].total
    <3> TAKE i, j \in DOMAIN stream'
    <3>1. i < j => i + 1 < j + 1
      BY <1>3
    <3> QED BY <2>1, <3>1 DEF Announced
  <2> QED BY <1>2, <1>7, <2>2, <2>3 DEF Announced
<1>8. CASE event.turn # order.turn
  <2>1. UNCHANGED <<codex, order, account>>
    BY <1>4, <1>8 DEF ReadNotification
  <2>2. Announced'
    BY <1>1, <1>7, <2>1
  <2>3. TypeOKWorker'
    BY <1>2, <1>3, <2>1, WorkerTypes, TypesAfter
  <2>4. Metered' /\ Placed' /\ Owned'
    BY <1>2, <2>1 DEF Metered, Placed, Owned, Correcting
  <2> QED BY <2>2, <2>3, <2>4
<1>9. CASE event.turn = order.turn /\ event.done
  <2>1. /\ codex' = [codex EXCEPT !.stage = "report_validation", !.total = @ + order.usage]
        /\ account' = [account EXCEPT !.reported = @ + order.usage]
        /\ order' = [order EXCEPT !.usage = 0]
    BY <1>4, <1>9 DEF ReadNotification
  <2>2. codex.total + order.usage \in 0 .. MaxBurned
    BY <1>1, WorkerAssumptions DEF Metered
  <2>3. /\ codex' \in CodexState /\ codex'.state = "busy" /\ codex'.stage = "report_validation"
        /\ codex'.total = codex.total + order.usage /\ codex'.turns = codex.turns
        /\ codex'.returned = codex.returned /\ codex'.corrected = codex.corrected
    BY <1>1, <1>2, <2>1, <2>2 DEF CodexState, WorkerStages
  <2>4. /\ order' \in OrderState /\ order'.usage = 0 /\ order'.turn = order.turn
        /\ account' \in AccountState /\ account'.shown = account.shown
        /\ account'.reported = account.reported + order.usage /\ account'.limited = account.limited
    <3>1. 0 \in 0 .. MaxBurned /\ account.reported + order.usage \in Nat
      BY <1>1, WorkerAssumptions
    <3>2. order' \in OrderState /\ order'.usage = 0 /\ order'.turn = order.turn
      BY <1>1, <2>1, <3>1 DEF OrderState
    <3>3. /\ account' \in AccountState /\ account'.shown = account.shown
          /\ account'.reported = account.reported + order.usage /\ account'.limited = account.limited
      BY <1>1, <2>1, <3>1 DEF AccountState
    <3> QED BY <3>2, <3>3
  <2>5. TypeOKWorker'
    BY <1>2, <1>3, <2>3, <2>4, WorkerTypes, TypesAfter
  <2>6. Metered'
    BY <1>1, <1>2, <2>3, <2>4 DEF Metered
  <2>7. Announced'
    BY <1>1, <1>7, <2>4
  <2>8. Placed' /\ Owned'
    BY <1>2, <2>3, <2>4 DEF Placed, Owned, Correcting, LocalStages
  <2> QED BY <2>5, <2>6, <2>7, <2>8
<1>10. CASE event.turn = order.turn /\ ~event.done /\ event.total - codex.total < Allowance
  <2>1. /\ order' = [order EXCEPT !.usage = event.total - codex.total, !.counted = TRUE]
        /\ account' = [account EXCEPT !.shown = event.total]
        /\ UNCHANGED codex
    BY <1>1, <1>4, <1>5, <1>6, <1>10 DEF ReadNotification
  <2>2. event.total - codex.total \in 0 .. MaxBurned
    BY <1>1, <1>5, <1>6, <1>10, WorkerAssumptions
  <2>3. /\ order' \in OrderState /\ order'.usage = event.total - codex.total /\ order'.turn = order.turn
        /\ account' \in AccountState /\ account'.shown = event.total
        /\ account'.reported = account.reported /\ account'.limited = account.limited
    BY <1>1, <1>5, <2>1, <2>2 DEF OrderState, AccountState
  <2>4. TypeOKWorker'
    BY <1>2, <1>3, <2>1, <2>3, WorkerTypes, TypesAfter
  <2>5. Metered'
    BY <1>1, <1>2, <1>5, <1>6, <1>10, <2>1, <2>3 DEF Metered
  <2>6. Announced'
    BY <1>5, <1>7, <1>10, <2>3
  <2>7. Placed' /\ Owned'
    BY <1>2, <2>1, <2>3 DEF Placed, Owned, Correcting, LocalStages
  <2> QED BY <2>4, <2>5, <2>6, <2>7
<1>11. CASE event.turn = order.turn /\ ~event.done /\ ~(event.total - codex.total < Allowance)
  <2>1. /\ order' = [order EXCEPT !.usage = 0, !.counted = TRUE]
        /\ account' = [shown |-> event.total,
                       reported |-> account.reported + (event.total - codex.total), limited |-> TRUE]
        /\ codex' = [codex EXCEPT !.state = "ready"]
    BY <1>1, <1>4, <1>5, <1>6, <1>11 DEF ReadNotification
  <2>2. event.total - codex.total \in 0 .. MaxBurned
    BY <1>1, <1>5, <1>6, <1>11, WorkerAssumptions
  <2>3. /\ order' \in OrderState /\ order'.usage = 0 /\ order'.turn = order.turn
        /\ account' \in AccountState /\ account'.shown = event.total
        /\ account'.reported = account.reported + (event.total - codex.total) /\ account'.limited
    <3>1. 0 \in 0 .. MaxBurned /\ account.reported + (event.total - codex.total) \in Nat
      BY <1>1, <2>2, WorkerAssumptions
    <3>2. order' \in OrderState /\ order'.usage = 0 /\ order'.turn = order.turn
      BY <1>1, <2>1, <3>1 DEF OrderState
    <3>3. /\ account' \in AccountState /\ account'.shown = event.total
          /\ account'.reported = account.reported + (event.total - codex.total) /\ account'.limited
      BY <1>5, <2>1, <3>1 DEF AccountState
    <3> QED BY <3>2, <3>3
  <2>4. /\ codex' \in CodexState /\ codex'.state = "ready" /\ codex'.stage = "turn_stream"
        /\ codex'.total = codex.total /\ codex'.turns = codex.turns
        /\ codex'.returned = codex.returned /\ codex'.corrected = codex.corrected
    BY <1>1, <1>2, <2>1 DEF CodexState
  <2>5. TypeOKWorker'
    BY <1>2, <1>3, <2>3, <2>4, WorkerTypes, TypesAfter
  <2>6. Metered'
    BY <1>1, <1>2, <1>5, <1>6, <1>11, <2>3, <2>4 DEF Metered
  <2>7. Announced'
    BY <1>5, <1>7, <1>11, <2>3
  <2>8. Placed' /\ Owned'
    BY <1>2, <2>3, <2>4 DEF Placed, Owned, Correcting, LocalStages
  <2> QED BY <2>5, <2>6, <2>7, <2>8
<1> QED BY <1>5, <1>8, <1>9, <1>10, <1>11

LEMMA WorkerNextSound == WorkerSound /\ [WorkerNext]_wvars => WorkerSound'
<1> SUFFICES ASSUME WorkerSound, [WorkerNext]_wvars PROVE WorkerSound'
  OBVIOUS
<1>1. CASE Fail \/ Hello \/ RejectLocally
  BY <1>1, StateMoves
<1>2. ASSUME NEW op \in Operations, NEW correction \in BOOLEAN, NEW bounded \in BOOLEAN,
             NEW base \in Texts, Receive(op, correction, bounded, base)
      PROVE  WorkerSound'
  BY <1>2, ReceiveSound
<1>3. CASE Prepare
  BY <1>3, PrepareSound
<1>4. CASE StartTurn
  BY <1>4, StartTurnSound
<1>5. CASE TurnStarted \/ MeasureLength \/ ReturnResult
  BY <1>5, TurnStartedSound
<1>6. CASE Burn \/ Complete
  BY <1>6, ProviderSound
<1>7. CASE ReadNotification
  BY <1>7, ReadSound
<1>8. CASE UNCHANGED wvars
  <2>1. UNCHANGED <<codex, order, thread, stream, account, corrections>>
    BY <1>8 DEF wvars
  <2>2. TypeOKWorker'
    BY <2>1, WorkerTypes, TypesAfter DEF WorkerSound
  <2> QED BY <2>1, <2>2 DEF WorkerSound, Metered, Announced, Placed, Owned, Correcting
<1> QED BY <1>1, <1>2, <1>3, <1>4, <1>5, <1>6, <1>7, <1>8 DEF WorkerNext

(* Counters, the operation in hand and notifications not read yet agree    *)
(* with what the provider has counted (research_codex_worker.py).          *)
THEOREM WorkerHolds == WorkerSpec => []WorkerSound
<1> QED BY WorkerInitSound, WorkerNextSound, PTL DEF WorkerSpec

(* The operations of a thread have together reported what the thread has   *)
(* shown the worker, whatever is late and whatever failed before           *)
(* (_handle_event, _token_usage).                                          *)
THEOREM UsageReportedHolds == WorkerSpec => []UsageReported
<1>1. WorkerSound => UsageReported
  <2> SUFFICES ASSUME WorkerSound PROVE UsageReported
    OBVIOUS
  <2>1. account.reported \in Nat /\ order.usage \in Nat /\ account.shown \in Nat
    BY WorkerFields DEF WorkerSound
  <2> QED BY <2>1 DEF WorkerSound, Metered, UsageReported
<1> QED BY <1>1, WorkerHolds, PTL

(* No text of this worker is given to a model for correction a second      *)
(* time, however its repair ended (_validate_correction).                  *)
THEOREM CorrectedOnceHolds == WorkerSpec => []CorrectedOnce
<1>1. WorkerSound => CorrectedOnce
  BY DEF WorkerSound, Owned, CorrectedOnce
<1> QED BY <1>1, WorkerHolds, PTL



-----------------------------------------------------------------------------
(* The capacity of a campaign: CampaignCapacity.                           *)

(* No token is granted twice.                                              *)
Conserved == left + Total(grant, Callers) <= TokenLimit

(* What is held for after the author is held while it is at work.          *)
Holding ==
  /\ step \notin {"author", "off"} => held = 0
  /\ attempt > 0 => held >= ProtectedReserve

(* What corrections in flight were granted is counted as charged; a        *)
(* reviewer that has been asked does not wait.                             *)
Mending ==
  step = "reviews" =>
    /\ mended >= Total(grant, fixed)
    /\ \A r \in Reviewer : grant[r] > 0 \/ r \in fixed \/ r \in fixes => deferred[r] = 0

Promise == sent /\ step # "off" => left + overran >= Owed

CapacitySound == TypeOKCapacity /\ Conserved /\ Holding /\ Mending /\ Promise

-----------------------------------------------------------------------------
LEMMA CapacityNumbers ==
  /\ Reviewers \in Nat /\ Reviewers > 0 /\ Concurrent \in Nat
  /\ TokenLimit \in Nat /\ Handoff \in Nat /\ ClosureCall \in Nat /\ Least \in Nat /\ Least > 0
  /\ Headroom \in Nat /\ RepairFloor \in Nat /\ AuthorFloor \in Nat /\ Fair \in Nat
  /\ SummaryMin \in Nat /\ MaxOverrun \in Nat /\ MaxWaves \in Nat
  /\ \A n \in Inputs : n \in Nat
  /\ IsFiniteSet(Callers) /\ IsFiniteSet(Reviewer)
  /\ Reviewer \subseteq Callers /\ 0 \in Callers /\ 0 \notin Reviewer
  /\ \A r \in Reviewer : r \in Nat /\ r \in 0 .. Revision
  /\ {0, Fixes, Revision} \subseteq 0 .. Revision
<1>1. /\ Reviewers \in Nat /\ Reviewers > 0 /\ Concurrent \in Nat
      /\ TokenLimit \in Nat /\ Handoff \in Nat /\ ClosureCall \in Nat /\ Least \in Nat /\ Least > 0
      /\ Headroom \in Nat /\ RepairFloor \in Nat /\ AuthorFloor \in Nat /\ Fair \in Nat
      /\ SummaryMin \in Nat /\ MaxOverrun \in Nat /\ MaxWaves \in Nat
  BY CapacityAssumptions
<1>2. \A n \in Inputs : n \in Nat
  BY CapacityAssumptions
<1>3. IsFiniteSet(Reviewer)
  <2>1. 1 \in Int /\ Reviewers \in Int
    BY <1>1
  <2> QED BY <2>1, FS_Interval, Zenon DEF Reviewer
<1>4. IsFiniteSet(Callers)
  <2>1. IsFiniteSet({0})
    BY FS_Singleton
  <2> QED BY <1>3, <2>1, FS_Union DEF Callers
<1>5. Reviewer \subseteq Callers /\ 0 \in Callers /\ 0 \notin Reviewer
  BY <1>1 DEF Callers, Reviewer
<1>6. \A r \in Reviewer : r \in Nat /\ r \in 0 .. Revision
  BY <1>1 DEF Reviewer, Revision
<1>7. {0, Fixes, Revision} \subseteq 0 .. Revision
  BY <1>1 DEF Fixes, Revision
<1> QED BY <1>1, <1>2, <1>3, <1>4, <1>5, <1>6, <1>7

LEMMA LesserLarger ==
  ASSUME NEW m \in Int, NEW n \in Int
  PROVE  /\ Lesser(m, n) \in {m, n} /\ Lesser(m, n) <= m /\ Lesser(m, n) <= n
         /\ Larger(m, n) \in {m, n} /\ Larger(m, n) >= m /\ Larger(m, n) >= n
BY DEF Lesser, Larger

LEMMA MarginNat == \A n \in Nat : Margin(n) \in Nat
BY DEF Margin

LEMMA CapacityTypes ==
  ASSUME TypeOKCapacity
  PROVE  /\ left \in Nat /\ left <= TokenLimit /\ input \in Nat /\ mended \in Nat /\ held \in Nat
         /\ overran \in Nat /\ offered \in Nat /\ repair \in Nat /\ attempt \in {0, 1, 2}
         /\ grant \in [Callers -> Nat] /\ deferred \in [Reviewer -> Nat]
         /\ seen \in [0 .. Revision -> Nat] /\ editor \in BOOLEAN /\ confirmed \in BOOLEAN
         /\ IsFiniteSet(fixed) /\ IsFiniteSet(fixes) /\ IsFiniteSet(reported) /\ IsFiniteSet(Due)
         /\ fixed \subseteq Reviewer /\ fixes \subseteq Reviewer /\ reported \subseteq Reviewer
         /\ Due \subseteq Reviewer
<1>1. TokenLimit \in Nat /\ IsFiniteSet(Reviewer)
  BY CapacityNumbers
<1>2. \A n \in Tokens : n \in Nat /\ n <= TokenLimit
  BY <1>1 DEF Tokens
<1>3. grant \in [Callers -> Nat] /\ deferred \in [Reviewer -> Nat]
  BY <1>2 DEF TypeOKCapacity
<1>4. /\ left \in Nat /\ left <= TokenLimit /\ offered \in Nat /\ repair \in Nat
  BY <1>2 DEF TypeOKCapacity
<1>5. input \in Nat
  BY CapacityNumbers DEF TypeOKCapacity
<1>6. fixed \subseteq Reviewer /\ fixes \subseteq Reviewer /\ reported \subseteq Reviewer /\ Due \subseteq Reviewer
  BY DEF TypeOKCapacity, Due
<1>7. IsFiniteSet(fixed) /\ IsFiniteSet(fixes) /\ IsFiniteSet(reported) /\ IsFiniteSet(Due)
  BY <1>1, <1>6, FS_Subset
<1>8. attempt \in {0, 1, 2}
  BY DEF TypeOKCapacity
<1> QED BY <1>3, <1>4, <1>5, <1>6, <1>7, <1>8 DEF TypeOKCapacity

(* The reserves are numbers, and what follows an author pays at least for  *)
(* the handoff and the editor.                                             *)
LEMMA ReserveNumbers ==
  ASSUME TypeOKCapacity
  PROVE  /\ ProtectedReserve \in Nat /\ ProtectedReserve = Handoff + IF editor THEN ClosureCall ELSE 0
         /\ \A r \in Reviewer : ReviewUsage(r) \in Nat
         /\ UsageOf(Due) \in Nat /\ ReviewReserve \in Nat /\ RepairReserve \in Nat
         /\ MinimumAuthor \in Nat /\ MinimumAuthor > 0
         /\ FollowThrough \in Nat /\ FollowThrough >= ProtectedReserve
         /\ InitialReserve \in Nat /\ InitialReserve >= ProtectedReserve
<1>1. /\ Handoff \in Nat /\ ClosureCall \in Nat /\ Headroom \in Nat /\ RepairFloor \in Nat
      /\ AuthorFloor \in Nat /\ Reviewers \in Nat /\ input \in Nat /\ editor \in BOOLEAN
      /\ seen \in [0 .. Revision -> Nat]
  BY CapacityNumbers, CapacityTypes
<1>2. ProtectedReserve \in Nat /\ ProtectedReserve = Handoff + IF editor THEN ClosureCall ELSE 0
  BY <1>1 DEF ProtectedReserve
<1>3. \A r \in Reviewer : ReviewUsage(r) \in Nat
  <2> TAKE r \in Reviewer
  <2>1. Margin(seen[r]) \in Nat /\ input + Headroom \in Nat
    <3>1. r \in 0 .. Revision
      BY CapacityNumbers
    <3>2. seen[r] \in Nat
      BY <1>1, <3>1
    <3> QED BY <1>1, <3>2, MarginNat
  <2> QED BY <2>1, LesserLarger DEF ReviewUsage
<1>4. UsageOf(Due) \in Nat /\ ReviewReserve \in Nat
  <2>1. \A S \in SUBSET Reviewer : UsageOf(S) \in Nat
    <3> TAKE S \in SUBSET Reviewer
    <3> DEFINE f == [r \in S |-> ReviewUsage(r)]
    <3>1. \A r \in S : f[r] \in Nat
      BY <1>3
    <3>2. IsFiniteSet(S)
      BY CapacityNumbers, FS_Subset
    <3> HIDE DEF f
    <3>3. SumFunctionOnSet(f, S) \in Nat
      BY <3>1, <3>2, SumNat
    <3> QED BY <3>3 DEF UsageOf, Total, f
  <2>2. Due \in SUBSET Reviewer
    BY DEF Due
  <2> QED BY <2>1, <2>2 DEF ReviewReserve
<1>5. RepairReserve \in Nat
  <2>1. Margin(seen[Fixes]) \in Nat /\ input + 1 \in Nat
    <3>1. Fixes \in 0 .. Revision
      BY CapacityNumbers
    <3>2. seen[Fixes] \in Nat
      BY <1>1, <3>1
    <3> QED BY <1>1, <3>2, MarginNat
  <2>2. Larger(RepairFloor, input + 1) \in Nat
    BY <1>1, <2>1, LesserLarger
  <2> QED BY <2>1, <2>2, LesserLarger DEF RepairReserve
<1>6. MinimumAuthor \in Nat /\ MinimumAuthor > 0
  <2>1. Margin(seen[0]) \in Nat /\ input + 1 \in Nat
    BY <1>1, CapacityNumbers, MarginNat, SMTT(60)
  <2>2. AnswersUsage \in Nat
    BY <2>1 DEF AnswersUsage
  <2>3. Larger(AuthorFloor, input + 1) \in Nat /\ Larger(AuthorFloor, input + 1) >= input + 1
    BY <1>1, <2>1, LesserLarger
  <2>4. Larger(Margin(seen[0]), AnswersUsage) \in Nat
    BY <2>1, <2>2, LesserLarger
  <2>5. MinimumAuthor \in Nat /\ MinimumAuthor >= Larger(AuthorFloor, input + 1)
    BY <2>3, <2>4, LesserLarger DEF MinimumAuthor
  <2> QED BY <1>1, <2>3, <2>5
<1>7. FollowThrough \in Nat /\ FollowThrough >= ProtectedReserve
  BY <1>2, <1>4, <1>5 DEF FollowThrough
<1>8. InitialReserve \in Nat /\ InitialReserve >= ProtectedReserve
  <2>1. PICK x \in Nat : x = Reviewers * (input + Headroom)
    <3>1. \A m \in Nat, n \in Nat : m * n \in Nat
      OBVIOUS
    <3>2. input + Headroom \in Nat
      BY <1>1
    <3> QED BY <1>1, <3>1, <3>2
  <2>2. PICK y \in Nat : y = IF editor THEN ClosureCall + AuthorFloor ELSE 0
    BY <1>1
  <2>3. InitialReserve = x + RepairReserve + ProtectedReserve + y
    BY <2>1, <2>2 DEF InitialReserve
  <2> QED BY <1>2, <1>5, <2>3
<1> QED BY <1>2, <1>3, <1>4, <1>5, <1>6, <1>7, <1>8

(* What is sent comes off what is left.                                    *)
LEMMA SendsFacts ==
  ASSUME TypeOKCapacity, Conserved, NEW grants, DOMAIN grants \subseteq Callers,
         \A c \in DOMAIN grants : grants[c] \in Int, Sends(grants)
  PROVE  LET total == Total(grants, DOMAIN grants) IN
         /\ total \in Nat /\ left' = left - total /\ left' \in Tokens /\ left' \in Nat /\ sent'
         /\ grant' \in [Callers -> Tokens] /\ Conserved'
         /\ \A c \in DOMAIN grants : grant'[c] = grants[c] /\ grants[c] <= total
         /\ \A c \in Callers \ DOMAIN grants : grant'[c] = grant[c]
<1> DEFINE D == DOMAIN grants
           total == Total(grants, D)
           kept == Total(grant, Callers \ D)
<1>1. /\ total <= left /\ \A c \in D : grants[c] > 0
      /\ left' = left - total /\ sent'
      /\ grant' = [c \in Callers |-> IF c \in D THEN grants[c] ELSE grant[c]]
  BY DEF Sends
<1>2. /\ left \in Nat /\ grant \in [Callers -> Nat] /\ TokenLimit \in Nat /\ IsFiniteSet(Callers)
  BY CapacityTypes, CapacityNumbers
<1>3. IsFiniteSet(D) /\ IsFiniteSet(Callers \ D) /\ D \subseteq Callers
  BY <1>2, FS_Subset
<1>4. \A c \in D : grants[c] \in Nat
  BY <1>1
<1>5. total \in Nat /\ \A c \in D : grants[c] <= total
  <2> HIDE DEF D
  <2> QED BY <1>3, <1>4, SumNat, SumTerm DEF Total
<1>6. left' \in Nat /\ left' <= left
  BY <1>1, <1>2, <1>5
<1>7. /\ \A c \in D : grant'[c] = grants[c]
      /\ \A c \in Callers \ D : grant'[c] = grant[c]
  BY <1>1, <1>3
<1>8. kept \in Nat /\ kept <= Total(grant, Callers)
  <2> HIDE DEF D
  <2>1. Callers \ D \subseteq Callers
    OBVIOUS
  <2> QED BY <1>2, <1>3, <2>1, SumNat, SumPart DEF Total
<1>9. Total(grant', Callers) = total + kept
  <2>1. \A c \in Callers : grant'[c] \in Nat
    BY <1>1, <1>2, <1>4
  <2> HIDE DEF D
  <2>2. Callers \cap D = D
    BY <1>3
  <2>3. Total(grant', Callers) = Total(grant', D) + Total(grant', Callers \ D)
    <3>1. Total(grant', Callers) = Total(grant', Callers \cap D) + Total(grant', Callers \ D)
      BY <1>2, <2>1, SumSplit DEF Total
    <3> QED BY <2>2, <3>1
  <2>4. Total(grant', D) = total
    BY <1>3, <1>4, <1>7, SumSame DEF Total
  <2>5. Total(grant', Callers \ D) = kept
    BY <1>2, <1>3, <1>7, SumSame DEF Total
  <2> QED BY <2>3, <2>4, <2>5
<1> HIDE DEF D, total, kept
<1>10. left' + Total(grant', Callers) <= TokenLimit
  <2>1. left + Total(grant, Callers) <= TokenLimit /\ Total(grant, Callers) \in Nat
    BY <1>2, SumNat DEF Conserved, Total
  <2> QED BY <1>1, <1>2, <1>5, <1>8, <1>9, <2>1
<1>11. grant' \in [Callers -> Tokens] /\ left' \in Tokens
  <2>1. left' <= TokenLimit /\ left <= TokenLimit
    BY <1>2, <1>6, CapacityTypes
  <2>2. \A c \in D : grants[c] \in Tokens
    BY <1>1, <1>2, <1>4, <1>5, <2>1 DEF Tokens
  <2>3. grant \in [Callers -> Tokens]
    BY DEF TypeOKCapacity
  <2>4. left' \in Tokens
    BY <1>2, <1>6, <2>1 DEF Tokens
  <2> QED BY <1>1, <2>2, <2>3, <2>4
<1> QED BY <1>1, <1>5, <1>6, <1>7, <1>10, <1>11 DEF D, total, Conserved, Total

LEMMA AloneFacts ==
  ASSUME TypeOKCapacity, Conserved, NEW n \in Int, SendsAlone(n)
  PROVE  /\ left' = left - n /\ n \in Nat /\ left' \in Tokens /\ left' \in Nat /\ sent'
         /\ grant' \in [Callers -> Tokens] /\ Conserved' /\ \A r \in Reviewer : grant'[r] = grant[r]
<1> DEFINE g == [c \in {0} |-> n]
<1>1. DOMAIN g = {0} /\ g[0] = n /\ DOMAIN g \subseteq Callers /\ \A c \in DOMAIN g : g[c] \in Int
  BY CapacityNumbers
<1>2. Sends(g)
  BY DEF SendsAlone
<1> HIDE DEF g
<1>3. LET total == Total(g, DOMAIN g) IN
      /\ total \in Nat /\ left' = left - total /\ left' \in Tokens /\ left' \in Nat /\ sent'
      /\ grant' \in [Callers -> Tokens] /\ Conserved'
      /\ \A c \in DOMAIN g : grant'[c] = g[c] /\ g[c] <= total
      /\ \A c \in Callers \ DOMAIN g : grant'[c] = grant[c]
  BY <1>1, <1>2, SendsFacts
<1>4. Total(g, DOMAIN g) = n
  <2>1. SumFunctionOnSet(g, {0}) = g[0] + SumFunctionOnSet(g, {0} \ {0})
    BY <1>1, FS_Singleton, SumRemove
  <2>2. {0} \ {0} = {}
    OBVIOUS
  <2>3. SumFunctionOnSet(g, {0}) = n + 0
    BY <1>1, <2>1, <2>2, SumEmpty
  <2> QED BY <1>1, <2>3 DEF Total
<1> QED BY <1>1, <1>3, <1>4, CapacityNumbers

(* What is still to be paid for, before reviewers and repairs; and what a  *)
(* promise says, part by part.                                             *)
Outstanding == Handoff + (IF editor /\ ~confirmed THEN ClosureCall ELSE 0)
InReview == IF step = "reviews" THEN Promised + RepairLeft ELSE 0

PromiseParts ==
  /\ Promised \in Nat /\ RepairLeft \in Nat /\ Outstanding \in Nat /\ InReview \in Nat
  /\ ProtectedReserve \in Nat /\ Outstanding <= ProtectedReserve
  /\ Promise <=> (sent /\ step # "off" =>
                    left + overran >= held /\ left + overran >= Outstanding + InReview)
  /\ step # "reviews" /\ held = 0 /\ left >= Outstanding => Promise
  /\ held = 0 /\ left >= Outstanding + (Promised + RepairLeft) => Promise

LEMMA PromiseByParts == TypeOKCapacity => PromiseParts
<1> SUFFICES ASSUME TypeOKCapacity PROVE PromiseParts
  OBVIOUS
<1>1. Promised \in Nat
  BY CapacityTypes, CapacityNumbers, SumNat DEF Promised, Total
<1>2. RepairLeft \in Nat
  <2>1. repair - mended \in Int
    BY CapacityTypes
  <2> QED BY <2>1 DEF RepairLeft, Larger
<1>3. /\ Outstanding \in Nat /\ ProtectedReserve \in Nat /\ Outstanding <= ProtectedReserve
  BY CapacityTypes, CapacityNumbers DEF Outstanding, ProtectedReserve
<1>4. InReview \in Nat
  BY <1>1, <1>2 DEF InReview
<1>5. Owed = Larger(held, Outstanding + InReview)
  BY DEF Owed, Outstanding, InReview
<1>6. left \in Nat /\ overran \in Nat /\ held \in Nat
  BY CapacityTypes
<1>7. left + overran >= Owed
        <=> left + overran >= held /\ left + overran >= Outstanding + InReview
  BY <1>3, <1>4, <1>5, <1>6 DEF Larger
<1>8. Promise <=> (sent /\ step # "off" =>
                    left + overran >= held /\ left + overran >= Outstanding + InReview)
  <2> HIDE DEF Outstanding, InReview, Owed
  <2> QED BY <1>7 DEF Promise
<1>9. step # "reviews" /\ held = 0 /\ left >= Outstanding => Promise
  <2>1. step # "reviews" => InReview = 0
    BY DEF InReview
  <2> HIDE DEF Outstanding, InReview
  <2> QED BY <1>3, <1>6, <1>8, <2>1
<1>10. held = 0 /\ left >= Outstanding + (Promised + RepairLeft) => Promise
  <2>1. InReview <= Promised + RepairLeft
    BY <1>1, <1>2 DEF InReview
  <2> HIDE DEF Outstanding, InReview
  <2> QED BY <1>1, <1>2, <1>3, <1>4, <1>6, <1>8, <2>1
<1> QED BY <1>1, <1>2, <1>3, <1>4, <1>8, <1>9, <1>10 DEF PromiseParts

LEMMA PromiseByPartsNext == TypeOKCapacity' => PromiseParts'
BY PromiseByParts, PTL

-----------------------------------------------------------------------------
(* An author gets no more than what is left above what is held.            *)
LEMMA AuthorsKeep ==
  ASSUME CapacitySound, NEW allowance \in Int, NEW kept \in Nat, NEW next \in {1, 2},
         NEW revise \in BOOLEAN, kept >= ProtectedReserve, allowance <= TokenLimit,
         Authors(allowance, kept, next, revise)
  PROVE  CapacitySound'
<1> DEFINE n == AuthorAllowance(allowance, kept)
<1>1. TypeOKCapacity /\ Conserved
  BY DEF CapacitySound
<1>2. left \in Nat /\ left <= TokenLimit /\ Least \in Nat /\ Least > 0 /\ overran \in Nat
      /\ TokenLimit \in Nat
  BY <1>1, CapacityTypes, CapacityNumbers
<1>3. n \in Int /\ n <= allowance /\ n <= left - kept
  BY <1>2, LesserLarger DEF AuthorAllowance
<1>4. n >= Least /\ SendsAlone(n)
  BY DEF Authors
<1> HIDE DEF n
<1>5. /\ left' = left - n /\ left' \in Tokens /\ left' \in Nat /\ sent'
      /\ grant' \in [Callers -> Tokens] /\ Conserved'
  BY <1>1, <1>3, <1>4, AloneFacts
<1>6. /\ held' = kept /\ offered' = allowance /\ attempt' = next /\ revising' = revise
      /\ step' = "author"
      /\ UNCHANGED <<editor, confirmed, estimate, wave, overran>>
  BY DEF Authors
<1>7. allowance \in Tokens
  BY <1>2, <1>3, <1>4 DEF Tokens
<1>8. sent' \in BOOLEAN
  <2>1. sent' = TRUE
    BY <1>4 DEF SendsAlone, Sends
  <2> QED BY <2>1
<1>9. TypeOKCapacity'
  BY <1>1, <1>5, <1>6, <1>7, <1>8 DEF TypeOKCapacity, estimate, wave
<1>10. ProtectedReserve' = ProtectedReserve
  BY <1>6 DEF ProtectedReserve
<1>11. Holding'
  BY <1>6, <1>10 DEF Holding
<1>12. Mending'
  BY <1>6 DEF Mending
<1>13. Promise'
  <2>1. PromiseParts'
    BY <1>9, PromiseByPartsNext
  <2>2. InReview' = 0
    BY <1>6 DEF InReview
  <2>3. left' >= kept
    BY <1>2, <1>3, <1>5
  <2>4. Outstanding' \in Nat /\ Outstanding' <= ProtectedReserve' /\ ProtectedReserve' \in Nat
    BY <2>1 DEF PromiseParts
  <2>5. left' + overran' >= held' /\ left' + overran' >= Outstanding' + InReview'
    BY <1>2, <1>5, <1>6, <1>10, <2>2, <2>3, <2>4
  <2> QED BY <2>1, <2>5 DEF PromiseParts
<1> QED BY <1>5, <1>9, <1>11, <1>12, <1>13 DEF CapacitySound

LEMMA DraftFirstKeeps == CapacitySound /\ DraftFirst => CapacitySound'
<1> SUFFICES ASSUME CapacitySound, DraftFirst PROVE CapacitySound'
  OBVIOUS
<1>1. TypeOKCapacity
  BY DEF CapacitySound
<1>2. InitialReserve \in Nat /\ InitialReserve >= ProtectedReserve
  BY <1>1, ReserveNumbers
<1>3. left \in Nat /\ TokenLimit \in Nat
  BY <1>1, CapacityTypes, CapacityNumbers
<1> DEFINE a == Lesser(TokenLimit \div 3, left - InitialReserve)
<1>4. a \in Int /\ a <= TokenLimit
  BY <1>2, <1>3 DEF Lesser
<1>5. Authors(a, InitialReserve, 1, FALSE)
  BY DEF DraftFirst
<1> HIDE DEF a
<1> QED BY <1>2, <1>4, <1>5, AuthorsKeep

LEMMA ReviseKeeps == CapacitySound /\ Revise => CapacitySound'
<1> SUFFICES ASSUME CapacitySound, Revise PROVE CapacitySound'
  OBVIOUS
<1>1. TypeOKCapacity
  BY DEF CapacitySound
<1>2. /\ FollowThrough \in Nat /\ FollowThrough >= ProtectedReserve
      /\ MinimumAuthor \in Nat
  BY <1>1, ReserveNumbers
<1>3. left \in Nat /\ left <= TokenLimit /\ TokenLimit \in Nat
  BY <1>1, CapacityTypes, CapacityNumbers
<1>4. AuthorGrant \in Int /\ AuthorGrant <= TokenLimit
  <2>1. Larger(0, left - FollowThrough) \in Nat /\ Larger(0, left - FollowThrough) <= left
    BY <1>2, <1>3 DEF Larger
  <2> QED BY <1>2, <1>3, <2>1, LesserLarger DEF AuthorGrant
<1>5. Authors(AuthorGrant, FollowThrough, 1, TRUE)
  BY DEF Revise
<1> QED BY <1>2, <1>4, <1>5, AuthorsKeep

LEMMA CorrectDraftKeeps == CapacitySound /\ CorrectDraft => CapacitySound'
<1> SUFFICES ASSUME CapacitySound, CorrectDraft PROVE CapacitySound'
  OBVIOUS
<1>1. TypeOKCapacity /\ Holding /\ Conserved
  BY DEF CapacitySound
<1>2. /\ attempt = 1 /\ Authors(offered, held, 2, revising) /\ revising \in BOOLEAN
      /\ offered \in Nat /\ held \in Nat
  BY <1>1, CapacityTypes DEF CorrectDraft, TypeOKCapacity
<1>3. held >= ProtectedReserve
  BY <1>1, <1>2 DEF Holding
<1>4. offered \in Int /\ offered <= TokenLimit
  BY <1>1, CapacityNumbers DEF TypeOKCapacity, Tokens
<1> QED BY <1>2, <1>3, <1>4, AuthorsKeep

-----------------------------------------------------------------------------
LEMMA AcceptDraftKeeps == CapacitySound /\ AcceptDraft => CapacitySound'
<1> SUFFICES ASSUME CapacitySound, AcceptDraft PROVE CapacitySound'
  OBVIOUS
<1>1. TypeOKCapacity /\ Conserved /\ Holding /\ Promise
  BY DEF CapacitySound
<1>2. /\ input' \in Inputs /\ step' \in {"preflight", "wave"} /\ step = "author"
      /\ held' = 0 /\ offered' = 0 /\ attempt' = 0 /\ revising' = FALSE /\ reported' = {}
      /\ again' = revising
      /\ UNCHANGED <<left, editor, confirmed, grant, deferred, fixes, fixed, repair, mended, waves,
                     seen, sent, overran>>
  BY Zenon DEF AcceptDraft
<1>3. TypeOKCapacity'
  <2>1. 0 \in Tokens
    BY CapacityNumbers DEF Tokens
  <2>2. {revising', again', sent'} \subseteq BOOLEAN
    BY <1>1, <1>2, Zenon DEF TypeOKCapacity
  <2>3. /\ step' \in {"off", "author", "preflight", "wave", "reviews", "revise", "confirm", "integrate"}
        /\ held' \in Nat /\ attempt' \in 0 .. 2 /\ reported' \subseteq Reviewer /\ offered' \in Tokens
    BY <1>2, <2>1
  <2>4. /\ left' \in Tokens /\ editor' \in BOOLEAN /\ confirmed' \in BOOLEAN
        /\ grant' \in [Callers -> Tokens] /\ deferred' \in [Reviewer -> Tokens]
        /\ fixes' \subseteq Reviewer /\ fixed' \subseteq Reviewer /\ repair' \in Tokens
        /\ mended' \in Nat /\ waves' \in 0 .. MaxWaves /\ seen' \in [0 .. Revision -> Nat]
        /\ overran' \in Nat
    BY <1>1, <1>2 DEF TypeOKCapacity
  <2> QED BY <1>2, <2>2, <2>3, <2>4 DEF TypeOKCapacity
<1>4. Conserved' /\ Holding' /\ Mending'
  BY <1>1, <1>2 DEF Conserved, Holding, Mending
<1>5. Promise'
  <2>1. PromiseParts' /\ PromiseParts
    BY <1>1, <1>3, PromiseByParts, PromiseByPartsNext
  <2>2. InReview' = 0 /\ Outstanding' = Outstanding /\ InReview = 0
    BY <1>2 DEF InReview, Outstanding
  <2>3. left \in Nat /\ overran \in Nat
    BY <1>1, CapacityTypes
  <2> QED BY <1>1, <1>2, <2>1, <2>2, <2>3 DEF PromiseParts
<1> QED BY <1>3, <1>4, <1>5 DEF CapacitySound

(* A call of the editor is sent when it leaves what is still outstanding.  *)
LEMMA PreflightKeeps == CapacitySound /\ Preflight => CapacitySound'
<1> SUFFICES ASSUME CapacitySound, Preflight PROVE CapacitySound'
  OBVIOUS
<1>1. TypeOKCapacity /\ Conserved /\ Holding
  BY DEF CapacitySound
<1>2. /\ step = "preflight" /\ SendsAlone(ClosureCall) /\ step' \in {"revise", "wave"}
      /\ left >= FollowThrough + MinimumAuthor + ClosureCall
      /\ UNCHANGED <<editor, confirmed, estimate, wave, author, overran>>
  BY DEF Preflight
<1>3. ClosureCall \in Nat /\ left \in Nat /\ overran \in Nat
  BY <1>1, CapacityTypes, CapacityNumbers
<1>4. /\ left' = left - ClosureCall /\ left' \in Tokens /\ left' \in Nat /\ sent'
      /\ grant' \in [Callers -> Tokens] /\ Conserved'
  BY <1>1, <1>2, <1>3, AloneFacts
<1>5. sent' = TRUE
  BY <1>2 DEF SendsAlone, Sends
<1>6. TypeOKCapacity'
  BY <1>1, <1>2, <1>4, <1>5 DEF TypeOKCapacity, estimate, wave, author
<1>7. Holding' /\ Mending'
  BY <1>1, <1>2 DEF Holding, Mending, author, ProtectedReserve
<1>8. Promise'
  <2>1. PromiseParts'
    BY <1>6, PromiseByPartsNext
  <2>2. InReview' = 0 /\ ProtectedReserve' = ProtectedReserve /\ held' = 0
    BY <1>1, <1>2 DEF InReview, ProtectedReserve, Holding, author
  <2>3. left' >= ProtectedReserve
    BY <1>1, <1>2, <1>3, <1>4, ReserveNumbers
  <2>4. Outstanding' <= ProtectedReserve' /\ Outstanding' \in Nat /\ ProtectedReserve' \in Nat
    BY <2>1 DEF PromiseParts
  <2>5. left' >= Outstanding'
    BY <1>4, <2>2, <2>3, <2>4
  <2> QED BY <1>2, <2>1, <2>2, <2>5 DEF PromiseParts
<1> QED BY <1>4, <1>6, <1>7, <1>8 DEF CapacitySound

LEMMA ConfirmKeeps == CapacitySound /\ Confirm => CapacitySound'
<1> SUFFICES ASSUME CapacitySound, Confirm PROVE CapacitySound'
  OBVIOUS
<1>1. TypeOKCapacity /\ Conserved /\ Holding
  BY DEF CapacitySound
<1>2. /\ step = "confirm" /\ SendsAlone(ClosureCall) /\ step' = "integrate" /\ confirmed' = TRUE
      /\ left >= ClosureCall + Handoff
      /\ UNCHANGED <<editor, estimate, wave, author, overran>>
  BY DEF Confirm
<1>3. ClosureCall \in Nat /\ Handoff \in Nat /\ left \in Nat /\ overran \in Nat
  BY <1>1, CapacityTypes, CapacityNumbers
<1>4. /\ left' = left - ClosureCall /\ left' \in Tokens /\ left' \in Nat /\ sent'
      /\ grant' \in [Callers -> Tokens] /\ Conserved'
  BY <1>1, <1>2, <1>3, AloneFacts
<1>5. sent' = TRUE
  BY <1>2 DEF SendsAlone, Sends
<1>6. TypeOKCapacity'
  BY <1>1, <1>2, <1>4, <1>5 DEF TypeOKCapacity, estimate, wave, author
<1>7. Holding' /\ Mending'
  BY <1>1, <1>2 DEF Holding, Mending, author, ProtectedReserve
<1>8. Promise'
  <2>1. PromiseParts'
    BY <1>6, PromiseByPartsNext
  <2>2. InReview' = 0 /\ Outstanding' = Handoff /\ held' = 0
    BY <1>1, <1>2, <1>3 DEF InReview, Outstanding, Holding, author
  <2>3. left' >= Outstanding'
    BY <1>2, <1>3, <1>4, <2>2
  <2> QED BY <1>2, <2>1, <2>2, <2>3 DEF PromiseParts
<1> QED BY <1>4, <1>6, <1>7, <1>8 DEF CapacitySound

LEMMA IntegrateKeeps == CapacitySound /\ IntegrateHandoff => CapacitySound'
<1> SUFFICES ASSUME CapacitySound, IntegrateHandoff PROVE CapacitySound'
  OBVIOUS
<1>1. TypeOKCapacity /\ Conserved /\ Holding
  BY DEF CapacitySound
<1>2. /\ SendsAlone(FinalAllowance) /\ step' = "off" /\ step = "integrate"
      /\ UNCHANGED <<editor, confirmed, estimate, wave, author, overran>>
  BY DEF IntegrateHandoff, EndsRun
<1>3. FinalAllowance \in Int
  BY <1>1, CapacityTypes, CapacityNumbers DEF FinalAllowance, Lesser
<1>4. left' \in Tokens /\ grant' \in [Callers -> Tokens] /\ Conserved'
  BY <1>1, <1>2, <1>3, AloneFacts
<1>5. sent' = TRUE
  BY <1>2 DEF SendsAlone, Sends
<1>6. TypeOKCapacity'
  BY <1>1, <1>2, <1>4, <1>5 DEF TypeOKCapacity, estimate, wave, author
<1>7. Holding' /\ Mending' /\ Promise'
  BY <1>1, <1>2 DEF Holding, Mending, Promise, author, ProtectedReserve
<1> QED BY <1>4, <1>6, <1>7 DEF CapacitySound

LEMMA StopCapacityKeeps == CapacitySound /\ StopCapacity => CapacitySound'
<1> SUFFICES ASSUME CapacitySound, StopCapacity PROVE CapacitySound'
  OBVIOUS
<1>1. TypeOKCapacity /\ Conserved
  BY DEF CapacitySound
<1>2. /\ step' = "off" /\ grant' = NoGrants /\ deferred' = [r \in Reviewer |-> 0] /\ seen' = Unseen
      /\ fixes' = {} /\ fixed' = {} /\ repair' = 0 /\ mended' = 0
      /\ held' = 0 /\ offered' = 0 /\ attempt' = 0 /\ revising' = FALSE
      /\ UNCHANGED <<left, editor, confirmed, input, again, reported, waves, sent, overran>>
  BY DEF StopCapacity, EndsRun
<1>3. 0 \in Tokens /\ IsFiniteSet(Callers) /\ TokenLimit \in Nat
  BY CapacityNumbers DEF Tokens
<1>4. TypeOKCapacity'
  <2>1. grant' \in [Callers -> Tokens] /\ deferred' \in [Reviewer -> Tokens]
    BY <1>2, <1>3 DEF NoGrants
  <2>2. seen' \in [0 .. Revision -> Nat]
    BY <1>2 DEF Unseen
  <2>3. {revising', again', sent'} \subseteq BOOLEAN
    BY <1>1, <1>2, Zenon DEF TypeOKCapacity
  <2>4. /\ step' \in {"off", "author", "preflight", "wave", "reviews", "revise", "confirm", "integrate"}
        /\ fixes' \subseteq Reviewer /\ fixed' \subseteq Reviewer /\ repair' \in Tokens
        /\ mended' \in Nat /\ held' \in Nat /\ offered' \in Tokens /\ attempt' \in 0 .. 2
    BY <1>2, <1>3
  <2>5. /\ left' \in Tokens /\ editor' \in BOOLEAN /\ confirmed' \in BOOLEAN /\ input' \in Inputs
        /\ reported' \subseteq Reviewer /\ waves' \in 0 .. MaxWaves /\ overran' \in Nat
    BY <1>1, <1>2 DEF TypeOKCapacity
  <2> QED BY <2>1, <2>2, <2>3, <2>4, <2>5 DEF TypeOKCapacity
<1>5. Conserved'
  <2>1. \A c \in Callers : grant'[c] = 0
    BY <1>2 DEF NoGrants
  <2>2. SumFunctionOnSet(grant', Callers) = 0
    BY <1>3, <2>1, SumZero
  <2>3. left' <= TokenLimit /\ left' \in Nat
    BY <1>1, <1>2, CapacityTypes
  <2> QED BY <2>2, <2>3 DEF Conserved, Total
<1>6. Holding' /\ Mending' /\ Promise'
  BY <1>2 DEF Holding, Mending, Promise
<1> QED BY <1>4, <1>5, <1>6 DEF CapacitySound

-----------------------------------------------------------------------------
(* The n lowest of some roles are at most n.                               *)
LEMMA LowestCount ==
  ASSUME NEW roles \in SUBSET Reviewer, NEW n \in Nat
  PROVE  /\ LowestRoles(roles, n) \subseteq roles /\ IsFiniteSet(LowestRoles(roles, n))
         /\ Cardinality(LowestRoles(roles, n)) \in Nat
         /\ Cardinality(LowestRoles(roles, n)) <= n
<1> DEFINE L == LowestRoles(roles, n)
           below(r) == {q \in roles : q < r}
           T == 0 .. n - 1
           h == [r \in L |-> Cardinality(below(r))]
<1>1. IsFiniteSet(roles) /\ L \subseteq roles /\ \A r \in roles : r \in Nat
  BY CapacityNumbers, FS_Subset DEF LowestRoles
<1>2. IsFiniteSet(L)
  BY <1>1, FS_Subset
<1>3. \A r \in roles : IsFiniteSet(below(r)) /\ Cardinality(below(r)) \in Nat
  <2> TAKE r \in roles
  <2>1. below(r) \in SUBSET roles
    OBVIOUS
  <2> HIDE DEF below
  <2> QED BY <1>1, <2>1, FS_Subset, FS_CardinalityType
<1>4. \A r \in L : Cardinality(below(r)) < n
  BY DEF LowestRoles
<1>5. h \in [L -> T]
  <2> HIDE DEF L, below
  <2>1. \A r \in L : Cardinality(below(r)) \in 0 .. n - 1
    BY <1>1, <1>3, <1>4
  <2> QED BY <2>1
<1>6. \A r, s \in L : r < s => h[r] < h[s]
  <2> SUFFICES ASSUME NEW r \in L, NEW s \in L, r < s PROVE h[r] < h[s]
    OBVIOUS
  <2>1. r \in roles /\ s \in roles
    BY <1>1
  <2>2. below(r) \cup {r} \in SUBSET below(s) /\ r \notin below(r)
    BY <1>1, <2>1
  <2>3. h[r] = Cardinality(below(r)) /\ h[s] = Cardinality(below(s))
    OBVIOUS
  <2> HIDE DEF below, h, L
  <2>4. Cardinality(below(r) \cup {r}) = Cardinality(below(r)) + 1
    BY <1>3, <2>1, <2>2, FS_AddElement
  <2>5. Cardinality(below(r) \cup {r}) <= Cardinality(below(s))
    BY <1>3, <2>1, <2>2, FS_Subset
  <2> QED BY <1>3, <2>1, <2>3, <2>4, <2>5
<1>7. \A r, s \in L : h[r] = h[s] => r = s
  <2> SUFFICES ASSUME NEW r \in L, NEW s \in L, h[r] = h[s] PROVE r = s
    OBVIOUS
  <2>1. r \in Nat /\ s \in Nat /\ h[r] \in Int /\ h[s] \in Int
    <3>1. \A i \in T : i \in Int
      OBVIOUS
    <3> HIDE DEF h, L, T
    <3> QED BY <1>1, <1>5, <3>1
  <2> HIDE DEF h, L
  <2> QED BY <1>6, <2>1
<1>8. h \in Injection(L, T)
  <2>1. DOMAIN h = L
    OBVIOUS
  <2> HIDE DEF h, L, T
  <2> QED BY <1>5, <1>7, <2>1 DEF Injection, IsInjective
<1>9. IsFiniteSet(T) /\ Cardinality(T) = n
  <2>1. 0 \in Int /\ n - 1 \in Int
    OBVIOUS
  <2>2. IsFiniteSet(0 .. n - 1) /\ Cardinality(0 .. n - 1) = IF 0 > n - 1 THEN 0 ELSE n - 1 - 0 + 1
    BY <2>1, FS_Interval, Zenon
  <2>3. (IF 0 > n - 1 THEN 0 ELSE n - 1 - 0 + 1) = n
    OBVIOUS
  <2> QED BY <2>2, <2>3
<1>10. Cardinality(L) <= Cardinality(T)
  <2> HIDE DEF h, L, T
  <2> QED BY <1>8, <1>9, FS_Injection
<1> QED BY <1>1, <1>2, <1>9, <1>10, FS_CardinalityType

(* Corrections are paid out of the pool.                                   *)
LEMMA CorrectionsPaid ==
  ASSUME TypeOKCapacity, fixes # {}, NEW needs \in [fixes -> Inputs], NEW target \in Int,
         Available \in Nat
  PROVE  LET grants == Corrections(needs, target)
             required == Total(needs, fixes) IN
         /\ DOMAIN grants = fixes /\ \A r \in fixes : grants[r] \in Int
         /\ required \in Nat /\ Total(grants, fixes) \in Int
         /\ Total(grants, fixes) <= Larger(required, Lesser(target, Available))
<1> DEFINE required == Total(needs, fixes)
           pool     == Larger(required, Lesser(target, Available))
           k        == Cardinality(fixes)
           each     == (pool - required) \div k
           odd      == (pool - required) % k
           L        == LowestRoles(fixes, odd)
           one      == [r \in fixes |-> 1]
           more     == [r \in fixes |-> IF r \in L THEN 1 ELSE 0]
           part     == [r \in fixes |-> each]
           extra    == [r \in fixes |-> each + more[r]]
           grants   == Corrections(needs, target)
<1>1. IsFiniteSet(fixes) /\ fixes \in SUBSET Reviewer
  BY CapacityTypes
<1>2. \A r \in fixes : needs[r] \in Nat
  BY CapacityNumbers
<1>3. k \in Nat /\ k > 0
  BY <1>1, FS_CardinalityType, FS_EmptySet
<1>4. required \in Nat
  BY <1>1, <1>2, SumNat DEF Total
<1> HIDE DEF required, k
<1>5. pool \in Nat /\ pool >= required
  <2>1. Lesser(target, Available) \in Int
    BY LesserLarger
  <2> QED BY <1>4, <2>1, LesserLarger
<1> HIDE DEF pool
<1>6. each \in Nat /\ odd \in Nat /\ k * each + odd = pool - required
  <2>1. \A d \in Nat, c \in Nat : c > 0 => d \div c \in Nat /\ d % c \in Nat /\ c * (d \div c) + (d % c) = d
    OBVIOUS
  <2>2. pool - required \in Nat
    BY <1>4, <1>5
  <2> QED BY <1>3, <2>1, <2>2
<1>7. grants = [r \in fixes |-> needs[r] + each + (IF r \in L THEN 1 ELSE 0)]
  BY Zenon DEF Corrections, required, pool, k
<1> HIDE DEF each, odd
<1>8. L \subseteq fixes /\ IsFiniteSet(L) /\ Cardinality(L) \in Nat /\ Cardinality(L) <= odd
  BY <1>1, <1>6, LowestCount
<1> HIDE DEF L
<1>9. \A r \in fixes : more[r] \in Int /\ part[r] = each /\ extra[r] = part[r] + more[r]
  OBVIOUS
<1>10. SumFunctionOnSet(part, fixes) = k * each
  <2>1. \A r \in fixes : part[r] = each
    OBVIOUS
  <2> HIDE DEF part
  <2> QED BY <1>1, <1>6, <2>1, SumConst DEF k
<1>11. SumFunctionOnSet(more, fixes) = Cardinality(L)
  <2>1. \A r \in L : one[r] = 1 /\ more[r] = one[r]
    BY <1>8
  <2>2. \A r \in fixes \ L : more[r] = 0
    OBVIOUS
  <2> HIDE DEF one, more
  <2>3. SumFunctionOnSet(more, fixes) = SumFunctionOnSet(one, L)
    BY <1>1, <1>8, <2>1, <2>2, SumWithin
  <2>4. SumFunctionOnSet(one, L) = Cardinality(L) * 1
    BY <1>8, <2>1, SumConst
  <2> QED BY <1>8, <2>3, <2>4
<1>12. SumFunctionOnSet(extra, fixes) = SumFunctionOnSet(part, fixes) + SumFunctionOnSet(more, fixes)
  <2> HIDE DEF part, more, extra
  <2>1. \A r \in fixes : part[r] \in Int /\ more[r] \in Int /\ extra[r] = part[r] + more[r]
    BY <1>6, <1>9
  <2> QED BY <1>1, <2>1, SumPlus
<1>13. \A r \in fixes : extra[r] \in Int /\ grants[r] = needs[r] + extra[r] /\ grants[r] \in Int
  <2>1. \A r \in fixes : extra[r] = each + (IF r \in L THEN 1 ELSE 0) /\ extra[r] \in Int
    BY <1>6
  <2> HIDE DEF extra, grants
  <2> QED BY <1>2, <1>6, <1>7, <2>1
<1> HIDE DEF part, more, extra, one, grants
<1>14. SumFunctionOnSet(grants, fixes) = required + SumFunctionOnSet(extra, fixes)
  <2>1. \A r \in fixes : needs[r] \in Int
    BY <1>2
  <2> QED BY <1>1, <1>13, <2>1, SumPlus DEF required, Total
<1>15. Total(grants, fixes) \in Int /\ Total(grants, fixes) <= pool
  <2>1. PICK x \in Int : x = k * each
    BY <1>3, <1>6
  <2>2. Total(grants, fixes) = required + (x + Cardinality(L))
    BY <1>10, <1>11, <1>12, <1>14, <2>1 DEF Total
  <2>3. x + odd = pool - required
    BY <1>6, <2>1
  <2> QED BY <1>4, <1>5, <1>6, <1>8, <2>1, <2>2, <2>3
<1>16. DOMAIN grants = fixes
  BY <1>7
<1> QED BY <1>4, <1>13, <1>15, <1>16 DEF grants, required, pool

-----------------------------------------------------------------------------
(* A wave opens with what is free: its first calls, those that wait and    *)
(* the pool for repairs.                                                   *)
LEMMA OpensKeeps ==
  ASSUME CapacitySound, step = "wave", Quiet, waves < MaxWaves,
         NEW grants, DOMAIN grants = Due, \A r \in Due : grants[r] \in Tokens,
         NEW pool \in Tokens,
         Due = {} => pool <= Larger(0, Free),
         Due # {} => Total(grants, Due) + pool <= Free,
         Opens(grants, pool)
  PROVE  CapacitySound'
<1> DEFINE first == LowestRoles(Due, Concurrent)
           g == [r \in first |-> grants[r]]
           rest == Due \ first
           now == Total(grants, first)
           later == Total(grants, rest)
<1>1. TypeOKCapacity /\ Conserved /\ Holding /\ Promise
  BY DEF CapacitySound
<1>2. /\ left \in Nat /\ overran \in Nat /\ grant \in [Callers -> Nat] /\ TokenLimit \in Nat
      /\ IsFiniteSet(Due) /\ Due \in SUBSET Reviewer /\ Concurrent \in Nat /\ IsFiniteSet(Reviewer)
      /\ Reviewer \subseteq Callers /\ reported \subseteq Reviewer /\ held = 0
  BY <1>1, CapacityTypes, CapacityNumbers DEF Holding
<1>3. first \subseteq Due /\ IsFiniteSet(first) /\ IsFiniteSet(rest) /\ rest \subseteq Due
      /\ first \cap rest = {}
  BY <1>2, LowestCount, FS_Subset
<1>4. /\ Due = {} => UNCHANGED <<left, grant, sent>>
      /\ Due # {} => Sends(g)
      /\ deferred' = [r \in Reviewer |-> IF r \in rest THEN grants[r] ELSE 0]
      /\ repair' = pool /\ mended' = 0 /\ fixed' = {}
      /\ waves' = waves + 1 /\ step' = "reviews"
      /\ UNCHANGED <<editor, confirmed, estimate, author, overran>>
  BY Zenon DEF Opens
<1>5. PICK replayed \in SUBSET reported : fixes' = replayed /\ reported' = reported \ replayed
  BY Zenon DEF Opens
<1> HIDE DEF first
<1>6. DOMAIN g = first /\ (\A r \in first : g[r] = grants[r]) /\ \A r \in Due : grants[r] \in Nat
  BY <1>2 DEF Tokens
<1>7. Total(g, first) = now /\ now \in Nat /\ later \in Nat
  <2> HIDE DEF g, rest
  <2>1. \A r \in first : grants[r] \in Nat /\ grants[r] \in Int
    BY <1>3, <1>6
  <2>2. \A r \in rest : grants[r] \in Nat
    BY <1>3, <1>6
  <2>3. Total(g, first) = now
    BY <1>3, <1>6, <2>1, SumSame DEF Total
  <2> QED BY <1>3, <2>1, <2>2, <2>3, SumNat DEF Total
<1>8. Total(grants, Due) = now + later
  <2>1. \A r \in Due : grants[r] \in Int
    BY <1>6
  <2> HIDE DEF first
  <2> QED BY <1>2, <1>3, <2>1, SumRest DEF Total
<1> HIDE DEF g, now
<1>9. /\ left' \in Tokens /\ grant' \in [Callers -> Tokens] /\ Conserved'
      /\ sent' \in BOOLEAN /\ \A c \in Callers \ first : grant'[c] = 0
  <2>1. CASE Due = {}
    <3>1. left' = left /\ grant' = grant /\ sent' = sent
      BY <1>4, <2>1
    <3>2. left \in Tokens /\ grant \in [Callers -> Tokens] /\ sent \in BOOLEAN
      BY <1>1, Zenon DEF TypeOKCapacity
    <3> QED BY <1>1, <3>1, <3>2 DEF Conserved, Quiet
  <2>2. CASE Due # {}
    <3>1. DOMAIN g \subseteq Callers /\ \A c \in DOMAIN g : g[c] \in Int
      BY <1>2, <1>3, <1>6
    <3>2. Sends(g)
      BY <1>4, <2>2
    <3>3. sent' = TRUE
      BY <3>2 DEF Sends
    <3>4. /\ left' \in Tokens /\ grant' \in [Callers -> Tokens] /\ Conserved'
          /\ \A c \in Callers \ DOMAIN g : grant'[c] = grant[c]
      BY <1>1, <3>1, <3>2, SendsFacts
    <3> QED BY <1>6, <3>3, <3>4 DEF Quiet
  <2> QED BY <2>1, <2>2
<1>10. left' = left - now
  <2>1. CASE Due = {}
    <3>1. first = {}
      BY <1>3, <2>1
    <3>2. now = 0
      BY <3>1, SumEmpty DEF now, Total
    <3> QED BY <1>2, <1>4, <2>1, <3>2
  <2>2. CASE Due # {}
    BY <1>4, <1>6, <1>7, <2>2 DEF Sends
  <2> QED BY <2>1, <2>2
<1>11. deferred' \in [Reviewer -> Tokens]
  <2>1. \A r \in rest : grants[r] \in Tokens
    BY <1>3
  <2>2. 0 \in Tokens
    BY <1>2 DEF Tokens
  <2> HIDE DEF rest
  <2> QED BY <1>4, <2>1, <2>2
<1>12. TypeOKCapacity'
  <2>1. waves' \in 0 .. MaxWaves
    BY <1>1, <1>4, CapacityNumbers DEF TypeOKCapacity
  <2>2. fixes' \subseteq Reviewer /\ reported' \subseteq Reviewer /\ fixed' \subseteq Reviewer
        /\ mended' \in Nat /\ repair' \in Tokens
    BY <1>2, <1>4, <1>5
  <2>3. /\ editor' \in BOOLEAN /\ confirmed' \in BOOLEAN /\ input' \in Inputs
        /\ held' \in Nat /\ offered' \in Tokens /\ attempt' \in 0 .. 2
        /\ seen' \in [0 .. Revision -> Nat] /\ overran' \in Nat
    BY <1>1, <1>4 DEF TypeOKCapacity, estimate, author
  <2>4. {revising', again', sent'} \subseteq BOOLEAN
    BY <1>1, <1>4, <1>9, Zenon DEF TypeOKCapacity, estimate, author
  <2> QED BY <1>4, <1>9, <1>11, <2>1, <2>2, <2>3, <2>4 DEF TypeOKCapacity
<1>13. Holding'
  BY <1>1, <1>4 DEF Holding, author, ProtectedReserve
<1>14. Mending'
  <2>1. mended' >= Total(grant', fixed')
    <3>1. Total(grant', fixed') = 0 /\ mended' = 0
      BY <1>4, SumEmpty DEF Total
    <3> QED BY <3>1
  <2>2. ASSUME NEW r \in Reviewer, grant'[r] > 0 \/ r \in fixed' \/ r \in fixes'
        PROVE  deferred'[r] = 0
    <3>1. r \notin rest
      <4>1. r \in fixes' => r \notin Due
        BY <1>5 DEF Due
      <4>2. grant'[r] > 0 => r \in first
        BY <1>2, <1>9
      <4> QED BY <1>4, <2>2, <4>1, <4>2
    <3> QED BY <1>4, <3>1
  <2> QED BY <2>1, <2>2 DEF Mending
<1>15. Promised' = later
  <2>1. \A r \in rest : grants[r] \in Int /\ deferred'[r] = grants[r]
    BY <1>2, <1>3, <1>4, <1>6
  <2>2. \A r \in Reviewer \ rest : deferred'[r] = 0
    BY <1>4
  <2>3. rest \subseteq Reviewer
    BY <1>2, <1>3
  <2> HIDE DEF rest
  <2>4. SumFunctionOnSet(deferred', Reviewer) = SumFunctionOnSet(grants, rest)
    BY <1>2, <2>1, <2>2, <2>3, SumWithin
  <2> QED BY <2>4 DEF Promised, Total
<1> HIDE DEF later, rest
<1>16. RepairLeft' = pool
  BY <1>4, CapacityNumbers DEF RepairLeft, Larger, Tokens
<1>17. PromiseParts /\ PromiseParts'
  BY <1>1, <1>12, PromiseByParts, PromiseByPartsNext
<1>18. Outstanding' = Outstanding /\ held' = 0 /\ InReview = 0 /\ overran' = overran
  BY <1>2, <1>4 DEF Outstanding, author, InReview
<1>19. pool \in Nat
  BY <1>2 DEF Tokens
<1>20. Outstanding \in Nat /\ ProtectedReserve \in Nat /\ Outstanding <= ProtectedReserve
  BY <1>17 DEF PromiseParts
<1>21. now + later + pool <= Free => Promise'
  <2> SUFFICES ASSUME now + later + pool <= Free PROVE Promise'
    OBVIOUS
  <2>1. left - now >= Outstanding + (later + pool)
    BY <1>2, <1>7, <1>19, <1>20 DEF Free
  <2>2. left' >= Outstanding' + (Promised' + RepairLeft')
    BY <1>10, <1>15, <1>16, <1>18, <2>1
  <2> QED BY <1>17, <1>18, <2>2 DEF PromiseParts
<1>22. CASE Due # {}
  BY <1>8, <1>14, <1>13, <1>12, <1>9, <1>21, <1>22 DEF CapacitySound
<1>23. CASE Due = {}
  <2>1. first = {} /\ rest = {}
    BY <1>3, <1>23 DEF rest
  <2>2. now = 0 /\ later = 0
    BY <2>1, SumEmpty DEF now, later, Total
  <2>3. CASE Free >= 0
    <3>1. pool <= Free
      BY <1>2, <1>20, <1>23, <2>3 DEF Larger, Free
    <3> QED BY <1>9, <1>12, <1>13, <1>14, <1>19, <1>21, <2>2, <3>1
            DEF CapacitySound
  <2>4. CASE ~ (Free >= 0)
    <3>1. pool = 0
      BY <1>2, <1>19, <1>20, <1>23, <2>4 DEF Larger, Free
    <3>2. left' = left /\ sent' = sent
      BY <1>4, <1>23
    <3>3. InReview' = 0
      BY <1>4, <1>15, <1>16, <2>2, <3>1 DEF InReview
    <3>4. Promise'
      BY <1>1, <1>2, <1>4, <1>17, <1>18, <3>2, <3>3 DEF PromiseParts
    <3> QED BY <1>9, <1>12, <1>13, <1>14, <3>4 DEF CapacitySound
  <2> QED BY <2>3, <2>4
<1> QED BY <1>22, <1>23

LEMMA FirstWaveKeeps == CapacitySound /\ FirstWave => CapacitySound'
<1> SUFFICES ASSUME CapacitySound, FirstWave PROVE CapacitySound'
  OBVIOUS
<1> DEFINE n == Free - FirstRepair
           k == Cardinality(Due)
           part == Share(n)
           grants == FirstGrants
<1>1. TypeOKCapacity
  BY DEF CapacitySound
<1>2. /\ step = "wave" /\ Quiet /\ waves < MaxWaves /\ Opens(grants, FirstRepair)
      /\ Due # {} => Share(Free) >= Least
  BY DEF FirstWave
<1>3. /\ left \in Nat /\ left <= TokenLimit /\ TokenLimit \in Nat /\ IsFiniteSet(Due)
      /\ Due \in SUBSET Reviewer /\ Least \in Nat /\ Least > 0 /\ Fair \in Nat
      /\ RepairReserve \in Nat /\ DueUsage \in Nat /\ ProtectedReserve \in Nat
  BY <1>1, CapacityTypes, CapacityNumbers, ReserveNumbers DEF DueUsage
<1>4. Free \in Int /\ Free <= left
  BY <1>3 DEF Free
<1>5. k \in Nat /\ (Due # {} => k > 0)
  BY <1>3, FS_CardinalityType, FS_EmptySet
<1> DEFINE spare == Lesser(RepairReserve, Larger(0, Free - DueUsage))
<1>6. spare \in Nat /\ (Free >= 0 => spare <= Free) /\ (Free < 0 => spare = 0)
  <2>1. /\ Larger(0, Free - DueUsage) \in Nat
        /\ Free >= 0 => Larger(0, Free - DueUsage) <= Free
        /\ Free < 0 => Larger(0, Free - DueUsage) = 0
    BY <1>3, <1>4 DEF Larger
  <2> QED BY <1>3, <1>4, <2>1 DEF Lesser
<1>7. FirstRepair = IF Due # {} /\ Free >= Fair * k + Least THEN Larger(Least, spare) ELSE spare
  BY DEF FirstRepair
<1> HIDE DEF spare, k
<1>8. \A m \in Nat : Fair * m \in Nat
  BY <1>3
<1>9. FirstRepair \in Nat /\ (Free >= 0 => FirstRepair <= Free) /\ (Free < 0 => FirstRepair = 0)
  <2>1. PICK x \in Nat : x = Fair * k
    BY <1>5, <1>8
  <2>2. FirstRepair = IF Due # {} /\ Free >= x + Least THEN Larger(Least, spare) ELSE spare
    BY <1>7, <2>1
  <2> QED BY <1>3, <1>4, <1>6, <2>1, <2>2 DEF Larger
<1>10. FirstRepair \in Tokens
  BY <1>3, <1>4, <1>9 DEF Tokens
<1>11. ASSUME Due = {} PROVE FirstRepair <= Larger(0, Free)
  BY <1>4, <1>9 DEF Larger
<1>12. ASSUME Due # {}
       PROVE  (\A r \in Due : grants[r] \in Tokens) /\ Total(grants, Due) + FirstRepair <= Free
  <2>1. \A m \in Nat, c \in Nat : c > 0 => m \div c \in Nat /\ c * (m \div c) <= m /\ m \div c <= m
    <3> TAKE m \in Nat, c \in Nat
    <3> HAVE c > 0
    <3>1. m \div c \in Nat /\ m % c \in Nat /\ c * (m \div c) + (m % c) = m
      OBVIOUS
    <3>2. PICK q \in Nat : q = m \div c
      BY <3>1
    <3>3. c * q >= q
      BY <3>2
    <3> QED BY <3>1, <3>2, <3>3
  <2>2. Free > 0
    <3>1. Larger(1, k) = k
      BY <1>5, <1>12 DEF Larger
    <3>2. Share(Free) <= Free \div k
      <4>1. TokenLimit \div 4 \in Int /\ Free \div k \in Int
        BY <1>3, <1>4, <1>5, <1>12
      <4> QED BY <3>1, <4>1, LesserLarger DEF Share, k
    <3>3. \A m \in Int, c \in Nat : c > 0 /\ m <= 0 => m \div c <= 0
      OBVIOUS
    <3>4. Share(Free) > 0 /\ Share(Free) \in Int
      <4>1. TokenLimit \div 4 \in Int /\ Free \div k \in Int
        BY <1>3, <1>4, <1>5, <1>12
      <4>2. Share(Free) \in Int
        BY <3>1, <4>1, LesserLarger DEF Share, k
      <4> QED BY <1>2, <1>3, <1>12, <4>2
    <3>5. Free \div k \in Int /\ Free \div k > 0
      <4>1. Free \div k \in Int
        BY <1>4, <1>5, <1>12
      <4> QED BY <3>2, <3>4, <4>1
    <3> QED BY <1>4, <1>5, <1>12, <3>3, <3>5
  <2>3. n \in Nat /\ n <= TokenLimit /\ n + FirstRepair = Free
    BY <1>3, <1>4, <1>9, <2>2
  <2> HIDE DEF n
  <2>4. /\ part \in Nat /\ part <= n \div k /\ part <= TokenLimit /\ n \div k \in Nat
        /\ k * (n \div k) <= n
    <3>1. Larger(1, k) = k
      BY <1>5, <1>12 DEF Larger
    <3>2. n \div k \in Nat /\ k * (n \div k) <= n /\ n \div k <= n
      BY <1>5, <1>12, <2>1, <2>3
    <3>3. TokenLimit \div 4 \in Nat
      BY <1>3
    <3>4. part = Lesser(TokenLimit \div 4, n \div k)
      BY <3>1 DEF Share, k
    <3>5. part \in Nat /\ part <= n \div k
      BY <3>2, <3>3, <3>4, LesserLarger
    <3> QED BY <1>3, <2>3, <3>2, <3>5
  <2>5. \A r \in Due : grants[r] \in Nat /\ grants[r] <= part
    <3> TAKE r \in Due
    <3>1. grants[r] = Lesser(part, ReviewUsage(r))
      BY DEF FirstGrants, n
    <3>2. ReviewUsage(r) \in Nat
      BY <1>1, <1>3, ReserveNumbers
    <3> HIDE DEF part, grants
    <3> QED BY <2>4, <3>1, <3>2, LesserLarger
  <2> HIDE DEF part, grants
  <2>6. \A r \in Due : grants[r] \in Tokens
    BY <1>3, <2>4, <2>5 DEF Tokens
  <2> DEFINE equal == [r \in Due |-> n \div k]
  <2>7. \A r \in Due : equal[r] = n \div k
    OBVIOUS
  <2> HIDE DEF equal
  <2>8. SumFunctionOnSet(equal, Due) = k * (n \div k)
    BY <1>3, <2>4, <2>7, SumConst DEF k
  <2>9. SumFunctionOnSet(grants, Due) <= SumFunctionOnSet(equal, Due)
    <3>1. \A r \in Due : grants[r] \in Int /\ equal[r] \in Int /\ grants[r] <= equal[r]
      BY <2>4, <2>5, <2>7
    <3> QED BY <1>3, <3>1, SumBelow
  <2>10. Total(grants, Due) <= n
    <3>1. Total(grants, Due) \in Nat
      BY <1>3, <2>5, SumNat DEF Total
    <3>2. PICK x \in Int : x = k * (n \div k)
      BY <1>5, <2>4
    <3> QED BY <2>3, <2>4, <2>8, <2>9, <3>1, <3>2 DEF Total
  <2>11. Total(grants, Due) + FirstRepair <= Free
    <3>1. Total(grants, Due) \in Nat
      BY <1>3, <2>5, SumNat DEF Total
    <3> QED BY <1>9, <2>3, <2>10, <3>1
  <2> QED BY <2>6, <2>11
<1>13. DOMAIN grants = Due
  BY DEF FirstGrants
<1> HIDE DEF grants
<1>14. \A r \in Due : grants[r] \in Tokens
  BY <1>12
<1> QED BY <1>2, <1>10, <1>11, <1>12, <1>13, <1>14, OpensKeeps

LEMMA NextWaveKeeps == CapacitySound /\ NextWave => CapacitySound'
<1> SUFFICES ASSUME CapacitySound, NextWave PROVE CapacitySound'
  OBVIOUS
<1> DEFINE grants == [r \in Due |-> ReviewUsage(r)]
<1>1. TypeOKCapacity
  BY DEF CapacitySound
<1>2. /\ step = "wave" /\ Quiet /\ waves < MaxWaves /\ Due # {}
      /\ Free >= DueUsage + RepairReserve /\ Opens(grants, RepairReserve)
  BY DEF NextWave
<1>3. /\ left \in Nat /\ left <= TokenLimit /\ TokenLimit \in Nat /\ IsFiniteSet(Due)
      /\ Due \in SUBSET Reviewer /\ RepairReserve \in Nat /\ DueUsage \in Nat
      /\ ProtectedReserve \in Nat
  BY <1>1, CapacityTypes, CapacityNumbers, ReserveNumbers DEF DueUsage
<1>4. \A r \in Due : grants[r] \in Nat
  BY <1>1, <1>3, ReserveNumbers
<1>5. DOMAIN grants = Due /\ Total(grants, Due) = DueUsage
  BY DEF DueUsage, UsageOf
<1> HIDE DEF grants
<1>6. \A r \in Due : grants[r] <= DueUsage
  BY <1>3, <1>4, <1>5, SumTerm DEF Total
<1>7. Free <= TokenLimit /\ Free \in Int
  BY <1>3 DEF Free
<1>8. RepairReserve \in Tokens /\ \A r \in Due : grants[r] \in Tokens
  BY <1>2, <1>3, <1>4, <1>6, <1>7 DEF Tokens
<1> QED BY <1>2, <1>5, <1>8, OpensKeeps

-----------------------------------------------------------------------------
(* A reviewer that waited is sent with the grant it waited with, and only  *)
(* from what the others and the repairs leave.                             *)
LEMMA DispatchKeeps == CapacitySound /\ DispatchWaiting => CapacitySound'
<1> SUFFICES ASSUME CapacitySound, DispatchWaiting PROVE CapacitySound'
  OBVIOUS
<1>1. TypeOKCapacity /\ Conserved /\ Holding /\ Mending
  BY DEF CapacitySound
<1>2. PICK r \in LowestRoles(Waiting, 1) :
        /\ ReadsReserve(r) /\ Sends([q \in {r} |-> deferred[r]])
        /\ deferred' = [deferred EXCEPT ![r] = 0]
  BY DEF DispatchWaiting
<1>3. /\ step = "reviews"
      /\ UNCHANGED <<editor, confirmed, step, estimate, reported, fixes, fixed, repair, mended, waves,
                     author, overran>>
  BY DEF DispatchWaiting
<1>4. r \in Reviewer /\ deferred[r] > 0 /\ r \in Callers /\ r # 0
  BY CapacityNumbers DEF LowestRoles, Waiting
<1>5. /\ left \in Nat /\ overran \in Nat /\ deferred \in [Reviewer -> Nat] /\ IsFiniteSet(Reviewer)
      /\ IsFiniteSet(fixed) /\ fixed \subseteq Reviewer /\ grant \in [Callers -> Nat]
      /\ Reviewer \subseteq Callers /\ IsFiniteSet({r})
  BY <1>1, CapacityTypes, CapacityNumbers, FS_Singleton
<1> DEFINE d == deferred[r]
           g == [q \in {r} |-> d]
<1>6. d \in Nat /\ d > 0
  BY <1>4, <1>5
<1> HIDE DEF d
<1>7. DOMAIN g = {r} /\ g[r] = d
  OBVIOUS
<1>8. Sends(g)
  BY <1>2 DEF d
<1> HIDE DEF g
<1>9. /\ left' = left - Total(g, {r}) /\ left' \in Tokens /\ grant' \in [Callers -> Tokens]
      /\ Conserved' /\ grant'[r] = d /\ \A c \in Callers \ {r} : grant'[c] = grant[c]
  <2>1. DOMAIN g \subseteq Callers /\ \A c \in DOMAIN g : g[c] \in Int
    BY <1>4, <1>6, <1>7
  <2> QED BY <1>1, <1>7, <1>8, <2>1, SendsFacts
<1>10. Total(g, {r}) = d
  <2>1. SumFunctionOnSet(g, {r}) = g[r] + SumFunctionOnSet(g, {r} \ {r})
    BY <1>5, <1>6, <1>7, SumRemove
  <2>2. {r} \ {r} = {}
    OBVIOUS
  <2>3. SumFunctionOnSet(g, {r}) = d + 0
    BY <1>7, <2>1, <2>2, SumEmpty
  <2> QED BY <1>6, <2>3 DEF Total
<1>11. sent' = TRUE
  BY <1>8 DEF Sends
<1>12. deferred' \in [Reviewer -> Tokens] /\ deferred'[r] = 0
       /\ \A q \in Reviewer : q # r => deferred'[q] = deferred[q]
  <2>1. deferred \in [Reviewer -> Tokens] /\ 0 \in Tokens
    BY <1>1, CapacityNumbers DEF TypeOKCapacity, Tokens
  <2> QED BY <1>2, <1>4, <2>1
<1>13. TypeOKCapacity'
  BY <1>1, <1>3, <1>9, <1>11, <1>12 DEF TypeOKCapacity, estimate, author
<1>14. Holding'
  BY <1>1, <1>3 DEF Holding, author, ProtectedReserve
<1>15. Mending'
  <2>1. r \notin fixed /\ r \notin fixes
    BY <1>1, <1>3, <1>4, <1>5 DEF Mending
  <2>2. Total(grant', fixed) = Total(grant, fixed)
    <3>1. \A c \in fixed : grant[c] \in Int /\ grant[c] = grant'[c]
      BY <1>5, <1>9, <2>1
    <3> QED BY <1>5, <3>1, SumSame DEF Total
  <2>3. mended' >= Total(grant', fixed')
    BY <1>1, <1>3, <2>2 DEF Mending
  <2>4. ASSUME NEW q \in Reviewer, grant'[q] > 0 \/ q \in fixed' \/ q \in fixes'
        PROVE  deferred'[q] = 0
    <3>1. CASE q = r
      BY <1>12, <3>1
    <3>2. CASE q # r
      <4>1. grant[q] > 0 \/ q \in fixed \/ q \in fixes
        BY <1>3, <1>5, <1>9, <2>4, <3>2
      <4>2. deferred[q] = 0
        BY <1>1, <1>3, <4>1 DEF Mending
      <4> QED BY <1>12, <3>2, <4>2
    <3> QED BY <3>1, <3>2
  <2> QED BY <2>3, <2>4 DEF Mending
<1>16. Promised' = Promised - d /\ Promised \in Nat
  <2>1. \A x \in Reviewer : deferred[x] \in Int /\ (x # r => deferred'[x] = deferred[x])
    BY <1>5, <1>12
  <2>2. deferred'[r] \in Int
    BY <1>12
  <2>3. SumFunctionOnSet(deferred', Reviewer) = SumFunctionOnSet(deferred, Reviewer) - deferred[r] + deferred'[r]
    BY <1>4, <1>5, <2>1, <2>2, SumAt
  <2>4. SumFunctionOnSet(deferred, Reviewer) \in Nat
    BY <1>5, SumNat
  <2> QED BY <1>6, <1>12, <2>3, <2>4 DEF Promised, Total, d
<1>17. Promise'
  <2>1. PromiseParts /\ PromiseParts'
    BY <1>1, <1>13, PromiseByParts, PromiseByPartsNext
  <2>2. RepairLeft' = RepairLeft /\ Outstanding' = Outstanding /\ held' = 0
    BY <1>1, <1>3 DEF RepairLeft, Outstanding, Holding, author
  <2>3. /\ RepairLeft \in Nat /\ Outstanding \in Nat /\ ProtectedReserve \in Nat
        /\ Outstanding <= ProtectedReserve
    BY <2>1 DEF PromiseParts
  <2>4. left - ProtectedReserve - RepairLeft - (Promised - d) >= d
    BY <1>2 DEF ReadsReserve, Free, d
  <2>5. left - d >= Outstanding + ((Promised - d) + RepairLeft)
    BY <1>5, <1>6, <1>16, <2>3, <2>4
  <2>6. left' >= Outstanding' + (Promised' + RepairLeft')
    BY <1>9, <1>10, <1>16, <2>2, <2>5
  <2> QED BY <2>1, <2>2, <2>6 DEF PromiseParts
<1> QED BY <1>9, <1>13, <1>14, <1>15, <1>17 DEF CapacitySound

LEMMA PoolLeft ==
  \A p \in Nat, m \in Nat, a \in Nat, x \in Nat : p <= a /\ x <= a =>
    /\ Larger(0, p - (m + x)) \in Nat /\ x + Larger(0, p - (m + x)) <= a
BY DEF Larger

(* Corrections are sent when no review is in flight, and from the pool.    *)
LEMMA RequestKeeps == CapacitySound /\ RequestCorrections => CapacitySound'
<1> SUFFICES ASSUME CapacitySound, RequestCorrections PROVE CapacitySound'
  OBVIOUS
<1>1. TypeOKCapacity /\ Conserved /\ Holding /\ Mending
  BY DEF CapacitySound
<1>2. PICK needs \in [fixes -> Inputs], local \in BOOLEAN :
        LET target == IF local THEN Available ELSE Larger(0, repair' - mended)
            grants == Corrections(needs, target) IN
        /\ Total(needs, fixes) <= Available
        /\ Sends(grants) /\ mended' = mended + Total(grants, fixes)
  BY DEF RequestCorrections
<1> DEFINE target == IF local THEN Available ELSE Larger(0, repair' - mended)
           grants == Corrections(needs, target)
           required == Total(needs, fixes)
           paid == Total(grants, fixes)
<1>3. /\ required <= Available /\ Sends(grants) /\ mended' = mended + paid
  BY <1>2
<1>4. /\ step = "reviews" /\ Reviewing = {} /\ fixes # {}
      /\ repair' = Lesser(RepairReserve, Available)
      /\ fixed' = fixed \cup fixes /\ fixes' = {}
      /\ UNCHANGED <<editor, confirmed, step, estimate, deferred, reported, waves, author, overran>>
  BY DEF RequestCorrections
<1>5. /\ left \in Nat /\ left <= TokenLimit /\ TokenLimit \in Nat /\ overran \in Nat /\ mended \in Nat
      /\ IsFiniteSet(fixed) /\ fixed \subseteq Reviewer /\ grant \in [Callers -> Nat]
      /\ IsFiniteSet(fixes) /\ fixes \subseteq Reviewer
      /\ Reviewer \subseteq Callers /\ IsFiniteSet(fixed \cup fixes)
  BY <1>1, CapacityTypes, CapacityNumbers, FS_Union
<1>6. PromiseParts
  BY <1>1, PromiseByParts
<1>7. Promised \in Nat /\ ProtectedReserve \in Nat /\ Outstanding \in Nat /\ Outstanding <= ProtectedReserve
  BY <1>6 DEF PromiseParts
<1>8. /\ Available \in Nat /\ Available <= left
      /\ Available = left - ProtectedReserve - Promised \/ Available = 0
  BY <1>5, <1>7 DEF Available, Larger, Free
<1>9. RepairReserve \in Nat
  BY <1>1, ReserveNumbers
<1>10. repair' \in Nat /\ repair' <= Available
  BY <1>4, <1>8, <1>9 DEF Lesser
<1>11. target \in Int /\ (target = Available \/ target = Larger(0, repair' - mended))
  <2>1. repair' - mended \in Int
    BY <1>5, <1>10
  <2>2. Larger(0, repair' - mended) \in Int
    BY <2>1, LesserLarger
  <2> QED BY <1>8, <2>2
<1> HIDE DEF target
<1>12. /\ DOMAIN grants = fixes /\ \A r \in fixes : grants[r] \in Int
       /\ required \in Nat /\ paid \in Int /\ paid <= Larger(required, Lesser(target, Available))
  BY <1>1, <1>4, <1>8, <1>11, CorrectionsPaid
<1> HIDE DEF grants, required
<1>13. paid <= Available
  <2>1. Lesser(target, Available) <= Available /\ Lesser(target, Available) \in Int
    BY <1>8, <1>11, LesserLarger
  <2> HIDE DEF paid
  <2> QED BY <1>3, <1>8, <1>12, <2>1, LesserLarger
<1>14. /\ left' = left - paid /\ paid \in Nat /\ left' \in Tokens /\ grant' \in [Callers -> Tokens]
       /\ Conserved' /\ (\A r \in fixes : grant'[r] = grants[r] /\ grants[r] <= paid)
       /\ \A c \in Callers \ fixes : grant'[c] = grant[c]
  <2>1. DOMAIN grants \subseteq Callers /\ \A c \in DOMAIN grants : grants[c] \in Int
    BY <1>5, <1>12
  <2> QED BY <1>1, <1>3, <1>12, <2>1, SendsFacts
<1>15. paid > 0 /\ sent' = TRUE /\ \A r \in fixes : grants[r] > 0
  <2>1. sent' = TRUE /\ \A r \in fixes : grants[r] > 0
    BY <1>3, <1>12 DEF Sends
  <2>2. PICK r \in fixes : TRUE
    BY <1>4
  <2> QED BY <1>12, <1>14, <2>1, <2>2
<1>16. Available = left - ProtectedReserve - Promised
  BY <1>8, <1>13, <1>14, <1>15
<1> HIDE DEF paid
<1>17. TypeOKCapacity'
  <2>1. mended' \in Nat /\ repair' \in Tokens
    BY <1>3, <1>5, <1>8, <1>10, <1>14 DEF Tokens
  <2>2. fixed' \subseteq Reviewer /\ fixes' \subseteq Reviewer
    BY <1>4, <1>5
  <2> QED BY <1>1, <1>4, <1>14, <1>15, <2>1, <2>2 DEF TypeOKCapacity, estimate, author
<1>18. Holding'
  BY <1>1, <1>4 DEF Holding, author, ProtectedReserve
<1>19. Mending'
  <2>1. \A c \in fixed \ fixes : grant'[c] = 0
    <3> SUFFICES ASSUME NEW c \in fixed \ fixes PROVE grant'[c] = 0
      OBVIOUS
    <3>1. c \in Reviewer /\ c \in Callers /\ c \notin Reviewing
      BY <1>4, <1>5
    <3>2. grant[c] = 0
      BY <1>5, <3>1 DEF Reviewing
    <3> QED BY <1>14, <3>1, <3>2
  <2>2. \A c \in fixes : grants[c] \in Int /\ grant'[c] = grants[c]
    BY <1>12, <1>14
  <2>3. SumFunctionOnSet(grant', fixed \cup fixes) = SumFunctionOnSet(grants, fixes)
    <3>1. \A c \in (fixed \cup fixes) \ fixes : grant'[c] = 0
      BY <2>1
    <3>2. fixes \subseteq fixed \cup fixes
      OBVIOUS
    <3> QED BY <1>5, <2>2, <3>1, <3>2, SumWithin
  <2>4. mended' >= Total(grant', fixed')
    BY <1>3, <1>4, <1>5, <1>14, <2>3 DEF Total, paid
  <2>5. ASSUME NEW r \in Reviewer, grant'[r] > 0 \/ r \in fixed' \/ r \in fixes'
        PROVE  deferred'[r] = 0
    <3>1. grant[r] > 0 \/ r \in fixed \/ r \in fixes
      BY <1>4, <1>5, <1>14, <2>5
    <3>2. deferred[r] = 0
      BY <1>1, <1>4, <3>1 DEF Mending
    <3> QED BY <1>4, <3>2
  <2> QED BY <2>4, <2>5 DEF Mending
<1>20. Promise'
  <2>1. PromiseParts'
    BY <1>17, PromiseByPartsNext
  <2>2. Promised' = Promised /\ Outstanding' = Outstanding /\ held' = 0
    BY <1>1, <1>4 DEF Promised, Outstanding, Holding, author
  <2>3. PICK p \in Nat : p = repair' /\ p <= Available
    BY <1>10
  <2>4. RepairLeft' = Larger(0, p - (mended + paid))
    BY <1>3, <2>3 DEF RepairLeft
  <2>5. /\ Larger(0, p - (mended + paid)) \in Nat
        /\ paid + Larger(0, p - (mended + paid)) <= Available
    BY <1>5, <1>8, <1>13, <1>14, <2>3, PoolLeft
  <2>6. PICK q \in Nat : q = Larger(0, p - (mended + paid))
    BY <2>5
  <2>7. left - paid >= Outstanding + (Promised + q)
    BY <1>5, <1>7, <1>14, <1>16, <2>5, <2>6
  <2>8. left' >= Outstanding' + (Promised' + RepairLeft')
    BY <1>14, <2>2, <2>4, <2>6, <2>7
  <2> QED BY <2>1, <2>2, <2>8 DEF PromiseParts
<1> QED BY <1>14, <1>17, <1>18, <1>19, <1>20 DEF CapacitySound

-----------------------------------------------------------------------------
(* A call that returns gives back what it did not use; what it takes       *)
(* beyond its grant is counted in overran.                                 *)
LEMMA ChargeNumbers ==
  \A l \in Nat, v \in Nat, g \in Nat, u \in Nat, ch \in Nat :
    ch \in {u, Larger(g, u)} =>
      /\ Larger(0, l + g - ch) \in Nat /\ Larger(0, l + g - ch) <= l + g
      /\ v + Larger(0, u - g) \in Nat
      /\ Larger(0, l + g - ch) + (v + Larger(0, u - g)) >= l + v
      /\ Larger(0, l + g - ch) + (v + Larger(0, u - g)) >= l + v + g - ch
BY DEF Larger

LEMMA UsedFacts ==
  ASSUME TypeOKCapacity, Conserved, NEW c \in Callers, NEW used \in Nat, NEW final \in BOOLEAN,
         Used(c, used, final)
  PROVE  /\ grant[c] \in Nat /\ grant[c] > 0 /\ CallCharge(c, used, final) \in Nat
         /\ grant' \in [Callers -> Tokens] /\ grant'[c] = 0
         /\ \A q \in Callers : q # c => grant'[q] = grant[q]
         /\ left' \in Tokens /\ overran' \in Nat /\ seen' \in [0 .. Revision -> Nat] /\ Conserved'
         /\ \E l, v \in Nat :
              /\ l = left' /\ v = overran'
              /\ l + v >= left + overran /\ l + v >= left + overran + grant[c] - CallCharge(c, used, final)
<1> DEFINE g == grant[c]
           ch == CallCharge(c, used, final)
           l == Larger(0, left + g - ch)
           v == overran + Larger(0, used - g)
           rest == Total(grant, Callers \ {c})
<1>1. /\ left \in Nat /\ overran \in Nat /\ TokenLimit \in Nat /\ IsFiniteSet(Callers)
      /\ grant \in [Callers -> Nat] /\ grant \in [Callers -> Tokens] /\ seen \in [0 .. Revision -> Nat]
  BY CapacityTypes, CapacityNumbers DEF TypeOKCapacity
<1>2. /\ grant[c] > 0 /\ grant' = [grant EXCEPT ![c] = 0]
      /\ left' = l /\ overran' = v /\ Observe(c, used, final)
  BY DEF Used
<1>3. g \in Nat /\ ch \in Nat /\ ch \in {used, Larger(g, used)}
  BY <1>1 DEF CallCharge, Larger
<1> HIDE DEF g, ch
<1>4. /\ l \in Nat /\ l <= left + g /\ v \in Nat
      /\ l + v >= left + overran /\ l + v >= left + overran + g - ch
  BY <1>1, <1>3, ChargeNumbers
<1> HIDE DEF l, v
<1>5. grant'[c] = 0 /\ (\A q \in Callers : q # c => grant'[q] = grant[q])
      /\ grant' \in [Callers -> Tokens]
  <2>1. 0 \in Tokens
    BY <1>1 DEF Tokens
  <2> QED BY <1>1, <1>2, <2>1
<1>6. seen' \in [0 .. Revision -> Nat]
  <2> DEFINE value(k) == IF final /\ k \in Kinds(c) THEN Larger(seen[k], used) ELSE seen[k]
  <2>1. seen' = [k \in 0 .. Revision |-> value(k)]
    BY <1>2 DEF Observe
  <2>2. \A k \in 0 .. Revision : value(k) \in Nat
    BY <1>1 DEF Larger
  <2> HIDE DEF value
  <2> QED BY <2>1, <2>2
<1>7. Total(grant, Callers) = g + rest /\ rest \in Nat
  <2>1. Callers \ {c} \subseteq Callers
    OBVIOUS
  <2> QED BY <1>1, <2>1, SumRemove, SumNat, FS_Subset DEF Total, g
<1>8. Total(grant', Callers) = rest
  <2>1. \A q \in Callers : grant'[q] \in Int
    BY <1>1, <1>5
  <2>2. SumFunctionOnSet(grant', Callers) = grant'[c] + SumFunctionOnSet(grant', Callers \ {c})
    BY <1>1, <2>1, SumRemove
  <2>3. SumFunctionOnSet(grant', Callers \ {c}) = SumFunctionOnSet(grant, Callers \ {c})
    <3>1. \A q \in Callers \ {c} : grant'[q] \in Int /\ grant'[q] = grant[q]
      BY <1>5, <2>1
    <3>2. IsFiniteSet(Callers \ {c})
      BY <1>1, FS_Subset
    <3> QED BY <3>1, <3>2, SumSame
  <2> QED BY <1>5, <1>7, <2>2, <2>3 DEF Total
<1> HIDE DEF rest
<1>9. l + rest <= TokenLimit
  BY <1>1, <1>3, <1>4, <1>7 DEF Conserved
<1>10. left' \in Tokens /\ Conserved'
  BY <1>1, <1>2, <1>4, <1>7, <1>8, <1>9 DEF Tokens, Conserved
<1>11. \E l1, v1 \in Nat : /\ l1 = left' /\ v1 = overran'
                           /\ l1 + v1 >= left + overran /\ l1 + v1 >= left + overran + g - ch
  BY <1>2, <1>4
<1>12. grant[c] \in Nat /\ CallCharge(c, used, final) \in Nat /\ overran' \in Nat
  BY <1>2, <1>3, <1>4 DEF g, ch
<1> QED BY <1>2, <1>5, <1>6, <1>10, <1>11, <1>12 DEF g, ch

LEMMA UsesNat ==
  ASSUME TypeOKCapacity, NEW c \in Callers, NEW used \in Uses(c)
  PROVE  used \in Nat
<1>1. grant[c] \in Nat
  BY CapacityTypes
<1> QED BY <1>1 DEF Uses

LEMMA CallReturnsKeeps ==
  ASSUME CapacitySound, NEW used \in Nat, NEW final \in BOOLEAN, CallReturns(used, final)
  PROVE  CapacitySound'
<1>1. TypeOKCapacity /\ Conserved /\ Holding /\ Mending /\ Promise
  BY DEF CapacitySound
<1>2. /\ Used(0, used, final) /\ (step' = "off" \/ step' = step) /\ step # "off"
      /\ UNCHANGED <<editor, confirmed, input, again, deferred, reported, fixes, fixed, repair, waves,
                     author, sent>>
  BY DEF CallReturns, EndsRun
<1>3. 0 \in Callers /\ 0 \notin Reviewer /\ fixed \subseteq Reviewer /\ IsFiniteSet(fixed)
      /\ Reviewer \subseteq Callers /\ grant \in [Callers -> Nat]
  BY <1>1, CapacityTypes, CapacityNumbers
<1>4. mended' = mended
  BY <1>2, <1>3 DEF Used
<1>5. /\ grant' \in [Callers -> Tokens] /\ grant'[0] = 0
      /\ \A q \in Callers : q # 0 => grant'[q] = grant[q]
      /\ left' \in Tokens /\ overran' \in Nat /\ seen' \in [0 .. Revision -> Nat] /\ Conserved'
      /\ \E l, v \in Nat : l = left' /\ v = overran' /\ l + v >= left + overran
  BY <1>1, <1>2, <1>3, UsedFacts
<1>6. TypeOKCapacity'
  <2>1. step' \in {"off", "author", "preflight", "wave", "reviews", "revise", "confirm", "integrate"}
    BY <1>1, <1>2 DEF TypeOKCapacity
  <2> QED BY <1>1, <1>2, <1>4, <1>5, <2>1 DEF TypeOKCapacity, author
<1>7. Holding'
  BY <1>1, <1>2 DEF Holding, author, ProtectedReserve
<1>8. Mending'
  <2>1. Total(grant', fixed) = Total(grant, fixed)
    <3>1. \A q \in fixed : grant[q] \in Int /\ grant[q] = grant'[q]
      BY <1>3, <1>5
    <3> QED BY <1>3, <3>1, SumSame DEF Total
  <2>2. \A q \in Reviewer : grant'[q] = grant[q]
    BY <1>3, <1>5
  <2> QED BY <1>1, <1>2, <1>4, <2>1, <2>2 DEF Mending
<1>9. Promise'
  <2>1. PromiseParts /\ PromiseParts'
    BY <1>1, <1>6, PromiseByParts, PromiseByPartsNext
  <2>2. CASE step' = "off"
    BY <2>2 DEF Promise
  <2>3. CASE step' = step
    <3>1. /\ held' = held /\ Outstanding' = Outstanding /\ InReview' = InReview /\ sent' = sent
      BY <1>2, <1>4, <2>3 DEF author, Outstanding, InReview, Promised, RepairLeft
    <3>2. PICK l, v \in Nat : l = left' /\ v = overran' /\ l + v >= left + overran
      BY <1>5
    <3>3. left \in Nat /\ overran \in Nat /\ held \in Nat /\ Outstanding \in Nat /\ InReview \in Nat
      BY <1>1, <2>1, CapacityTypes DEF PromiseParts
    <3>4. ASSUME sent PROVE l + v >= held /\ l + v >= Outstanding + InReview
      <4>1. left + overran >= held /\ left + overran >= Outstanding + InReview
        BY <1>1, <1>2, <2>1, <3>4 DEF PromiseParts
      <4>2. l + v >= left + overran
        BY <3>2
      <4>3. PICK o \in Nat : o = Outstanding + InReview
        BY <3>3
      <4> QED BY <3>3, <4>1, <4>2, <4>3
    <3>5. sent' /\ step' # "off" =>
            left' + overran' >= held' /\ left' + overran' >= Outstanding' + InReview'
      BY <3>1, <3>2, <3>4
    <3> QED BY <2>1, <3>5 DEF PromiseParts
  <2> QED BY <1>2, <2>2, <2>3
<1> QED BY <1>5, <1>6, <1>7, <1>8, <1>9 DEF CapacitySound

LEMMA RepairBack ==
  \A p \in Nat, m \in Nat, g \in Nat, ch \in Nat : m >= g =>
    /\ m - g + ch \in Nat
    /\ \/ Larger(0, p - (m - g + ch)) <= Larger(0, p - m)
       \/ Larger(0, p - (m - g + ch)) <= Larger(0, p - m) + g - ch
BY DEF Larger

LEMMA ReportReturnsKeeps ==
  ASSUME CapacitySound, NEW r \in Reviewer, NEW used \in Nat, NEW final \in BOOLEAN,
         ReportReturns(r, used, final)
  PROVE  CapacitySound'
<1> DEFINE g == grant[r]
           ch == CallCharge(r, used, final)
<1>1. TypeOKCapacity /\ Conserved /\ Holding /\ Mending /\ Promise
  BY DEF CapacitySound
<1>2. /\ step = "reviews" /\ Used(r, used, final) /\ (step' = "off" \/ step' = step)
      /\ reported' \subseteq reported \cup {r} /\ fixes' \subseteq fixes \cup {r}
      /\ UNCHANGED <<editor, confirmed, input, again, deferred, fixed, repair, waves, author, sent>>
  BY DEF ReportReturns, EndsRun
<1>3. /\ fixed \subseteq Reviewer /\ fixes \subseteq Reviewer /\ reported \subseteq Reviewer
      /\ IsFiniteSet(fixed) /\ Reviewer \subseteq Callers /\ grant \in [Callers -> Nat]
      /\ mended \in Nat /\ repair \in Nat /\ r \in Callers
  BY <1>1, CapacityTypes, CapacityNumbers
<1>4. mended' = IF r \in fixed THEN mended - g + ch ELSE mended
  BY <1>2 DEF Used
<1>5. /\ g \in Nat /\ g > 0 /\ ch \in Nat /\ grant' \in [Callers -> Tokens] /\ grant'[r] = 0
      /\ \A q \in Callers : q # r => grant'[q] = grant[q]
      /\ left' \in Tokens /\ overran' \in Nat /\ seen' \in [0 .. Revision -> Nat] /\ Conserved'
      /\ \E l, v \in Nat : /\ l = left' /\ v = overran'
                           /\ l + v >= left + overran /\ l + v >= left + overran + g - ch
  BY <1>1, <1>2, <1>3, UsedFacts
<1> HIDE DEF ch
<1>6. r \in fixed => mended >= g /\ Total(grant', fixed) = Total(grant, fixed) - g
  <2> SUFFICES ASSUME r \in fixed
               PROVE  mended >= g /\ Total(grant', fixed) = Total(grant, fixed) - g
    OBVIOUS
  <2>1. \A q \in fixed : grant[q] \in Nat /\ grant[q] \in Int
    BY <1>3
  <2>2. g <= SumFunctionOnSet(grant, fixed) /\ SumFunctionOnSet(grant, fixed) \in Nat
    BY <1>3, <2>1, SumTerm, SumNat
  <2>3. mended >= SumFunctionOnSet(grant, fixed)
    BY <1>1, <1>2 DEF Mending, Total
  <2>4. SumFunctionOnSet(grant', fixed) = SumFunctionOnSet(grant, fixed) - grant[r] + grant'[r]
    <3>1. \A q \in fixed : grant[q] \in Int /\ (q # r => grant'[q] = grant[q])
      BY <1>3, <1>5, <2>1
    <3>2. grant'[r] \in Int
      BY <1>5
    <3> QED BY <1>3, <3>1, <3>2, SumAt
  <2> HIDE DEF g
  <2>5. mended >= g
    BY <1>3, <1>5, <2>2, <2>3
  <2>6. Total(grant', fixed) = Total(grant, fixed) - g
    BY <1>5, <2>2, <2>4 DEF Total, g
  <2> QED BY <2>5, <2>6
<1>7. r \notin fixed => Total(grant', fixed) = Total(grant, fixed)
  <2> SUFFICES ASSUME r \notin fixed PROVE Total(grant', fixed) = Total(grant, fixed)
    OBVIOUS
  <2>1. \A q \in fixed : grant[q] \in Int /\ grant[q] = grant'[q]
    BY <1>3, <1>5
  <2> QED BY <1>3, <2>1, SumSame DEF Total
<1> HIDE DEF g
<1>8. PICK m \in Nat : /\ m = mended' /\ m = IF r \in fixed THEN mended - g + ch ELSE mended
                       /\ m >= Total(grant', fixed)
  <2>1. mended >= Total(grant, fixed) /\ Total(grant, fixed) \in Nat
    <3>1. \A q \in fixed : grant[q] \in Nat
      BY <1>3
    <3> QED BY <1>1, <1>2, <1>3, <3>1, SumNat DEF Mending, Total
  <2>2. CASE r \in fixed
    <3>1. mended - g + ch \in Nat /\ mended - g + ch >= Total(grant, fixed) - g
      BY <1>3, <1>5, <1>6, <2>1, <2>2
    <3> QED BY <1>4, <1>6, <2>2, <3>1
  <2>3. CASE r \notin fixed
    BY <1>3, <1>4, <1>7, <2>1, <2>3
  <2> QED BY <2>2, <2>3
<1>9. TypeOKCapacity'
  <2>1. step' \in {"off", "author", "preflight", "wave", "reviews", "revise", "confirm", "integrate"}
    BY <1>1, <1>2 DEF TypeOKCapacity
  <2>2. reported' \subseteq Reviewer /\ fixes' \subseteq Reviewer /\ mended' \in Nat
    BY <1>2, <1>3, <1>8
  <2> QED BY <1>1, <1>2, <1>5, <2>1, <2>2 DEF TypeOKCapacity, author
<1>10. Holding'
  BY <1>1, <1>2 DEF Holding, author, ProtectedReserve
<1>11. Mending'
  <2>1. mended' >= Total(grant', fixed')
    BY <1>2, <1>8
  <2>2. ASSUME NEW q \in Reviewer, grant'[q] > 0 \/ q \in fixed' \/ q \in fixes'
        PROVE  deferred'[q] = 0
    <3>1. CASE q = r
      BY <1>1, <1>2, <1>5, <3>1 DEF Mending, g
    <3>2. CASE q # r
      <4>1. grant[q] > 0 \/ q \in fixed \/ q \in fixes
        BY <1>2, <1>3, <1>5, <2>2, <3>2
      <4> QED BY <1>1, <1>2, <4>1 DEF Mending
    <3> QED BY <3>1, <3>2
  <2> QED BY <2>1, <2>2 DEF Mending
<1>12. Promise'
  <2>1. PromiseParts /\ PromiseParts'
    BY <1>1, <1>9, PromiseByParts, PromiseByPartsNext
  <2>2. CASE step' = "off"
    BY <2>2 DEF Promise
  <2>3. CASE step' = step
    <3> DEFINE back == Larger(0, repair - m)
    <3>1. /\ held' = held /\ Outstanding' = Outstanding /\ InReview' = Promised + back
          /\ sent' = sent
      BY <1>2, <1>8, <2>3 DEF author, Outstanding, InReview, Promised, RepairLeft
    <3>2. PICK l, v \in Nat : /\ l = left' /\ v = overran' /\ l + v >= left + overran
                              /\ l + v >= left + overran + g - ch
      BY <1>5
    <3>3. /\ left \in Nat /\ overran \in Nat /\ held \in Nat /\ Outstanding \in Nat
          /\ Promised \in Nat /\ RepairLeft \in Nat /\ InReview = Promised + RepairLeft
      BY <1>1, <1>2, <2>1, CapacityTypes DEF PromiseParts, InReview
    <3>4. back \in Nat /\ (back <= RepairLeft \/ back <= RepairLeft + g - ch)
      <4>1. back \in Nat
        BY <1>3 DEF Larger
      <4>2. CASE r \in fixed
        <5>1. mended >= g /\ m = mended - g + ch
          BY <1>6, <1>8, <4>2
        <5>2. \/ Larger(0, repair - (mended - g + ch)) <= Larger(0, repair - mended)
              \/ Larger(0, repair - (mended - g + ch)) <= Larger(0, repair - mended) + g - ch
          BY <1>3, <1>5, <5>1, RepairBack
        <5> QED BY <4>1, <5>1, <5>2 DEF RepairLeft
      <4>3. CASE r \notin fixed
        <5>1. back = RepairLeft
          BY <1>8, <4>3 DEF RepairLeft
        <5> QED BY <3>3, <5>1
      <4> QED BY <4>2, <4>3
    <3> HIDE DEF back
    <3>5. ASSUME sent PROVE l + v >= held /\ l + v >= Outstanding + (Promised + back)
      <4>1. left + overran >= held /\ left + overran >= Outstanding + (Promised + RepairLeft)
        BY <1>1, <1>2, <2>1, <3>3, <3>5 DEF PromiseParts
      <4>2. l + v >= left + overran /\ l + v >= left + overran + g - ch
        BY <3>2
      <4>3. g \in Nat /\ ch \in Nat
        BY <1>5
      <4> QED BY <3>3, <3>4, <4>1, <4>2, <4>3
    <3>6. sent' /\ step' # "off" =>
            left' + overran' >= held' /\ left' + overran' >= Outstanding' + InReview'
      BY <3>1, <3>2, <3>5
    <3> QED BY <2>1, <3>6 DEF PromiseParts
  <2> QED BY <1>2, <2>2, <2>3
<1> QED BY <1>5, <1>9, <1>10, <1>11, <1>12 DEF CapacitySound

LEMMA WaveDoneKeeps == CapacitySound /\ WaveDone => CapacitySound'
<1> SUFFICES ASSUME CapacitySound, WaveDone PROVE CapacitySound'
  OBVIOUS
<1>1. TypeOKCapacity /\ Conserved /\ Holding /\ Promise
  BY DEF CapacitySound
<1>2. /\ step = "reviews" /\ step' \in {"revise", "confirm", "integrate"}
      /\ fixed' = {} /\ repair' = 0 /\ mended' = 0
      /\ UNCHANGED <<left, editor, confirmed, grant, estimate, deferred, reported, fixes, waves, author,
                     sent, overran>>
  BY DEF WaveDone
<1>3. TypeOKCapacity'
  <2>1. 0 \in Tokens
    BY CapacityNumbers DEF Tokens
  <2> QED BY <1>1, <1>2, <2>1 DEF TypeOKCapacity, estimate, author
<1>4. Conserved' /\ Holding' /\ Mending'
  BY <1>1, <1>2 DEF Conserved, Holding, Mending, author, ProtectedReserve
<1>5. Promise'
  <2>1. PromiseParts /\ PromiseParts'
    BY <1>1, <1>3, PromiseByParts, PromiseByPartsNext
  <2>2. InReview' = 0 /\ Outstanding' = Outstanding /\ held' = held /\ left' = left
        /\ overran' = overran /\ sent' = sent /\ step # "off"
    BY <1>2 DEF InReview, Outstanding, author
  <2>3. left \in Nat /\ overran \in Nat /\ held \in Nat /\ Outstanding \in Nat /\ InReview \in Nat
    BY <1>1, <2>1, CapacityTypes DEF PromiseParts
  <2>4. ASSUME sent PROVE left + overran >= held /\ left + overran >= Outstanding + 0
    <3>1. left + overran >= held /\ left + overran >= Outstanding + InReview
      BY <1>1, <2>1, <2>2, <2>4 DEF PromiseParts
    <3> QED BY <2>3, <3>1
  <2>5. sent' /\ step' # "off" =>
          left' + overran' >= held' /\ left' + overran' >= Outstanding' + InReview'
    BY <2>2, <2>4
  <2> QED BY <2>1, <2>5 DEF PromiseParts
<1> QED BY <1>3, <1>4, <1>5 DEF CapacitySound

LEMMA CapacityStart == CapacityInit => CapacitySound
<1> SUFFICES ASSUME CapacityInit PROVE CapacitySound
  OBVIOUS
<1>1. /\ left \in Tokens /\ editor \in BOOLEAN /\ confirmed = FALSE /\ input \in Inputs
      /\ step \in {"author", "preflight", "wave", "revise", "confirm", "integrate"}
      /\ grant = NoGrants /\ deferred = [r \in Reviewer |-> 0]
      /\ reported \in {{}, Reviewer, {1}} /\ fixes = {} /\ fixed = {}
      /\ repair = 0 /\ mended = 0 /\ held = 0 /\ offered = 0 /\ attempt = 0 /\ waves = 0
      /\ seen \in {Unseen} \cup Past /\ revising = FALSE /\ again \in BOOLEAN
      /\ sent = FALSE /\ overran = 0
  BY CapacityAssumptions DEF CapacityInit, Tokens
<1>2. 0 \in Tokens /\ TokenLimit \in Nat /\ IsFiniteSet(Callers) /\ 0 \in 0 .. MaxWaves
  BY CapacityNumbers DEF Tokens
<1>3. TypeOKCapacity
  <2>1. seen \in [0 .. Revision -> Nat]
    BY <1>1, CapacityNumbers DEF Unseen, Past
  <2>2. grant \in [Callers -> Tokens] /\ deferred \in [Reviewer -> Tokens]
    BY <1>1, <1>2 DEF NoGrants
  <2>3. reported \subseteq Reviewer /\ fixes \subseteq Reviewer /\ fixed \subseteq Reviewer
    BY <1>1, CapacityNumbers DEF Reviewer
  <2>4. {revising, again, sent} \subseteq BOOLEAN /\ confirmed \in BOOLEAN
    BY <1>1, Zenon
  <2>5. /\ step \in {"off", "author", "preflight", "wave", "reviews", "revise", "confirm", "integrate"}
        /\ repair \in Tokens /\ mended \in Nat /\ held \in Nat /\ offered \in Tokens
        /\ attempt \in 0 .. 2 /\ waves \in 0 .. MaxWaves /\ overran \in Nat
    BY <1>1, <1>2
  <2> QED BY <1>1, <2>1, <2>2, <2>3, <2>4, <2>5 DEF TypeOKCapacity
<1>4. Conserved
  <2>1. \A c \in Callers : grant[c] = 0
    BY <1>1 DEF NoGrants
  <2>2. SumFunctionOnSet(grant, Callers) = 0
    BY <1>2, <2>1, SumZero
  <2>3. left <= TokenLimit /\ left \in Nat
    BY <1>1, <1>2 DEF Tokens
  <2> QED BY <2>2, <2>3 DEF Conserved, Total
<1>5. Holding /\ Mending /\ Promise
  BY <1>1 DEF Holding, Mending, Promise
<1> QED BY <1>3, <1>4, <1>5 DEF CapacitySound

LEMMA CapacityStep == CapacitySound /\ [CapacityNext]_capvars => CapacitySound'
<1> SUFFICES ASSUME CapacitySound, [CapacityNext]_capvars PROVE CapacitySound'
  OBVIOUS
<1>1. CASE StopCapacity
  BY <1>1, StopCapacityKeeps
<1>2. CASE DraftFirst
  BY <1>2, DraftFirstKeeps
<1>3. CASE Revise
  BY <1>3, ReviseKeeps
<1>4. CASE CorrectDraft
  BY <1>4, CorrectDraftKeeps
<1>5. CASE AcceptDraft
  BY <1>5, AcceptDraftKeeps
<1>6. CASE Preflight
  BY <1>6, PreflightKeeps
<1>7. CASE Confirm
  BY <1>7, ConfirmKeeps
<1>8. CASE IntegrateHandoff
  BY <1>8, IntegrateKeeps
<1>9. CASE FirstWave
  BY <1>9, FirstWaveKeeps
<1>10. CASE NextWave
  BY <1>10, NextWaveKeeps
<1>11. CASE DispatchWaiting
  BY <1>11, DispatchKeeps
<1>12. CASE RequestCorrections
  BY <1>12, RequestKeeps
<1>13. CASE WaveDone
  BY <1>13, WaveDoneKeeps
<1>14. ASSUME NEW final \in BOOLEAN, NEW used \in Uses(0), CallReturns(used, final)
       PROVE  CapacitySound'
  <2>1. used \in Nat
    BY UsesNat, CapacityNumbers DEF CapacitySound
  <2> QED BY <1>14, <2>1, CallReturnsKeeps
<1>15. ASSUME NEW final \in BOOLEAN, NEW r \in Reviewer, NEW used \in Uses(r),
              ReportReturns(r, used, final)
       PROVE  CapacitySound'
  <2>1. used \in Nat
    BY UsesNat, CapacityNumbers DEF CapacitySound
  <2> QED BY <1>15, <2>1, ReportReturnsKeeps
<1>16. CASE UNCHANGED capvars
  BY <1>16 DEF CapacitySound, TypeOKCapacity, Conserved, Holding, Mending, Promise, capvars,
     ProtectedReserve, Owed, Promised, RepairLeft
<1> QED BY <1>1, <1>2, <1>3, <1>4, <1>5, <1>6, <1>7, <1>8, <1>9, <1>10, <1>11, <1>12, <1>13, <1>14,
           <1>15, <1>16 DEF CapacityNext

(* Whatever the calls of a run use, correct or lose, TypeOKCapacity and    *)
(* the promises of its invariant hold.                                     *)
THEOREM CapacityHolds == CapacitySpec => []CapacitySound
BY CapacityStart, CapacityStep, PTL DEF CapacitySpec

(* PromisesFunded: each later call finds what was promised to it, and a    *)
(* run that spent anything can still pay its final summary.                *)
THEOREM PromisesFundedHolds == CapacitySpec => []PromisesFunded
<1>1. CapacitySound => PromisesFunded
  <2> SUFFICES ASSUME CapacitySound PROVE PromisesFunded
    OBVIOUS
  <2>1. TypeOKCapacity /\ Promise
    BY DEF CapacitySound
  <2>2. PromiseParts
    BY <2>1, PromiseByParts
  <2>3. ASSUME sent, step = "integrate", overran <= Handoff - Least - SummaryMin
        PROVE  FinalAllowance >= SummaryMin
    <3>1. left + overran >= Outstanding + InReview
      BY <2>1, <2>2, <2>3 DEF PromiseParts
    <3>2. InReview = 0
      BY <2>3 DEF InReview
    <3>3. /\ Handoff \in Nat /\ ClosureCall \in Nat /\ Least \in Nat /\ SummaryMin \in Nat
          /\ left \in Nat /\ overran \in Nat
      BY <2>1, CapacityTypes, CapacityNumbers
    <3>4. Outstanding >= Handoff
      BY <3>3 DEF Outstanding
    <3>5. Outstanding \in Nat
      BY <2>2 DEF PromiseParts
    <3>6. left - Least >= SummaryMin /\ Handoff >= SummaryMin
      BY <2>3, <3>1, <3>2, <3>3, <3>4, <3>5
    <3> QED BY <3>3, <3>6 DEF FinalAllowance, Lesser
  <2> QED BY <2>1, <2>3 DEF PromisesFunded, Promise
<1> QED BY <1>1, CapacityHolds, PTL

-----------------------------------------------------------------------------
(* The production of a manuscript: SpecialistCampaign.                     *)

Everyone == Draft \X Role

(* Versions are given in order; what carries one has one that was given.   *)
Numbered ==
  /\ version <= versions /\ versions <= MaxEdits + latest /\ latest <= MaxDrafts
  /\ \A i \in DOMAIN drafts : drafts[i].ver >= 1 /\ drafts[i].ver <= versions
  /\ \A c \in Everyone : Of(c).answered <= versions
  /\ \A i \in DOMAIN reports : reports[i].draft <= latest
  /\ runs = 0 => drafts = <<>>
  /\ status = "pending" <=> drafts = <<>>

Unreviewed == \A i \in DOMAIN reports : reports[i].draft # latest

(* The editor has not cleared the draft for its review.                    *)
Unready ==
  /\ editorial
  /\ closure["preflight"].result \in {"passed", "needs_revision"} => Unrepaired

(* Where the runner stands agrees with the status and with what the draft  *)
(* has gone through: an author is never at work on a draft whose review    *)
(* was begun and not ended.                                                *)
StandsAt(x) ==
  /\ x.pc \notin {"off", "author", "apply"} => drafts # <<>>
  /\ x.pc \in {"author", "apply"} /\ status = "draft_produced" => Unreviewed
  /\ x.pc \in {"respond", "repaired"} => status = "draft_produced"
  /\ x.pc \in {"preflight", "called"} => status # "needs_revision" \/ x.skips
  /\ x.skips => x.pc = "preflight" /\ status = "needs_revision" /\ x.left > 0
  /\ x.pc \in {"resume", "restore"} /\ status = "needs_revision" => x.left > 0
  /\ x.pc = "recover" => status = "needs_revision"
  /\ x.pc = "called" => editorial /\ closure["preflight"].result = "none"
  /\ x.pc \in {"wave", "reviews"} => status = "draft_produced" /\ ~Unready
  /\ x.pc \in {"confirmation", "confirm", "refused", "integrate"} => status = "agent_checks_complete"

Cleared == Unready => Unreviewed /\ status \in {"pending", "draft_produced"}

Running == runner.pc # "off" => runs # 0

Stands == StandsAt(runner) /\ Cleared /\ Running

(* An objection is a comment, or of the review in progress, or of one that *)
(* a text prepared elsewhere cut short; a verified answer is of the text   *)
(* it answered.                                                            *)
Opened ==
  /\ \A c \in Asked : c[1] < latest \/ (c[1] = latest /\ status = "needs_revision")
  /\ \A c \in raised :
       /\ c[1] <= latest
       /\ \/ c \in Asked
          \/ c[1] < latest /\ drafts[c[1] + 1].local
          \/ /\ c[1] = latest /\ status = "draft_produced"
             /\ \E i \in DOMAIN reports : reports[i] = [role |-> c[2], draft |-> latest, blocks |-> TRUE]
  /\ \A c \in Everyone : Of(c).closed # 0 => Of(c).answered = Of(c).closed

(* The last report of a role is what it judged.                            *)
Judged ==
  \A r \in Role : (\E i \in DOMAIN reports : reports[i].role = r) =>
    \E i \in DOMAIN reports :
      /\ reports[i].role = r
      /\ judged[r] = [ver |-> drafts[reports[i].draft].ver, blocks |-> reports[i].blocks]
      /\ \A j \in DOMAIN reports : j > i => reports[j].role # r

(* What is recorded for a comment is its last answer; only the last can be *)
(* on the draft's own text, and what is recorded for that text was given   *)
(* for this draft.                                                         *)
Unanswered == {"off", "author", "apply", "respond", "resume", "restore"}

AnswersFit(c) ==
  /\ answers[c] # <<>> => c[1] < latest /\ Of(c).answered = answers[c][Len(answers[c])]
  /\ \A i \in DOMAIN answers[c] : answers[c][i] = Digest => i = Len(answers[c])
  /\ c \in Asked /\ c[1] < latest /\ Of(c).answered = Digest => answers[c] # <<>>
  /\ runner.pc \notin Unanswered /\ c \in Asked /\ c[1] < latest => answers[c] # <<>>

Answering == \A c \in Everyone : AnswersFit(c)

CampaignSound ==
  TypeOKCampaign /\ Numbered /\ Stands /\ Opened /\ Judged /\ Answering

-----------------------------------------------------------------------------
LEMMA CampaignNumbers ==
  /\ RoleCount \in Nat /\ RoleCount > 0 /\ MaxCycles \in Nat /\ MaxDrafts \in Nat /\ MaxRuns \in Nat
  /\ MaxEdits \in Nat /\ 0 \in Ver
  /\ \A n \in Ver : n \in Nat /\ n <= MaxDrafts + MaxEdits
  /\ \A n \in Nat : n <= MaxDrafts + MaxEdits => n \in Ver
  /\ \A d \in Draft : d \in Nat /\ d >= 1 /\ d <= MaxDrafts
  /\ \A d \in Nat : d >= 1 /\ d <= MaxDrafts => d \in Draft
  /\ \A r \in Role : r \in Nat
  /\ IsFiniteSet(Everyone)
<1>1. /\ RoleCount \in Nat /\ RoleCount > 0 /\ MaxCycles \in Nat /\ MaxDrafts \in Nat
      /\ MaxRuns \in Nat /\ MaxEdits \in Nat
  BY CampaignAssumptions
<1>2. /\ 0 \in Ver /\ \A n \in Ver : n \in Nat /\ n <= MaxDrafts + MaxEdits
      /\ \A m \in Nat : m <= MaxDrafts + MaxEdits => m \in Ver
  BY <1>1 DEF Ver
<1>3. /\ \A d \in Draft : d \in Nat /\ d >= 1 /\ d <= MaxDrafts
      /\ \A d \in Nat : d >= 1 /\ d <= MaxDrafts => d \in Draft
  BY <1>1 DEF Draft
<1>4. \A r \in Role : r \in Nat
  BY <1>1 DEF Role
<1>5. IsFiniteSet(Everyone)
  <2>1. 1 \in Int /\ MaxDrafts \in Int /\ RoleCount \in Int
    BY <1>1
  <2>2. IsFiniteSet(Draft) /\ IsFiniteSet(Role)
    BY <2>1, FS_Interval, Zenon DEF Draft, Role
  <2> QED BY <2>2, FS_Product DEF Everyone
<1> QED BY <1>1, <1>2, <1>3, <1>4, <1>5

LEMMA SequenceFacts ==
  ASSUME NEW S, NEW s \in Seq(S)
  PROVE  /\ Len(s) \in Nat /\ DOMAIN s = 1 .. Len(s) /\ (Len(s) = 0 <=> s = <<>>)
         /\ \A i \in 1 .. Len(s) : s[i] \in S
<1>1. Len(s) \in Nat /\ DOMAIN s = 1 .. Len(s)
  OBVIOUS
<1>2. \A i \in 1 .. Len(s) : s[i] \in S
  OBVIOUS
<1>3. Len(s) = 0 <=> s = <<>>
  BY EmptySeq
<1> QED BY <1>1, <1>2, <1>3

(* What the types say, in the forms the steps use.                         *)
CampaignData ==
  /\ version \in Nat /\ versions \in Nat /\ latest \in Nat /\ DOMAIN drafts = 1 .. latest
  /\ \A i \in 1 .. latest : drafts[i] \in [ver : Ver, from : Nat, local : BOOLEAN]
  /\ Len(reports) \in Nat /\ DOMAIN reports = 1 .. Len(reports)
  /\ \A i \in DOMAIN reports :
       /\ reports[i] \in [role : Role, draft : Draft, blocks : BOOLEAN]
       /\ reports[i].role \in Role /\ reports[i].draft \in Draft /\ reports[i].draft \in Nat
  /\ \A c \in Everyone :
       /\ c = <<c[1], c[2]>> /\ c[1] \in Draft /\ c[2] \in Role /\ c[1] \in Nat /\ c[1] >= 1
       /\ Of(c) = comments[c[1]][c[2]]
       /\ Of(c) \in [open : BOOLEAN, answered : Ver, closed : Ver]
       /\ Of(c).answered \in Nat /\ Of(c).closed \in Nat /\ answers[c] \in Seq(Ver)
       /\ (c \in Asked <=> Of(c).open)
  /\ Asked \subseteq Everyone /\ raised \subseteq Everyone
  /\ latest >= 1 => Digest \in Nat /\ Digest \in Ver
  /\ latest = 0 <=> drafts = <<>>

LEMMA CampaignTypes == TypeOKCampaign => CampaignData
<1> SUFFICES ASSUME TypeOKCampaign PROVE CampaignData
  OBVIOUS
<1>1. version \in Nat /\ versions \in Nat
  BY CampaignNumbers DEF TypeOKCampaign
<1>2. drafts \in Seq([ver : Ver, from : Nat, local : BOOLEAN])
  BY DEF TypeOKCampaign
<1>3. latest \in Nat /\ DOMAIN drafts = 1 .. latest /\ (latest = 0 <=> drafts = <<>>)
      /\ \A i \in 1 .. latest : drafts[i] \in [ver : Ver, from : Nat, local : BOOLEAN]
  BY <1>2, SequenceFacts, Zenon DEF latest
<1>4. reports \in Seq([role : Role, draft : Draft, blocks : BOOLEAN])
  BY DEF TypeOKCampaign
<1>5. Len(reports) \in Nat /\ DOMAIN reports = 1 .. Len(reports)
      /\ \A i \in DOMAIN reports :
           /\ reports[i] \in [role : Role, draft : Draft, blocks : BOOLEAN]
           /\ reports[i].role \in Role /\ reports[i].draft \in Draft
  <2>1. Len(reports) \in Nat /\ DOMAIN reports = 1 .. Len(reports)
        /\ \A i \in 1 .. Len(reports) : reports[i] \in [role : Role, draft : Draft, blocks : BOOLEAN]
    BY <1>4, SequenceFacts, Zenon
  <2>2. \A x \in [role : Role, draft : Draft, blocks : BOOLEAN] : x.role \in Role /\ x.draft \in Draft
    OBVIOUS
  <2> QED BY <2>1, <2>2, Zenon
<1>6. \A i \in DOMAIN reports : reports[i].draft \in Nat
  BY <1>5, CampaignNumbers
<1>7. ASSUME NEW c \in Everyone
      PROVE  /\ c = <<c[1], c[2]>> /\ c[1] \in Draft /\ c[2] \in Role /\ c[1] \in Nat /\ c[1] >= 1
             /\ Of(c) = comments[c[1]][c[2]]
             /\ Of(c) \in [open : BOOLEAN, answered : Ver, closed : Ver]
             /\ Of(c).answered \in Nat /\ Of(c).closed \in Nat /\ answers[c] \in Seq(Ver)
             /\ (c \in Asked <=> Of(c).open)
  <2>1. c = <<c[1], c[2]>> /\ c[1] \in Draft /\ c[2] \in Role
    BY <1>7 DEF Everyone
  <2>2. Of(c) = comments[c[1]][c[2]] /\ Of(c) \in [open : BOOLEAN, answered : Ver, closed : Ver]
    BY <2>1 DEF TypeOKCampaign, Of
  <2>3. Of(c).answered \in Ver /\ Of(c).closed \in Ver
    BY <2>2
  <2>4. answers[c] \in Seq(Ver)
    BY <1>7 DEF TypeOKCampaign, Everyone
  <2>5. (c \in Asked <=> Of(c).open)
    BY <1>7, <2>2 DEF Asked, Everyone
  <2> QED BY <2>1, <2>2, <2>3, <2>4, <2>5, CampaignNumbers
<1>8. Asked \subseteq Everyone /\ raised \subseteq Everyone
  BY DEF Asked, TypeOKCampaign, Everyone
<1>9. latest >= 1 => Digest \in Nat /\ Digest \in Ver
  <2> SUFFICES ASSUME latest >= 1 PROVE Digest \in Nat /\ Digest \in Ver
    OBVIOUS
  <2>1. latest \in 1 .. latest
    BY <1>3
  <2>2. Digest \in Ver
    BY <1>3, <2>1 DEF Digest
  <2> QED BY <2>2, CampaignNumbers
<1> QED BY <1>1, <1>3, <1>5, <1>6, <1>7, <1>8, <1>9 DEF CampaignData

-----------------------------------------------------------------------------
(* The runner and a reviewer, as the types have them.                      *)
Places == {"off", "resume", "restore", "recover", "author", "apply", "respond", "repaired",
           "preflight", "called", "wave", "reviews", "confirmation", "confirm", "refused",
           "integrate"}
RunnerRow == [pc : Places, cycles : 0 .. MaxCycles, left : 0 .. MaxCycles, attempt : {0, 1},
              revising : BOOLEAN, good : BOOLEAN, again : BOOLEAN, skips : BOOLEAN]
WorkerRow == [at : {"idle", "accepted", "replay", "deferred", "asked", "back", "fix", "replayed",
                    "failed"}, tries : {0, 1}]

LEMMA RunnerFacts ==
  /\ Stopped \in RunnerRow /\ Stopped.pc = "off" /\ ~Stopped.skips
  /\ OffWork \in WorkerRow /\ [r \in Role |-> OffWork] \in [Role -> WorkerRow]
  /\ \A x \in RunnerRow :
       /\ x.pc \in Places /\ x.left \in Nat /\ x.skips \in BOOLEAN /\ x.left <= MaxCycles
       /\ x.attempt \in {0, 1} /\ x.revising \in BOOLEAN /\ x.good \in BOOLEAN
       /\ \A p \in Places : /\ [x EXCEPT !.pc = p] \in RunnerRow /\ [x EXCEPT !.pc = p].pc = p
                            /\ [x EXCEPT !.pc = p].skips = x.skips
                            /\ [x EXCEPT !.pc = p].left = x.left
<1>1. Stopped \in RunnerRow /\ Stopped.pc = "off" /\ ~Stopped.skips
  <2>1. 0 \in 0 .. MaxCycles
    BY CampaignNumbers
  <2> QED BY <2>1 DEF Stopped, RunnerRow, Places
<1>2. OffWork \in WorkerRow /\ [r \in Role |-> OffWork] \in [Role -> WorkerRow]
  BY DEF OffWork, WorkerRow
<1>3. ASSUME NEW x \in RunnerRow
      PROVE  /\ x.pc \in Places /\ x.left \in Nat /\ x.skips \in BOOLEAN /\ x.left <= MaxCycles
             /\ x.attempt \in {0, 1} /\ x.revising \in BOOLEAN /\ x.good \in BOOLEAN
  <2>1. \A n \in 0 .. MaxCycles : n \in Nat /\ n <= MaxCycles
    BY CampaignNumbers
  <2>2. /\ x.pc \in Places /\ x.left \in 0 .. MaxCycles /\ x.skips \in BOOLEAN
        /\ x.attempt \in {0, 1} /\ x.revising \in BOOLEAN /\ x.good \in BOOLEAN
    BY <1>3, Zenon DEF RunnerRow
  <2> QED BY <2>1, <2>2, Zenon
<1>4. ASSUME NEW x \in RunnerRow, NEW p \in Places
      PROVE  /\ [x EXCEPT !.pc = p] \in RunnerRow /\ [x EXCEPT !.pc = p].pc = p
             /\ [x EXCEPT !.pc = p].skips = x.skips /\ [x EXCEPT !.pc = p].left = x.left
  BY <1>4 DEF RunnerRow
<1> QED BY <1>1, <1>2, <1>3, <1>4

LEMMA RunnerTypes ==
  TypeOKCampaign => runner \in RunnerRow /\ worker \in [Role -> WorkerRow]
BY DEF TypeOKCampaign, RunnerRow, WorkerRow, Places

(* What the drafts, the reports and the comments say is kept by a step     *)
(* that changes none of them.                                              *)
core == <<version, versions, drafts, reports, comments, raised, judged, answers>>

AfterAnswers == {"repaired", "preflight", "called", "wave", "reviews", "confirmation", "confirm",
             "refused", "integrate"}

LEMMA FrameKeeps ==
  ASSUME CampaignSound, UNCHANGED core, runs' = 0 => runs = 0,
         \/ status' = status
         \/ status = "agent_checks_complete" /\ status' = "needs_revision",
         \/ runner'.pc \in {"off", "author", "apply", "respond", "resume", "restore"}
         \/ runner.pc \in AfterAnswers
  PROVE  Numbered' /\ Opened' /\ Judged' /\ Answering'
<1>1. TypeOKCampaign /\ Numbered /\ Opened /\ Judged /\ Answering
  BY DEF CampaignSound
<1>2. /\ version' = version /\ versions' = versions /\ drafts' = drafts /\ reports' = reports
      /\ comments' = comments /\ raised' = raised /\ judged' = judged /\ answers' = answers
  BY DEF core
<1>3. latest' = latest /\ Digest' = Digest /\ Asked' = Asked /\ \A c : Of(c)' = Of(c)
  BY <1>2 DEF latest, Digest, Asked, Of
<1>4. Numbered'
  BY <1>1, <1>2, <1>3 DEF Numbered
<1>5. Opened'
  BY <1>1, <1>2, <1>3 DEF Opened
<1>6. Judged'
  BY <1>1, <1>2 DEF Judged
<1>7. Answering'
  <2> SUFFICES ASSUME NEW c \in Everyone
      PROVE  AnswersFit(c)'
    BY DEF Answering
  <2>1. AnswersFit(c)
    BY <1>1 DEF Answering
  <2>2. runner'.pc \notin Unanswered => runner.pc \notin Unanswered
    BY DEF Unanswered, AfterAnswers
  <2> QED BY <1>2, <1>3, <2>1, <2>2 DEF AnswersFit
<1> QED BY <1>4, <1>5, <1>6, <1>7

(* The types, in parts a step changes or leaves alone together.            *)
DraftRow == [ver : Ver, from : Nat, local : BOOLEAN]
ReportRow == [role : Role, draft : Draft, blocks : BOOLEAN]
CommentRow == [open : BOOLEAN, answered : Ver, closed : Ver]
ReturnRow == [run : Nat, seen : Nat, good : BOOLEAN]
Statuses == {"pending", "draft_produced", "needs_revision", "agent_checks_complete"}
ClosurePhases == {"preflight", "confirmation"}
ClosureRow == [calls : {0, 1}, ver : Ver, result : {"none", "passed", "needs_revision", "invalid"}]

CoreTypes ==
  /\ version \in Ver /\ versions \in Ver /\ drafts \in Seq(DraftRow) /\ reports \in Seq(ReportRow)
  /\ comments \in [Draft -> [Role -> CommentRow]]
  /\ judged \in [Role -> [ver : Ver, blocks : BOOLEAN]]
  /\ raised \subseteq Everyone /\ answers \in [Everyone -> Seq(Ver)]

ReviewTypes ==
  /\ editorial \in BOOLEAN /\ status \in Statuses /\ closure \in [ClosurePhases -> ClosureRow]
  /\ repaired \in BOOLEAN

RunTypes ==
  /\ returns \in Seq(ReturnRow) /\ retained \in [Role -> Return] /\ integrated \in BOOLEAN
  /\ runs \in 0 .. MaxRuns

AtWork == runner \in RunnerRow /\ worker \in [Role -> WorkerRow]

LEMMA TypesByParts ==
  TypeOKCampaign <=> CoreTypes /\ ReviewTypes /\ RunTypes /\ AtWork
BY Zenon DEF TypeOKCampaign, CoreTypes, ReviewTypes, RunTypes, RunnerRow, WorkerRow, Places, DraftRow,
   ReportRow, CommentRow, ReturnRow, Statuses, ClosurePhases, ClosureRow, Everyone, AtWork

LEMMA TypesByPartsNext ==
  TypeOKCampaign' <=> CoreTypes' /\ ReviewTypes' /\ RunTypes' /\ AtWork'
BY TypesByParts, PTL

review == <<editorial, status, closure, repaired>>

(* A step of the runner or of a reviewer alone.                            *)
LEMMA MovesKeep ==
  ASSUME CampaignSound, UNCHANGED core, UNCHANGED review, RunTypes', runs' = 0 => runs = 0,
         runner' \in RunnerRow, worker' \in [Role -> WorkerRow], StandsAt(runner'), Running',
         \/ runner'.pc \in {"off", "author", "apply", "respond", "resume", "restore"}
         \/ runner.pc \in AfterAnswers
  PROVE  CampaignSound'
<1>1. TypeOKCampaign /\ Stands
  BY DEF CampaignSound
<1>2. CoreTypes /\ ReviewTypes
  BY <1>1, TypesByParts
<1>3. CoreTypes' /\ ReviewTypes'
  BY <1>2 DEF CoreTypes, ReviewTypes, core, review
<1>4. TypeOKCampaign'
  BY <1>3, TypesByPartsNext DEF AtWork
<1>5. status' = status /\ editorial' = editorial /\ closure' = closure /\ repaired' = repaired
      /\ drafts' = drafts /\ reports' = reports
  BY DEF core, review
<1>6. Stands'
  <2>1. latest' = latest
    BY <1>5 DEF latest
  <2>2. Unready' = Unready /\ Unreviewed' = Unreviewed
    BY <1>5, <2>1 DEF Unready, Unrepaired, Unreviewed
  <2> QED BY <1>1, <1>5, <2>2 DEF Stands, StandsAt, Cleared
<1>7. Numbered' /\ Opened' /\ Judged' /\ Answering'
  BY <1>5, FrameKeeps
<1> QED BY <1>4, <1>6, <1>7 DEF CampaignSound

LEMMA StoppedStands == StandsAt(Stopped)
BY RunnerFacts DEF StandsAt

(* A run that stops.                                                       *)
LEMMA HaltsKeeps ==
  ASSUME CampaignSound, Halts, UNCHANGED core, UNCHANGED review, RunTypes', runs' = 0 => runs = 0
  PROVE  CampaignSound'
<1>1. runner' = Stopped /\ worker' = [r \in Role |-> OffWork]
  BY DEF Halts, Rests
<1>2. runner' \in RunnerRow /\ worker' \in [Role -> WorkerRow] /\ runner'.pc = "off"
  BY <1>1, RunnerFacts
<1>3. StandsAt(runner') /\ Running'
  BY <1>1, <1>2, StoppedStands DEF Running
<1> QED BY <1>2, <1>3, MovesKeep

LEMMA RunTypesKept ==
  ASSUME CampaignSound, UNCHANGED <<returns, retained, integrated, runs>>
  PROVE  RunTypes' /\ (runs' = 0 => runs = 0) /\ (runner.pc # "off" => Running')
BY TypesByParts DEF CampaignSound, Stands, Running, RunTypes

LEMMA StopKeeps == CampaignSound /\ Stop => CampaignSound'
<1> SUFFICES ASSUME CampaignSound, Stop PROVE CampaignSound'
  OBVIOUS
<1>1. Halts /\ UNCHANGED core /\ UNCHANGED review /\ UNCHANGED <<returns, retained, integrated, runs>>
  BY DEF Stop, durable, ghosts, core, review
<1> QED BY <1>1, RunTypesKept, HaltsKeeps

LEMMA BeginKeeps == CampaignSound /\ Begin => CampaignSound'
<1> SUFFICES ASSUME CampaignSound, Begin PROVE CampaignSound'
  OBVIOUS
<1>1. /\ UNCHANGED core /\ UNCHANGED review /\ UNCHANGED <<returns, retained, integrated, worker>>
      /\ runs = 0 /\ MaxRuns > 0 /\ runs' = 1
  BY DEF Begin, durable, ghosts, core, review
<1>2. PICK cycles \in 0 .. MaxCycles :
        runner' = [Stopped EXCEPT !.pc = "author", !.cycles = cycles, !.left = cycles]
  BY DEF Begin
<1>3. runner' \in RunnerRow /\ runner'.pc = "author" /\ ~runner'.skips
  <2>1. Stopped \in RunnerRow
    BY RunnerFacts
  <2> QED BY <1>2, <2>1 DEF RunnerRow, Places, Stopped
<1>4. /\ RunTypes' /\ worker' \in [Role -> WorkerRow]
  <2>1. RunTypes /\ worker \in [Role -> WorkerRow]
    BY TypesByParts DEF CampaignSound, AtWork
  <2>2. runs' \in 0 .. MaxRuns
    BY <1>1, CampaignNumbers
  <2> QED BY <1>1, <2>1, <2>2 DEF RunTypes
<1>5. status = "pending"
  BY <1>1 DEF CampaignSound, Numbered
<1>6. StandsAt(runner') /\ Running'
  BY <1>1, <1>3, <1>5 DEF StandsAt, Running
<1> QED BY <1>1, <1>3, <1>4, <1>6, MovesKeep

LEMMA CampaignStandsFacts ==
  ASSUME CampaignSound
  PROVE  /\ TypeOKCampaign /\ CampaignData /\ CoreTypes /\ ReviewTypes /\ RunTypes
         /\ runner \in RunnerRow /\ worker \in [Role -> WorkerRow]
         /\ Numbered /\ StandsAt(runner) /\ Cleared /\ Running /\ Opened /\ Judged /\ Answering
         /\ runner.pc \notin {"off", "author", "apply"} => status # "pending" /\ latest >= 1
         /\ Asked \subseteq Everyone /\ Cardinality(Asked) \in Nat
<1>1. TypeOKCampaign /\ Numbered /\ Stands /\ Opened /\ Judged /\ Answering
  BY DEF CampaignSound
<1>2. /\ CampaignData /\ CoreTypes /\ ReviewTypes /\ RunTypes
      /\ runner \in RunnerRow /\ worker \in [Role -> WorkerRow]
  BY <1>1, CampaignTypes, TypesByParts DEF AtWork
<1>3. StandsAt(runner) /\ Cleared /\ Running
  BY <1>1 DEF Stands
<1>4. runner.pc \notin {"off", "author", "apply"} => status # "pending" /\ latest >= 1
  BY <1>1, <1>2, <1>3 DEF StandsAt, Numbered, CampaignData
<1>5. Asked \subseteq Everyone
  BY <1>2 DEF CampaignData
<1>6. Cardinality(Asked) \in Nat
  BY <1>5, CampaignNumbers, FS_Subset, FS_CardinalityType
<1> QED BY <1>1, <1>2, <1>3, <1>4, <1>5, <1>6

LEMMA RunningOn == CampaignSound /\ UNCHANGED runs /\ runner.pc # "off" => Running'
BY DEF CampaignSound, Stands, Running

LEMMA AuthorReturnsKeeps ==
  ASSUME CampaignSound, NEW good \in BOOLEAN, AuthorReturns(good) PROVE CampaignSound'
<1>1. /\ runner.pc = "author" /\ runner' = [runner EXCEPT !.pc = "apply", !.good = good]
      /\ UNCHANGED core /\ UNCHANGED review /\ UNCHANGED <<retained, integrated, worker, runs>>
      /\ returns' = IF runner.revising
                    THEN Append(returns, [run |-> runs, seen |-> Cardinality(Asked), good |-> good])
                    ELSE returns
  BY DEF AuthorReturns, At, core, review, ghosts
<1>2. /\ runner \in RunnerRow /\ worker \in [Role -> WorkerRow] /\ StandsAt(runner) /\ RunTypes
      /\ Cardinality(Asked) \in Nat
  BY CampaignStandsFacts
<1>3. /\ runner' \in RunnerRow /\ runner'.pc = "apply" /\ runner'.skips = runner.skips
  BY <1>1, <1>2 DEF RunnerRow, Places
<1>4. RunTypes'
  <2>1. runs \in Nat
    BY <1>2, CampaignNumbers DEF RunTypes
  <2>2. [run |-> runs, seen |-> Cardinality(Asked), good |-> good] \in ReturnRow
    BY <1>2, <2>1 DEF ReturnRow
  <2>3. returns \in Seq(ReturnRow)
    BY <1>2 DEF RunTypes
  <2>4. returns' \in Seq(ReturnRow)
    BY <1>1, <2>2, <2>3, AppendProperties, Zenon
  <2> QED BY <1>1, <1>2, <2>4 DEF RunTypes
<1>5. StandsAt(runner') /\ Running'
  BY <1>1, <1>2, <1>3, RunningOn DEF StandsAt
<1> QED BY <1>1, <1>2, <1>3, <1>4, <1>5, MovesKeep

LEMMA RejectDraftKeeps == CampaignSound /\ RejectDraft => CampaignSound'
<1> SUFFICES ASSUME CampaignSound, RejectDraft PROVE CampaignSound'
  OBVIOUS
<1>1. /\ runner.pc = "apply" /\ UNCHANGED core /\ UNCHANGED review
      /\ UNCHANGED <<returns, retained, integrated, runs>>
      /\ \/ runner' = [runner EXCEPT !.pc = "author", !.attempt = 1] /\ UNCHANGED worker
         \/ Halts
  BY DEF RejectDraft, At, core, review, ghosts, durable
<1>2. /\ runner \in RunnerRow /\ worker \in [Role -> WorkerRow] /\ StandsAt(runner)
      /\ RunTypes' /\ Running' /\ (runs' = 0 => runs = 0)
  BY <1>1, CampaignStandsFacts, RunTypesKept
<1>3. CASE runner' = [runner EXCEPT !.pc = "author", !.attempt = 1] /\ UNCHANGED worker
  <2>1. /\ runner' \in RunnerRow /\ runner'.pc = "author" /\ runner'.skips = runner.skips
    BY <1>2, <1>3 DEF RunnerRow, Places
  <2>2. StandsAt(runner')
    BY <1>1, <1>2, <2>1 DEF StandsAt
  <2> QED BY <1>1, <1>2, <1>3, <2>1, <2>2, MovesKeep
<1>4. CASE Halts
  BY <1>1, <1>2, <1>4, HaltsKeeps
<1> QED BY <1>1, <1>3, <1>4

LEMMA AfterPreflightKeeps == CampaignSound /\ AfterPreflight => CampaignSound'
<1> SUFFICES ASSUME CampaignSound, AfterPreflight PROVE CampaignSound'
  OBVIOUS
<1>1. /\ runner.pc = "preflight" /\ UNCHANGED core /\ UNCHANGED review
      /\ UNCHANGED <<returns, retained, integrated, runs>>
      /\ editorial => closure["preflight"].result \in {"passed", "needs_revision"}
      /\ IF Unrepaired
         THEN Halts \/ (Revises /\ UNCHANGED worker)
         ELSE /\ UNCHANGED worker
              /\ runner' = IF runner.skips
                      THEN [runner EXCEPT !.pc = "author", !.revising = TRUE, !.skips = FALSE,
                                          !.left = @ - 1, !.again = TRUE]
                      ELSE [runner EXCEPT !.pc = IF status # "agent_checks_complete" THEN "wave"
                                                 ELSE IF editorial THEN "confirmation"
                                                 ELSE "integrate"]
  BY DEF AfterPreflight, At, core, review, ghosts, durable
<1>2. /\ runner \in RunnerRow /\ worker \in [Role -> WorkerRow] /\ StandsAt(runner) /\ Cleared
      /\ RunTypes' /\ Running' /\ (runs' = 0 => runs = 0) /\ status # "pending" /\ status \in Statuses
      /\ runner.skips \in BOOLEAN
  BY <1>1, CampaignStandsFacts, RunTypesKept, RunnerFacts DEF ReviewTypes
<1>3. CASE Unrepaired /\ Halts
  BY <1>1, <1>2, <1>3, HaltsKeeps
<1>4. CASE Unrepaired /\ Revises /\ UNCHANGED worker
  <2>1. /\ runner' \in RunnerRow /\ runner'.pc = "author" /\ runner'.skips = runner.skips
    BY <1>2, <1>4 DEF RunnerRow, Places, Revises
  <2>2. Unready
    BY <1>4 DEF Unready, Unrepaired
  <2>3. StandsAt(runner')
    BY <1>1, <1>2, <2>1, <2>2 DEF StandsAt, Cleared
  <2> QED BY <1>1, <1>2, <1>4, <2>1, <2>3, MovesKeep
<1>5. CASE ~Unrepaired /\ runner.skips
  <2>1. status = "needs_revision" /\ runner.left > 0
    BY <1>2, <1>5 DEF StandsAt
  <2>2. runner.left - 1 \in 0 .. MaxCycles
    BY <1>2, <2>1, CampaignNumbers, RunnerFacts
  <2>3. runner' = [runner EXCEPT !.pc = "author", !.revising = TRUE, !.skips = FALSE,
                                 !.left = runner.left - 1, !.again = TRUE]
    BY <1>1, <1>5
  <2>4. /\ runner' \in RunnerRow /\ runner'.pc = "author" /\ ~runner'.skips
    BY <1>2, <2>2, <2>3 DEF RunnerRow, Places
  <2>5. StandsAt(runner')
    BY <2>1, <2>4 DEF StandsAt
  <2> QED BY <1>1, <1>2, <1>5, <2>4, <2>5, MovesKeep
<1>6. CASE ~Unrepaired /\ ~runner.skips
  <2> DEFINE p == IF status # "agent_checks_complete" THEN "wave"
                  ELSE IF editorial THEN "confirmation" ELSE "integrate"
  <2>1. p \in Places /\ runner' = [runner EXCEPT !.pc = p]
    BY <1>1, <1>6 DEF Places
  <2>2. /\ p = "wave" => status = "draft_produced"
        /\ p # "wave" => status = "agent_checks_complete"
    BY <1>1, <1>2, <1>6 DEF StandsAt, Statuses
  <2>3. p \in {"wave", "confirmation", "integrate"}
    OBVIOUS
  <2> HIDE DEF p
  <2>4. runner' \in RunnerRow /\ runner'.pc = p /\ runner'.skips = runner.skips
    BY <1>2, <2>1, RunnerFacts
  <2>5. ~Unready
    BY <1>1, <1>6 DEF Unready
  <2>6. StandsAt(runner')
    BY <1>1, <1>2, <1>6, <2>2, <2>3, <2>4, <2>5 DEF StandsAt
  <2> QED BY <1>1, <1>2, <1>6, <2>3, <2>4, <2>6, MovesKeep DEF AfterAnswers
<1> QED BY <1>1, <1>2, <1>3, <1>4, <1>5, <1>6
-----------------------------------------------------------------------------
(* What Goes leaves of the runner.                                         *)
LEMMA GoesTo ==
  ASSUME CampaignSound, NEW p \in Places, Goes(p)
  PROVE  /\ runner' \in RunnerRow /\ runner'.pc = p /\ runner'.skips = runner.skips
         /\ runner'.left = runner.left
<1>1. runner \in RunnerRow /\ runner' = [runner EXCEPT !.pc = p]
  BY CampaignStandsFacts DEF Goes
<1> QED BY <1>1, RunnerFacts

LEMMA SavedConfirmationKeeps == CampaignSound /\ SavedConfirmation => CampaignSound'
<1> SUFFICES ASSUME CampaignSound, SavedConfirmation PROVE CampaignSound'
  OBVIOUS
<1>1. /\ runner.pc = "confirmation" /\ Goes("integrate") /\ UNCHANGED core /\ UNCHANGED review
      /\ UNCHANGED <<returns, retained, integrated, runs>> /\ worker' = worker
  BY DEF SavedConfirmation, At, core, review, ghosts, durable
<1>2. /\ worker \in [Role -> WorkerRow] /\ StandsAt(runner) /\ RunTypes' /\ Running' /\ (runs' = 0 => runs = 0)
  BY <1>1, CampaignStandsFacts, RunTypesKept
<1>3. runner' \in RunnerRow /\ runner'.pc = "integrate" /\ runner'.skips = runner.skips
  BY <1>1, GoesTo DEF Places
<1>4. StandsAt(runner')
  BY <1>1, <1>2, <1>3 DEF StandsAt
<1> QED BY <1>1, <1>2, <1>3, <1>4, MovesKeep DEF AfterAnswers

LEMMA BeginWaveKeeps == CampaignSound /\ BeginWave => CampaignSound'
<1> SUFFICES ASSUME CampaignSound, BeginWave PROVE CampaignSound'
  OBVIOUS
<1>1. /\ runner.pc = "wave" /\ Goes("reviews") /\ UNCHANGED core /\ UNCHANGED review
      /\ UNCHANGED <<returns, retained, integrated, runs>>
  BY DEF BeginWave, At, core, review, ghosts, durable
<1>2. StandsAt(runner) /\ RunTypes' /\ Running' /\ (runs' = 0 => runs = 0)
  BY <1>1, CampaignStandsFacts, RunTypesKept
<1>3. runner' \in RunnerRow /\ runner'.pc = "reviews" /\ runner'.skips = runner.skips
  BY <1>1, GoesTo DEF Places
<1>4. worker' \in [Role -> WorkerRow]
  <2> DEFINE place(r) == IF r \in Accepted THEN "accepted" ELSE IF r \notin Missing THEN "replay"
                         ELSE IF r \in First(Missing, Slots) THEN "asked" ELSE "deferred"
  <2>1. worker' = [r \in Role |-> [at |-> place(r), tries |-> 0]]
    BY DEF BeginWave
  <2>2. \A r \in Role : place(r) \in {"accepted", "replay", "asked", "deferred"}
    OBVIOUS
  <2> HIDE DEF place
  <2>3. \A r \in Role : [at |-> place(r), tries |-> 0] \in WorkerRow
    BY <2>2 DEF WorkerRow
  <2> QED BY <2>1, <2>3
<1>5. StandsAt(runner')
  BY <1>1, <1>2, <1>3 DEF StandsAt
<1> QED BY <1>1, <1>2, <1>3, <1>4, <1>5, MovesKeep DEF AfterAnswers

(* What only moves reviewers.                                              *)
LEMMA WaveMoves ==
  ASSUME CampaignSound, runner.pc = "reviews", UNCHANGED core, UNCHANGED review, RunTypes',
         UNCHANGED <<runner, runs>>, worker' \in [Role -> WorkerRow]
  PROVE  CampaignSound'
<1>1. /\ runner \in RunnerRow /\ StandsAt(runner) /\ runner' = runner /\ (runs' = 0 => runs = 0)
      /\ Running'
  BY CampaignStandsFacts, RunningOn
<1> QED BY <1>1, MovesKeep DEF AfterAnswers

LEMMA PutsWorker ==
  ASSUME CampaignSound, NEW r \in Role,
         NEW a \in {"accepted", "asked", "back", "fix", "replayed", "failed"}, Puts(r, a)
  PROVE  worker' \in [Role -> WorkerRow]
<1>1. worker \in [Role -> WorkerRow] /\ worker' = [worker EXCEPT ![r].at = a]
  BY CampaignStandsFacts DEF Puts
<1>2. [worker[r] EXCEPT !.at = a] \in WorkerRow
  BY <1>1 DEF WorkerRow
<1> QED BY <1>1, <1>2

LEMMA ReviewerReturnsKeeps ==
  ASSUME CampaignSound, NEW r \in Role, NEW report \in Report \cup {Bad}, ReviewerReturns(r, report)
  PROVE  CampaignSound'
<1>1. /\ runner.pc = "reviews" /\ UNCHANGED core /\ UNCHANGED review
      /\ UNCHANGED <<returns, integrated, runs, runner>> /\ Puts(r, "back")
      /\ retained' = [retained EXCEPT ![r] = report]
  BY DEF ReviewerReturns, At, core, review, ghosts
<1>2. worker' \in [Role -> WorkerRow]
  BY <1>1, PutsWorker
<1>3. RunTypes'
  <2>1. RunTypes
    BY CampaignStandsFacts
  <2>2. report \in Return
    <3>1. Bad \in Return
      BY DEF Bad, Return
    <3>2. \A x \in Report : x \in Return
      BY DEF Report, Return
    <3> QED BY <3>1, <3>2
  <2>3. retained' \in [Role -> Return]
    BY <1>1, <2>1, <2>2 DEF RunTypes
  <2> QED BY <1>1, <2>1, <2>3 DEF RunTypes
<1> QED BY <1>1, <1>2, <1>3, WaveMoves

LEMMA ReviewersKeep ==
  ASSUME CampaignSound,
         \/ \E r \in Role : ReviewerFails(r) \/ RefuseReport(r)
         \/ SendCorrections
         \/ DispatchDeferred
  PROVE  CampaignSound'
<1>1. /\ runner.pc = "reviews" /\ UNCHANGED core /\ UNCHANGED review
      /\ UNCHANGED <<returns, retained, integrated, runs, runner>>
  BY DEF ReviewerFails, RefuseReport, SendCorrections, DispatchDeferred, At, core, review, ghosts,
         durable
<1>2. worker \in [Role -> WorkerRow] /\ RunTypes'
  BY <1>1, CampaignStandsFacts, RunTypesKept
<1>3. worker' \in [Role -> WorkerRow]
  <2>1. ASSUME NEW r \in Role, ReviewerFails(r) PROVE worker' \in [Role -> WorkerRow]
    BY <2>1, PutsWorker DEF ReviewerFails
  <2>2. ASSUME NEW r \in Role, RefuseReport(r) PROVE worker' \in [Role -> WorkerRow]
    <3>1. PICK a \in {"failed", "fix", "replayed"} : Puts(r, a)
      BY <2>2 DEF RefuseReport
    <3> QED BY <3>1, PutsWorker
  <2>3. ASSUME SendCorrections PROVE worker' \in [Role -> WorkerRow]
    <3>1. worker' = [r \in Role |-> IF worker[r].at \in {"fix", "replayed"}
                                    THEN [at |-> "asked", tries |-> 1] ELSE worker[r]]
      BY <2>3 DEF SendCorrections
    <3>2. [at |-> "asked", tries |-> 1] \in WorkerRow
      BY DEF WorkerRow
    <3> QED BY <1>2, <3>1, <3>2
  <2>4. ASSUME DispatchDeferred PROVE worker' \in [Role -> WorkerRow]
    <3>1. PICK r \in First(In({"deferred"}), 1) : Puts(r, "asked")
      BY <2>4 DEF DispatchDeferred
    <3>2. r \in Role
      BY DEF First, In
    <3> QED BY <3>1, <3>2, PutsWorker
  <2> QED BY <2>1, <2>2, <2>3, <2>4
<1> QED BY <1>1, <1>2, <1>3, WaveMoves

LEMMA IntegrateReviewsKeeps == CampaignSound /\ IntegrateReviews => CampaignSound'
<1> SUFFICES ASSUME CampaignSound, IntegrateReviews PROVE CampaignSound'
  OBVIOUS
<1>1. /\ Halts /\ UNCHANGED core /\ UNCHANGED review /\ UNCHANGED <<returns, retained, runs>>
      /\ integrated' = TRUE
  BY DEF IntegrateReviews, core, review, ghosts
<1>2. RunTypes' /\ (runs' = 0 => runs = 0)
  BY <1>1, CampaignStandsFacts DEF RunTypes
<1> QED BY <1>1, <1>2, HaltsKeeps

LEMMA ContinueKeeps ==
  ASSUME CampaignSound, NEW cycles \in 0 .. MaxCycles, Continue(cycles) PROVE CampaignSound'
<1>1. /\ UNCHANGED core /\ UNCHANGED review /\ UNCHANGED <<returns, retained, worker>>
      /\ integrated' = FALSE /\ runs < MaxRuns /\ runs' = runs + 1 /\ drafts # <<>>
      /\ status = "needs_revision" => cycles > 0
      /\ runner' = [Stopped EXCEPT !.pc = "resume", !.cycles = cycles, !.left = cycles]
  BY DEF Continue, Checkpoint, core, review, ghosts
<1>2. RunTypes /\ worker \in [Role -> WorkerRow]
  BY CampaignStandsFacts
<1>3. /\ runner' \in RunnerRow /\ runner'.pc = "resume" /\ ~runner'.skips /\ runner'.left = cycles
  <2>1. Stopped \in RunnerRow
    BY RunnerFacts
  <2> QED BY <1>1, <2>1 DEF RunnerRow, Places, Stopped
<1>4. RunTypes' /\ (runs' = 0 => runs = 0) /\ runs' # 0
  <2>1. runs' \in 0 .. MaxRuns /\ runs' # 0
    BY <1>1, <1>2, CampaignNumbers DEF RunTypes
  <2> QED BY <1>1, <1>2, <2>1 DEF RunTypes
<1>5. StandsAt(runner') /\ Running'
  BY <1>1, <1>3, <1>4 DEF StandsAt, Running
<1> QED BY <1>1, <1>2, <1>3, <1>4, <1>5, MovesKeep

-----------------------------------------------------------------------------
(* The editorial calls.                                                    *)
LEMMA FrameSound ==
  ASSUME CampaignSound, UNCHANGED core, ReviewTypes', RunTypes', runs' = 0 => runs = 0,
         runner' \in RunnerRow, worker' \in [Role -> WorkerRow], Stands',
         \/ status' = status
         \/ status = "agent_checks_complete" /\ status' = "needs_revision",
         \/ runner'.pc \in {"off", "author", "apply", "respond", "resume", "restore"}
         \/ runner.pc \in AfterAnswers
  PROVE  CampaignSound'
<1>1. CoreTypes'
  <2>1. CoreTypes
    BY CampaignStandsFacts
  <2> QED BY <2>1 DEF CoreTypes, core
<1>2. TypeOKCampaign'
  BY <1>1, TypesByPartsNext DEF AtWork
<1>3. Numbered' /\ Opened' /\ Judged' /\ Answering'
  BY FrameKeeps
<1> QED BY <1>2, <1>3 DEF CampaignSound

(* Unreviewed depends on the drafts and reports only.                      *)
LEMMA ReviewedSame == UNCHANGED core => (Unreviewed' <=> Unreviewed)
BY DEF Unreviewed, latest, core

LEMMA NoteRepairKeeps == CampaignSound /\ NoteRepair => CampaignSound'
<1> SUFFICES ASSUME CampaignSound, NoteRepair PROVE CampaignSound'
  OBVIOUS
<1>1. /\ runner.pc = "repaired" /\ Goes("preflight") /\ UNCHANGED core
      /\ UNCHANGED <<editorial, status, closure>> /\ repaired' = TRUE
      /\ UNCHANGED <<returns, retained, integrated, runs>> /\ worker' = worker
  BY DEF NoteRepair, At, core, ghosts
<1>2. /\ worker \in [Role -> WorkerRow] /\ StandsAt(runner) /\ Cleared /\ ReviewTypes
      /\ RunTypes' /\ Running' /\ (runs' = 0 => runs = 0)
  BY <1>1, CampaignStandsFacts, RunTypesKept
<1>3. runner' \in RunnerRow /\ runner'.pc = "preflight" /\ runner'.skips = runner.skips
  BY <1>1, GoesTo DEF Places
<1>4. ReviewTypes'
  BY <1>1, <1>2 DEF ReviewTypes
<1>5. status = "draft_produced" /\ ~runner.skips /\ drafts # <<>>
  BY <1>1, <1>2 DEF StandsAt
<1>6. Unready' => Unready
  BY <1>1 DEF Unready, Unrepaired
<1>7. Cleared'
  BY <1>1, <1>2, <1>5, <1>6, ReviewedSame DEF Cleared
<1>8. StandsAt(runner)'
  <2>1. drafts' = drafts
    BY <1>1 DEF core
  <2> QED BY <1>1, <1>3, <1>5, <2>1 DEF StandsAt
<1> QED BY <1>1, <1>2, <1>3, <1>4, <1>7, <1>8, FrameSound DEF Stands, AfterAnswers

(* A new count of calls changes nothing the runner depends on.             *)
LEMMA ClosureFacts ==
  ASSUME closure \in [ClosurePhases -> ClosureRow], NEW p \in ClosurePhases
  PROVE  /\ closure[p] \in ClosureRow
         /\ closure[p].calls = 0 =>
              /\ [closure EXCEPT ![p].calls = @ + 1] \in [ClosurePhases -> ClosureRow]
              /\ \A f \in ClosurePhases : [closure EXCEPT ![p].calls = @ + 1][f].result = closure[f].result
         /\ \A v \in Ver, result \in {"passed", "needs_revision", "invalid"} :
              LET new == [closure EXCEPT ![p].result = result, ![p].ver = v] IN
              /\ new \in [ClosurePhases -> ClosureRow]
              /\ \A f \in ClosurePhases : f # p => new[f] = closure[f]
<1>1. closure[p] \in ClosureRow
  OBVIOUS
<1>2. ASSUME closure[p].calls = 0
      PROVE  /\ [closure EXCEPT ![p].calls = @ + 1] \in [ClosurePhases -> ClosureRow]
             /\ \A f \in ClosurePhases : [closure EXCEPT ![p].calls = @ + 1][f].result = closure[f].result
  <2>1. PICK row : row = [closure[p] EXCEPT !.calls = 1]
    OBVIOUS
  <2>2. row \in ClosureRow /\ row.result = closure[p].result
    BY <1>1, <2>1 DEF ClosureRow
  <2>3. [closure EXCEPT ![p].calls = @ + 1] = [closure EXCEPT ![p] = row]
    BY <1>2, <2>1
  <2>4. [closure EXCEPT ![p] = row] \in [ClosurePhases -> ClosureRow]
        /\ \A f \in ClosurePhases : [closure EXCEPT ![p] = row][f].result = closure[f].result
    BY <2>2
  <2> QED BY <2>3, <2>4
<1>3. ASSUME NEW v \in Ver, NEW result \in {"passed", "needs_revision", "invalid"}
      PROVE  LET new == [closure EXCEPT ![p].result = result, ![p].ver = v] IN
             /\ new \in [ClosurePhases -> ClosureRow]
             /\ \A f \in ClosurePhases : f # p => new[f] = closure[f]
  <2>1. PICK row : row = [closure[p] EXCEPT !.result = result, !.ver = v]
    OBVIOUS
  <2>2. row \in ClosureRow
    BY <1>1, <2>1 DEF ClosureRow
  <2>3. [closure EXCEPT ![p].result = result, ![p].ver = v] = [closure EXCEPT ![p] = row]
    BY <2>1
  <2>4. [closure EXCEPT ![p] = row] \in [ClosurePhases -> ClosureRow]
        /\ \A f \in ClosurePhases : f # p => [closure EXCEPT ![p] = row][f] = closure[f]
    BY <2>2
  <2> QED BY <2>3, <2>4
<1> QED BY <1>1, <1>2, <1>3

LEMMA CallEditorKeeps ==
  ASSUME CampaignSound,
         CallEditor("preflight", "called") \/ CallEditor("confirmation", "confirm")
  PROVE  CampaignSound'
<1>1. PICK p \in ClosurePhases, pc \in {"called", "confirm"} :
        CallEditor(p, pc) /\ (p = "preflight" <=> pc = "called")
  BY DEF ClosurePhases
<1>2. /\ runner.pc = p /\ editorial /\ closure[p].result = "none" /\ UNCHANGED core
      /\ UNCHANGED <<editorial, status, repaired>>
      /\ UNCHANGED <<returns, retained, integrated, runs>>
      /\ \/ /\ closure[p].calls = 0 /\ closure' = [closure EXCEPT ![p].calls = @ + 1]
            /\ Goes(pc) /\ worker' = worker
         \/ closure' = closure /\ Halts
  BY <1>1 DEF CallEditor, CallFree, At, core, ghosts
<1>3. /\ worker \in [Role -> WorkerRow] /\ StandsAt(runner) /\ Cleared /\ ReviewTypes
      /\ RunTypes' /\ Running' /\ (runs' = 0 => runs = 0)
  BY <1>2, CampaignStandsFacts, RunTypesKept DEF ClosurePhases
<1>4. CASE closure' = closure /\ Halts
  <2>1. UNCHANGED review
    BY <1>2, <1>4 DEF review
  <2> QED BY <1>2, <1>3, <1>4, <2>1, HaltsKeeps
<1>5. CASE /\ closure[p].calls = 0 /\ closure' = [closure EXCEPT ![p].calls = @ + 1]
           /\ Goes(pc) /\ worker' = worker
  <2>1. closure' \in [ClosurePhases -> ClosureRow] /\ \A f \in ClosurePhases : closure'[f].result = closure[f].result
    <3>1. closure \in [ClosurePhases -> ClosureRow]
      BY <1>3 DEF ReviewTypes
    <3> QED BY <1>5, <3>1, ClosureFacts
  <2>2. ReviewTypes'
    BY <1>2, <1>3, <2>1 DEF ReviewTypes
  <2>3. runner' \in RunnerRow /\ runner'.pc = pc /\ runner'.skips = runner.skips
    BY <1>5, GoesTo DEF Places
  <2>4. closure'["preflight"].result = closure["preflight"].result
    BY <2>1 DEF ClosurePhases
  <2>5. Unready' = Unready
    BY <1>2, <2>4 DEF Unready, Unrepaired
  <2>6. Cleared'
    BY <1>2, <1>3, <2>5, ReviewedSame DEF Cleared
  <2>7. ~runner.skips /\ (pc = "called" => status # "needs_revision")
    <3>1. p = "preflight" => Unready
      BY <1>2 DEF Unready
    <3> QED BY <1>1, <1>2, <1>3, <3>1 DEF StandsAt, Cleared
  <2>8. StandsAt(runner)'
    <3>1. drafts' = drafts /\ drafts # <<>>
      BY <1>1, <1>2, <1>3 DEF core, StandsAt, ClosurePhases
    <3>2. pc = "called" => closure'["preflight"].result = "none"
      BY <1>1, <1>2, <2>4
    <3>3. pc = "confirm" => status = "agent_checks_complete"
      BY <1>1, <1>2, <1>3 DEF StandsAt, ClosurePhases
    <3> QED BY <1>1, <1>2, <2>3, <2>7, <3>1, <3>2, <3>3 DEF StandsAt
  <2>9. runner.pc \in AfterAnswers /\ runner'.pc # "respond"
    BY <1>1, <1>2, <2>3 DEF AfterAnswers, ClosurePhases
  <2> QED BY <1>2, <1>3, <1>5, <2>2, <2>3, <2>6, <2>8, <2>9, FrameSound DEF Stands
<1> QED BY <1>2, <1>4, <1>5

LEMMA EditorReturnsKeeps ==
  ASSUME CampaignSound, NEW result \in {"passed", "needs_revision", "invalid"},
         \/ EditorReturns("preflight", "called", result)
         \/ EditorReturns("confirmation", "confirm", result)
  PROVE  CampaignSound'
<1>1. PICK p \in ClosurePhases, pc \in {"called", "confirm"} :
        EditorReturns(p, pc, result) /\ (p = "preflight" <=> pc = "called")
  BY DEF ClosurePhases
<1> DEFINE next == IF p = "preflight" THEN p ELSE IF result = "passed" THEN "integrate" ELSE "refused"
<1>2. /\ runner.pc = pc /\ UNCHANGED core /\ UNCHANGED <<editorial, status, repaired>>
      /\ UNCHANGED <<returns, retained, integrated, runs>>
      /\ closure' = [closure EXCEPT ![p].result = result, ![p].ver = Digest]
      /\ Halts \/ (Goes(next) /\ worker' = worker)
  BY <1>1 DEF EditorReturns, At, core, ghosts
<1>3. /\ worker \in [Role -> WorkerRow] /\ StandsAt(runner) /\ Cleared /\ ReviewTypes
      /\ RunTypes' /\ Running' /\ (runs' = 0 => runs = 0) /\ Digest \in Ver /\ drafts # <<>>
  <2>1. Digest \in Ver /\ drafts # <<>>
    BY <1>1, <1>2, CampaignStandsFacts DEF CampaignData, StandsAt
  <2> QED BY <1>2, <2>1, CampaignStandsFacts, RunTypesKept
<1>4. closure' \in [ClosurePhases -> ClosureRow] /\ \A f \in ClosurePhases : f # p => closure'[f] = closure[f]
  <2>1. closure \in [ClosurePhases -> ClosureRow]
    BY <1>3 DEF ReviewTypes
  <2> QED BY <1>2, <1>3, <2>1, ClosureFacts
<1>5. ReviewTypes'
  BY <1>2, <1>3, <1>4 DEF ReviewTypes
<1>6. Cleared'
  <2>1. CASE p = "preflight"
    <3>1. Unready
      BY <1>1, <1>2, <1>3, <2>1 DEF StandsAt, Unready
    <3> QED BY <1>2, <1>3, <3>1, ReviewedSame DEF Cleared
  <2>2. CASE p # "preflight"
    <3>1. closure'["preflight"] = closure["preflight"]
      BY <1>4, <2>2 DEF ClosurePhases
    <3>2. Unready' = Unready
      BY <1>2, <3>1 DEF Unready, Unrepaired
    <3> QED BY <1>2, <1>3, <3>2, ReviewedSame DEF Cleared
  <2> QED BY <2>1, <2>2
<1>7. drafts' = drafts /\ status' = status
  BY <1>2 DEF core
<1>8. CASE Halts
  <2>1. runner' = Stopped /\ worker' = [r \in Role |-> OffWork]
    BY <1>8 DEF Halts, Rests
  <2>2. runner' \in RunnerRow /\ worker' \in [Role -> WorkerRow] /\ runner'.pc = "off" /\ ~runner'.skips
    BY <2>1, RunnerFacts
  <2>3. StandsAt(runner)'
    BY <2>2 DEF StandsAt
  <2> QED BY <1>2, <1>3, <1>5, <1>6, <2>2, <2>3, FrameSound DEF Stands
<1>9. CASE Goes(next) /\ worker' = worker
  <2>1. next \in {"preflight", "integrate", "refused"} /\ (next = "preflight" <=> p = "preflight")
    OBVIOUS
  <2> HIDE DEF next
  <2>2. runner' \in RunnerRow /\ runner'.pc = next /\ runner'.skips = runner.skips
    BY <1>9, <2>1, GoesTo DEF Places
  <2>3. ~runner.skips
    BY <1>1, <1>2, <1>3 DEF StandsAt
  <2>4. next = "preflight" => status # "needs_revision"
    BY <1>1, <1>2, <1>3, <2>1, <2>3 DEF StandsAt
  <2>5. next # "preflight" => status = "agent_checks_complete"
    BY <1>1, <1>2, <1>3, <2>1 DEF StandsAt
  <2>6. StandsAt(runner)'
    BY <1>3, <1>7, <2>1, <2>2, <2>3, <2>4, <2>5 DEF StandsAt
  <2>7. runner.pc \in AfterAnswers /\ runner'.pc # "respond"
    BY <1>1, <1>2, <2>1, <2>2 DEF AfterAnswers
  <2> QED BY <1>2, <1>3, <1>5, <1>6, <1>9, <2>2, <2>6, <2>7, FrameSound DEF Stands
<1> QED BY <1>2, <1>8, <1>9

LEMMA RefusedConfirmationKeeps == CampaignSound /\ RefusedConfirmation => CampaignSound'
<1> SUFFICES ASSUME CampaignSound, RefusedConfirmation PROVE CampaignSound'
  OBVIOUS
<1>1. /\ runner.pc = "refused" /\ Halts /\ UNCHANGED core /\ status' = "needs_revision"
      /\ UNCHANGED <<editorial, closure, repaired>>
      /\ UNCHANGED <<returns, retained, integrated, runs>>
  BY DEF RefusedConfirmation, At, core, ghosts
<1>2. /\ StandsAt(runner) /\ Cleared /\ ReviewTypes /\ RunTypes' /\ Running' /\ (runs' = 0 => runs = 0)
  BY <1>1, CampaignStandsFacts, RunTypesKept
<1>3. status = "agent_checks_complete" /\ ~Unready
  BY <1>1, <1>2 DEF StandsAt, Cleared
<1>4. ReviewTypes'
  BY <1>1, <1>2 DEF ReviewTypes, Statuses
<1>5. Cleared'
  <2>1. Unready' = Unready
    BY <1>1 DEF Unready, Unrepaired
  <2> QED BY <1>3, <2>1 DEF Cleared
<1>6. runner' = Stopped /\ worker' = [r \in Role |-> OffWork]
  BY <1>1 DEF Halts, Rests
<1>7. runner' \in RunnerRow /\ worker' \in [Role -> WorkerRow] /\ runner'.pc = "off" /\ ~runner'.skips
  BY <1>6, RunnerFacts
<1>8. StandsAt(runner)'
  BY <1>7 DEF StandsAt
<1> QED BY <1>1, <1>2, <1>3, <1>4, <1>5, <1>7, <1>8, FrameSound DEF Stands

-----------------------------------------------------------------------------
(* A new draft.                                                            *)
DraftsText(from, local) ==
  /\ latest < MaxDrafts /\ versions' = versions + 1 /\ version' = versions + 1
  /\ drafts' = Append(drafts, [ver |-> versions + 1, from |-> from, local |-> local])
  /\ status' = "draft_produced" /\ retained' = [r \in Role |-> Nothing]

LEMMA DraftsFacts ==
  ASSUME CampaignSound, NEW from \in Nat, NEW local \in BOOLEAN, DraftsText(from, local)
  PROVE  /\ latest' = latest + 1 /\ latest' \in Nat /\ latest' <= MaxDrafts
         /\ DOMAIN drafts' = 1 .. latest' /\ drafts' # <<>>
         /\ \A i \in 1 .. latest : drafts'[i] = drafts[i]
         /\ drafts'[latest'].ver = version' /\ drafts'[latest'].local = local
         /\ Digest' = version' /\ version' \in Nat /\ version' = versions + 1
         /\ versions' = version' /\ versions' <= MaxEdits + latest'
         /\ version' \in Ver /\ drafts' \in Seq(DraftRow)
         /\ \A i \in DOMAIN drafts' : drafts'[i].ver >= 1 /\ drafts'[i].ver <= version'
         /\ retained' \in [Role -> Return]
<1> DEFINE row == [ver |-> versions + 1, from |-> from, local |-> local]
<1>1. /\ CampaignData /\ Numbered /\ CoreTypes
  BY CampaignStandsFacts
<1>2. /\ latest \in Nat /\ versions \in Nat /\ versions <= MaxEdits + latest
      /\ latest < MaxDrafts /\ MaxDrafts \in Nat /\ MaxEdits \in Nat
      /\ drafts \in Seq(DraftRow) /\ DOMAIN drafts = 1 .. latest
      /\ versions' = versions + 1 /\ version' = versions + 1 /\ drafts' = Append(drafts, row)
  BY <1>1, CampaignNumbers DEF CampaignData, Numbered, CoreTypes, DraftsText
<1>3. versions + 1 \in Nat /\ versions + 1 <= MaxDrafts + MaxEdits
      /\ versions + 1 <= MaxEdits + (latest + 1) /\ latest + 1 <= MaxDrafts /\ latest + 1 \in Nat
  BY <1>2
<1>4. versions + 1 \in Ver
  BY <1>3, CampaignNumbers
<1>5. row \in DraftRow /\ row.ver = versions + 1 /\ row.local = local
  BY <1>4 DEF DraftRow
<1> HIDE DEF row
<1>6. /\ drafts' \in Seq(DraftRow) /\ Len(drafts') = Len(drafts) + 1
      /\ \A i \in 1 .. Len(drafts) : drafts'[i] = drafts[i]
      /\ drafts'[Len(drafts) + 1] = row
  BY <1>2, <1>5, AppendProperties
<1>7. latest' = latest + 1 /\ drafts'[latest + 1] = row /\ \A i \in 1 .. latest : drafts'[i] = drafts[i]
  BY <1>6 DEF latest
<1>8. DOMAIN drafts' = 1 .. (latest + 1) /\ drafts' # <<>>
  <2>1. Len(drafts') = latest + 1 /\ DOMAIN drafts' = 1 .. Len(drafts')
        /\ (Len(drafts') = 0 <=> drafts' = <<>>)
    BY <1>6, SequenceFacts, Zenon DEF latest
  <2> QED BY <1>2, <2>1
<1>9. Digest' = versions + 1
  BY <1>5, <1>7 DEF Digest
<1>10. ASSUME NEW i \in 1 .. (latest + 1)
       PROVE  drafts'[i].ver >= 1 /\ drafts'[i].ver <= versions + 1
  <2>1. CASE i = latest + 1
    BY <1>2, <1>5, <1>7, <2>1
  <2>2. CASE i # latest + 1
    <3>1. i \in 1 .. latest
      BY <1>2, <2>2
    <3>2. drafts[i].ver >= 1 /\ drafts[i].ver <= versions /\ drafts[i].ver \in Ver
      BY <1>1, <1>2, <3>1 DEF Numbered, CampaignData
    <3>3. drafts[i].ver \in Nat
      BY <3>2, CampaignNumbers
    <3> QED BY <1>2, <1>7, <3>1, <3>2, <3>3
  <2> QED BY <2>1, <2>2
<1>11. retained' \in [Role -> Return]
  <2>1. Nothing \in Return
    BY DEF Nothing, Return
  <2> QED BY <2>1 DEF DraftsText
<1>12. version' = versions + 1 /\ versions' = version' /\ version' \in Nat /\ version' \in Ver
  BY <1>2, <1>3, <1>4
<1>13. drafts'[latest'].ver = version' /\ drafts'[latest'].local = local /\ Digest' = version'
  BY <1>2, <1>5, <1>7, <1>9
<1>14. versions' <= MaxEdits + latest' /\ latest' \in Nat /\ latest' <= MaxDrafts
       /\ DOMAIN drafts' = 1 .. latest'
  BY <1>2, <1>3, <1>7, <1>8
<1>15. \A i \in DOMAIN drafts' : drafts'[i].ver >= 1 /\ drafts'[i].ver <= version'
  BY <1>2, <1>8, <1>10
<1> QED BY <1>6, <1>7, <1>8, <1>11, <1>12, <1>13, <1>14, <1>15

(* An answer recorded, alone or after others.                              *)
LEMMA OneAnswer ==
  ASSUME NEW v \in Ver
  PROVE  <<v>> \in Seq(Ver) /\ <<v>> # <<>> /\ Len(<<v>>) = 1 /\ <<v>>[1] = v /\ DOMAIN <<v>> = 1 .. 1
OBVIOUS

LEMMA NextAnswer ==
  ASSUME NEW s \in Seq(Ver), NEW v \in Ver, NEW t, t = Append(s, v)
  PROVE  /\ t \in Seq(Ver) /\ t # <<>> /\ t[Len(t)] = v /\ DOMAIN t = 1 .. Len(t)
         /\ Len(t) = Len(s) + 1 /\ Len(s) \in Nat /\ DOMAIN s = 1 .. Len(s)
         /\ \A i \in DOMAIN s : t[i] = s[i]
<1>1. Len(s) \in Nat /\ DOMAIN s = 1 .. Len(s)
  BY SequenceFacts, Zenon
<1>2. /\ t \in Seq(Ver) /\ Len(t) = Len(s) + 1 /\ \A i \in 1 .. Len(s) : t[i] = s[i]
      /\ t[Len(s) + 1] = v
  BY AppendProperties
<1>3. DOMAIN t = 1 .. Len(t) /\ (Len(t) = 0 <=> t = <<>>)
  BY <1>2, SequenceFacts, Zenon
<1> QED BY <1>1, <1>2, <1>3

(* Every objection of the draft before is a comment, or the new text was   *)
(* prepared elsewhere.                                                     *)
LEMMA DraftKeeps ==
  ASSUME CampaignSound, NEW from \in Nat, NEW local \in BOOLEAN, DraftsText(from, local),
         UNCHANGED <<editorial, returns, reports, runs, raised, judged>>, runs # 0,
         closure' \in [ClosurePhases -> ClosureRow], repaired' \in BOOLEAN, integrated' \in BOOLEAN,
         runner' \in RunnerRow, worker' \in [Role -> WorkerRow], ~runner'.skips,
         \/ runner'.pc = "respond" /\ ~local /\ UNCHANGED comments
            /\ answers' = [c \in Draft \X Role |-> <<>>]
            /\ (status = "draft_produced" => Unreviewed)
         \/ runner'.pc = "off" /\ local
            /\ comments' = [d \in Draft |-> [r \in Role |->
                 IF comments[d][r].open THEN [open |-> TRUE, answered |-> versions + 1, closed |-> 0]
                 ELSE comments[d][r]]]
            /\ answers' = [c \in Draft \X Role |-> IF c \in Asked THEN <<versions + 1>> ELSE <<>>]
  PROVE  CampaignSound'
<1>1. /\ CampaignData /\ Numbered /\ CoreTypes /\ ReviewTypes /\ RunTypes /\ Opened /\ Judged
      /\ Answering
  BY CampaignStandsFacts
<1>2. /\ latest' = latest + 1 /\ latest' \in Nat /\ latest' <= MaxDrafts
      /\ DOMAIN drafts' = 1 .. latest' /\ drafts' # <<>>
      /\ \A i \in 1 .. latest : drafts'[i] = drafts[i]
      /\ drafts'[latest'].ver = version' /\ drafts'[latest'].local = local
      /\ Digest' = version' /\ version' \in Nat /\ version' = versions + 1
      /\ versions' = version' /\ versions' <= MaxEdits + latest'
      /\ version' \in Ver /\ drafts' \in Seq(DraftRow)
      /\ \A i \in DOMAIN drafts' : drafts'[i].ver >= 1 /\ drafts'[i].ver <= version'
      /\ retained' \in [Role -> Return]
  BY DraftsFacts
<1>3. latest \in Nat /\ versions \in Nat /\ version <= versions /\ status' = "draft_produced"
  BY <1>1 DEF CampaignData, Numbered, DraftsText
<1> DEFINE reply == [open |-> TRUE, answered |-> version', closed |-> 0]
<1>4. /\ reply \in CommentRow /\ reply.open /\ reply.answered = version' /\ reply.closed = 0
      /\ comments \in [Draft -> [Role -> CommentRow]]
  <2>1. 0 \in Ver
    BY CampaignNumbers
  <2> QED BY <1>1, <1>2, <2>1 DEF CommentRow, CoreTypes
<1>5. /\ comments' \in [Draft -> [Role -> CommentRow]]
      /\ \A d \in Draft : \A r \in Role :
           comments'[d][r] = IF local /\ comments[d][r].open THEN reply ELSE comments[d][r]
  <2>1. CASE ~local /\ UNCHANGED comments
    BY <1>4, <2>1
  <2>2. CASE local /\ comments' = [d \in Draft |-> [r \in Role |->
               IF comments[d][r].open THEN [open |-> TRUE, answered |-> versions + 1, closed |-> 0]
               ELSE comments[d][r]]]
    <3>1. comments' = [d \in Draft |-> [r \in Role |->
               IF comments[d][r].open THEN reply ELSE comments[d][r]]]
      BY <1>2, <1>3, <2>2
    <3>2. local
      BY <2>2
    <3> HIDE DEF reply
    <3>3. \A d \in Draft : \A r \in Role :
            comments'[d][r] = IF comments[d][r].open THEN reply ELSE comments[d][r]
      BY <3>1
    <3>4. comments' \in [Draft -> [Role -> CommentRow]]
      BY <1>4, <3>1
    <3> QED BY <3>2, <3>3, <3>4
  <2> QED BY <2>1, <2>2
<1> HIDE DEF reply
<1>6. ASSUME NEW c \in Everyone
      PROVE  /\ c[1] \in Nat /\ c[1] >= 1
             /\ Of(c)' = IF local /\ Of(c).open THEN reply ELSE Of(c)
             /\ answers'[c] = IF local /\ Of(c).open THEN <<version'>> ELSE <<>>
             /\ Of(c).answered \in Nat /\ Of(c).answered <= versions
             /\ (c \in Asked <=> Of(c).open) /\ (c \in Asked' <=> c \in Asked)
             /\ c \in Asked => c[1] < latest'
  <2>1. /\ c[1] \in Draft /\ c[2] \in Role /\ (c \in Asked <=> Of(c).open)
        /\ Of(c).answered \in Nat /\ Of(c).answered <= versions /\ c[1] \in Nat /\ c[1] >= 1
    BY <1>1, <1>6 DEF CampaignData, Numbered
  <2>2. Of(c)' = IF local /\ Of(c).open THEN reply ELSE Of(c)
    BY <1>5, <2>1 DEF Of
  <2>3. answers'[c] = IF local /\ Of(c).open THEN <<version'>> ELSE <<>>
    <3>1. CASE ~local /\ answers' = [x \in Draft \X Role |-> <<>>]
      BY <1>6, <3>1 DEF Everyone
    <3>2. CASE local /\ answers' = [x \in Draft \X Role |-> IF x \in Asked THEN <<versions + 1>> ELSE <<>>]
      BY <1>2, <1>6, <2>1, <3>2 DEF Everyone
    <3> QED BY <3>1, <3>2
  <2>4. c \in Asked' <=> c \in Asked
    <3>1. c \in Asked' <=> Of(c)'.open
      BY <1>6 DEF Asked, Of, Everyone
    <3>2. Of(c).open \in BOOLEAN
      BY <1>1, <1>6 DEF CampaignData
    <3> QED BY <1>4, <2>1, <2>2, <3>1, <3>2
  <2>5. c \in Asked => c[1] < latest'
    <3>1. c \in Asked => c[1] <= latest
      BY <1>1, <1>3, <2>1 DEF Opened
    <3> QED BY <1>2, <1>3, <2>1, <3>1
  <2> QED BY <2>1, <2>2, <2>3, <2>4, <2>5
<1>7. Asked' = Asked
  <2>1. Asked' \subseteq Everyone /\ Asked \subseteq Everyone
    BY DEF Asked, Everyone
  <2> QED BY <1>6, <2>1
<1>8. TypeOKCampaign'
  <2>1. answers' \in [Everyone -> Seq(Ver)]
    <3>1. <<>> \in Seq(Ver) /\ <<version'>> \in Seq(Ver) /\ version' = versions + 1
      BY <1>2, OneAnswer
    <3>2. CASE answers' = [x \in Draft \X Role |-> <<>>]
      BY <3>1, <3>2 DEF Everyone
    <3>3. CASE answers' = [x \in Draft \X Role |-> IF x \in Asked THEN <<versions + 1>> ELSE <<>>]
      BY <3>1, <3>3 DEF Everyone
    <3> QED BY <3>2, <3>3
  <2>2. CoreTypes'
    BY <1>1, <1>2, <1>5, <2>1 DEF CoreTypes
  <2>3. ReviewTypes' /\ RunTypes' /\ AtWork'
    BY <1>1, <1>2, <1>3 DEF ReviewTypes, RunTypes, AtWork, Statuses
  <2> QED BY <2>2, <2>3, TypesByPartsNext
<1>9. \A i \in DOMAIN reports : reports[i].draft \in Nat /\ reports[i].draft <= latest /\ reports[i].draft >= 1
  BY <1>1, CampaignNumbers DEF CampaignData, Numbered
<1>10. Numbered'
  <2>1. \A c \in Everyone : Of(c)'.answered <= version'
    <3> SUFFICES ASSUME NEW c \in Everyone PROVE Of(c)'.answered <= version'
      OBVIOUS
    <3>1. CASE local /\ Of(c).open
      <4>1. Of(c)'.answered = version'
        BY <1>4, <1>6, <3>1
      <4> QED BY <1>2, <4>1
    <3>2. CASE ~(local /\ Of(c).open)
      <4>1. Of(c)'.answered = Of(c).answered
        BY <1>6, <3>2
      <4> QED BY <1>2, <1>3, <1>6, <4>1
    <3> QED BY <3>1, <3>2
  <2>2. \A i \in DOMAIN reports' : reports'[i].draft <= latest'
    BY <1>2, <1>3, <1>9
  <2> QED BY <1>2, <1>3, <2>1, <2>2 DEF Numbered
<1>11. Stands'
  <2>1. Unreviewed'
    BY <1>2, <1>3, <1>9 DEF Unreviewed
  <2> QED BY <1>2, <1>3, <2>1 DEF Stands, StandsAt, Cleared, Running
<1>12. Opened'
  <2>1. \A c \in Asked' : c[1] < latest'
    BY <1>1, <1>6, <1>7 DEF CampaignData
  <2>2. ASSUME NEW c \in raised'
        PROVE  c[1] <= latest' /\ (c \in Asked' \/ (c[1] < latest' /\ drafts'[c[1] + 1].local))
    <3>1. c \in raised /\ c \in Everyone /\ c[1] \in Nat /\ c[1] >= 1 /\ c[1] <= latest
      BY <1>1, <2>2 DEF Opened, CampaignData
    <3>2. c[1] < latest'
      BY <1>2, <1>3, <3>1
    <3>3. CASE c \in Asked
      BY <1>2, <1>7, <3>1, <3>2, <3>3
    <3>4. CASE c[1] < latest /\ drafts[c[1] + 1].local
      <4>1. c[1] + 1 \in 1 .. latest
        BY <1>3, <3>1, <3>4
      <4> QED BY <1>2, <3>1, <3>2, <3>4, <4>1
    <3>5. CASE c[1] = latest /\ local
      <4>1. drafts'[c[1] + 1].local
        BY <1>2, <3>5
      <4> QED BY <1>2, <3>1, <3>2, <4>1
    <3>6. CASE c[1] = latest /\ ~local /\ status = "draft_produced"
               /\ \E i \in DOMAIN reports : reports[i] = [role |-> c[2], draft |-> latest, blocks |-> TRUE]
      BY <3>6 DEF Unreviewed
    <3> QED BY <1>1, <3>1, <3>3, <3>4, <3>5, <3>6 DEF Opened
  <2>3. \A c \in Everyone : Of(c)'.closed # 0 => Of(c)'.answered = Of(c)'.closed
    <3> SUFFICES ASSUME NEW c \in Everyone, Of(c)'.closed # 0 PROVE Of(c)'.answered = Of(c)'.closed
      OBVIOUS
    <3>1. Of(c)' = Of(c)
      BY <1>4, <1>6
    <3>2. Of(c).closed # 0 => Of(c).answered = Of(c).closed
      BY <1>1 DEF Opened
    <3> QED BY <3>1, <3>2
  <2> QED BY <1>3, <2>1, <2>2, <2>3 DEF Opened
<1>13. Judged'
  <2>1. \A i \in DOMAIN reports : drafts'[reports[i].draft] = drafts[reports[i].draft]
    BY <1>2, <1>3, <1>9
  <2>2. reports' = reports /\ judged' = judged
    OBVIOUS
  <2> SUFFICES ASSUME NEW q \in Role, \E k \in DOMAIN reports : reports[k].role = q
      PROVE \E i \in DOMAIN reports :
              /\ reports[i].role = q
              /\ judged[q] = [ver |-> drafts'[reports[i].draft].ver, blocks |-> reports[i].blocks]
              /\ \A j \in DOMAIN reports : j > i => reports[j].role # q
    BY <2>2 DEF Judged
  <2>3. PICK i \in DOMAIN reports :
          /\ reports[i].role = q
          /\ judged[q] = [ver |-> drafts[reports[i].draft].ver, blocks |-> reports[i].blocks]
          /\ \A j \in DOMAIN reports : j > i => reports[j].role # q
    BY <1>1 DEF Judged
  <2>4. drafts'[reports[i].draft] = drafts[reports[i].draft]
    BY <2>1
  <2> QED BY <2>3, <2>4
<1>14. Answering'
  <2> SUFFICES ASSUME NEW c \in Everyone
      PROVE  AnswersFit(c)'
    BY DEF Answering
  <2>1. runner'.pc \in Unanswered
    BY DEF Unanswered
  <2>2. CASE local /\ Of(c).open
    <3>1. answers'[c] = <<version'>> /\ Of(c)'.answered = version' /\ c \in Asked /\ c[1] < latest'
      BY <1>4, <1>6, <2>2
    <3>2. answers'[c] # <<>> /\ Len(answers'[c]) = 1 /\ answers'[c][1] = version'
          /\ DOMAIN answers'[c] = {1}
      BY <1>2, <3>1, OneAnswer
    <3> QED BY <1>2, <2>1, <3>1, <3>2 DEF AnswersFit
  <2>3. CASE ~(local /\ Of(c).open)
    <3>1. answers'[c] = <<>> /\ Of(c)' = Of(c) /\ DOMAIN answers'[c] = {}
      BY <1>6, <2>3
    <3>2. Of(c).answered # Digest'
      BY <1>2, <1>3, <1>6
    <3> QED BY <2>1, <3>1, <3>2 DEF AnswersFit
  <2> QED BY <2>2, <2>3
<1> QED BY <1>8, <1>10, <1>11, <1>12, <1>13, <1>14 DEF CampaignSound

LEMMA ApplyDraftKeeps == CampaignSound /\ ApplyDraft => CampaignSound'
<1> SUFFICES ASSUME CampaignSound, ApplyDraft PROVE CampaignSound'
  OBVIOUS
<1> DEFINE from == IF runner.revising THEN Len(returns) ELSE 0
<1>1. /\ runner.pc = "apply" /\ DraftsText(from, FALSE) /\ Goes("respond")
      /\ UNCHANGED <<editorial, returns, reports, runs, raised, judged, comments, closure, repaired,
                     integrated, worker>>
      /\ answers' = [c \in Draft \X Role |-> <<>>]
  BY DEF ApplyDraft, At, NewDraft, DraftsText
<1>2. /\ worker \in [Role -> WorkerRow] /\ StandsAt(runner) /\ ReviewTypes /\ RunTypes
  BY CampaignStandsFacts
<1>3. from \in Nat
  <2>1. Len(returns) \in Nat
    BY <1>2, SequenceFacts DEF RunTypes
  <2> QED BY <2>1
<1> HIDE DEF from
<1>4. runner' \in RunnerRow /\ runner'.pc = "respond" /\ runner'.skips = runner.skips
  BY <1>1, GoesTo DEF Places
<1>5. ~runner.skips /\ (status = "draft_produced" => Unreviewed)
  BY <1>1, <1>2 DEF StandsAt
<1>6. runs # 0
  BY <1>1 DEF CampaignSound, Stands, Running
<1> QED BY <1>1, <1>2, <1>3, <1>4, <1>5, <1>6, DraftKeeps DEF ReviewTypes, RunTypes

LEMMA RecoverKeeps == CampaignSound /\ Recover => CampaignSound'
<1> SUFFICES ASSUME CampaignSound, Recover PROVE CampaignSound'
  OBVIOUS
<1>1. /\ runner.pc = "recover"
      /\ UNCHANGED <<editorial, returns, reports, comments, closure, repaired, integrated, worker,
                     runs, judged, raised>>
  BY DEF Recover, At
<1>2. /\ worker \in [Role -> WorkerRow] /\ StandsAt(runner) /\ ReviewTypes /\ RunTypes
      /\ runner \in RunnerRow /\ 0 \in 0 .. MaxCycles
  BY CampaignStandsFacts, CampaignNumbers
<1>3. ~runner.skips /\ runs # 0 /\ status = "needs_revision"
  BY <1>1, <1>2 DEF StandsAt, CampaignSound, Stands, Running
<1>4. PICK i \in Recoverable :
        \/ NewDraft(i, FALSE) /\ runner' = [runner EXCEPT !.pc = "respond", !.left = 0]
        \/ /\ runner' = [runner EXCEPT !.pc = "author", !.revising = TRUE, !.attempt = 1, !.left = 0]
           /\ UNCHANGED <<version, versions, drafts, status, retained, answers>>
  BY DEF Recover
<1>5. i \in Nat
  <2>1. DOMAIN returns = 1 .. Len(returns) /\ Len(returns) \in Nat
    BY <1>2, SequenceFacts, Zenon DEF RunTypes
  <2>2. i \in DOMAIN returns
    BY DEF Recoverable, Others
  <2> QED BY <2>1, <2>2
<1>6. CASE NewDraft(i, FALSE) /\ runner' = [runner EXCEPT !.pc = "respond", !.left = 0]
  <2>1. DraftsText(i, FALSE) /\ answers' = [c \in Draft \X Role |-> <<>>]
    BY <1>6 DEF NewDraft, DraftsText
  <2>2. runner' \in RunnerRow /\ runner'.pc = "respond" /\ ~runner'.skips
    BY <1>2, <1>3, <1>6 DEF RunnerRow, Places
  <2> QED BY <1>1, <1>2, <1>3, <1>5, <2>1, <2>2, DraftKeeps DEF ReviewTypes, RunTypes
<1>7. CASE /\ runner' = [runner EXCEPT !.pc = "author", !.revising = TRUE, !.attempt = 1, !.left = 0]
           /\ UNCHANGED <<version, versions, drafts, status, retained, answers>>
  <2>1. UNCHANGED core /\ UNCHANGED review /\ UNCHANGED <<returns, retained, integrated, runs>>
        /\ worker' = worker
    BY <1>1, <1>7 DEF core, review
  <2>2. RunTypes' /\ Running' /\ (runs' = 0 => runs = 0)
    BY <1>1, <2>1, RunTypesKept
  <2>3. runner' \in RunnerRow /\ runner'.pc = "author" /\ ~runner'.skips
    BY <1>2, <1>3, <1>7 DEF RunnerRow, Places
  <2>4. StandsAt(runner')
    BY <1>3, <1>7, <2>3 DEF StandsAt
  <2> QED BY <1>2, <2>1, <2>2, <2>3, <2>4, MovesKeep
<1> QED BY <1>4, <1>6, <1>7

LEMMA AdmitLocalKeeps == CampaignSound /\ AdmitLocal => CampaignSound'
<1> SUFFICES ASSUME CampaignSound, AdmitLocal PROVE CampaignSound'
  OBVIOUS
<1>1. /\ runner.pc = "off" /\ DraftsText(0, TRUE) /\ drafts # <<>>
      /\ UNCHANGED <<editorial, returns, reports, runs, raised, judged, runner, worker>>
      /\ closure' = NoClosure /\ repaired' = FALSE /\ integrated' = FALSE
      /\ comments' = [d \in Draft |-> [r \in Role |->
           IF comments[d][r].open THEN [open |-> TRUE, answered |-> versions + 1, closed |-> 0]
           ELSE comments[d][r]]]
      /\ answers' = [c \in Draft \X Role |-> IF c \in Asked THEN <<versions + 1>> ELSE <<>>]
  BY DEF AdmitLocal, Checkpoint, At, DraftsText
<1>2. /\ worker \in [Role -> WorkerRow] /\ StandsAt(runner) /\ Numbered /\ runner \in RunnerRow
  BY CampaignStandsFacts
<1>3. ~runner.skips /\ runs # 0
  BY <1>1, <1>2 DEF StandsAt, Numbered
<1>4. closure' \in [ClosurePhases -> ClosureRow]
  <2>1. 0 \in Ver
    BY CampaignNumbers
  <2>2. [calls |-> 0, ver |-> 0, result |-> "none"] \in ClosureRow
    BY <2>1 DEF ClosureRow
  <2> QED BY <1>1, <2>2 DEF NoClosure, ClosurePhases
<1> QED BY <1>1, <1>2, <1>3, <1>4, DraftKeeps

-----------------------------------------------------------------------------
(* The answers to what earlier drafts were asked.                          *)
LEMMA RespondedKeeps ==
  ASSUME CampaignSound, Responded, drafts # <<>>, UNCHANGED review,
         UNCHANGED <<version, versions, drafts, reports, raised, judged>>,
         UNCHANGED <<returns, retained, integrated, runs>>,
         runner' \in RunnerRow, worker' \in [Role -> WorkerRow], StandsAt(runner'), Running',
         runner'.pc \in {"repaired", "preflight", "recover"}
  PROVE  CampaignSound'
<1>1. /\ CampaignData /\ Numbered /\ CoreTypes /\ ReviewTypes /\ RunTypes /\ Opened /\ Judged
      /\ Answering /\ Cleared
  BY CampaignStandsFacts
<1>2. /\ latest' = latest /\ Digest' = Digest /\ status' = status /\ drafts' = drafts
      /\ version' = version /\ reports' = reports /\ raised' = raised
  BY DEF latest, Digest, review
<1> DEFINE due == {c \in Asked : c[1] < latest /\ ~Recorded(c)}
           reply == [open |-> TRUE, answered |-> version, closed |-> 0]
           told(c) == IF c \in due THEN reply ELSE Of(c)
<1>3. /\ comments' = [d \in Draft |-> [r \in Role |->
           IF <<d, r>> \in due THEN reply ELSE comments[d][r]]]
      /\ answers' = [c \in Draft \X Role |-> IF c \in due THEN Append(answers[c], version) ELSE answers[c]]
  BY DEF Responded
<1>4. /\ reply \in CommentRow /\ reply.open /\ reply.answered = version /\ reply.closed = 0
      /\ version \in Ver /\ version \in Nat
  <2>1. 0 \in Ver
    BY CampaignNumbers
  <2> QED BY <1>1, <2>1 DEF CommentRow, CoreTypes, CampaignData
<1> HIDE DEF due, reply
<1>5. ASSUME NEW c \in Everyone
      PROVE  /\ c = <<c[1], c[2]>> /\ c[1] \in Draft /\ c[2] \in Role /\ c[1] \in Nat
             /\ Of(c) = comments[c[1]][c[2]] /\ Of(c) \in CommentRow /\ (c \in Asked <=> Of(c).open)
             /\ Of(c).answered \in Nat /\ Of(c).answered <= versions /\ answers[c] \in Seq(Ver)
             /\ c \in due <=> c \in Asked /\ c[1] < latest /\ Of(c).answered # Digest
  <2>1. c \in due <=> c \in Asked /\ c[1] < latest /\ Of(c).answered # Digest
    BY DEF due, Recorded
  <2> QED BY <1>1, <2>1 DEF CampaignData, Numbered, CommentRow
<1>6. ASSUME NEW c \in Everyone
      PROVE  /\ Of(c)' = told(c) /\ told(c) \in CommentRow /\ told(c).open = Of(c).open
             /\ answers'[c] = IF c \in due THEN Append(answers[c], version) ELSE answers[c]
  <2>1. Of(c)' = told(c)
    BY <1>3, <1>5 DEF Of
  <2>2. answers'[c] = IF c \in due THEN Append(answers[c], version) ELSE answers[c]
    BY <1>3 DEF Everyone
  <2>3. told(c) \in CommentRow
    BY <1>4, <1>5
  <2>4. told(c).open = Of(c).open
    BY <1>4, <1>5 DEF CommentRow
  <2> QED BY <2>1, <2>2, <2>3, <2>4
<1>7. Asked' = Asked
  <2>1. Asked' \subseteq Everyone /\ Asked \subseteq Everyone
    BY DEF Asked, Everyone
  <2>2. ASSUME NEW c \in Everyone PROVE c \in Asked' <=> c \in Asked
    <3>1. c \in Asked' <=> Of(c)'.open
      BY <2>2 DEF Asked, Of, Everyone
    <3> QED BY <1>5, <1>6, <3>1
  <2> QED BY <2>1, <2>2
<1>8. TypeOKCampaign'
  <2>1. comments' \in [Draft -> [Role -> CommentRow]]
    <3>1. comments \in [Draft -> [Role -> CommentRow]]
      BY <1>1 DEF CoreTypes
    <3> QED BY <1>3, <1>4, <3>1
  <2>2. answers' \in [Everyone -> Seq(Ver)]
    <3>1. answers \in [Everyone -> Seq(Ver)]
      BY <1>1 DEF CoreTypes
    <3>2. \A c \in Everyone : answers'[c] \in Seq(Ver)
      <4> SUFFICES ASSUME NEW c \in Everyone PROVE answers'[c] \in Seq(Ver)
        OBVIOUS
      <4>1. answers[c] \in Seq(Ver)
        BY <3>1
      <4>2. c \in due => answers'[c] \in Seq(Ver)
        BY <1>4, <1>6, <4>1, NextAnswer
      <4> QED BY <1>6, <4>1, <4>2
    <3>3. answers' = [c \in Everyone |-> answers'[c]]
      BY <1>3 DEF Everyone
    <3> QED BY <3>2, <3>3
  <2>3. CoreTypes'
    BY <1>1, <2>1, <2>2 DEF CoreTypes
  <2>4. ReviewTypes' /\ RunTypes' /\ AtWork'
    BY <1>1 DEF ReviewTypes, RunTypes, AtWork, review
  <2> QED BY <2>3, <2>4, TypesByPartsNext
<1>9. Numbered'
  <2>1. \A c \in Everyone : Of(c)'.answered <= versions
    <3> SUFFICES ASSUME NEW c \in Everyone PROVE Of(c)'.answered <= versions
      OBVIOUS
    <3>1. CASE c \in due
      BY <1>1, <1>4, <1>6, <3>1 DEF Numbered
    <3>2. CASE c \notin due
      <4>1. Of(c)' = Of(c)
        BY <1>6, <3>2
      <4> QED BY <1>5, <4>1
    <3> QED BY <3>1, <3>2
  <2> QED BY <1>1, <1>2, <2>1 DEF Numbered
<1>10. Stands'
  <2>1. Unready' = Unready /\ Unreviewed' = Unreviewed
    BY <1>2 DEF Unready, Unrepaired, Unreviewed, review
  <2> QED BY <1>1, <1>2, <2>1 DEF Stands, StandsAt, Cleared, review
<1>11. Opened'
  <2>1. \A c \in Everyone : Of(c)'.closed # 0 => Of(c)'.answered = Of(c)'.closed
    <3> SUFFICES ASSUME NEW c \in Everyone, Of(c)'.closed # 0 PROVE Of(c)'.answered = Of(c)'.closed
      OBVIOUS
    <3>1. Of(c)' = Of(c)
      BY <1>4, <1>6
    <3>2. Of(c).closed # 0 => Of(c).answered = Of(c).closed
      BY <1>1 DEF Opened
    <3> QED BY <3>1, <3>2
  <2> QED BY <1>1, <1>2, <1>7, <2>1 DEF Opened
<1>12. Judged'
  BY <1>1, <1>2 DEF Judged
<1>13. Answering'
  <2> SUFFICES ASSUME NEW c \in Everyone
      PROVE  AnswersFit(c)'
    BY DEF Answering
  <2>1. AnswersFit(c) /\ answers[c] \in Seq(Ver)
    BY <1>1, <1>5 DEF Answering
  <2>2. CASE c \in due
    <3> DEFINE t == answers'[c]
    <3>1. /\ t # <<>> /\ t[Len(t)] = version /\ DOMAIN t = 1 .. Len(t) /\ Len(t) = Len(answers[c]) + 1
          /\ Len(answers[c]) \in Nat /\ DOMAIN answers[c] = 1 .. Len(answers[c])
          /\ \A i \in DOMAIN answers[c] : t[i] = answers[c][i]
      <4>1. t = Append(answers[c], version) /\ version \in Ver
        BY <1>4, <1>6, <2>2
      <4> HIDE DEF t
      <4> QED BY <2>1, <4>1, NextAnswer
    <3>2. Of(c)'.answered = version /\ c[1] < latest /\ Of(c).answered # Digest
      BY <1>4, <1>5, <1>6, <2>2
    <3>3. \A i \in DOMAIN answers[c] : answers[c][i] # Digest
      BY <2>1, <3>1, <3>2, EmptySeq DEF AnswersFit
    <3> HIDE DEF t
    <3>4. \A i \in DOMAIN t : t[i] = Digest => i = Len(t)
      <4> SUFFICES ASSUME NEW i \in DOMAIN t, i # Len(t) PROVE t[i] # Digest
        OBVIOUS
      <4>1. i \in DOMAIN answers[c]
        BY <3>1
      <4> QED BY <3>1, <3>3, <4>1
    <3> QED BY <1>2, <3>1, <3>2, <3>4 DEF AnswersFit, t
  <2>3. CASE c \notin due
    <3>1. answers'[c] = answers[c] /\ Of(c)' = Of(c)
      BY <1>6, <2>3
    <3>2. c \in Asked /\ c[1] < latest => answers[c] # <<>>
      BY <1>5, <2>1, <2>3 DEF AnswersFit
    <3> QED BY <1>2, <1>7, <2>1, <3>1, <3>2 DEF AnswersFit
  <2> QED BY <2>2, <2>3
<1> QED BY <1>8, <1>9, <1>10, <1>11, <1>12, <1>13 DEF CampaignSound

LEMMA RespondKeeps == CampaignSound /\ Respond => CampaignSound'
<1> SUFFICES ASSUME CampaignSound, Respond PROVE CampaignSound'
  OBVIOUS
<1> DEFINE next == IF Unrepaired THEN "repaired" ELSE "preflight"
<1>1. /\ runner.pc = "respond" /\ Responded /\ UNCHANGED review
      /\ UNCHANGED <<version, versions, drafts, reports, raised, judged>>
      /\ UNCHANGED <<returns, retained, integrated, runs>> /\ worker' = worker
      /\ runner' = [runner EXCEPT !.attempt = 0, !.revising = FALSE, !.pc = next]
  BY DEF Respond, At, review
<1>2. /\ worker \in [Role -> WorkerRow] /\ runner \in RunnerRow /\ StandsAt(runner) /\ Answering
      /\ Asked \subseteq Everyone /\ Running'
  BY <1>1, CampaignStandsFacts, RunningOn
<1>3. next \in {"repaired", "preflight"}
  OBVIOUS
<1> HIDE DEF next
<1>4. runner' \in RunnerRow /\ runner'.pc = next /\ runner'.skips = runner.skips
  BY <1>1, <1>2, <1>3 DEF RunnerRow, Places
<1>5. drafts # <<>> /\ StandsAt(runner')
  BY <1>1, <1>2, <1>3, <1>4 DEF StandsAt
<1> QED BY <1>1, <1>2, <1>3, <1>4, <1>5, RespondedKeeps

LEMMA ResumeKeeps == CampaignSound /\ Resume => CampaignSound'
<1> SUFFICES ASSUME CampaignSound, Resume PROVE CampaignSound'
  OBVIOUS
<1>1. /\ runner.pc = "resume" /\ UNCHANGED review /\ UNCHANGED core
      /\ UNCHANGED <<returns, retained, integrated, runs>>
      /\ \/ Goes("restore") /\ worker' = worker
         \/ Halts
  BY DEF Resume, At, review, core, durable, ghosts
<1>2. /\ worker \in [Role -> WorkerRow] /\ runner \in RunnerRow /\ StandsAt(runner)
      /\ RunTypes' /\ Running' /\ (runs' = 0 => runs = 0)
  BY <1>1, CampaignStandsFacts, RunTypesKept
<1>3. CASE Halts
  BY <1>1, <1>2, <1>3, HaltsKeeps
<1>4. CASE Goes("restore") /\ worker' = worker
  <2>1. /\ runner' \in RunnerRow /\ runner'.pc = "restore" /\ runner'.left = runner.left
        /\ runner'.skips = runner.skips
    BY <1>4, GoesTo, CampaignStandsFacts DEF Places
  <2>2. StandsAt(runner')
    BY <1>1, <1>2, <2>1 DEF StandsAt
  <2> QED BY <1>1, <1>2, <1>4, <2>1, <2>2, MovesKeep
<1> QED BY <1>1, <1>3, <1>4

LEMMA RestoreResponsesKeeps == CampaignSound /\ RestoreResponses => CampaignSound'
<1> SUFFICES ASSUME CampaignSound, RestoreResponses PROVE CampaignSound'
  OBVIOUS
<1>1. /\ runner.pc = "restore" /\ UNCHANGED review /\ Responded /\ worker' = worker
      /\ UNCHANGED <<version, versions, drafts, reports, raised, judged>>
      /\ UNCHANGED <<returns, retained, integrated, runs>>
      /\ \/ status = "needs_revision" /\ runner' = [runner EXCEPT !.pc = "recover"]
         \/ runner' = [runner EXCEPT !.pc = "preflight", !.skips = (status = "needs_revision")]
  BY DEF RestoreResponses, Corrects, At, review
<1>2. /\ worker \in [Role -> WorkerRow] /\ runner \in RunnerRow /\ StandsAt(runner) /\ Running'
  BY <1>1, CampaignStandsFacts, RunningOn
<1>3. CASE status = "needs_revision" /\ runner' = [runner EXCEPT !.pc = "recover"]
  <2>1. runner' \in RunnerRow /\ runner'.pc = "recover" /\ runner'.skips = runner.skips
    BY <1>2, <1>3 DEF RunnerRow, Places
  <2>2. drafts # <<>> /\ StandsAt(runner')
    BY <1>1, <1>2, <1>3, <2>1 DEF StandsAt
  <2> QED BY <1>1, <1>2, <2>1, <2>2, RespondedKeeps
<1>4. CASE runner' = [runner EXCEPT !.pc = "preflight", !.skips = (status = "needs_revision")]
  <2>1. /\ runner' \in RunnerRow /\ runner'.pc = "preflight" /\ runner'.left = runner.left
        /\ runner'.skips <=> status = "needs_revision"
    <3>1. PICK skips \in BOOLEAN : skips = (status = "needs_revision")
      OBVIOUS
    <3>2. runner' = [runner EXCEPT !.pc = "preflight", !.skips = skips]
      BY <1>4, <3>1
    <3> QED BY <1>2, <3>1, <3>2 DEF RunnerRow, Places
  <2>2. drafts # <<>> /\ StandsAt(runner')
    BY <1>1, <1>2, <2>1 DEF StandsAt
  <2> QED BY <1>1, <1>2, <2>1, <2>2, RespondedKeeps
<1> QED BY <1>1, <1>3, <1>4

-----------------------------------------------------------------------------
(* A report that is accepted, and the end of a review.                     *)
AcceptsReport(r) ==
  LET report == retained[r] IN
  /\ Verifiable(r)
  /\ reports' = Append(reports, [role |-> r, draft |-> latest, blocks |-> report.blocks])
  /\ comments' = [d \in Draft |-> [q \in Role |->
       IF <<d, q>> \in Prior(r)
       THEN [comments[d][q] EXCEPT !.closed = IF report.closes THEN version ELSE 0]
       ELSE comments[d][q]]]
  /\ judged' = [judged EXCEPT ![r] = [ver |-> Digest, blocks |-> report.blocks]]
  /\ raised' = IF report.blocks THEN raised \cup {<<latest, r>>} ELSE raised

LEMMA AcceptsKeeps ==
  ASSUME CampaignSound, NEW r \in Role, AcceptsReport(r), runner.pc = "reviews",
         retained[r] \in Report, worker' \in [Role -> WorkerRow], UNCHANGED review,
         UNCHANGED <<runner, version, versions, drafts, answers>>,
         UNCHANGED <<returns, retained, integrated, runs>>
  PROVE  CampaignSound'
<1>1. /\ CampaignData /\ Numbered /\ CoreTypes /\ ReviewTypes /\ RunTypes /\ Opened /\ Judged
      /\ Answering /\ Cleared /\ StandsAt(runner) /\ runner \in RunnerRow /\ Running'
  BY CampaignStandsFacts, RunningOn
<1>2. /\ latest' = latest /\ Digest' = Digest /\ status' = status /\ drafts' = drafts
      /\ version' = version /\ answers' = answers /\ runner' = runner
  BY DEF latest, Digest, review
<1> DEFINE report == retained[r]
           new == [role |-> r, draft |-> latest, blocks |-> report.blocks]
           seal == IF report.closes THEN version ELSE 0
           told(c) == IF c \in Prior(r) THEN [Of(c) EXCEPT !.closed = seal] ELSE Of(c)
<1>3. /\ reports' = Append(reports, new)
      /\ comments' = [d \in Draft |-> [q \in Role |->
           IF <<d, q>> \in Prior(r) THEN [comments[d][q] EXCEPT !.closed = seal] ELSE comments[d][q]]]
      /\ judged' = [judged EXCEPT ![r] = [ver |-> Digest, blocks |-> report.blocks]]
      /\ raised' = IF report.blocks THEN raised \cup {<<latest, r>>} ELSE raised
      /\ \A c \in Prior(r) : Of(c).answered = version /\ Digest = version
  BY DEF AcceptsReport, Verifiable
<1>4. /\ status = "draft_produced" /\ ~Unready /\ drafts # <<>> /\ latest \in Draft /\ latest \in Nat
      /\ latest >= 1 /\ Digest \in Ver /\ report.blocks \in BOOLEAN
      /\ seal \in Ver /\ (seal = 0 \/ seal = version)
  <2>1. status = "draft_produced" /\ ~Unready /\ drafts # <<>>
    BY <1>1 DEF StandsAt
  <2>2. latest \in Nat /\ latest >= 1 /\ latest <= MaxDrafts /\ Digest \in Ver
    BY <1>1, <2>1 DEF CampaignData, Numbered
  <2>3. report.blocks \in BOOLEAN
    BY DEF Report
  <2>4. version \in Ver /\ 0 \in Ver
    BY <1>1, CampaignNumbers DEF CoreTypes
  <2> QED BY <2>1, <2>2, <2>3, <2>4, CampaignNumbers
<1> HIDE DEF report, seal
<1>5. ASSUME NEW c \in Everyone
      PROVE  /\ c = <<c[1], c[2]>> /\ c[1] \in Draft /\ c[2] \in Role /\ c[1] \in Nat
             /\ Of(c) = comments[c[1]][c[2]] /\ Of(c) \in CommentRow /\ (c \in Asked <=> Of(c).open)
             /\ Of(c).answered <= versions
             /\ c \in Prior(r) => c \in Asked /\ Of(c).answered = version
  <2>1. c \in Prior(r) => c \in Asked /\ Of(c).answered = version
    BY <1>3 DEF Prior
  <2> QED BY <1>1, <2>1 DEF CampaignData, Numbered, CommentRow
<1>6. ASSUME NEW c \in Everyone
      PROVE  /\ Of(c)' = told(c) /\ told(c) \in CommentRow /\ told(c).open = Of(c).open
             /\ told(c).answered = Of(c).answered
             /\ told(c).closed = IF c \in Prior(r) THEN seal ELSE Of(c).closed
  <2>1. Of(c)' = told(c)
    BY <1>3, <1>5 DEF Of
  <2>2. /\ told(c) \in CommentRow /\ told(c).open = Of(c).open
        /\ told(c).answered = Of(c).answered
        /\ told(c).closed = IF c \in Prior(r) THEN seal ELSE Of(c).closed
    BY <1>4, <1>5 DEF CommentRow
  <2> QED BY <2>1, <2>2
<1>7. Asked' = Asked
  <2>1. Asked' \subseteq Everyone /\ Asked \subseteq Everyone
    BY DEF Asked, Everyone
  <2>2. ASSUME NEW c \in Everyone PROVE c \in Asked' <=> c \in Asked
    <3>1. c \in Asked' <=> Of(c)'.open
      BY <2>2 DEF Asked, Of, Everyone
    <3> QED BY <1>5, <1>6, <3>1
  <2> QED BY <2>1, <2>2
<1>8. /\ new \in ReportRow /\ reports' \in Seq(ReportRow) /\ Len(reports') = Len(reports) + 1
      /\ Len(reports) \in Nat /\ DOMAIN reports = 1 .. Len(reports)
      /\ DOMAIN reports' = 1 .. (Len(reports) + 1)
      /\ \A i \in DOMAIN reports : reports'[i] = reports[i]
      /\ reports'[Len(reports) + 1] = new
  <2>1. new \in ReportRow
    BY <1>4 DEF ReportRow
  <2> HIDE DEF new
  <2>2. reports \in Seq(ReportRow)
    BY <1>1 DEF CoreTypes
  <2>3. /\ reports' \in Seq(ReportRow) /\ Len(reports') = Len(reports) + 1
        /\ \A i \in 1 .. Len(reports) : reports'[i] = reports[i]
        /\ reports'[Len(reports) + 1] = new
    BY <1>3, <2>1, <2>2, AppendProperties
  <2>4. Len(reports) \in Nat /\ DOMAIN reports = 1 .. Len(reports) /\ DOMAIN reports' = 1 .. Len(reports')
    BY <2>2, <2>3, SequenceFacts, Zenon
  <2> QED BY <2>1, <2>3, <2>4
<1>9. new.role = r /\ new.draft = latest /\ new.blocks = report.blocks
  OBVIOUS
<1>10. /\ Len(reports) + 1 \in DOMAIN reports' /\ DOMAIN reports \subseteq DOMAIN reports'
       /\ \A i \in DOMAIN reports' : i \in DOMAIN reports \/ i = Len(reports) + 1
       /\ \A i \in DOMAIN reports : i \in Nat /\ i < Len(reports) + 1
  BY <1>8
<1>11. TypeOKCampaign'
  <2>1. comments' \in [Draft -> [Role -> CommentRow]]
    <3>1. comments \in [Draft -> [Role -> CommentRow]]
      BY <1>1 DEF CoreTypes
    <3>2. ASSUME NEW d \in Draft, NEW q \in Role
          PROVE  (IF <<d, q>> \in Prior(r) THEN [comments[d][q] EXCEPT !.closed = seal]
                  ELSE comments[d][q]) \in CommentRow
      <4>1. comments[d][q] \in CommentRow
        BY <3>1
      <4> QED BY <1>4, <4>1 DEF CommentRow
    <3> QED BY <1>3, <3>2
  <2>2. judged' \in [Role -> [ver : Ver, blocks : BOOLEAN]]
    <3>1. [ver |-> Digest, blocks |-> report.blocks] \in [ver : Ver, blocks : BOOLEAN]
      BY <1>4
    <3> QED BY <1>1, <1>3, <3>1 DEF CoreTypes
  <2>3. raised' \subseteq Everyone
    BY <1>1, <1>3, <1>4 DEF CoreTypes, Everyone
  <2>4. CoreTypes'
    BY <1>1, <1>2, <1>8, <2>1, <2>2, <2>3 DEF CoreTypes
  <2>5. ReviewTypes' /\ RunTypes' /\ AtWork'
    BY <1>1 DEF ReviewTypes, RunTypes, AtWork, review
  <2> QED BY <2>4, <2>5, TypesByPartsNext
<1> HIDE DEF new
<1>12. Numbered'
  <2>1. \A c \in Everyone : Of(c)'.answered <= versions
    BY <1>5, <1>6
  <2>2. \A i \in DOMAIN reports' : reports'[i].draft <= latest
    BY <1>1, <1>4, <1>8, <1>9, <1>10 DEF Numbered
  <2> QED BY <1>1, <1>2, <2>1, <2>2 DEF Numbered
<1>13. Stands'
  <2>1. Unready' = Unready
    BY DEF Unready, Unrepaired, review
  <2> QED BY <1>1, <1>2, <1>4, <2>1 DEF Stands, StandsAt, Cleared, review
<1>14. Opened'
  <2>1. \A c \in Everyone : Of(c)'.closed # 0 => Of(c)'.answered = Of(c)'.closed
    <3>1. \A c \in Everyone : Of(c).closed # 0 => Of(c).answered = Of(c).closed
      BY <1>1 DEF Opened
    <3> QED BY <1>4, <1>5, <1>6, <3>1
  <2>2. ASSUME NEW c \in raised'
        PROVE  /\ c[1] <= latest
               /\ \/ c \in Asked
                  \/ c[1] < latest /\ drafts[c[1] + 1].local
                  \/ /\ c[1] = latest /\ status = "draft_produced"
                     /\ \E i \in DOMAIN reports' :
                          reports'[i] = [role |-> c[2], draft |-> latest, blocks |-> TRUE]
    <3>1. CASE c \in raised
      <4>1. \A i \in DOMAIN reports : i \in DOMAIN reports' /\ reports'[i] = reports[i]
        BY <1>8, <1>10
      <4> QED BY <1>1, <3>1, <4>1 DEF Opened
    <3>2. CASE c = <<latest, r>> /\ report.blocks
      <4>1. c[1] = latest /\ c[2] = r
        BY <3>2
      <4>2. new = [role |-> r, draft |-> latest, blocks |-> TRUE]
        BY <1>4, <3>2 DEF new
      <4> QED BY <1>4, <1>8, <1>10, <4>1, <4>2
    <3> QED BY <1>3, <2>2, <3>1, <3>2
  <2> QED BY <1>1, <1>2, <1>7, <2>1, <2>2 DEF Opened
<1>15. Judged'
  <2> SUFFICES ASSUME NEW q \in Role, NEW k \in DOMAIN reports', reports'[k].role = q
      PROVE \E i \in DOMAIN reports' :
              /\ reports'[i].role = q
              /\ judged'[q] = [ver |-> drafts[reports'[i].draft].ver, blocks |-> reports'[i].blocks]
              /\ \A j \in DOMAIN reports' : j > i => reports'[j].role # q
    BY <1>2 DEF Judged
  <2>1. CASE q = r
    <3>1. judged'[q] = [ver |-> drafts[new.draft].ver, blocks |-> new.blocks]
      BY <1>1, <1>3, <1>9, <2>1 DEF CoreTypes, Digest
    <3>2. \A j \in DOMAIN reports' : ~(j > Len(reports) + 1)
      BY <1>8
    <3> QED BY <1>8, <1>9, <1>10, <2>1, <3>1, <3>2
  <2>2. CASE q # r
    <3>1. k \in DOMAIN reports /\ reports[k].role = q
      BY <1>8, <1>9, <1>10, <2>2
    <3>2. PICK i \in DOMAIN reports :
            /\ reports[i].role = q
            /\ judged[q] = [ver |-> drafts[reports[i].draft].ver, blocks |-> reports[i].blocks]
            /\ \A j \in DOMAIN reports : j > i => reports[j].role # q
      BY <1>1, <3>1 DEF Judged
    <3>3. judged'[q] = judged[q]
      BY <1>1, <1>3, <2>2 DEF CoreTypes
    <3>4. \A j \in DOMAIN reports' : j > i => reports'[j].role # q
      BY <1>8, <1>9, <1>10, <2>2, <3>2
    <3>5. i \in DOMAIN reports' /\ reports'[i] = reports[i]
      BY <1>8, <1>10
    <3> QED BY <3>2, <3>3, <3>4, <3>5
  <2> QED BY <2>1, <2>2
<1>16. Answering'
  <2> SUFFICES ASSUME NEW c \in Everyone
      PROVE  AnswersFit(c)'
    BY DEF Answering
  <2>1. Of(c)'.answered = Of(c).answered /\ AnswersFit(c)
    BY <1>1, <1>6 DEF Answering
  <2> QED BY <1>2, <1>7, <2>1 DEF AnswersFit
<1> QED BY <1>11, <1>12, <1>13, <1>14, <1>15, <1>16 DEF CampaignSound

LEMMA AcceptReportKeeps ==
  ASSUME CampaignSound, NEW r \in Role, AcceptReport(r) PROVE CampaignSound'
<1>1. /\ runner.pc = "reviews" /\ retained[r] \in Report /\ UNCHANGED review
      /\ UNCHANGED <<version, versions, drafts, answers>>
      /\ UNCHANGED <<returns, retained, integrated, runs>>
      /\ \/ AcceptsReport(r) /\ Puts(r, "accepted") /\ runner' = runner
         \/ Halts /\ UNCHANGED <<reports, comments, judged, raised>>
  BY DEF AcceptReport, AcceptsReport, At, review
<1>2. CASE AcceptsReport(r) /\ Puts(r, "accepted") /\ runner' = runner
  <2>1. worker' \in [Role -> WorkerRow]
    BY <1>2, PutsWorker
  <2> QED BY <1>1, <1>2, <2>1, AcceptsKeeps
<1>3. CASE Halts /\ UNCHANGED <<reports, comments, judged, raised>>
  <2>1. UNCHANGED core
    BY <1>1, <1>3 DEF core
  <2>2. RunTypes' /\ (runs' = 0 => runs = 0)
    BY <1>1, RunTypesKept
  <2> QED BY <1>1, <1>3, <2>1, <2>2, HaltsKeeps
<1> QED BY <1>1, <1>2, <1>3

LEMMA EndWaveKeeps == CampaignSound /\ EndWave => CampaignSound'
<1> SUFFICES ASSUME CampaignSound, EndWave PROVE CampaignSound'
  OBVIOUS
<1> DEFINE done == Blocking = {} /\ \A c \in Asked : Resolved(c)
           row == [open |-> TRUE, answered |-> 0, closed |-> 0]
           told(c) == IF c[1] = latest /\ c[2] \in Blocking THEN row ELSE Of(c)
           next == IF editorial THEN "confirmation" ELSE "integrate"
<1>1. /\ runner.pc = "reviews" /\ UNCHANGED <<editorial, closure, repaired>>
      /\ UNCHANGED <<version, versions, drafts, reports, answers, judged, raised>>
      /\ UNCHANGED <<returns, retained, integrated, runs>>
      /\ comments' = [comments EXCEPT ![latest] = [r \in Role |->
           IF r \in Blocking THEN row ELSE comments[latest][r]]]
      /\ status' = IF done THEN "agent_checks_complete" ELSE "needs_revision"
      /\ \/ done /\ Goes(next) /\ worker' = worker
         \/ ~done /\ Halts
         \/ /\ ~done /\ runner.left > 0 /\ Rests
            /\ runner' = [runner EXCEPT !.pc = "author", !.revising = TRUE, !.left = runner.left - 1,
                                        !.again = TRUE]
  BY DEF EndWave, At, ghosts
<1>2. /\ CampaignData /\ Numbered /\ CoreTypes /\ ReviewTypes /\ RunTypes /\ Opened /\ Judged
      /\ Answering /\ Cleared /\ StandsAt(runner) /\ runner \in RunnerRow
      /\ worker \in [Role -> WorkerRow] /\ RunTypes' /\ Running'
  BY <1>1, CampaignStandsFacts, RunTypesKept
<1>3. /\ latest' = latest /\ Digest' = Digest /\ drafts' = drafts
      /\ version' = version /\ answers' = answers /\ reports' = reports /\ raised' = raised
  BY <1>1 DEF latest, Digest
<1>4. /\ status = "draft_produced" /\ ~Unready /\ drafts # <<>> /\ latest \in Draft /\ latest \in Nat
      /\ ~runner.skips /\ row \in CommentRow
  <2>1. status = "draft_produced" /\ ~Unready /\ drafts # <<>> /\ ~runner.skips
    BY <1>1, <1>2 DEF StandsAt
  <2>2. latest \in Nat /\ latest >= 1 /\ latest <= MaxDrafts
    BY <1>2, <2>1 DEF CampaignData, Numbered
  <2>3. row \in CommentRow
    BY CampaignNumbers DEF CommentRow
  <2> QED BY <2>1, <2>2, <2>3, CampaignNumbers
<1>5. ASSUME NEW c \in Everyone
      PROVE  /\ c[1] \in Draft /\ c[2] \in Role /\ c[1] \in Nat /\ c[1] >= 1
             /\ Of(c) = comments[c[1]][c[2]] /\ Of(c) \in CommentRow /\ (c \in Asked <=> Of(c).open)
             /\ Of(c).answered <= versions /\ Of(c)' = told(c) /\ told(c) \in CommentRow
  <2>1. /\ c[1] \in Draft /\ c[2] \in Role /\ c[1] \in Nat /\ c[1] >= 1
        /\ Of(c) = comments[c[1]][c[2]] /\ Of(c) \in CommentRow /\ (c \in Asked <=> Of(c).open)
        /\ Of(c).answered <= versions
    BY <1>2 DEF CampaignData, Numbered, CommentRow
  <2>2. comments \in [Draft -> [Role -> CommentRow]]
    BY <1>2 DEF CoreTypes
  <2>3. Of(c)' = comments'[c[1]][c[2]]
    BY DEF Of
  <2> HIDE DEF row
  <2>4. CASE c[1] = latest
    BY <1>1, <1>4, <2>1, <2>2, <2>3, <2>4
  <2>5. CASE c[1] # latest
    BY <1>1, <1>4, <2>1, <2>2, <2>3, <2>5
  <2> QED BY <2>1, <2>4, <2>5
<1>6. \A c \in Asked : c \in Everyone /\ c[1] < latest /\ c[1] \in Nat
  BY <1>2, <1>4 DEF Opened, CampaignData
<1>7. ASSUME NEW c \in Everyone
      PROVE  /\ c \in Asked' <=> c \in Asked \/ (c[1] = latest /\ c[2] \in Blocking)
             /\ c[1] < latest => Of(c)' = Of(c)
  <2>1. c \in Asked' <=> Of(c)'.open
    BY <1>7 DEF Asked, Of, Everyone
  <2>2. CASE c[1] = latest /\ c[2] \in Blocking
    BY <1>4, <1>5, <2>1, <2>2
  <2>3. CASE ~(c[1] = latest /\ c[2] \in Blocking)
    BY <1>4, <1>5, <2>1, <2>3
  <2> QED BY <2>2, <2>3
<1>8. Asked' \subseteq Everyone
  BY DEF Asked, Everyone
<1>9. CoreTypes' /\ ReviewTypes'
  <2>1. comments' \in [Draft -> [Role -> CommentRow]]
    <3>1. comments \in [Draft -> [Role -> CommentRow]]
      BY <1>2 DEF CoreTypes
    <3> HIDE DEF row
    <3>2. [r \in Role |-> IF r \in Blocking THEN row ELSE comments[latest][r]] \in [Role -> CommentRow]
      BY <1>4, <3>1
    <3> QED BY <1>1, <1>4, <3>1, <3>2
  <2>2. status' \in Statuses
    BY <1>1 DEF Statuses
  <2> QED BY <1>1, <1>2, <2>1, <2>2 DEF CoreTypes, ReviewTypes
<1>10. Numbered'
  <2>1. \A c \in Everyone : Of(c)'.answered <= versions
    <3>1. versions >= 0
      BY <1>2 DEF CampaignData
    <3> QED BY <1>5, <3>1
  <2>2. status' # "pending"
    BY <1>1
  <2> QED BY <1>1, <1>2, <1>3, <1>4, <2>1, <2>2 DEF Numbered
<1>11. /\ runner' \in RunnerRow /\ worker' \in [Role -> WorkerRow] /\ ~runner'.skips
       /\ done => runner'.pc \in {"confirmation", "integrate"}
       /\ ~done => runner'.pc \in {"off", "author"}
  <2>1. CASE done /\ Goes(next) /\ worker' = worker
    <3>1. next \in {"confirmation", "integrate"}
      OBVIOUS
    <3> HIDE DEF next, done
    <3>2. runner' \in RunnerRow /\ runner'.pc = next /\ runner'.skips = runner.skips
      BY <2>1, <3>1, GoesTo DEF Places
    <3> QED BY <1>2, <1>4, <2>1, <3>1, <3>2
  <2>2. CASE ~done /\ Halts
    <3> HIDE DEF done
    <3>1. runner' = Stopped /\ worker' = [r \in Role |-> OffWork]
      BY <2>2 DEF Halts, Rests
    <3> QED BY <2>2, <3>1, RunnerFacts
  <2>3. CASE /\ ~done /\ runner.left > 0 /\ Rests
             /\ runner' = [runner EXCEPT !.pc = "author", !.revising = TRUE, !.left = runner.left - 1,
                                         !.again = TRUE]
    <3> HIDE DEF done
    <3>1. runner.left - 1 \in 0 .. MaxCycles
      BY <1>2, <2>3, RunnerFacts, CampaignNumbers
    <3>2. worker' \in [Role -> WorkerRow]
      BY <2>3, RunnerFacts DEF Rests
    <3>3. runner' \in RunnerRow /\ runner'.pc = "author" /\ runner'.skips = runner.skips
      BY <1>2, <2>3, <3>1 DEF RunnerRow, Places
    <3> QED BY <1>4, <2>3, <3>2, <3>3
  <2> QED BY <1>1, <2>1, <2>2, <2>3
<1>12. TypeOKCampaign'
  BY <1>2, <1>9, <1>11, TypesByPartsNext DEF AtWork
<1> HIDE DEF done
<1>13. Stands'
  <2>1. Unready' = Unready
    BY <1>1 DEF Unready, Unrepaired
  <2>2. StandsAt(runner)'
    BY <1>1, <1>3, <1>4, <1>11 DEF StandsAt
  <2> QED BY <1>2, <1>4, <2>1, <2>2 DEF Stands, Cleared
<1>14. Opened'
  <2>1. ASSUME NEW c \in Asked' PROVE c[1] < latest \/ (c[1] = latest /\ status' = "needs_revision")
    <3>1. c \in Everyone
      BY <1>8, <2>1
    <3>2. CASE c \in Asked
      BY <1>6, <3>2
    <3>3. CASE c[1] = latest /\ c[2] \in Blocking
      BY <1>1, <3>3 DEF done
    <3> QED BY <1>7, <2>1, <3>1, <3>2, <3>3
  <2>2. ASSUME NEW c \in raised
        PROVE  c[1] <= latest /\ (c \in Asked' \/ (c[1] < latest /\ drafts[c[1] + 1].local))
    <3>1. c \in Everyone /\ c[1] <= latest
      BY <1>2 DEF Opened, CampaignData
    <3>2. CASE c \in Asked
      BY <1>7, <3>1, <3>2
    <3>3. ASSUME c[1] = latest,
                 NEW i \in DOMAIN reports, reports[i] = [role |-> c[2], draft |-> latest, blocks |-> TRUE]
          PROVE  c \in Asked'
      <4>1. reports[i].role = c[2] /\ reports[i].draft = latest /\ reports[i].blocks
        BY <3>3
      <4>2. c[2] \in Blocking
        BY <4>1, Zenon DEF Blocking
      <4> QED BY <1>7, <3>1, <3>3, <4>2
    <3> QED BY <1>2, <3>1, <3>2, <3>3 DEF Opened
  <2>3. \A c \in Everyone : Of(c)'.closed # 0 => Of(c)'.answered = Of(c)'.closed
    <3>1. \A c \in Everyone : Of(c).closed # 0 => Of(c).answered = Of(c).closed
      BY <1>2 DEF Opened
    <3> QED BY <1>5, <3>1
  <2> HIDE DEF row
  <2> QED BY <1>3, <2>1, <2>2, <2>3 DEF Opened
<1>15. Judged'
  BY <1>1, <1>2 DEF Judged
<1>16. Answering'
  <2> SUFFICES ASSUME NEW c \in Everyone
      PROVE  AnswersFit(c)'
    BY DEF Answering
  <2>1. AnswersFit(c) /\ runner.pc \notin Unanswered /\ c[1] \in Nat
    BY <1>1, <1>2, <1>5 DEF Answering, Unanswered
  <2>2. c[1] < latest => Of(c)' = Of(c) /\ (c \in Asked' <=> c \in Asked)
    BY <1>4, <1>5, <1>7
  <2>3. answers[c] # <<>> => c[1] < latest
    BY <2>1 DEF AnswersFit
  <2> QED BY <1>3, <2>1, <2>2, <2>3 DEF AnswersFit
<1> QED BY <1>10, <1>12, <1>13, <1>14, <1>15, <1>16 DEF CampaignSound

LEMMA EditOutsideKeeps == CampaignSound /\ EditOutside => CampaignSound'
<1> SUFFICES ASSUME CampaignSound, EditOutside PROVE CampaignSound'
  OBVIOUS
<1>1. /\ drafts # <<>>
      /\ \/ versions < MaxDrafts + MaxEdits - (MaxDrafts - latest)
           /\ versions' = versions + 1 /\ version' = versions + 1
         \/ version' \in 1 .. versions - 1 /\ versions' = versions
      /\ UNCHANGED <<drafts, reports, comments, raised, judged, answers>> /\ UNCHANGED review
      /\ UNCHANGED <<returns, retained, integrated, runs>> /\ runner' = runner /\ worker' = worker
  BY DEF EditOutside, ghosts, review
<1>2. /\ CampaignData /\ Numbered /\ CoreTypes /\ ReviewTypes /\ RunTypes /\ Opened /\ Judged
      /\ Answering /\ Cleared /\ StandsAt(runner) /\ Running /\ runner \in RunnerRow
      /\ worker \in [Role -> WorkerRow] /\ RunTypes'
  BY <1>1, CampaignStandsFacts, RunTypesKept
<1>3. /\ latest' = latest /\ Digest' = Digest /\ Asked' = Asked /\ \A c : Of(c)' = Of(c)
      /\ status' = status
  BY <1>1 DEF latest, Digest, Asked, Of, review
<1>4. /\ versions \in Nat /\ versions' \in Nat /\ versions <= versions' /\ version' <= versions'
      /\ versions' <= MaxEdits + latest /\ version' \in Ver /\ versions' \in Ver
  <2>1. versions \in Nat /\ latest \in Nat /\ MaxDrafts \in Nat /\ MaxEdits \in Nat
        /\ versions <= MaxEdits + latest /\ latest <= MaxDrafts
    BY <1>2, CampaignNumbers DEF CampaignData, Numbered
  <2>2. /\ version' \in Nat /\ versions' \in Nat /\ version' <= versions' /\ versions <= versions'
        /\ versions' <= MaxEdits + latest /\ versions' <= MaxDrafts + MaxEdits
        /\ version' <= MaxDrafts + MaxEdits
    BY <1>1, <2>1
  <2> QED BY <2>1, <2>2, CampaignNumbers
<1>5. TypeOKCampaign'
  <2>1. CoreTypes'
    BY <1>1, <1>2, <1>4 DEF CoreTypes
  <2>2. ReviewTypes' /\ AtWork'
    BY <1>1, <1>2 DEF ReviewTypes, AtWork, review
  <2> QED BY <1>2, <2>1, <2>2, TypesByPartsNext
<1>6. Numbered'
  <2>1. \A i \in DOMAIN drafts : drafts[i].ver >= 1 /\ drafts[i].ver <= versions'
    <3> SUFFICES ASSUME NEW i \in DOMAIN drafts
                 PROVE  drafts[i].ver >= 1 /\ drafts[i].ver <= versions'
      OBVIOUS
    <3>1. drafts[i].ver \in Ver
      BY <1>2 DEF CampaignData
    <3>2. drafts[i].ver \in Nat /\ drafts[i].ver >= 1 /\ drafts[i].ver <= versions
      BY <1>2, <3>1, CampaignNumbers DEF Numbered
    <3> QED BY <1>4, <3>2
  <2>2. \A c \in Everyone : Of(c).answered <= versions'
    <3> SUFFICES ASSUME NEW c \in Everyone PROVE Of(c).answered <= versions'
      OBVIOUS
    <3>1. Of(c).answered \in Nat /\ Of(c).answered <= versions
      BY <1>2 DEF CampaignData, Numbered
    <3> QED BY <1>4, <3>1
  <2> QED BY <1>1, <1>2, <1>3, <1>4, <2>1, <2>2 DEF Numbered
<1>7. Stands'
  <2>1. Unready' = Unready /\ Unreviewed' = Unreviewed
    BY <1>1, <1>3 DEF Unready, Unrepaired, Unreviewed, review
  <2> QED BY <1>1, <1>2, <1>3, <2>1 DEF Stands, StandsAt, Cleared, Running, review
<1>8. Opened'
  BY <1>1, <1>2, <1>3 DEF Opened
<1>9. Judged'
  BY <1>1, <1>2 DEF Judged
<1>10. Answering'
  BY <1>1, <1>2, <1>3 DEF Answering, AnswersFit
<1> QED BY <1>5, <1>6, <1>7, <1>8, <1>9, <1>10 DEF CampaignSound

-----------------------------------------------------------------------------
LEMMA CampaignInitSound == CampaignInit => CampaignSound
<1> SUFFICES ASSUME CampaignInit PROVE CampaignSound
  OBVIOUS
<1>1. /\ version = 0 /\ versions = 0 /\ drafts = <<>> /\ returns = <<>> /\ reports = <<>>
      /\ editorial \in BOOLEAN /\ retained = [r \in Role |-> Nothing]
      /\ comments = [d \in Draft |-> [r \in Role |-> NoComment]]
      /\ status = "pending" /\ closure = NoClosure /\ repaired = FALSE /\ integrated = FALSE
      /\ runner = Stopped /\ worker = [r \in Role |-> OffWork] /\ runs = 0
      /\ judged = [r \in Role |-> [ver |-> 0, blocks |-> TRUE]]
      /\ raised = {} /\ answers = [c \in Draft \X Role |-> <<>>]
  BY DEF CampaignInit
<1>2. 0 \in Ver /\ 0 \in 0 .. MaxRuns /\ 0 \in Nat /\ MaxEdits \in Nat /\ MaxDrafts \in Nat
  BY CampaignNumbers
<1>3. TypeOKCampaign
  <2>1. NoComment \in CommentRow /\ Nothing \in Return
    BY <1>2 DEF NoComment, CommentRow, Nothing, Return
  <2>2. closure \in [ClosurePhases -> ClosureRow]
    <3>1. [calls |-> 0, ver |-> 0, result |-> "none"] \in ClosureRow
      BY <1>2 DEF ClosureRow
    <3> QED BY <1>1, <3>1 DEF NoClosure, ClosurePhases
  <2>3. CoreTypes
    <3>1. comments \in [Draft -> [Role -> CommentRow]]
      BY <1>1, <2>1
    <3>2. judged \in [Role -> [ver : Ver, blocks : BOOLEAN]] /\ answers \in [Everyone -> Seq(Ver)]
      BY <1>1, <1>2 DEF Everyone
    <3>3. drafts \in Seq(DraftRow) /\ reports \in Seq(ReportRow)
      BY <1>1
    <3> QED BY <1>1, <1>2, <3>1, <3>2, <3>3 DEF CoreTypes
  <2>4. ReviewTypes
    BY <1>1, <2>2 DEF ReviewTypes, Statuses
  <2>5. RunTypes
    <3>1. returns \in Seq(ReturnRow)
      BY <1>1
    <3> QED BY <1>1, <1>2, <2>1, <3>1 DEF RunTypes
  <2>6. AtWork
    BY <1>1, RunnerFacts DEF AtWork
  <2> QED BY <2>3, <2>4, <2>5, <2>6, TypesByParts
<1>4. latest = 0 /\ DOMAIN drafts = {} /\ DOMAIN reports = {}
  BY <1>1 DEF latest
<1>5. ASSUME NEW c \in Everyone
      PROVE  c \notin Asked /\ Of(c).answered = 0 /\ Of(c).closed = 0 /\ answers[c] = <<>> /\ c[1] \in Nat
             /\ c[1] >= 1
  <2>1. c[1] \in Draft /\ c[2] \in Role /\ c[1] \in Nat /\ c[1] >= 1 /\ (c \in Asked <=> Of(c).open)
    BY <1>3, CampaignTypes DEF CampaignData
  <2>2. Of(c) = NoComment /\ answers[c] = <<>>
    BY <1>1, <2>1 DEF Of, Everyone
  <2> QED BY <2>1, <2>2 DEF NoComment
<1>6. Asked = {}
  BY <1>5 DEF Asked, Everyone
<1>7. Numbered
  BY <1>1, <1>2, <1>4, <1>5 DEF Numbered
<1>8. Stands
  <2>1. Unreviewed
    BY <1>4 DEF Unreviewed
  <2> QED BY <1>1, <2>1, StoppedStands, RunnerFacts DEF Stands, Cleared, Running
<1>9. Opened
  BY <1>1, <1>5, <1>6 DEF Opened
<1>10. Judged
  BY <1>4 DEF Judged
<1>11. Answering
  <2> SUFFICES ASSUME NEW c \in Everyone
      PROVE  AnswersFit(c)
    BY DEF Answering
  <2>1. answers[c] = <<>> /\ DOMAIN answers[c] = {} /\ runner.pc \in Unanswered
    BY <1>1, <1>5, RunnerFacts DEF Unanswered
  <2> QED BY <1>5, <2>1 DEF AnswersFit
<1> QED BY <1>3, <1>7, <1>8, <1>9, <1>10, <1>11 DEF CampaignSound

LEMMA CampaignNextSound == CampaignSound /\ [CampaignNext]_campvars => CampaignSound'
<1> SUFFICES ASSUME CampaignSound, [CampaignNext]_campvars PROVE CampaignSound'
  OBVIOUS
<1>1. CASE UNCHANGED campvars
  <2>1. /\ UNCHANGED core /\ UNCHANGED review /\ UNCHANGED <<returns, retained, integrated, runs>>
        /\ runner' = runner /\ worker' = worker
    BY <1>1 DEF campvars, durable, core, review
  <2>2. CoreTypes' /\ ReviewTypes' /\ RunTypes' /\ AtWork'
    BY <2>1, CampaignStandsFacts DEF CoreTypes, ReviewTypes, RunTypes, AtWork, core, review
  <2>3. UNCHANGED <<latest, Digest, Asked, Unready, Unreviewed>> /\ \A c : Of(c)' = Of(c)
    BY <2>1 DEF latest, Digest, Asked, Unready, Unrepaired, Unreviewed, Of, core, review
  <2>4. Numbered' /\ Opened' /\ Judged' /\ Answering' /\ Stands'
    BY <2>1, <2>3 DEF CampaignSound, Numbered, Opened, Judged, Answering, AnswersFit, Stands, StandsAt,
       Cleared, Running, core, review
  <2> QED BY <2>2, <2>4, TypesByPartsNext DEF CampaignSound
<1>2. CASE CampaignNext
  BY <1>2, BeginKeeps, StopKeeps, ApplyDraftKeeps, RejectDraftKeeps, RespondKeeps, NoteRepairKeeps,
     AfterPreflightKeeps, SavedConfirmationKeeps, RefusedConfirmationKeeps, BeginWaveKeeps,
     ReviewersKeep, EndWaveKeeps, IntegrateReviewsKeeps, ResumeKeeps, RestoreResponsesKeeps, RecoverKeeps,
     AdmitLocalKeeps, EditOutsideKeeps, AuthorReturnsKeeps, CallEditorKeeps, EditorReturnsKeeps, AcceptReportKeeps,
     ReviewerReturnsKeeps, ContinueKeeps DEF CampaignNext
<1> QED BY <1>1, <1>2

(* DraftsText, reports, comments and answers agree, wherever a run stops and   *)
(* whatever is edited, recovered, admitted or replayed.                    *)
THEOREM CampaignHolds == CampaignSpec => []CampaignSound
BY CampaignInitSound, CampaignNextSound, PTL DEF CampaignSpec

(* Complete checks are of the text the manuscript has, by every role, and  *)
(* every objection they ever raised was answered and closed on that text.  *)
THEOREM ChecksSoundHolds == CampaignSpec => []ChecksSound
<1>1. CampaignSound => ChecksSound
  <2> SUFFICES ASSUME CampaignSound, ChecksComplete PROVE ChecksSound
    BY DEF ChecksSound
  <2>1. /\ status = "agent_checks_complete" /\ {report.role : report \in LastReports} = Role
        /\ \A report \in LastReports : Current(report) /\ ~report.blocks
        /\ \A c \in Asked : Of(c).closed = version /\ Of(c).closed # 0
    BY DEF ChecksComplete, SpecialistsComplete, Resolved
  <2>2. CampaignData /\ Opened /\ Judged
    BY CampaignStandsFacts
  <2>3. ASSUME NEW r \in Role PROVE judged[r] = [ver |-> version, blocks |-> FALSE]
    <3>1. PICK report \in LastReports : report.role = r
      BY <2>1
    <3>2. PICK k \in DOMAIN reports : k > Len(reports) - RoleCount /\ report = reports[k]
      BY DEF LastReports
    <3>3. PICK i \in DOMAIN reports :
            /\ reports[i].role = r
            /\ judged[r] = [ver |-> drafts[reports[i].draft].ver, blocks |-> reports[i].blocks]
            /\ \A j \in DOMAIN reports : j > i => reports[j].role # r
      BY <2>2, <3>1, <3>2 DEF Judged
    <3>4. ~(k > i) /\ i \in Nat /\ k \in Nat /\ Len(reports) \in Nat /\ RoleCount \in Nat
      BY <2>2, <3>1, <3>2, <3>3, CampaignNumbers DEF CampaignData
    <3>5. i > Len(reports) - RoleCount
      BY <3>2, <3>4
    <3>6. reports[i] \in LastReports
      BY <3>5 DEF LastReports
    <3>7. drafts[reports[i].draft].ver = version /\ ~reports[i].blocks
      BY <2>1, <3>6 DEF Current
    <3>8. reports[i].blocks \in BOOLEAN
      BY <2>2 DEF CampaignData
    <3> QED BY <3>3, <3>7, <3>8
  <2>4. ASSUME NEW c \in raised
        PROVE  CutShort(c) \/ (c \in Asked /\ Of(c).answered = version /\ Of(c).closed = version)
    <3>1. c \in Everyone
      BY <2>2 DEF CampaignData
    <3>2. CASE c \in Asked
      BY <2>1, <2>2, <3>1, <3>2 DEF Opened
    <3>3. CASE c \notin Asked
      BY <2>1, <2>2, <3>3 DEF Opened, CutShort
    <3> QED BY <3>2, <3>3
  <2> QED BY <2>3, <2>4 DEF ChecksSound
<1> QED BY <1>1, CampaignHolds, PTL

(* An objection answered on a draft's text is not answered again for that  *)
(* draft, and each has an answer when the review begins.                   *)
THEOREM AnsweredOnceHolds == CampaignSpec => []AnsweredOnce
<1>1. CampaignSound => AnsweredOnce
  <2> SUFFICES ASSUME CampaignSound PROVE AnsweredOnce
    OBVIOUS
  <2>1. CampaignData /\ Opened /\ Answering /\ StandsAt(runner)
    BY CampaignStandsFacts
  <2>2. \A c \in Draft \X Role : \A i \in DOMAIN answers[c] :
          answers[c][i] = Digest => i = Len(answers[c])
    BY <2>1 DEF Answering, AnswersFit, Everyone
  <2>3. ASSUME At("reviews"), NEW c \in Asked PROVE answers[c] # <<>>
    <3>1. status = "draft_produced" /\ c \in Everyone /\ runner.pc \notin Unanswered
      BY <2>1, <2>3 DEF StandsAt, At, CampaignData, Unanswered
    <3>2. c[1] < latest
      BY <2>1, <3>1 DEF Opened
    <3> QED BY <2>1, <2>3, <3>1, <3>2 DEF Answering, AnswersFit
  <2> QED BY <2>2, <2>3 DEF AnsweredOnce
<1> QED BY <1>1, CampaignHolds, PTL

-----------------------------------------------------------------------------
(* The composition the run checks: a behaviour of it is one of each part.  *)

LEMMA WorkflowsBehave ==
  Spec => /\ ProposalsSpec /\ CampaignSpec /\ CapacitySpec
          /\ DelegationSpec /\ EvaluationSpec /\ WorkerSpec
<1>1. Init => /\ ProposalsInit /\ CampaignInit /\ CapacityInit
              /\ DelegationInit /\ EvaluationInit /\ WorkerInit
  BY DEF Init
<1>2. [Next]_<<workflow, propvars, campvars, capvars, delegvars, evars, wvars>>
      => /\ [ProposalsNext]_propvars /\ [CampaignNext]_campvars /\ [CapacityNext]_capvars
         /\ [DelegationNext]_delegvars /\ [EvaluationNext]_evars /\ [WorkerNext]_wvars
  BY DEF Next
<1> QED BY <1>1, <1>2, PTL DEF Spec, ProposalsSpec, CampaignSpec, CapacitySpec, DelegationSpec,
                               EvaluationSpec, WorkerSpec

(* Every workflow keeps to its types, in the composition.                  *)
THEOREM WorkflowTypesHold == Spec => []TypeOK
<1>1. ProposalsSound /\ CampaignSound /\ CapacitySound /\ TypeOKDelegation /\ PairSound /\ WorkerSound
      => TypeOK
  BY DEF TypeOK, ProposalsSound, CampaignSound, CapacitySound, PairSound, WorkerSound
<1> QED BY <1>1, WorkflowsBehave, ProposalsHold, CampaignHolds, CapacityHolds, PlanTypesHold, PairHolds,
           WorkerHolds, PTL
=============================================================================
