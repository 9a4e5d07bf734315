------------------------------ MODULE Proposals ------------------------------
(***************************************************************************)
(* One proposal of an applied-pilot or collaboration workflow: passages    *)
(* indexed from a changing source, generations under idempotency keys, one *)
(* section with its revision records, reviews, undo, and saved versions.   *)
(* A request loads rows, decides, and commits the columns it changed; only *)
(* unique keys, and rows locked by a flushed write, stand between two      *)
(* requests.  The revision a client sends is the one its request loads.    *)
(***************************************************************************)
EXTENDS Naturals, Sequences

CONSTANTS
  Writers,     \* concurrent requests
  Drafts,      \* texts of the section
  Keys,        \* idempotency keys
  MaxRevision, MaxSource, MaxPassage, MaxSaved   \* bounds

ASSUME ProposalAssumptions ==
  MaxRevision \in Nat /\ MaxSource \in Nat /\ MaxPassage \in Nat /\ MaxSaved \in Nat

VARIABLES
  source,     \* version of the source's extraction
  passage,    \* the proposal_passages table
  fit,        \* passages cited as evidence by the fit matrix
  chapter,    \* the section
  record,     \* revision -> its proposal_section_revisions row
  cited,      \* passages with a citation row of the section, deleted ones too
  generation, \* the idempotency keys of committed generations
  saved,      \* the proposal_versions table
  writer,     \* request -> where it is and what it loaded
  reviewed    \* history: whether a person approved the revision the section has

propvars == <<source, passage, fit, chapter, record, cited, generation, saved, writer,
              reviewed>>

Empty == "empty"
Prose == Drafts \cup {Empty}
PassageId == 1 .. MaxPassage
Stages == {"fit_matrix", "outline", "draft"}
NoPassage == [ver |-> 0, status |-> "none"]
NoRecord == [before |-> Empty, after |-> Empty, origin |-> "none", undone |-> FALSE]
NoChapter == [text |-> Empty, revision |-> 0, state |-> "missing", cites |-> {}]
Chapter == [text : Prose, revision : 0 .. MaxRevision,
            state : {"missing", "proposed", "approved", "rejected"}, cites : SUBSET PassageId]
Saved == [text : Prose, cites : SUBSET PassageId, source : 0 .. MaxSource]
AtRest == [at |-> "rest", row |-> NoChapter, text |-> Empty, cites |-> {}, key |-> Empty,
           kind |-> Empty, ver |-> 0]

TypeOKProposals ==
  /\ source \in 0 .. MaxSource
  /\ passage \in [PassageId -> [ver : 0 .. MaxSource,
                                status : {"none", "current", "stale", "deleted"}]]
  /\ fit \subseteq PassageId /\ cited \subseteq PassageId /\ chapter \in Chapter
  /\ record \in [1 .. MaxRevision -> [before : Prose, after : Prose, undone : BOOLEAN,
                                     origin : {"none", "human", "generated", "undo"}]]
  /\ generation \subseteq Keys
  /\ saved \in Seq(Saved)
  /\ writer \in [Writers -> [at : {"rest", "index", "ask", "apply", "human", "undo",
                                   "generated", "approved", "rejected", "save", "save_all", "number"},
                             row : Chapter, text : Prose, cites : SUBSET PassageId,
                             key : Keys \cup {Empty}, kind : Stages \cup {Empty},
                             ver : 0 .. (MaxSource + MaxSaved + 1)]]
  /\ reviewed \in BOOLEAN

ProposalsInit ==
  /\ source = 0 /\ fit = {} /\ cited = {} /\ chapter = NoChapter /\ saved = <<>>
  /\ passage = [p \in PassageId |-> NoPassage]
  /\ record = [n \in 1 .. MaxRevision |-> NoRecord]
  /\ generation = {}
  /\ writer = [w \in Writers |-> AtRest]
  /\ reviewed = FALSE

-----------------------------------------------------------------------------
rows == <<chapter, record, cited>>
others == <<source, generation>>

Row == [chapter EXCEPT !.cites = {}]   \* its citations are read apart

Turns(w, to) == writer' = [writer EXCEPT ![w] = to]
Ends(w) == Turns(w, AtRest)
Loads(w, at) == writer[w].at = "rest" /\ chapter.state # "missing"
                /\ Turns(w, [AtRest EXCEPT !.at = at, !.row = Row])

(* _passages: what may be cited now; an index of an older extraction does  *)
(* not count.                                                              *)
FromSource_Unasked(p) == TRUE

FromSource(p) == passage[p].ver = source

Pack == {p \in PassageId : passage[p].status = "current" /\ FromSource(p)}

Evidence == {p \in fit : passage[p].status # "deleted"}   \* _evidence_for_fit_row

(* save_all has written the section before it commits: others wait.        *)
RowLocked == \E w \in Writers : writer[w].at = "number" /\ writer[w].kind = "draft"

SourceChanges ==
  /\ source < MaxSource /\ source' = source + 1
  /\ UNCHANGED <<passage, fit, rows, generation, saved, writer, reviewed>>

(* index_passages, correct_excerpt: the source is read, and later its      *)
(* passages are written; those of uncertain extraction cannot be cited and *)
(* are left out.                                                           *)
ReadSource(w) ==
  /\ writer[w].at = "rest" /\ Turns(w, [AtRest EXCEPT !.at = "index", !.ver = source])
  /\ UNCHANGED <<source, passage, fit, rows, generation, saved, reviewed>>

WritePassages(w) ==
  LET v == writer[w].ver
      indexed == [p \in PassageId |->
        IF passage[p].status = "current" /\ passage[p].ver # v
        THEN [passage[p] EXCEPT !.status = "stale"] ELSE passage[p]] IN
  /\ writer[w].at = "index"
  /\ \/ passage' = indexed
     \/ \E p \in PassageId, before \in {indexed, passage} :
          /\ passage[p] = NoPassage /\ \A q \in PassageId : q < p => passage[q] # NoPassage
          /\ passage' = [before EXCEPT ![p] = [ver |-> v, status |-> "current"]]
  /\ Ends(w) /\ UNCHANGED <<source, fit, rows, generation, saved, reviewed>>

DeletePassage(p) ==
  /\ passage[p].status \notin {"none", "deleted"}
  /\ passage' = [passage EXCEPT ![p].status = "deleted"]
  /\ UNCHANGED <<source, fit, rows, generation, saved, writer, reviewed>>

-----------------------------------------------------------------------------
(* _start_generation: a committed key gives back its result; a flushed one *)
(* makes others with that key wait.  Nothing else is visible of it.        *)
KeyFree(k) == k \notin generation /\ \A w \in Writers : writer[w].key # k

StartGeneration(w, k, kind) ==
  /\ writer[w].at = "rest" /\ KeyFree(k)
  /\ Turns(w, [AtRest EXCEPT !.at = "ask", !.key = k, !.kind = kind])
  /\ UNCHANGED <<source, passage, fit, rows, generation, saved, reviewed>>

FinishGeneration(w) ==   \* _finish_generation
  generation' = generation \cup {writer[w].key}

GenerateFitMatrix(w) ==
  /\ writer[w].at = "ask" /\ writer[w].kind = "fit_matrix"
  /\ fit' \in SUBSET Pack
  /\ FinishGeneration(w) /\ Ends(w)
  /\ UNCHANGED <<source, passage, rows, saved, reviewed>>

(* The deleted sections of an earlier outline still hold their positions:  *)
(* there is no second one.                                                 *)
GenerateOutline(w) ==
  /\ writer[w].at = "ask" /\ writer[w].kind = "outline" /\ chapter.state = "missing"
  /\ chapter' = [NoChapter EXCEPT !.state = "proposed"]
  /\ FinishGeneration(w) /\ Ends(w)
  /\ UNCHANGED <<source, passage, fit, record, cited, saved, reviewed>>

ReadForDraft(w) ==
  /\ writer[w].at = "ask" /\ writer[w].kind = "draft" /\ chapter.state # "missing"
  /\ chapter.revision < MaxRevision
  /\ \E text \in Drafts :
       Turns(w, [writer[w] EXCEPT !.at = "generated", !.row = Row, !.text = text,
                   !.cites = Evidence])
  /\ UNCHANGED <<source, passage, fit, rows, generation, saved, reviewed>>

-----------------------------------------------------------------------------
(* update_section: the citations kept or given must be in the pack.        *)
UpdateSection(w) ==
  /\ writer[w].at = "rest" /\ chapter.state # "missing" /\ chapter.revision < MaxRevision
  /\ \E text \in Drafts, cites \in {chapter.cites} \cup SUBSET Pack :
       /\ cites \subseteq Pack
       /\ Turns(w, [AtRest EXCEPT !.at = "human", !.row = Row, !.text = text, !.cites = cites])
  /\ UNCHANGED <<source, passage, fit, rows, generation, saved, reviewed>>

UndoSection(w) ==
  LET n == chapter.revision IN
  /\ writer[w].at = "rest" /\ n \in 1 .. (MaxRevision - 1) /\ ~record[n].undone
  /\ Turns(w, [AtRest EXCEPT !.at = "undo", !.row = Row, !.text = record[n].before])
  /\ UNCHANGED <<source, passage, fit, rows, generation, saved, reviewed>>

(* Unique keys of the two tables; a citation row once deleted still counts.*)
RecordFree_Unchecked(n) == TRUE

RecordFree(n) == record[n] = NoRecord

(* The commit of an edit, an undo or a draft.  A state that was proposed   *)
(* when it was loaded is not written again.                                *)
WriteText(w) ==
  LET job == writer[w]  n == job.row.revision + 1 IN
  /\ job.at \in {"human", "undo", "generated"} /\ ~RowLocked
  /\ n <= MaxRevision /\ RecordFree(n)
  /\ job.at # "undo" => job.cites \cap cited = {}
  /\ chapter' = [text |-> job.text, revision |-> n,
                 state |-> IF job.row.state = "proposed" THEN chapter.state ELSE "proposed",
                 cites |-> IF job.at = "undo" THEN chapter.cites ELSE job.cites]
  /\ record' = [m \in 1 .. MaxRevision |->
       CASE m = n -> [before |-> job.row.text, after |-> job.text, origin |-> job.at,
                      undone |-> FALSE]
         [] m = n - 1 /\ job.at = "undo" -> [record[m] EXCEPT !.undone = TRUE]
         [] OTHER -> record[m]]
  /\ cited' = cited \cup job.cites
  /\ IF job.at = "generated" THEN FinishGeneration(w) ELSE UNCHANGED generation
  /\ reviewed' = FALSE /\ Ends(w) /\ UNCHANGED <<source, passage, fit, saved>>

(* review_section writes the state only.                                   *)
ReviewSection(w, decision) ==
  /\ writer[w].at = "rest" /\ chapter.state # "missing" /\ chapter.cites \subseteq Pack
  /\ Turns(w, [AtRest EXCEPT !.at = decision, !.row = [Row EXCEPT !.text = Empty]])
  /\ UNCHANGED <<source, passage, fit, rows, generation, saved, reviewed>>

WriteReview(w) ==
  /\ writer[w].at \in {"approved", "rejected"} /\ ~RowLocked
  /\ IF writer[w].row.state = writer[w].at
     THEN UNCHANGED chapter
     ELSE chapter' = [chapter EXCEPT !.state = writer[w].at]
  /\ reviewed' = (reviewed \/ (/\ writer[w].at = "approved"
                               /\ writer[w].row.revision = chapter.revision))
  /\ Ends(w) /\ UNCHANGED <<source, passage, fit, record, cited, generation, saved>>

-----------------------------------------------------------------------------
(* save_version: the sections, then their citations and what these rest    *)
(* on, then the number of the version.                                     *)
SaveVersion(w, at) ==
  /\ Loads(w, at) /\ Len(saved) < MaxSaved
  /\ at = "save" => chapter.state = "approved"
  /\ UNCHANGED <<source, passage, fit, rows, generation, saved, reviewed>>

ReadEvidence(w) ==
  LET job == writer[w]  all == job.at = "save_all" /\ job.row.state # "approved" IN
  /\ job.at \in {"save", "save_all"} /\ (all => ~RowLocked)
  /\ chapter.cites \subseteq Pack /\ \A p \in Evidence : FromSource(p)
  /\ Turns(w, [job EXCEPT !.at = "number", !.cites = chapter.cites \cup Evidence, !.ver = source,
                          !.kind = IF all THEN "draft" ELSE Empty])
  /\ UNCHANGED <<source, passage, fit, rows, generation, saved, reviewed>>

CommitVersion(w) ==
  LET job == writer[w] IN
  /\ job.at = "number" /\ Len(saved) < MaxSaved
  /\ saved' = Append(saved, [text |-> job.row.text, cites |-> job.cites, source |-> job.ver])
  /\ IF job.kind = "draft"
     THEN /\ chapter' = [chapter EXCEPT !.state = "approved"]
          /\ reviewed' = (reviewed \/ job.row.revision = chapter.revision)
     ELSE UNCHANGED <<chapter, reviewed>>
  /\ Ends(w) /\ UNCHANGED <<source, passage, fit, record, cited, generation>>

(* A check, a unique key or a provider fails, or the request dies: it is   *)
(* rolled back, a failed generation with it.                               *)
RollBack(w) ==
  /\ writer[w] # AtRest /\ Ends(w)
  /\ UNCHANGED <<source, passage, fit, rows, generation, saved, reviewed>>

ProposalsNext ==
  \/ \E w \in Writers :
       \/ ReadSource(w) \/ WritePassages(w)
       \/ \E k \in Keys, kind \in Stages : StartGeneration(w, k, kind)
       \/ GenerateFitMatrix(w) \/ GenerateOutline(w) \/ ReadForDraft(w)
       \/ UpdateSection(w) \/ UndoSection(w) \/ WriteText(w)
       \/ ReviewSection(w, "approved") \/ ReviewSection(w, "rejected") \/ WriteReview(w)
       \/ SaveVersion(w, "save") \/ SaveVersion(w, "save_all")
       \/ ReadEvidence(w) \/ CommitVersion(w) \/ RollBack(w)
  \/ \E p \in PassageId : DeletePassage(p)
  \/ SourceChanges

ProposalsSpec == ProposalsInit /\ [][ProposalsNext]_propvars

-----------------------------------------------------------------------------
(* The revision records tell the whole story of a section, however edits,  *)
(* undos and generated drafts overlap: each begins with the text the one   *)
(* before left, the last one ends with the text the section has, and an    *)
(* undo restores what the revision it undoes replaced ("each edit has an   *)
(* append-only revision record"; "refusing to overwrite newer work").      *)
RevisionsChain ==
  LET n == chapter.revision IN
  /\ \A m \in 1 .. MaxRevision : (record[m] # NoRecord) <=> (m <= n)
  /\ n > 0 => chapter.text = record[n].after /\ record[1].before = Empty
  /\ \A m \in 2 .. n :
       /\ record[m].before = record[m - 1].after
       /\ (record[m].origin = "undo") <=> record[m - 1].undone
       /\ record[m].origin = "undo" => record[m].after = record[m - 1].before

(* A saved version rests on passages of the one extraction the source had  *)
(* when its evidence was read, though passages are indexed, corrected and  *)
(* deleted and the source changes at any time ("enforce source version     *)
(* freshness during resolution, not merely index time").                   *)
VersionsOfOneSource ==
  \A i \in DOMAIN saved : \A p \in saved[i].cites : passage[p].ver = saved[i].source

(* A section that counts as approved has the text that a person approved   *)
(* ("section changed during review; request a fresh review").              *)
ApprovedAsReviewed == chapter.state = "approved" => reviewed
=============================================================================
