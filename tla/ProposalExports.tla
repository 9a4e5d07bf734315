---------------------------- MODULE ProposalExports ----------------------------
(***************************************************************************)
(* Exports of one saved version of a proposal.  The version never changes, *)
(* its source may.  A request renders the formats nobody has exported yet, *)
(* keeps them under the hash of their bytes, flushes their rows, and       *)
(* answers after its commit; overlapping requests render apart, and only   *)
(* the unique key of a version and a format stands between them.           *)
(***************************************************************************)
EXTENDS FiniteSets

CONSTANTS
  Formats,
  Stamped, Optional,   \* formats whose bytes differ each time; that may not be available
  Renders,             \* bytes of a rendering
  Downloads            \* concurrent requests

ASSUME ExportAssumptions == Stamped \cup Optional \subseteq Formats /\ Renders # {}

VARIABLES
  outdated,  \* the source of the version was changed or deleted since
  exported,  \* proposal_version_exports: format -> bytes
  kept,      \* what the artifact storage holds
  download,  \* request -> where it is
  given,     \* history: the bytes handed out
  unwarned   \* history: an answer kept quiet about a source outdated before it began

exportvars == <<outdated, exported, kept, download, given, unwarned>>

NoBytes == "no file"
Artifacts == UNION {[formats -> Renders] : formats \in SUBSET Formats}

Elsewhere == [at |-> "elsewhere"]
Job ==
  {Elsewhere}
  \cup [at : {"render"}, wanted : SUBSET Formats, found : Artifacts, outdated : BOOLEAN]
  \cup [at : {"flush"}, found : Artifacts, new : Artifacts, outdated : BOOLEAN]
  \cup [at : {"commit"}, new : Artifacts, answer : Artifacts, quiet : BOOLEAN]

TypeOKExports ==
  /\ outdated \in BOOLEAN /\ unwarned \in BOOLEAN
  /\ exported \in Artifacts /\ kept \subseteq Formats \X Renders
  /\ download \in [Downloads -> Job] /\ given \subseteq Formats \X Renders

ExportsInit ==
  /\ outdated = FALSE /\ exported = [f \in {} |-> NoBytes] /\ kept = {}
  /\ download = [c \in Downloads |-> Elsewhere] /\ given = {} /\ unwarned = FALSE

-----------------------------------------------------------------------------
Proceeds(c, job) == download' = [download EXCEPT ![c] = job]
Part(f, formats) == [x \in formats |-> f[x]]
Both(f, g) == [x \in DOMAIN f \cup DOMAIN g |-> IF x \in DOMAIN f THEN f[x] ELSE g[x]]

OriginChanges ==
  /\ ~outdated /\ outdated' = TRUE
  /\ UNCHANGED <<exported, kept, download, given, unwarned>>

(* export_version reads the rows there are.                                *)
ReadRows(c) ==
  /\ download[c] = Elsewhere
  /\ \E wanted \in SUBSET Formats \ {{}} :
       Proceeds(c, [at |-> "render", wanted |-> wanted, outdated |-> outdated,
                    found |-> Part(exported, wanted \cap DOMAIN exported)])
  /\ UNCHANGED <<outdated, exported, kept, given, unwarned>>

(* The renderers, and store_content.                                       *)
Renderings(formats) ==
  {r \in [formats -> Renders] :
     \A f \in formats \ Stamped : r[f] = CHOOSE bytes \in Renders : TRUE}

Render(c) ==
  LET job == download[c] IN
  /\ job.at = "render"
  /\ \E omitted \in SUBSET Optional :
       \E new \in Renderings((job.wanted \ DOMAIN job.found) \ omitted) :
         /\ kept' = kept \cup {<<f, new[f]>> : f \in DOMAIN new}
         /\ Proceeds(c, [at |-> "flush", found |-> job.found, new |-> new,
                         outdated |-> job.outdated])
  /\ UNCHANGED <<outdated, exported, given, unwarned>>

(* Inserting a row waits for another request's insert of its key, and      *)
(* fails when that was committed.                                          *)
ExportFree_Unchecked(f) == TRUE

ExportFree(f) ==
  /\ f \notin DOMAIN exported
  /\ \A d \in Downloads : download[d].at = "commit" => f \notin DOMAIN download[d].new

VersionWarnings == outdated   \* _version_warnings, read now

Flush(c) ==
  LET job == download[c] IN
  /\ job.at = "flush" /\ \A f \in DOMAIN job.new : ExportFree(f)
  /\ Proceeds(c, [at |-> "commit", new |-> job.new,
                  answer |-> Both(job.found, job.new),
                  quiet |-> job.outdated /\ ~VersionWarnings])
  /\ UNCHANGED <<outdated, exported, kept, given, unwarned>>

CommitExport(c) ==
  LET job == download[c] IN
  /\ job.at = "commit"
  /\ exported' = Both(job.new, exported)
  /\ given' = given \cup {<<f, job.answer[f]>> : f \in DOMAIN job.answer}
  /\ unwarned' = (unwarned \/ job.quiet)
  /\ Proceeds(c, Elsewhere) /\ UNCHANGED <<outdated, kept>>

(* A row that was taken, a renderer or the storage fails, or a crash.      *)
ExportRollsBack(c) ==
  /\ download[c] # Elsewhere /\ Proceeds(c, Elsewhere)
  /\ UNCHANGED <<outdated, exported, kept, given, unwarned>>

ExportsNext ==
  \/ OriginChanges
  \/ \E c \in Downloads :
       ReadRows(c) \/ Render(c) \/ Flush(c) \/ CommitExport(c) \/ ExportRollsBack(c)

ExportsSpec == ExportsInit /\ [][ExportsNext]_exportvars

-----------------------------------------------------------------------------
(* However exports of a version overlap and fail, whoever was given one    *)
(* was given the bytes on record, which are kept, and was warned of a      *)
(* source that was no longer as saved when the export began.               *)
ExportsAgree ==
  /\ \A file \in given : file \in kept /\ file[1] \in DOMAIN exported /\ exported[file[1]] = file[2]
  /\ ~unwarned
=============================================================================
