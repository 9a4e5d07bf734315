---------------------------- MODULE ProjectTransfer ----------------------------
(***************************************************************************)
(* A project is exported to a bundle and restored from it elsewhere.  An   *)
(* export reads the tables one after another, packs them with the files    *)
(* they refer to in a scratch file that all exports of the project share,  *)
(* and stores what that file then holds.  An import verifies the bundle,   *)
(* puts its files in the store and its rows in one transaction.  People    *)
(* edit the project meanwhile, files get lost or damaged, and either end   *)
(* may stop anywhere.                                                      *)
(*                                                                         *)
(* Two tables stand for all: works, read first, and links that refer to    *)
(* them, by a foreign key or by an id that no key guards.  A file is named *)
(* by its contents; some old rows name a bare path.                        *)
(***************************************************************************)
EXTENDS Naturals, FiniteSets

CONSTANTS
  Exporters, Importers,   \* requests at the two ends
  Works,                  \* rows of the first table
  Files, BareFiles,       \* files by key; those referred to by path alone
  MaxTouches              \* bound on the changes made at the exporter's

NoFile == "none"

ASSUME TransferAssumptions == BareFiles \subseteq Files /\ NoFile \notin Files /\ MaxTouches \in Nat

VARIABLES
  works,    \* the first table: work -> the file it refers to
  links,    \* the second table: how its rows refer to a work
  depot,    \* the exporter's store: file -> its bytes
  changes,  \* bound: changes made so far
  exporter, \* request -> what it has read
  scratch,  \* the shared scratch file
  bundles,  \* the stored bundles
  importer, \* request -> the bundle it restores, the files due and the one it writes
  shelf,    \* the importer's store
  restored, \* the restored project there
  imports,  \* history: imports that committed
  replaced  \* history: files an import had found absent and wrote over another's

transfervars == <<works, links, depot, changes, exporter, scratch, bundles, importer, shelf,
                  restored, imports, replaced>>

Bytes == {"absent", "whole", "damaged"}
WorkTable == [Works -> Files \cup {NoFile}]
LinkTable == [Works -> {"none", "key", "id"}]
Bundle == [works : WorkTable, links : LinkTable, files : [Files -> Bytes], whole : BOOLEAN,
           torn : BOOLEAN]   \* history: works were added between the two tables
NoRows == [w \in Works |-> NoFile]
NoLinks == [w \in Works |-> "none"]
NoCopy == [works |-> NoRows, links |-> NoLinks, files |-> [f \in Files |-> "absent"],
           whole |-> FALSE, torn |-> FALSE]
ExportAt(at) == [at |-> at, bundle |-> NoCopy]
ImportAt(at) == [at |-> at, bundle |-> NoCopy, due |-> {}, writes |-> NoFile]

TypeOKTransfer ==
  /\ works \in WorkTable /\ links \in LinkTable /\ depot \in [Files -> Bytes]
  /\ changes \in 0 .. MaxTouches
  /\ exporter \in [Exporters -> [at : {"rest", "works", "links", "files", "zip", "closed", "done"},
                                 bundle : Bundle]]
  /\ scratch \in [open : SUBSET Exporters, holds : Bundle]
  /\ bundles \subseteq Bundle
  /\ importer \in [Importers -> [at : {"rest", "files", "flushed", "done"}, bundle : Bundle,
                                 due : SUBSET Files, writes : Files \cup {NoFile}]]
  /\ shelf \in [Files -> Bytes \cup {"other"}] /\ restored \in Bundle /\ imports \in Nat
  /\ replaced \subseteq Files

TransferInit ==
  /\ works \in [Works -> Files \cup {NoFile}] /\ links \in LinkTable
  /\ \A w \in Works : links[w] # "none" => works[w] # NoFile
  /\ depot = [f \in Files |-> IF f \in BareFiles \cup {works[w] : w \in Works}
                          THEN "whole" ELSE "absent"]
  /\ changes = 0
  /\ exporter \in [Exporters -> {ExportAt("rest"), ExportAt("done")}]   \* requests to come, if any
  /\ scratch = [open |-> {}, holds |-> NoCopy]
  /\ bundles = {} /\ importer = [i \in Importers |-> ImportAt("rest")]
  /\ shelf \in [Files -> {"absent", "other"}] /\ restored = NoCopy /\ imports = 0
  /\ replaced = {}

Exporting == \E e \in Exporters : exporter[e].at # "done"

(* Nothing to export, and an empty store to import to.                     *)
Untouched ==
  works = NoRows /\ ~Exporting /\ \A f \in Files : shelf[f] = "absent"

here == <<works, links, depot, changes>>
there == <<importer, shelf, restored, imports, replaced>>

-----------------------------------------------------------------------------
(* put_bytes: a file that is there already must have these very bytes; one *)
(* that is not is written aside and renamed, over what may have come there *)
(* meanwhile.  Two that put a file named by its contents put the same.     *)
CanPut_Keeps(store, f, bytes) == TRUE

CanPut(store, f, bytes) == store[f] \in {"absent", bytes}

PutIn(store, f, bytes) == IF store[f] = "absent" THEN [store EXCEPT ![f] = bytes] ELSE store

(* People go on working.  The two ends share the bundles only, so imports  *)
(* may as well begin when the exports are over.                            *)
Changes == Exporting /\ changes < MaxTouches /\ changes' = changes + 1

AddWork(w, f, by) ==   \* perhaps with a row that refers to it
  /\ Changes /\ works[w] = NoFile /\ f \notin BareFiles /\ CanPut(depot, f, "whole")
  /\ depot' = PutIn(depot, f, "whole") /\ works' = [works EXCEPT ![w] = f]
  /\ links' = [links EXCEPT ![w] = by]
  /\ UNCHANGED <<exporter, scratch, bundles, there>>

AddLink(w, by) ==
  /\ Changes /\ links[w] = "none" /\ works[w] # NoFile /\ links' = [links EXCEPT ![w] = by]
  /\ UNCHANGED <<works, depot, exporter, scratch, bundles, there>>

FileSpoils(f, bytes) ==
  /\ Changes
  /\ depot[f] # bytes /\ depot' = [depot EXCEPT ![f] = bytes]
  /\ UNCHANGED <<works, links, exporter, scratch, bundles, there>>

-----------------------------------------------------------------------------
(* export_project.                                                         *)
Reads(e, from, to, bundle) ==
  /\ exporter[e].at = from /\ exporter' = [exporter EXCEPT ![e] = [at |-> to, bundle |-> bundle]]

ReadWorks(e) ==   \* _select_rows
  /\ Reads(e, "rest", "works", [NoCopy EXCEPT !.works = works])
  /\ UNCHANGED <<here, scratch, bundles, there>>

ReadLinks(e) ==
  /\ Reads(e, "works", "links",
           [exporter[e].bundle EXCEPT !.links = links, !.torn = (works # exporter[e].bundle.works)])
  /\ UNCHANGED <<here, scratch, bundles, there>>

(* _collect_artifact_files, read_bytes: a file with a descriptor must be   *)
(* there and match it; a bare path is taken as it is, if it is there.      *)
Referenced(table) == {table[w] : w \in Works} \ {NoFile}

ReadFiles(e) ==
  LET bundle == exporter[e].bundle IN
  /\ \A f \in Referenced(bundle.works) \ BareFiles : depot[f] = "whole"
  /\ Reads(e, "links", "files", [bundle EXCEPT !.whole = TRUE, !.files =
       [f \in Files |-> IF f \in Referenced(bundle.works) THEN depot[f] ELSE "absent"]])
  /\ UNCHANGED <<here, scratch, bundles, there>>

(* The scratch file is truncated when it is opened, whoever writes it, and *)
(* has an index of its members only once it is closed.                     *)
OpenZip(e) ==
  /\ Reads(e, "files", "zip", exporter[e].bundle)
  /\ scratch' = [open |-> scratch.open \cup {e}, holds |-> NoCopy]
  /\ UNCHANGED <<here, bundles, there>>

CloseZip(e) ==
  LET alone == scratch.open = {e} IN
  /\ Reads(e, "zip", "closed", exporter[e].bundle)
  /\ scratch' = [open |-> IF alone THEN {} ELSE scratch.open,
                 holds |-> IF alone THEN exporter[e].bundle ELSE NoCopy]
  /\ UNCHANGED <<here, bundles, there>>

(* What the scratch file holds by now is stored and given out.             *)
StoreBundle(e) ==
  /\ Reads(e, "closed", "done", NoCopy)
  /\ bundles' = bundles \cup {scratch.holds}
  /\ UNCHANGED <<here, scratch, there>>

(* The export fails, or the process dies; its scratch file stays.          *)
ExportFails(e) ==
  /\ exporter[e].at \notin {"rest", "done"} /\ exporter' = [exporter EXCEPT ![e] = ExportAt("done")]
  /\ UNCHANGED <<here, scratch, bundles, there>>

-----------------------------------------------------------------------------
(* import_project.                                                         *)
Verified(bundle) == bundle.whole   \* the checksum of every member

Exists == restored # NoCopy      \* session.get(Project, ...)

BeginImport(i, bundle) ==
  /\ importer[i].at = "rest" /\ ~Exporting /\ Verified(bundle) /\ ~Exists
  /\ importer' = [importer EXCEPT ![i] =
       [at |-> "files", bundle |-> bundle, due |-> {f \in Files : bundle.files[f] # "absent"},
        writes |-> NoFile]]
  /\ UNCHANGED <<here, exporter, scratch, bundles, shelf, restored, imports, replaced>>

LookForFile(i, f) ==
  LET job == importer[i] IN
  /\ job.at = "files" /\ job.writes = NoFile /\ f \in job.due
  /\ CanPut(shelf, f, job.bundle.files[f])
  /\ importer' = IF shelf[f] = "absent" THEN [importer EXCEPT ![i].writes = f]
                 ELSE [importer EXCEPT ![i].due = @ \ {f}]
  /\ UNCHANGED <<here, exporter, scratch, bundles, shelf, restored, imports, replaced>>

(* os.replace.                                                             *)
Replace(f, bytes) ==
  /\ shelf' = [shelf EXCEPT ![f] = bytes]
  /\ replaced' = IF shelf[f] \in {"absent", bytes} THEN replaced ELSE replaced \cup {f}

PutFile(i) ==
  LET job == importer[i] IN
  /\ job.writes # NoFile /\ Replace(job.writes, job.bundle.files[job.writes])
  /\ importer' = [importer EXCEPT ![i].due = @ \ {job.writes}, ![i].writes = NoFile]
  /\ UNCHANGED <<here, exporter, scratch, bundles, restored, imports>>

(* Rows in the order of the tables: the primary keys are new, and what a   *)
(* foreign key refers to is there; ids in JSON or plain columns are not    *)
(* looked at.  Another import that has flushed the project's row is waited *)
(* for.                                                                    *)
ReferencesHold(bundle) == \A w \in Works : bundle.links[w] = "key" => bundle.works[w] # NoFile

FlushRows(i) ==
  LET job == importer[i] IN
  /\ job.at = "files" /\ job.due = {} /\ ~Exists /\ ReferencesHold(job.bundle)
  /\ \A j \in Importers : importer[j].at # "flushed"
  /\ importer' = [importer EXCEPT ![i].at = "flushed"]
  /\ UNCHANGED <<here, exporter, scratch, bundles, shelf, restored, imports, replaced>>

CommitImport(i) ==
  /\ importer[i].at = "flushed"
  /\ restored' = importer[i].bundle /\ imports' = imports + 1
  /\ importer' = [importer EXCEPT ![i] = ImportAt("done")]
  /\ UNCHANGED <<here, exporter, scratch, bundles, shelf, replaced>>

(* A check, a put or a row fails, or the process dies: nothing of it is    *)
(* left but the files, perhaps with the one it was writing.                *)
ImportFails(i) ==
  LET job == importer[i] IN
  /\ job.at \notin {"rest", "done"} /\ importer' = [importer EXCEPT ![i] = ImportAt("done")]
  /\ \/ UNCHANGED <<shelf, replaced>>
     \/ job.writes # NoFile /\ Replace(job.writes, job.bundle.files[job.writes])
  /\ UNCHANGED <<here, exporter, scratch, bundles, restored, imports>>

TransferNext ==
  \/ \E w \in Works :
       \/ \E by \in {"key", "id"} : AddLink(w, by)
       \/ \E f \in Files, by \in {"none", "key", "id"} : AddWork(w, f, by)
  \/ \E f \in Files, bytes \in {"absent", "damaged"} : FileSpoils(f, bytes)
  \/ \E e \in Exporters :
       \/ ReadWorks(e) \/ ReadLinks(e) \/ ReadFiles(e) \/ OpenZip(e) \/ CloseZip(e)
       \/ StoreBundle(e) \/ ExportFails(e)
  \/ \E i \in Importers :
       \/ \E bundle \in bundles : BeginImport(i, bundle)
       \/ \E f \in Files : LookForFile(i, f)
       \/ PutFile(i) \/ FlushRows(i) \/ CommitImport(i) \/ ImportFails(i)

TransferSpec == TransferInit /\ [][TransferNext]_transfervars

-----------------------------------------------------------------------------
(* A restored project is one that an export saw, all of it, and is         *)
(* restored once, whatever else was imported, torn, lost or broken off: a  *)
(* row that refers to another by a key finds it; a file with a checksum    *)
(* has the bytes it had and a bare one those that were exported ("import   *)
(* verifies every checksum before touching the database", "no silent       *)
(* merge/overwrite").  Only an id without a key may find nothing, if works *)
(* were added while the tables were read, and only a bare file may have    *)
(* other bytes, if an import of a bundle with other bytes for it had found *)
(* it absent as well.                                                      *)
RestoredWhole ==
  /\ imports <= 1
  /\ Exists =>
       /\ restored.whole /\ ReferencesHold(restored)
       /\ restored.torn \/ \A w \in Works : restored.links[w] # "none" => restored.works[w] # NoFile
       /\ \A f \in Referenced(restored.works) :
            /\ f \notin BareFiles => shelf[f] = "whole"
            /\ restored.files[f] # "absent" => shelf[f] = restored.files[f] \/ f \in replaced
  /\ \A f \in replaced : f \in BareFiles
       /\ \E one, two \in bundles : one.files[f] # two.files[f] /\ "absent" \notin {one.files[f], two.files[f]}
=============================================================================
