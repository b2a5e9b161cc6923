----------------------------- MODULE RfdArtifacts -----------------------------
(***************************************************************************)
(* What the runs of one RFD leave outside the database: the documents of   *)
(* the RFD in a search index, and its PDF in a drive with the records that *)
(* point there.                                                            *)
(*                                                                         *)
(* A run here is the part of run_update from the upsert of the RFD through *)
(* the actions UpdateSearch and UpdatePdfs to the last upsert; the rest is *)
(* RfdUpdate.  The search service and the drive are external: the service  *)
(* accepts a request as a task and carries out its tasks one after the     *)
(* other, a search sees what they have done so far.  A run has inserted a  *)
(* revision of its own when it comes here, and goes by its name there.     *)
(***************************************************************************)
EXTENDS Naturals, Sequences, FiniteSets, SequencesExt

CONSTANTS
    Run,        \* runs of the jobs of this RFD
    Revision,   \* the contents they may have read
    SectionId,  \* ids of sections
    sections,   \* the sections of a revision
    parses,     \* revisions that the section parser accepts
    rendered,   \* revisions in a format that has PDFs
    Limit,      \* how many hits a search returns
    MaxChange,  \* bound: changes of the visibility
    NoRun       \* not a run

ASSUME ArtifactsAssumption ==
    /\ sections \in [Revision -> SUBSET SectionId]
    /\ parses \subseteq Revision
    /\ rendered \subseteq Revision
    /\ Limit \in Nat /\ MaxChange \in Nat
    /\ NoRun \notin Run

VARIABLES
    visibility,   \* whether the row of the RFD says that it is public
    changes,      \* how often the API has changed that
    run,          \* what a run holds
    tasks,        \* what the search service has accepted and not yet done (external)
    served,       \* the documents that a search finds (external)
    filterable,   \* whether the index can be filtered by number (external)
    files,        \* the files in the drive, each the revision it shows (external)
    pdfs,         \* the rfd_pdf table, in the order of creation, for revisions of runs
    lastAdd,      \* the run whose documents were accepted last
    started       \* the runs in the order in which they started

index == <<tasks, served, filterable, lastAdd>>
drive == <<files, pdfs>>
row == <<visibility, changes>>
vars == <<row, run, index, drive, started>>

-----------------------------------------------------------------------------

Doc == [section : SectionId, revision : Revision, public : BOOLEAN]

TaskType ==
    [kind : {"delete", "add"}, ids : SUBSET SectionId, docs : SUBSET Doc]
SettingsTask == [kind |-> "settings", ids |-> {}, docs |-> {}]

Phase == {"idle", "find", "delete", "settings", "add", "upload", "record", "end",
          "done", "failed"}

\* "kept" while the old documents are untouched, "dropped" from their deletion on.
\* alone says that no other run has been under way since it started, and complete that
\* when it searched no task was waiting and it found less than a search may return.
RunType ==
    [pc : Phase, revision : Revision, public : BOOLEAN, ids : SUBSET SectionId,
     search : {"kept", "dropped", "added"}, file : Nat, pdf : Nat,
     alone : BOOLEAN, complete : BOOLEAN]

TypeOK ==
    /\ visibility \in BOOLEAN
    /\ changes \in Nat
    /\ run \in [Run -> RunType]
    /\ tasks \in Seq(TaskType \cup {SettingsTask})
    /\ served \subseteq Doc
    /\ filterable \in BOOLEAN
    /\ files \in Seq(Revision)
    /\ pdfs \in Seq([revision : Run \cup {NoRun}, file : 1 .. Len(files)])
    /\ lastAdd \in Run \cup {NoRun}
    /\ started \in Seq(Run)

\* An RFD that no run has seen, or one that an earlier run has left with revision v.
Fresh == served = {} /\ filterable \in BOOLEAN /\ files = <<>> /\ pdfs = <<>>

Indexed(v) ==
    /\ served = [section : sections[v], revision : {v}, public : {visibility}]
    /\ filterable = TRUE
    /\ files = <<v>>
    /\ pdfs = <<[revision |-> NoRun, file |-> 1]>>

Init ==
    /\ visibility = FALSE
    /\ changes = 0
    /\ Fresh \/ \E v \in parses \cap rendered : Indexed(v)
    /\ run \in [Run -> {[pc |-> "idle", revision |-> v, public |-> FALSE, ids |-> {},
                         search |-> "kept", file |-> 0, pdf |-> 0, alone |-> FALSE,
                         complete |-> FALSE] : v \in Revision}]
    /\ tasks = <<>>
    /\ lastAdd = NoRun
    /\ started = <<>>

Active(r) == run[r].pc \notin {"idle", "done", "failed"}

Documents(r) ==
    [section : sections[run[r].revision], revision : {run[r].revision},
     public : {run[r].public}]

-----------------------------------------------------------------------------
(* The row. *)

\* The file of the PDF recorded last.
pdf_external_id == IF pdfs = <<>> THEN 0 ELSE Last(pdfs).file

Started(r, file) ==
    /\ run[r].pc = "idle"
    /\ run' = [q \in Run |->
          IF q = r
          THEN [run[r] EXCEPT !.pc = "find", !.public = visibility, !.file = file,
                              !.alone = \A p \in Run : ~ Active(p)]
          ELSE [run[q] EXCEPT !.alone = run[q].alone /\ ~ Active(q)]]
    /\ started' = Append(started, r)
    /\ UNCHANGED <<row, index, drive>>

\* Mutant of RemoteUpsert: forgets the PDF that exists.
UpsertWithoutPdf(r) == Started(r, 0)

\* The visibility is read and stored again, and the newest PDF is looked up.
RemoteUpsert(r) == Started(r, pdf_external_id)

update_rfd_visibility ==
    /\ changes < MaxChange
    /\ changes' = changes + 1
    /\ visibility' = ~ visibility
    /\ UNCHANGED <<run, index, drive, started>>

\* The row is stored again if another action has changed the document.
PersistedUpsert(r) ==
    /\ run[r].pc = "end"
    /\ run' = [run EXCEPT ![r].pc = "done"]
    /\ visibility' \in {visibility, run[r].public}
    /\ UNCHANGED <<changes, index, drive, started>>

\* A fatal error, or the process ends.
FailRun(r) ==
    /\ Active(r)
    /\ run' = [run EXCEPT ![r].pc = "failed"]
    /\ UNCHANGED <<row, index, drive, started>>

-----------------------------------------------------------------------------
(* UpdateSearch.  Any error ends it, is logged, and the run goes on. *)

SearchEnds(r) ==
    /\ run' = [run EXCEPT ![r].pc = "upload"]
    /\ UNCHANGED <<row, tasks, served, filterable, drive, lastAdd, started>>

SearchFails(r) ==
    /\ run[r].pc \in {"find", "delete", "settings", "add"}
    /\ SearchEnds(r)

\* The ids of the documents of the RFD, as many as a search returns.
find_rfd_ids(r) ==
    /\ run[r].pc = "find"
    /\ filterable
    /\ \E ids \in SUBSET {d.section : d \in served} :
          /\ Cardinality(ids) <= Limit
          /\ Cardinality(ids) = Limit \/ ids = {d.section : d \in served}
          /\ run' = [run EXCEPT ![r].pc = "delete", ![r].ids = ids,
                                ![r].complete = (tasks = <<>> /\ Cardinality(ids) < Limit)]
    /\ UNCHANGED <<row, index, drive, started>>

\* There is no index, or one that cannot be filtered.
IndexNotFound(r) ==
    /\ run[r].pc = "find"
    /\ ~ filterable
    /\ run' = [run EXCEPT ![r].pc = "settings", ![r].complete = (tasks = <<>>)]
    /\ UNCHANGED <<row, index, drive, started>>

Accept(task) ==
    /\ tasks' = Append(tasks, task)
    /\ UNCHANGED <<row, served, filterable, drive, started>>

\* Mutant of set_settings: the request is never sent.
SettingsForgotten(r) ==
    /\ run[r].pc = "settings"
    /\ run' = [run EXCEPT ![r].pc = "add"]
    /\ UNCHANGED <<row, index, drive, started>>

\* The request is accepted; the answer may be lost.
set_settings(r) ==
    /\ run[r].pc = "settings"
    /\ \E pc \in {"add", "upload"} : run' = [run EXCEPT ![r].pc = pc]
    /\ Accept(SettingsTask)
    /\ UNCHANGED lastAdd

Deletion(r, ids) ==
    /\ run[r].pc = "delete"
    /\ \E pc \in {"add", "upload"} :
          run' = [run EXCEPT ![r].pc = pc, ![r].ids = {}, ![r].search = "dropped"]
    /\ Accept([kind |-> "delete", ids |-> ids, docs |-> {}])
    /\ UNCHANGED lastAdd

\* Mutant of delete_documents: deletes what the new revision replaces anyway.
DeleteReplaced(r) == Deletion(r, run[r].ids \cap sections[run[r].revision])

\* The request is accepted; the answer may be lost.
delete_documents(r) == Deletion(r, run[r].ids)

Addition(r, behind) ==
    /\ run[r].pc = "add"
    /\ run[r].revision \in parses
    /\ run' = [run EXCEPT ![r].pc = "upload", ![r].search = "added"]
    /\ tasks' = Append(tasks, [kind |-> "add", ids |-> {}, docs |-> Documents(r)]) \o behind
    /\ lastAdd' = r
    /\ UNCHANGED <<row, served, filterable, drive, started>>

\* Mutant of add_documents: what was there is deleted after the new is added.
AddThenDelete(r) ==
    Addition(r, <<[kind |-> "delete", ids |-> sections[run[r].revision], docs |-> {}]>>)

\* The document is parsed and its sections are added.  When the parser or the request
\* fails, nothing takes the place of what was deleted (SearchFails).
add_documents(r) == Addition(r, <<>>)

\* The service carries out its oldest task.  A document that is added takes the place
\* of the one with its id.
ProcessTask ==
    /\ tasks # <<>>
    /\ LET t == Head(tasks)
           replaced == t.ids \cup {d.section : d \in t.docs}
       IN  /\ served' = {d \in served : d.section \notin replaced} \cup t.docs
           /\ filterable' = (filterable \/ t.kind = "settings")
    /\ tasks' = Tail(tasks)
    /\ UNCHANGED <<row, run, drive, lastAdd, started>>

-----------------------------------------------------------------------------
(* UpdatePdfs. *)

\* Rendering or the drive fails, or the format has no PDFs.
PdfFails(r) ==
    /\ run[r].pc \in {"upload", "record"}
    /\ run' = [run EXCEPT ![r].pc = "end"]
    /\ UNCHANGED <<row, index, drive, started>>

Stored(r, content) ==
    /\ run[r].pc = "upload"
    /\ run[r].revision \in rendered
    /\ LET file == IF run[r].file = 0 THEN Len(files) + 1 ELSE run[r].file
       IN  /\ files' = IF run[r].file = 0 THEN Append(files, run[r].revision)
                       ELSE [files EXCEPT ![file] = content]
           /\ run' = [run EXCEPT ![r].pc = "record", ![r].pdf = file]
    /\ UNCHANGED <<row, index, pdfs, started>>

\* Mutant of store_rfd_pdf: a file that exists keeps its content.
StoreOnce(r) == Stored(r, files[run[r].file])

\* The file that the run knows gets a new version, or a new file is made.
store_rfd_pdf(r) == Stored(r, run[r].revision)

Record(r, rows) ==
    /\ run[r].pc = "record"
    /\ run' = [run EXCEPT ![r].pc = "end"]
    /\ pdfs' = rows
    /\ UNCHANGED <<row, index, files, started>>

RowOf(r) == [revision |-> r, file |-> run[r].pdf]

\* Mutant of RecordPdf: points to the next file.
RecordNextFile(r) == Record(r, Append(pdfs, [RowOf(r) EXCEPT !.file = run[r].pdf + 1]))

\* One row for each revision and file; a second one is dropped.
RecordPdf(r) == Record(r, IF Contains(pdfs, RowOf(r)) THEN pdfs ELSE Append(pdfs, RowOf(r)))

RunStep(r) ==
    \/ RemoteUpsert(r) \/ PersistedUpsert(r) \/ FailRun(r)
    \/ find_rfd_ids(r) \/ IndexNotFound(r) \/ SearchFails(r)
    \/ delete_documents(r) \/ set_settings(r) \/ add_documents(r)
    \/ store_rfd_pdf(r) \/ RecordPdf(r) \/ PdfFails(r)

Next == update_rfd_visibility \/ ProcessTask \/ \E r \in Run : RunStep(r)

Spec == Init /\ [][Next]_vars

-----------------------------------------------------------------------------
(* Properties. *)

\* No run is between its deletion and its addition, or ended there.
NothingDropped ==
    \A r \in Run : run[r].search # "dropped"

\* However runs overlap, once the service has caught up the documents that were added
\* last are found, all of them, unless a run deleted documents and never added its
\* own (index_rfd: a deletion comes before the addition of the same run).
LastAddIsServed ==
    tasks = <<>> /\ lastAdd # NoRun /\ NothingDropped => Documents(lastAdd) \subseteq served

\* No document is in an index that a run cannot search for old documents: the settings
\* go before the first addition, whichever run sends it (index_rfd).
DocumentsCanBeFound == served # {} => filterable

Newest == run[Last(started)]

\* The newest run came when nothing else was under way and found all there was.
Undisturbed ==
    /\ started # <<>>
    /\ \A r \in Run : ~ Active(r)
    /\ Newest.alone

\* A run that nothing overlaps, which found fewer documents than a search may return,
\* leaves the index with exactly the sections of its revision, none of them older and
\* none with another visibility (index_rfd).
IndexIsExact ==
    Undisturbed /\ Newest.complete /\ Newest.search = "added" /\ tasks = <<>>
    => served = Documents(Last(started))

\* There is one file for the PDF of an RFD, whatever revisions it went through, as long
\* as the runs that stored one did not overlap and could record it (RemoteRfd::upsert,
\* store_rfd_pdf).
OnePdfFile ==
    (\A r \in Run : run[r].pdf # 0 => run[r].alone /\ Contains(pdfs, RowOf(r)))
    => Len(files) <= 1

\* After a run that nothing overlaps has recorded its PDF, the newest record leads to a
\* file that shows the revision of that run (store_rfd_pdf, RfdPdfStore::upsert).
PdfIsCurrent ==
    Undisturbed /\ Newest.pdf # 0 /\ Contains(pdfs, RowOf(Last(started)))
    => files[pdf_external_id] = Newest.revision

=============================================================================
