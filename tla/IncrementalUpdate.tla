-------------------------- MODULE IncrementalUpdate -------------------------
(***************************************************************************)
(* Incremental updates of one project and the archive they work from.  An  *)
(* update compares the source with the archived version last translated    *)
(* into a language, reuses what did not change, has the rest translated,   *)
(* writes a whole new package, and archives the result under the version   *)
(* of its source, creating that if no version has the same hash.  The two  *)
(* writes to the archive are separate transactions, and an upload of       *)
(* existing translations writes to it beside them.                         *)
(*                                                                         *)
(* An entry is a key of a file; what stands for it in a package or in the  *)
(* archive is a value: the text it comes from, whether that was translated *)
(* or copied, and who put it there.                                        *)
(***************************************************************************)
EXTENDS Naturals, Sequences, FiniteSetsExt

CONSTANTS
  Entries,     \* a set of numbers: the order of files and of lines
  FileOf,      \* entry -> its file, a number in the order of the walk
  NameOf,      \* file -> its base name
  KeyOf,       \* entry -> its key
  Texts, NoText,
  Langs, NoLang,
  Renames,     \* whether edits may move texts to other keys, in order
  MaxEdits,    \* bound: edits of the source
  MaxRuns,     \* bound: languages updated, over all updates
  MaxUploads,  \* bound: uploads
  MaxFaults    \* bound: calls and writes that fail, and restarts

ASSUME UpdateAssumption ==
  /\ Entries \subseteq Nat /\ IsFiniteSet(Entries) /\ Entries # {}
  /\ DOMAIN FileOf = Entries /\ DOMAIN KeyOf = Entries
  /\ \A e \in Entries : FileOf[e] \in Nat /\ FileOf[e] \in DOMAIN NameOf
  /\ Texts # {} /\ NoText \notin Texts
  /\ Langs # {} /\ IsFiniteSet(Langs) /\ NoLang \notin Langs
  /\ Renames \in BOOLEAN
  /\ MaxEdits \in Nat /\ MaxRuns \in Nat /\ MaxUploads \in Nat
  /\ MaxFaults \in Nat

VARIABLES
  source,   \* entry -> its text, NoText if it is not there
  archive,  \* sequence of versions: originals, and values by language
  latest,   \* language -> the version translated into it last, or 0
  package,  \* language -> entry -> value written
  update,   \* the update under way
  upload,   \* the upload under way
  (* History. *)
  last,     \* language -> source and failures of its last archived update
  edits, runs, uploads, faults

files  == <<source, package>>
db     == <<archive, latest>>
bounds == <<edits, runs, uploads, faults>>
updateVars   == <<files, db, update, upload, last, bounds>>

Values == [done : BOOLEAN, of : Texts, by : {"update", "upload"}]
Missing == [done |-> FALSE, of |-> NoText, by |-> "none"]
Nothing == [e \in Entries |-> Missing]

Translation(t) == [done |-> TRUE, of |-> t, by |-> "update"]
Copy(t)        == [done |-> FALSE, of |-> t, by |-> "update"]
IsCopy(v, t)   == ~v.done /\ v.of = t

Sources    == [Entries -> Texts \cup {NoText}]
NoSource   == [e \in Entries |-> NoText]
Present(s) == {e \in Entries : s[e] # NoText}
Position(e, S) == Cardinality({d \in S : d <= e})
Nth(n, S)  == CHOOSE e \in S : Position(e, S) = n

(* The texts alone, one after the other: neither keys nor files.           *)
Hash(s) == [n \in 1..Cardinality(Present(s)) |-> s[Nth(n, Present(s))]]

NoLast   == [source |-> NoSource, failed |-> {}]
NoUpload == [at |-> "idle", source |-> NoSource, version |-> 0,
             found |-> [l \in Langs |-> Nothing]]
NoUpdate == [at |-> "idle", dry |-> FALSE, todo |-> {}, alone |-> FALSE, lang |-> NoLang,
             source |-> NoSource, dirty |-> {}, plan |-> Nothing, version |-> 0]

UpdateInit ==
  /\ source \in [Entries -> Texts]
  /\ archive = << >> /\ latest = [l \in Langs |-> 0]
  /\ package = [l \in Langs |-> Nothing]
  /\ update = NoUpdate /\ upload = NoUpload
  /\ last = [l \in Langs |-> NoLast]
  /\ edits = 0 /\ runs = 0 /\ uploads = 0 /\ faults = 0

-----------------------------------------------------------------------------
(* The sources that were archived, or that a task has read.                *)
InUse == {archive[v].source : v \in 1..Len(archive)} \cup {update.source, upload.source}

(* The author changes, adds or removes an entry.                           *)
Edit(e, t) ==
  /\ edits < MaxEdits /\ edits' = edits + 1
  /\ source' = [source EXCEPT ![e] = t] /\ source' # source /\ Present(source') # {}
  /\ Renames \/ \A s \in InUse : Hash(source') = Hash(s) => source' = s
  /\ UNCHANGED <<package, db, update, upload, last, runs, uploads, faults>>

-----------------------------------------------------------------------------
(* The archive.                                                            *)

\* mutant: the newest version, into whatever language it was translated
NewestBaseline(l) == Len(archive)

(* get_entries: the version last translated into the language, or else the *)
(* newest one; translations are looked up by key alone, and the latest of  *)
(* a key wins.                                                             *)
Baseline(l) == IF latest[l] # 0 THEN latest[l] ELSE Len(archive)
Original(l, e) == archive[Baseline(l)].source[e]

Translated(l, k) ==
  {e \in Entries : KeyOf[e] = k /\ archive[Baseline(l)].values[l][e] # Missing}
Archived(l, e) ==
  LET same == Translated(l, KeyOf[e])
  IN IF same = {} THEN Missing ELSE archive[Baseline(l)].values[l][Max(same)]

(* create_source_version: the version of that hash, or a new one.          *)
Alike(s) == {v \in 1..Len(archive) : Hash(archive[v].source) = Hash(s)}
\* mutant: the newest version, read before the new one is inserted
VersionBefore(s) == Max({1, Len(archive)})

Version(s) == IF Alike(s) # {} THEN Min(Alike(s)) ELSE Len(archive) + 1
Created(s) == IF Alike(s) # {} THEN archive
              ELSE Append(archive, [source |-> s, values |-> [l \in Langs |-> Nothing]])

(* archive_translated_results: values go to the rows the version has.      *)
Rows(v, found) == {e \in Present(archive[v].source) : found[e] # Missing}
Upserted(v, l, found) ==
  [archive EXCEPT ![v].values[l] = [e \in Entries |-> IF e \in Rows(v, found) THEN found[e] ELSE @[e]]]

-----------------------------------------------------------------------------
(* An update.                                                              *)

Empty(langs) == [l \in Langs |-> IF l \in langs THEN Nothing ELSE package[l]]

(* The source is read once; the package of several languages is emptied    *)
(* once, unless the update is only a prescan.                              *)
Begin(langs, dry) ==
  /\ update.at = "idle" /\ Present(source) # {}
  /\ runs + Cardinality(langs) <= MaxRuns /\ runs' = runs + Cardinality(langs)
  /\ update' = [NoUpdate EXCEPT !.at = "prepare", !.dry = dry, !.todo = langs,
                                !.alone = (Cardinality(langs) = 1), !.source = source]
  /\ package' = IF ~dry /\ Cardinality(langs) > 1 THEN Empty(langs) ELSE package
  /\ UNCHANGED <<source, db, upload, last, edits, uploads, faults>>

(* build_history_index: the entry itself, or the only one with its key.    *)
Known(l, e) ==
  IF Len(archive) = 0 THEN {}
  ELSE IF Original(l, e) # NoText THEN {e}
  ELSE LET same == {d \in Entries : KeyOf[d] = KeyOf[e] /\ Original(l, d) # NoText}
       IN IF Cardinality(same) = 1 THEN same ELSE {}

\* mutant: whatever is archived under the key is reused
UnchangedByKey(l, e) ==
  \E d \in Known(l, e) :
    Archived(l, d) # Missing /\ ~IsCopy(Archived(l, d), update.source[e])

(* classify_entry: reused are translations other than a copy of the text,  *)
(* archived for the same text.                                             *)
Unchanged(l, e) ==
  \E d \in Known(l, e) :
    /\ Archived(l, d) # Missing
    /\ ~IsCopy(Archived(l, d), update.source[e])
    /\ Original(l, d) = update.source[e]

(* The package of a single language is emptied when it is prepared.        *)
Emptied(l) == IF ~update.dry /\ update.alone THEN Empty({l}) ELSE package

Prepare(l) ==
  /\ update.at = "prepare" /\ l \in update.todo
  /\ LET here  == Present(update.source)
         dirty == {e \in here : ~Unchanged(l, e)} IN
     IF update.dry
       THEN update' = [update EXCEPT !.todo = @ \ {l}]
       ELSE update' = [update EXCEPT
              !.at = "translate", !.todo = @ \ {l}, !.lang = l, !.dirty = dirty,
              !.plan = [e \in Entries |->
                IF e \in here \ dirty THEN Archived(l, CHOOSE d \in Known(l, e) : TRUE)
                                      ELSE Missing]]
  /\ package' = Emptied(l)
  /\ UNCHANGED <<source, db, upload, last, bounds>>

DirtyOf(f) == {e \in update.dirty : FileOf[e] = f}
Namesakes(f) == {g \in DOMAIN NameOf : NameOf[g] = NameOf[f] /\ DirtyOf(g) # {}}

(* What an entry gets.  Results are kept by base name: two dirty files of  *)
(* one name spoil each other's, and both get the texts of the last.        *)
Result(e, fell) ==
  LET f == FileOf[e]
      owner == Max(Namesakes(f))
      n == Position(e, DirtyOf(f)) IN
  IF Cardinality(Namesakes(f)) = 1 /\ NameOf[f] \notin fell
    THEN Translation(update.source[e])
    ELSE IF n <= Cardinality(DirtyOf(owner))
      THEN Copy(update.source[Nth(n, DirtyOf(owner))])
      ELSE Copy(update.source[e])

(* translate_dirty_files: the files of some names fall back to their text. *)
Translate(fell) ==
  /\ update.at = "translate"
  /\ fell \subseteq {NameOf[FileOf[e]] : e \in update.dirty}
  /\ Cardinality(fell) + faults <= MaxFaults
  /\ faults' = faults + Cardinality(fell)
  /\ update' = [update EXCEPT !.at = "build",
       !.plan = [e \in Entries |-> IF e \in update.dirty THEN Result(e, fell) ELSE @[e]]]
  /\ UNCHANGED <<files, db, upload, last, edits, runs, uploads>>

(* A batch failed or there is no provider: the update ends with an error.  *)
TranslateRaises ==
  /\ update.at = "translate" /\ update.dirty # {}
  /\ faults < MaxFaults /\ faults' = faults + 1
  /\ update' = NoUpdate
  /\ UNCHANGED <<files, db, upload, last, edits, runs, uploads>>

(* build_language_output: a file that cannot be written is left out.       *)
Build(lost) ==
  /\ update.at = "build"
  /\ lost \subseteq {FileOf[e] : e \in Present(update.source)}
  /\ Cardinality(lost) + faults <= MaxFaults
  /\ faults' = faults + Cardinality(lost)
  /\ package' = [package EXCEPT ![update.lang] =
       [e \in Entries |-> IF FileOf[e] \in lost THEN Missing ELSE update.plan[e]]]
  /\ update' = [update EXCEPT !.at = "create"]
  /\ UNCHANGED <<source, db, upload, last, edits, runs, uploads>>

(* On to the next language.                                                *)
Onward(u) == [u EXCEPT !.at = "prepare", !.lang = NoLang, !.dirty = {},
                      !.plan = Nothing, !.version = 0]

CreateVersion ==
  /\ update.at = "create"
  /\ archive' = Created(update.source)
  /\ update' = [update EXCEPT !.at = "store", !.version = Version(update.source)]
  /\ UNCHANGED <<files, latest, upload, last, bounds>>

ArchiveResults ==
  /\ update.at = "store"
  /\ archive' = Upserted(update.version, update.lang, update.plan)
  /\ latest' = IF Rows(update.version, update.plan) = {} THEN latest
               ELSE [latest EXCEPT ![update.lang] = update.version]
  /\ last' = [last EXCEPT ![update.lang] =
       [source |-> update.source,
        failed |-> {e \in Present(update.source) : IsCopy(update.plan[e], update.source[e])}]]
  /\ update' = Onward(update)
  /\ UNCHANGED <<files, upload, bounds>>

(* Either write is rolled back, and its error is not passed on.            *)
ArchiveFails ==
  /\ update.at \in {"create", "store"}
  /\ faults < MaxFaults /\ faults' = faults + 1
  /\ update' = Onward(update)
  /\ UNCHANGED <<files, db, upload, last, edits, runs, uploads>>

End ==
  /\ update.at = "prepare" /\ update.todo = {}
  /\ update' = NoUpdate
  /\ UNCHANGED <<files, db, upload, last, bounds>>

-----------------------------------------------------------------------------
(* upload_project_translations, in a handler and without the write key.    *)
UploadVersion ==
  /\ upload.at = "idle" /\ uploads < MaxUploads /\ Present(source) # {}
  /\ uploads' = uploads + 1
  /\ archive' = Created(source)
  /\ upload' = [NoUpload EXCEPT !.at = "scan", !.source = source, !.version = Version(source)]
  /\ UNCHANGED <<files, latest, update, last, edits, runs, faults>>

(* Entries are matched by file and key, and the others of a file that has  *)
(* a match get their source text.                                          *)
Match(l, e) == upload.source[e] # NoText /\ package[l][e] # Missing
Found(l) ==
  [e \in Entries |->
     IF Match(l, e) THEN [package[l][e] EXCEPT !.by = "upload"]
     ELSE IF upload.source[e] # NoText /\ \E d \in Entries : FileOf[d] = FileOf[e] /\ Match(l, d)
       THEN [Copy(upload.source[e]) EXCEPT !.by = "upload"]
       ELSE Missing]

ScanPackages ==
  /\ upload.at = "scan"
  /\ upload' = [upload EXCEPT !.at = "store", !.source = NoSource,
                              !.found = [l \in Langs |-> Found(l)]]
  /\ UNCHANGED <<files, db, update, last, bounds>>

(* One transaction for each language that has a match.                     *)
UploadResults(l) ==
  /\ upload.at = "store" /\ upload.found[l] # Nothing
  /\ archive' = Upserted(upload.version, l, upload.found[l])
  /\ latest' = IF Rows(upload.version, upload.found[l]) = {} THEN latest
               ELSE [latest EXCEPT ![l] = upload.version]
  /\ last' = [last EXCEPT ![l] = NoLast]
  /\ upload' = [upload EXCEPT !.found[l] = Nothing]
  /\ UNCHANGED <<files, update, bounds>>

EndUpload ==
  /\ upload.at = "store" /\ \A l \in Langs : upload.found[l] = Nothing
  /\ upload' = NoUpload
  /\ UNCHANGED <<files, db, update, last, bounds>>

-----------------------------------------------------------------------------
Restart ==
  /\ faults < MaxFaults /\ faults' = faults + 1
  /\ update' = NoUpdate /\ upload' = NoUpload
  /\ UNCHANGED <<files, db, last, edits, runs, uploads>>

Update ==
  \/ \E langs \in SUBSET Langs \ {{}}, dry \in BOOLEAN : Begin(langs, dry)
  \/ \E l \in Langs : Prepare(l)
  \/ \E fell \in SUBSET {NameOf[f] : f \in DOMAIN NameOf} : Translate(fell)
  \/ TranslateRaises
  \/ \E lost \in SUBSET (DOMAIN NameOf) : Build(lost)
  \/ CreateVersion \/ ArchiveResults \/ ArchiveFails \/ End

Upload == UploadVersion \/ ScanPackages \/ (\E l \in Langs : UploadResults(l)) \/ EndUpload

UpdateNext ==
  \/ \E e \in Entries, t \in Texts \cup {NoText} : Edit(e, t)
  \/ Update \/ Upload \/ Restart

UpdateSpec == UpdateInit /\ [][UpdateNext]_updateVars

-----------------------------------------------------------------------------
MaybeValues == Values \cup {Missing}

(* Every variable has its type.                                            *)
UpdateTypeOK ==
  /\ source \in Sources /\ package \in [Langs -> [Entries -> MaybeValues]]
  /\ archive \in Seq([source : Sources, values : [Langs -> [Entries -> MaybeValues]]])
  /\ latest \in [Langs -> 0..Len(archive)]
  /\ update \in [at : {"idle", "prepare", "translate", "build", "create", "store"},
                 dry : BOOLEAN, todo : SUBSET Langs, alone : BOOLEAN,
                 lang : Langs \cup {NoLang}, source : Sources, dirty : SUBSET Entries,
                 plan : [Entries -> MaybeValues], version : 0..Len(archive)]
  /\ upload \in [at : {"idle", "scan", "store"}, source : Sources, version : 0..Len(archive),
                 found : [Langs -> [Entries -> MaybeValues]]]
  /\ last \in [Langs -> [source : Sources, failed : SUBSET Entries]]
  /\ edits \in 0..MaxEdits /\ runs \in 0..MaxRuns /\ uploads \in 0..MaxUploads
  /\ faults \in 0..MaxFaults

(* What an update archived as the translation of an entry was made for the *)
(* text archived beside it, whatever was edited, reverted, uploaded or     *)
(* interrupted in between (archive_language_result).                       *)
ArchivedForItsText ==
  \A v \in 1..Len(archive), l \in Langs, e \in Entries :
    archive[v].values[l][e].by = "update" => archive[v].values[l][e].of = archive[v].source[e]

(* What an update writes for an entry, translated or copied, comes from    *)
(* the text the entry has in the source that was read, reused or not; an   *)
(* uploaded translation is taken as it is (build_language_output).         *)
WrittenForItsText ==
  update.at \in {"create", "store"} =>
    \A e \in Entries :
      LET written == package[update.lang][e] IN
      written.by = "update" => written.of = update.source[e]

(* An update of a source that was archived before, with no upload since,   *)
(* asks for exactly the entries that were not translated then: nothing is  *)
(* paid for twice, and nothing that failed is taken for done               *)
(* (classify_entry on get_entries).                                        *)
AsksOnlyForFailures ==
  update.at = "translate" /\ update.source = last[update.lang].source
    => update.dirty = last[update.lang].failed

=============================================================================
