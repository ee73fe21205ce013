--------------------------- MODULE TranslationRun ---------------------------
(***************************************************************************)
(* Runs of initial_translate.run over one mod, one after another: each is  *)
(* a background task that reads the mod, then, language after language,    *)
(* skips the files its checkpoint names, sends the others through the      *)
(* stream (BatchStream), writes what comes back, and records a success in  *)
(* the checkpoint, in the project's file status and in the archive.        *)
(*                                                                         *)
(* A run may raise, the process may die at any step, and the mod's source  *)
(* may change meanwhile.  What survives is on disk.  That no two runs of a *)
(* project overlap is TaskLedger's WritersExclusive.  File names are taken *)
(* to be distinct (see BatchStream), the source file and model settings    *)
(* are otherwise the same from run to run.                                 *)
(***************************************************************************)
EXTENDS Naturals, FiniteSets

CONSTANTS
  N,           \* files, in the order of discovery: 1..N
  Empty,       \* those without a text to translate
  L,           \* target languages, in their order: 1..L
  MaxRuns,     \* bound: runs started
  MaxRevision, \* bound: changes of the source
  MaxFaults    \* bound: saves that fail and are only logged

ASSUME SizeAssumption  == N \in Nat /\ L \in Nat \ {0} /\ Empty \subseteq 1..N
ASSUME BoundAssumption == MaxRuns \in Nat /\ MaxRevision \in Nat /\ MaxFaults \in Nat

Files == 1..N
Langs == 1..L

VARIABLES
  (* On disk. *)
  revision,   \* of the mod's source files
  output,     \* language -> file -> what the output folder holds
  checkpoint, \* language -> completed_files of .remis_checkpoint_<code>.json
  done,       \* the files whose project status is "done"
  archived,   \* <<language, file, source version>> in the archive database
  (* Of the run. *)
  pc,         \* idle, prepare, language, stream, write, mark, status,
              \* archive, close
  resume,     \* use_resume
  snapshot,   \* the source version the run read
  lang, next, \* the language at work, the file its iterator gives next
  seen,       \* CheckpointManager.completed_files, in memory
  flying,     \* the files in the stream
  file,       \* the file being finalised
  failed,     \* its is_failed
  errors,     \* run_state.error_count > 0
  verdict,    \* how the last run ended: none, completed, failed, died
  thorough,   \* that run went through all languages
  runs, faults

disk    == <<revision, output, checkpoint, done, archived>>
process == <<pc, resume, snapshot, lang, next, seen, flying, file, failed, errors,
             verdict, thorough, runs>>
vars    == <<disk, process, faults>>

Content == [text: {"none", "torn", "source", "translated"}, of: 0..MaxRevision]

Init ==
  /\ revision = 0
  /\ output = [l \in Langs |-> [f \in Files |-> [text |-> "none", of |-> 0]]]
  /\ checkpoint = [l \in Langs |-> {}]
  /\ done = {} /\ archived = {}
  /\ pc = "idle" /\ resume = FALSE /\ snapshot = 0
  /\ lang = 1 /\ next = 1 /\ seen = {} /\ flying = {} /\ file = 0 /\ failed = FALSE
  /\ errors = FALSE /\ verdict = "none" /\ thorough = FALSE
  /\ runs = 0 /\ faults = 0

-----------------------------------------------------------------------------
(* A save whose error is caught and logged.                                *)
Swallowed == faults < MaxFaults /\ faults' = faults + 1
NoFault   == UNCHANGED faults

(* The run is over: its memory goes with it.                               *)
End(v, whole) ==
  /\ pc' = "idle" /\ verdict' = v /\ thorough' = whole
  /\ seen' = {} /\ flying' = {} /\ file' = 0 /\ failed' = FALSE /\ errors' = FALSE
  /\ lang' = 1 /\ next' = 1
  /\ UNCHANGED <<resume, snapshot, runs>>

StartRun(r) ==
  /\ pc = "idle" /\ runs < MaxRuns
  /\ pc' = "prepare" /\ resume' = r /\ runs' = runs + 1
  /\ verdict' = "none" /\ thorough' = FALSE
  /\ UNCHANGED <<disk, snapshot, lang, next, seen, flying, file, failed, errors, faults>>

(* Output folders, source files, source version: the version of a known    *)
(* content is the one it had.                                              *)
PrepareRun ==
  /\ pc = "prepare"
  /\ snapshot' = revision
  /\ pc' = "language"
  /\ UNCHANGED <<disk, resume, lang, next, seen, flying, file, failed, errors, verdict,
                 thorough, runs, faults>>

(* No provider, no file, an unreadable file, no source version: run        *)
(* returns, and its caller reports "completed".                            *)
GiveUp ==
  /\ pc = "prepare"
  /\ End("completed", FALSE)
  /\ UNCHANGED <<disk, faults>>

(* build_checkpoint_manager: load the language's checkpoint; without       *)
(* use_resume delete the file, which the loaded set survives.              *)
BeginLanguage ==
  /\ pc = "language"
  /\ seen' = checkpoint[lang]
  /\ IF resume
       THEN checkpoint' = checkpoint /\ NoFault
       ELSE \/ checkpoint' = [checkpoint EXCEPT ![lang] = {}] /\ NoFault
            \/ checkpoint' = checkpoint /\ Swallowed
  /\ next' = 1 /\ pc' = "stream"
  /\ UNCHANGED <<revision, output, done, archived, resume, snapshot, lang, flying, file,
                 failed, errors, verdict, thorough, runs>>

-----------------------------------------------------------------------------
(* The file iterator, called whenever the stream has room.                 *)
SkipFile ==
  /\ pc = "stream" /\ next \in Files
  /\ next \in seen
  /\ next' = next + 1
  /\ UNCHANGED <<disk, pc, resume, snapshot, lang, seen, flying, file, failed, errors,
                 verdict, thorough, runs, faults>>

TakeAnyFile == \* mutant: the checkpoint is not asked
  /\ pc = "stream" /\ next \in Files
  /\ next \notin Empty
  /\ flying' = flying \cup {next}
  /\ next' = next + 1
  /\ UNCHANGED <<disk, pc, resume, snapshot, lang, seen, file, failed, errors, verdict,
                 thorough, runs, faults>>

TakeFile ==
  /\ pc = "stream" /\ next \in Files
  /\ next \notin seen /\ next \notin Empty
  /\ flying' = flying \cup {next}
  /\ next' = next + 1
  /\ UNCHANGED <<disk, pc, resume, snapshot, lang, seen, file, failed, errors, verdict,
                 thorough, runs, faults>>

(* mark_file_completed: the set first, then the file, written aside and    *)
(* moved into place; the file gets the whole set.                          *)
Mark(f) ==
  /\ seen' = seen \cup {f}
  /\ \/ checkpoint' = [checkpoint EXCEPT ![lang] = seen \cup {f}] /\ NoFault
     \/ checkpoint' = checkpoint /\ Swallowed

(* A file without texts is copied with a new header, from the source as it *)
(* is now, and marked, whether or not the copy could be written.           *)
TakeEmptyFile ==
  /\ pc = "stream" /\ next \in Files
  /\ next \notin seen /\ next \in Empty
  /\ \/ output' = [output EXCEPT ![lang][next] = [text |-> "source", of |-> revision]]
     \/ output' = output
  /\ Mark(next)
  /\ next' = next + 1
  /\ UNCHANGED <<revision, done, archived, pc, resume, snapshot, lang, flying, file,
                 failed, errors, verdict, thorough, runs>>

(* The stream yields a file it has, translated or with source texts in it. *)
YieldFile(f, bad) ==
  /\ pc = "stream" /\ f \in flying
  /\ flying' = flying \ {f}
  /\ file' = f /\ failed' = bad
  /\ errors' = (errors \/ bad)
  /\ pc' = "write"
  /\ UNCHANGED <<disk, resume, snapshot, lang, next, seen, verdict, thorough, runs, faults>>

-----------------------------------------------------------------------------
(* finalize_translated_file.                                               *)
WriteAndMark == \* mutant: `if not is_failed` dropped before the checkpoint
  /\ pc = "write"
  /\ output' = [output EXCEPT ![lang][file] =
                  [text |-> IF failed THEN "source" ELSE "translated", of |-> snapshot]]
  /\ pc' = "mark"
  /\ UNCHANGED <<revision, checkpoint, done, archived, resume, snapshot, lang, next, seen,
                 flying, file, failed, errors, verdict, thorough, runs, faults>>

WriteFile ==
  /\ pc = "write"
  /\ output' = [output EXCEPT ![lang][file] =
                  [text |-> IF failed THEN "source" ELSE "translated", of |-> snapshot]]
  /\ pc' = IF failed THEN "stream" ELSE "mark"
  /\ UNCHANGED <<revision, checkpoint, done, archived, resume, snapshot, lang, next, seen,
                 flying, file, failed, errors, verdict, thorough, runs, faults>>

MarkFile ==
  /\ pc = "mark"
  /\ Mark(file)
  /\ pc' = "status"
  /\ UNCHANGED <<revision, output, done, archived, resume, snapshot, lang, next, flying,
                 file, failed, errors, verdict, thorough, runs>>

SyncStatus ==
  /\ pc = "status"
  /\ \/ done' = done \cup {file} /\ NoFault
     \/ done' = done /\ Swallowed
  /\ pc' = "archive"
  /\ UNCHANGED <<revision, output, checkpoint, archived, resume, snapshot, lang, next, seen,
                 flying, file, failed, errors, verdict, thorough, runs>>

ArchiveAsCurrent == \* mutant: filed under the version the source has now
  /\ pc = "archive"
  /\ archived' = archived \cup {<<lang, file, revision>>} /\ NoFault
  /\ pc' = "stream"
  /\ UNCHANGED <<revision, output, checkpoint, done, resume, snapshot, lang, next, seen,
                 flying, file, failed, errors, verdict, thorough, runs>>

ArchiveFile ==
  /\ pc = "archive"
  /\ \/ archived' = archived \cup {<<lang, file, snapshot>>} /\ NoFault
     \/ archived' = archived /\ Swallowed
  /\ pc' = "stream"
  /\ UNCHANGED <<revision, output, checkpoint, done, resume, snapshot, lang, next, seen,
                 flying, file, failed, errors, verdict, thorough, runs>>

-----------------------------------------------------------------------------
Streamed == pc = "stream" /\ next \notin Files /\ flying = {}

(* The language raises if a file failed: the task fails.                   *)
FailLanguage ==
  /\ Streamed /\ errors
  /\ End("failed", FALSE)
  /\ UNCHANGED <<disk, faults>>

EndLanguageAnyway == \* mutant: failed files do not fail the language
  /\ Streamed
  /\ pc' = IF lang = L THEN "close" ELSE "language"
  /\ lang' = IF lang = L THEN 1 ELSE lang + 1
  /\ seen' = {} /\ file' = 0 /\ failed' = FALSE
  /\ UNCHANGED <<disk, resume, snapshot, next, flying, errors, verdict, thorough, runs, faults>>

(* Post-processing (it repairs what is written), then the next language or *)
(* the end.                                                                *)
EndLanguage ==
  /\ Streamed /\ ~errors
  /\ pc' = IF lang = L THEN "close" ELSE "language"
  /\ lang' = IF lang = L THEN 1 ELSE lang + 1
  /\ seen' = {} /\ file' = 0 /\ failed' = FALSE
  /\ UNCHANGED <<disk, resume, snapshot, next, flying, errors, verdict, thorough, runs, faults>>

(* clear_translation_checkpoints, one language at a time.                  *)
ClearCheckpoint ==
  /\ pc = "close" /\ lang \in Langs
  /\ \/ checkpoint' = [checkpoint EXCEPT ![lang] = {}] /\ NoFault
     \/ checkpoint' = checkpoint /\ Swallowed
  /\ lang' = lang + 1
  /\ UNCHANGED <<revision, output, done, archived, pc, resume, snapshot, next, seen, flying,
                 file, failed, errors, verdict, thorough, runs>>

CompleteRun ==
  /\ pc = "close" /\ lang \notin Langs
  /\ End("completed", TRUE)
  /\ UNCHANGED <<disk, faults>>

(* An error nobody catches below run_translation_workflow_v2: the folder   *)
(* or the output cannot be written, or post-processing raises.  An output  *)
(* that was being written is cut off.                                      *)
CutOff ==
  IF pc = "write"
    THEN \/ output' = output
         \/ output' = [output EXCEPT ![lang][file] = [text |-> "torn", of |-> snapshot]]
    ELSE output' = output

Raise ==
  /\ pc \in {"prepare", "language", "stream", "write"}
  /\ CutOff
  /\ End("failed", FALSE)
  /\ UNCHANGED <<revision, checkpoint, done, archived, faults>>

(* The process dies.                                                       *)
Crash ==
  /\ pc # "idle"
  /\ CutOff
  /\ End("died", FALSE)
  /\ UNCHANGED <<revision, checkpoint, done, archived, faults>>

(* DELETE /api/translation/checkpoint, at any time, one language's file     *)
(* after another.                                                          *)
DeleteCheckpoint(l) ==
  /\ checkpoint' = [checkpoint EXCEPT ![l] = {}]
  /\ UNCHANGED <<revision, output, done, archived, process, faults>>

(* The author of the mod publishes a new version.                          *)
ChangeSource ==
  /\ revision < MaxRevision
  /\ revision' = revision + 1
  /\ UNCHANGED <<output, checkpoint, done, archived, process, faults>>

Next ==
  \/ \E r \in BOOLEAN : StartRun(r)
  \/ PrepareRun \/ GiveUp \/ BeginLanguage
  \/ SkipFile \/ TakeFile \/ TakeEmptyFile
  \/ \E f \in Files, bad \in BOOLEAN : YieldFile(f, bad)
  \/ WriteFile \/ MarkFile \/ SyncStatus \/ ArchiveFile
  \/ FailLanguage \/ EndLanguage \/ ClearCheckpoint \/ CompleteRun
  \/ Raise \/ Crash \/ ChangeSource
  \/ \E l \in Langs : DeleteCheckpoint(l)

Spec == Init /\ [][Next]_vars

-----------------------------------------------------------------------------
(* Types of the variables.                                                 *)
TypeOK ==
  /\ revision \in 0..MaxRevision
  /\ output \in [Langs -> [Files -> Content]]
  /\ checkpoint \in [Langs -> SUBSET Files]
  /\ done \subseteq Files
  /\ archived \subseteq Langs \X Files \X (0..MaxRevision)
  /\ pc \in {"idle", "prepare", "language", "stream", "write", "mark", "status",
             "archive", "close"}
  /\ resume \in BOOLEAN /\ snapshot \in 0..MaxRevision
  /\ lang \in 1..L + 1 /\ next \in 1..N + 1
  /\ seen \subseteq Files /\ flying \subseteq Files
  /\ file \in 0..N
  /\ failed \in BOOLEAN /\ errors \in BOOLEAN
  /\ verdict \in {"none", "completed", "failed", "died"} /\ thorough \in BOOLEAN
  /\ runs \in Nat /\ faults \in Nat

(* What a checkpoint lets a later run skip is on disk, translated: neither *)
(* source text nor a file cut off by a crash hides behind it.              *)
CheckpointedIsTranslated ==
  \A l \in Langs : \A f \in checkpoint[l] \ Empty : output[l][f].text = "translated"

Translated == \A l \in Langs, f \in Files \ Empty : output[l][f].text = "translated"

(* A run that went through its languages and completed leaves every file   *)
(* translated into every one of them, the files it skipped included.       *)
CompletedIsTranslated == verdict = "completed" /\ thorough => Translated

(* Project status and archive follow the output: a file becomes "done", or *)
(* enters the archive under a source version, only when its translation of *)
(* that version is what the output folder holds.                           *)
SuccessFollowsOutput ==
  [][/\ \A e \in archived' \ archived :
          output[e[1]][e[2]] = [text |-> "translated", of |-> e[3]]
     /\ \A f \in done' \ done : output[lang][f].text = "translated"]_vars

(* No run overwrites what a checkpoint says is finished, whether it        *)
(* resumes or not.                                                         *)
FinishedIsKept ==
  [][\A l \in Langs : \A f \in checkpoint[l] \ Empty : output'[l][f] = output[l][f]]_vars
=============================================================================
