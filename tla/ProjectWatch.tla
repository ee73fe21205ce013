----------------------------- MODULE ProjectWatch ----------------------------
(***************************************************************************)
(* Watches of mod folders.  A scan compares the localization files of a    *)
(* folder with the snapshots of the scan before, replaces the snapshots    *)
(* and announces the difference; the announcement stays until the user     *)
(* has acknowledged it, for which there is no operation yet.  Users start  *)
(* scans, and the client asks for those that are due; a scan holds the     *)
(* key of its project in the task ledger from its claim to its end, but    *)
(* works on the watch as it was read before.  Scans run in one event loop  *)
(* and lose it wherever they await the database.  Archiving a project      *)
(* pauses its watches.                                                     *)
(*                                                                         *)
(* A folder is read at once, and when a watch is due is left open.         *)
(***************************************************************************)
EXTENDS Naturals, FiniteSets

CONSTANTS
  Watches, Projects, Paths, Files, Scanners,
  NoProject,    \* the project of a watch without one
  Newest,       \* versions of a file; 0 stands for no file
  MaxEdits,     \* bound: changes of a folder
  MaxChanges,   \* bound: changes of watches and projects, other tasks
  MaxScans,     \* bound: scans and rounds of scans asked for
  MaxFaults     \* bound: operations on folder or database that fail, and restarts

ASSUME WatchAssumption ==
  /\ NoProject \notin Projects /\ Projects \cap Watches = {} /\ Paths # {}
  /\ Newest \in Nat
  /\ MaxEdits \in Nat /\ MaxChanges \in Nat /\ MaxScans \in Nat
  /\ MaxFaults \in Nat

VARIABLES
  folder,     \* path -> file -> version
  watch,      \* the rows of project_watches
  baseline,   \* the snapshots of each watch
  project,    \* project -> its status
  keyed,      \* dedupe keys in the ledger: who holds them
  scan,       \* what each scanning handler is doing
  due,        \* the watches it has read and has still to scan
  archiving,  \* projects whose archiving was found unblocked
  (* History. *)
  wanted,     \* watches the user last said to be enabled
  crossed,    \* watches two scans of which ran at once, under two keys
  edits, changes, scans, faults

rows    == <<watch, baseline, project>>
memory  == <<scan, due, archiving>>
history == <<wanted, crossed>>
counts  == <<edits, changes, scans, faults>>
vars    == <<folder, rows, keyed, memory, history, counts>>

Contents == [Files -> 0..Newest]
Nothing  == [f \in Files |-> 0]
Keys     == Projects \cup Watches

New(path, p, enabled) ==
  [state |-> "kept", path |-> path, project |-> p, enabled |-> enabled, paused |-> FALSE,
   status |-> "never_scanned", summary |-> {}]
Unmade == [New(CHOOSE path \in Paths : TRUE, NoProject, FALSE) EXCEPT !.state = "none"]

Kept(w) == watch[w].state = "kept"

(* A watch as a scan has read it.                                          *)
Read(w) == [id |-> w, path |-> watch[w].path, project |-> watch[w].project,
            status |-> watch[w].status, summary |-> watch[w].summary]
Key(seen) == IF seen.project # NoProject THEN seen.project ELSE seen.id

Idle == [pc |-> "idle"]
At(s, pc)   == scan[s].pc = pc
Scanning(s) == scan[s].pc \in {"compare", "store", "report"}

Init ==
  /\ folder \in [Paths -> Contents]
  /\ watch = [w \in Watches |-> Unmade]
  /\ baseline = [w \in Watches |-> Nothing]
  /\ project = [p \in Projects |-> "active"]
  /\ keyed = [k \in Keys |-> "free"]
  /\ scan = [s \in Scanners |-> Idle] /\ due = [s \in Scanners |-> {}] /\ archiving = {}
  /\ wanted = {} /\ crossed = {}
  /\ edits = 0 /\ changes = 0 /\ scans = 0 /\ faults = 0

-----------------------------------------------------------------------------
Fails == faults < MaxFaults /\ faults' = faults + 1
Works == faults' = faults

(* Somebody else changes a file of a mod: an update by its author, or the  *)
(* folder's loss.                                                          *)
EditFile(path, f, version) ==
  /\ edits < MaxEdits /\ edits' = edits + 1
  /\ folder' = [folder EXCEPT ![path][f] = version]
  /\ UNCHANGED <<rows, keyed, memory, history, changes, scans, faults>>

-----------------------------------------------------------------------------
(* Changes by users.  The form of a watch sends all of its fields.  The    *)
(* project named is looked up before the watch is written; should it be    *)
(* deleted in between, the foreign key refuses the write.                  *)
Change == changes < MaxChanges /\ changes' = changes + 1
          /\ UNCHANGED <<folder, edits, scans, faults>>

Existing == {NoProject} \cup {p \in Projects : project[p] # "gone"}

CreateWatch(w, path, p, enabled) ==
  /\ Change /\ watch[w].state = "none" /\ p \in Existing
  /\ watch' = [watch EXCEPT ![w] = New(path, p, enabled)]
  /\ wanted' = IF enabled THEN wanted \cup {w} ELSE wanted
  /\ UNCHANGED <<baseline, project, keyed, memory, crossed>>

UpdateWatch(w, path, p, enabled) ==
  /\ Change /\ Kept(w) /\ p \in Existing
  /\ watch' = [watch EXCEPT ![w] = [@ EXCEPT !.path = path, !.project = p,
                                            !.enabled = enabled, !.paused = FALSE]]
  /\ wanted' = IF enabled THEN wanted \cup {w} ELSE wanted \ {w}
  /\ UNCHANGED <<baseline, project, keyed, memory, crossed>>

Delete(doomed) ==
  /\ watch' = [w \in Watches |-> IF w \in doomed THEN [Unmade EXCEPT !.state = "gone"] ELSE watch[w]]
  /\ baseline' = [w \in Watches |-> IF w \in doomed THEN Nothing ELSE baseline[w]]
  /\ wanted' = wanted \ doomed

DeleteWatch(w) ==
  /\ Change /\ Kept(w) /\ Delete({w})
  /\ UNCHANGED <<project, keyed, memory, crossed>>

(* update_project_status asks the ledger first, and only when archiving.   *)
AskArchive(p) ==
  /\ Change /\ project[p] # "gone" /\ keyed[p] = "free" /\ p \notin archiving
  /\ archiving' = archiving \cup {p}
  /\ UNCHANGED <<rows, keyed, scan, due, history>>

Of(p) == {w \in Watches : Kept(w) /\ watch[w].project = p}

PausedAll(p) == \* mutant: pauses disabled watches too
  [w \in Watches |-> IF w \in Of(p)
                     THEN [watch[w] EXCEPT !.enabled = FALSE, !.paused = TRUE] ELSE watch[w]]
Paused(p)  == \* archiving pauses what is enabled
  [w \in Watches |-> IF w \in Of(p) /\ watch[w].enabled
                     THEN [watch[w] EXCEPT !.enabled = FALSE, !.paused = TRUE] ELSE watch[w]]
Resumed(p) ==
  [w \in Watches |-> IF w \in Of(p) /\ watch[w].paused
                     THEN [watch[w] EXCEPT !.enabled = TRUE, !.paused = FALSE] ELSE watch[w]]

Archive(p) ==
  /\ p \in archiving /\ archiving' = archiving \ {p}
  /\ IF project[p] = "gone" THEN UNCHANGED <<project, watch>>
     ELSE project' = [project EXCEPT ![p] = "archived"] /\ watch' = Paused(p)
  /\ UNCHANGED <<folder, baseline, keyed, scan, due, history, counts>>

Restore(p) ==
  /\ Change /\ project[p] # "gone"
  /\ project' = [project EXCEPT ![p] = "active"] /\ watch' = Resumed(p)
  /\ UNCHANGED <<baseline, keyed, memory, history>>

Discard(p) == \* the status "deleted", which leaves the watches alone
  /\ Change /\ project[p] # "gone"
  /\ project' = [project EXCEPT ![p] = "deleted"]
  /\ UNCHANGED <<watch, baseline, keyed, memory, history>>

DeleteProject(p) ==
  /\ Change /\ project[p] # "gone"
  /\ project' = [project EXCEPT ![p] = "gone"] /\ Delete(Of(p))
  /\ UNCHANGED <<keyed, memory, crossed>>

(* A translation, an update or a repair of the project.                    *)
OtherTask(p) ==
  /\ Change /\ keyed[p] = "free" /\ keyed' = [keyed EXCEPT ![p] = "other"]
  /\ UNCHANGED <<rows, memory, history>>

OtherTaskEnds(p) ==
  /\ keyed[p] = "other" /\ keyed' = [keyed EXCEPT ![p] = "free"]
  /\ UNCHANGED <<folder, rows, memory, history, counts>>

-----------------------------------------------------------------------------
(* Scans.                                                                  *)
Ask == scans < MaxScans /\ scans' = scans + 1
       /\ UNCHANGED <<folder, rows, keyed, archiving, history, edits, changes, faults>>

Free(s)  == At(s, "idle") /\ due[s] = {}
Enter(s, what) == scan' = [scan EXCEPT ![s] = what]

(* scan_watch, or the next of scan_watches.                                *)
ScanOne(s, w) ==
  /\ Ask /\ Free(s) /\ Kept(w)
  /\ Enter(s, [pc |-> "claim", of |-> Read(w)])
  /\ UNCHANGED due

(* scan_due_watches reads all watches and then scans those that are due.   *)
ScanDue(s, which) ==
  /\ Ask /\ Free(s)
  /\ which # {} /\ which \subseteq {w \in Watches : Kept(w) /\ watch[w].enabled}
  /\ due' = [due EXCEPT ![s] = {Read(w) : w \in which}]
  /\ UNCHANGED scan

ScanNext(s, seen) ==
  /\ At(s, "idle") /\ seen \in due[s]
  /\ due' = [due EXCEPT ![s] = @ \ {seen}]
  /\ Enter(s, [pc |-> "claim", of |-> seen])
  /\ UNCHANGED <<folder, rows, keyed, archiving, history, counts>>

(* The key is claimed and the folder read without an await in between; a   *)
(* path that is gone raises.                                               *)
ClaimWhen(s, mayClaim) ==
  LET seen == scan[s].of
      twins == {t \in Scanners \ {s} : Scanning(t) /\ scan[t].of.id = seen.id} IN
  /\ At(s, "claim")
  /\ \/ /\ ~mayClaim /\ Works /\ Enter(s, Idle)
        /\ UNCHANGED <<keyed, crossed>>
     \/ /\ mayClaim /\ Works
        /\ Enter(s, [pc |-> "compare", of |-> seen, current |-> folder[seen.path]])
        /\ keyed' = [keyed EXCEPT ![Key(seen)] = "scan"]
        /\ crossed' = IF \E t \in twins : Key(scan[t].of) # Key(seen)
                      THEN crossed \cup {seen.id} ELSE crossed
     \/ /\ mayClaim /\ Fails /\ Enter(s, Idle)
        /\ UNCHANGED <<keyed, crossed>>
  /\ UNCHANGED <<folder, rows, due, archiving, wanted, edits, changes, scans>>

Claim(s) == ClaimWhen(s, keyed[Key(scan[s].of)] = "free")

Compare(s) ==
  LET seen == scan[s].of IN
  /\ At(s, "compare")
  /\ \/ Works /\ Enter(s, [pc |-> "store", of |-> seen, current |-> scan[s].current,
                           previous |-> baseline[seen.id]])
     \/ Fails /\ Enter(s, [pc |-> "report", of |-> seen])
  /\ UNCHANGED <<folder, rows, keyed, due, archiving, history, edits, changes, scans>>

Diff(old, new) == {f \in Files : old[f] # new[f]}

(* What is stored of a scan: an announcement not yet acknowledged is kept  *)
(* unless there is a new one.                                              *)
Pending(seen) == seen.status = "changed" /\ seen.summary # {}
Announce(files) == [status |-> "changed", summary |-> files]

Plain(previous, current) ==
  [status  |-> IF current = Nothing THEN "no_localization"
               ELSE IF previous = Nothing THEN "baseline" ELSE "clean",
   summary |-> {}]

FoundInCurrent(previous, current) == \* mutant: deleted files are not compared
  IF Nothing \in {previous, current} THEN {} ELSE {f \in Diff(previous, current) : current[f] # 0}

Found(previous, current) ==
  IF Nothing \in {previous, current} THEN {} ELSE Diff(previous, current)

Verdict(seen, previous, current) ==
  IF Found(previous, current) # {} THEN Announce(Found(previous, current))
  ELSE IF Pending(seen) THEN Announce(seen.summary)
  ELSE Plain(previous, current)

(* replace_snapshots_and_update_watch, one transaction.  An empty folder   *)
(* leaves the snapshots alone; those of a watch deleted meanwhile are      *)
(* refused by their foreign key.                                           *)
StoreScan(s) ==
  LET seen == scan[s].of
      w == seen.id
      current == scan[s].current
      verdict == Verdict(seen, scan[s].previous, current) IN
  /\ At(s, "store")
  /\ Enter(s, [pc |-> "report", of |-> seen])
  /\ \/ /\ Kept(w) /\ Works
        /\ watch' = [watch EXCEPT ![w] = [@ EXCEPT !.status = verdict.status,
                                                  !.summary = verdict.summary]]
        /\ baseline' = [baseline EXCEPT ![w] = IF current = Nothing THEN @ ELSE current]
     \/ /\ (~Kept(w) /\ Works) \/ Fails
        /\ UNCHANGED <<watch, baseline>>
  /\ UNCHANGED <<folder, project, keyed, due, archiving, wanted, crossed,
                 edits, changes, scans>>

ReportScan(s) ==
  /\ At(s, "report") /\ Enter(s, Idle)
  /\ keyed' = [keyed EXCEPT ![Key(scan[s].of)] = "free"]
  /\ UNCHANGED <<folder, rows, due, archiving, history, counts>>

(* What was in memory is gone; the rows of tasks that were running are     *)
(* loaded as active, and nobody will end them.                             *)
Crash ==
  /\ Fails
  /\ scan' = [s \in Scanners |-> Idle] /\ due' = [s \in Scanners |-> {}] /\ archiving' = {}
  /\ keyed' = [k \in Keys |-> IF keyed[k] = "free" THEN "free" ELSE "stranded"]
  /\ UNCHANGED <<folder, rows, history, edits, changes, scans>>

-----------------------------------------------------------------------------
Scan(s) ==
  \/ \E w \in Watches : ScanOne(s, w)
  \/ \E which \in SUBSET Watches : ScanDue(s, which)
  \/ \E seen \in due[s] : ScanNext(s, seen)
  \/ Claim(s) \/ Compare(s) \/ StoreScan(s) \/ ReportScan(s)

Place(w, path, p) ==
  \E enabled \in BOOLEAN : CreateWatch(w, path, p, enabled) \/ UpdateWatch(w, path, p, enabled)

Manage(p) ==
  \/ AskArchive(p) \/ Archive(p) \/ Restore(p) \/ Discard(p) \/ DeleteProject(p)
  \/ OtherTask(p) \/ OtherTaskEnds(p)

Next ==
  \/ \E path \in Paths, f \in Files, version \in 0..Newest : EditFile(path, f, version)
  \/ \E w \in Watches, path \in Paths, p \in Projects \cup {NoProject} : Place(w, path, p)
  \/ \E w \in Watches : DeleteWatch(w)
  \/ \E p \in Projects : Manage(p)
  \/ (\E s \in Scanners : Scan(s)) \/ Crash

Spec == Init /\ [][Next]_vars

-----------------------------------------------------------------------------
(* Types of the variables.  A scan in progress holds its key alone, and a  *)
(* key that a scan holds is given back when it ends, however it ends.      *)
TypeOK ==
  /\ folder \in [Paths -> Contents] /\ baseline \in [Watches -> Contents]
  /\ \A w \in Watches :
       /\ watch[w].state \in {"none", "kept", "gone"} /\ watch[w].path \in Paths
       /\ watch[w].project \in Projects \cup {NoProject}
       /\ watch[w].enabled \in BOOLEAN /\ watch[w].paused \in BOOLEAN
       /\ watch[w].status \in {"never_scanned", "baseline", "clean", "changed", "no_localization"}
       /\ watch[w].summary \subseteq Files
       /\ Kept(w) \/ baseline[w] = Nothing
  /\ project \in [Projects -> {"active", "archived", "deleted", "gone"}]
  /\ keyed \in [Keys -> {"free", "scan", "other", "stranded"}]
  /\ \A k \in Keys : keyed[k] = "scan" <=> \E s \in Scanners : Scanning(s) /\ Key(scan[s].of) = k
  /\ \A s, t \in Scanners :
       Scanning(s) /\ Scanning(t) /\ Key(scan[s].of) = Key(scan[t].of) => s = t

(* The snapshots of a watch move on only with an announcement of exactly   *)
(* the files that changed, however many scans, updates and failures there  *)
(* were, and an empty folder does not move them: no change is taken for    *)
(* known without the user having been told.  Excepted are watches moved    *)
(* to another project during a scan, so that two scans of one watch ran    *)
(* under two keys (_scan_watch_task, _scan_watch_record).                  *)
ChangesAreAnnounced ==
  [][\A w \in Watches \ crossed :
       baseline[w] \notin {Nothing, baseline'[w]} /\ watch'[w].state = "kept"
         => /\ watch'[w].status = "changed"
            /\ watch'[w].summary = Diff(baseline[w], baseline'[w])]_vars

(* A watch is enabled as the user wants it, except that one of a project   *)
(* that is not active may be paused: none stays paused after its project   *)
(* was restored (update_project_lifecycle_status, update_watch).           *)
RestoreUndoesArchive ==
  \A w \in Watches : Kept(w) =>
    /\ watch[w].enabled <=> w \in wanted /\ ~watch[w].paused
    /\ watch[w].paused => watch[w].project \in Projects /\ project[watch[w].project] # "active"
=============================================================================
