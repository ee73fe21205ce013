------------------------ MODULE WatchAndRepairProofs ------------------------
(***************************************************************************)
(* What two components guarantee, each on its own.                         *)
(*                                                                         *)
(* ProjectWatch, for any watches, projects, folders and scanners, and any  *)
(* number of changes and failures.  That every change is announced rests   *)
(* on the snapshots a scan compares with being those it replaces: no other *)
(* scan of the watch stores in between, since both would hold one key,     *)
(* unless the watch was moved to another project.                          *)
(*                                                                         *)
(* WorkshopRun, for any issues, files, workers, handlers and batch size,   *)
(* and any number of runs, requests, errors and restarts, as long as no    *)
(* direct repair writes during a run (~Overlap).  Both of its results rest *)
(* on one task mending at a time, and on what it holds of a file while it  *)
(* does: neither its snapshot nor its buffer undoes a repair the log knows *)
(* or a batch of the run has counted.                                      *)
(***************************************************************************)
EXTENDS ProjectWatch, WorkshopRun, FiniteSetTheorems, WellFoundedInduction, TLAPS

(***************************************************************************)
(*                           The watches                                   *)
(***************************************************************************)
Statuses == {"never_scanned", "baseline", "clean", "changed", "no_localization"}
Owners   == Projects \cup {NoProject}
Row      == [state : {"none", "kept", "gone"}, path : Paths, project : Owners,
             enabled : BOOLEAN, paused : BOOLEAN, status : Statuses, summary : SUBSET Files]
Reading  == [id : Watches, path : Paths, project : Owners, status : Statuses,
             summary : SUBSET Files]

(* Archiving pauses only what was enabled.                                 *)
WantedInv == \A w \in Watches : Kept(w) /\ watch[w].paused => w \in wanted

(* What is on disk, and what users want of it.                             *)
RowInv ==
  /\ folder \in [Paths -> Contents] /\ baseline \in [Watches -> Contents]
  /\ watch \in [Watches -> Row]
  /\ project \in [Projects -> {"active", "archived", "deleted", "gone"}]
  /\ \A w \in Watches : ~Kept(w) => baseline[w] = Nothing /\ w \notin wanted
  /\ RestoreUndoesArchive
  /\ WantedInv

ScanOK(q) ==
  \/ q = Idle
  \/ q.pc \in {"claim", "report"} /\ q.of \in Reading
  \/ q.pc = "compare" /\ q.of \in Reading /\ q.current \in Contents
  \/ q.pc = "store" /\ q.of \in Reading /\ q.current \in Contents /\ q.previous \in Contents

(* Scans and what they have read; a watch read was created.                *)
ScanInv ==
  /\ scan \in [Scanners -> {scan[s] : s \in Scanners}]
  /\ \A s \in Scanners : ScanOK(scan[s])
  /\ \A s \in Scanners : ~At(s, "idle") => watch[scan[s].of.id].state # "none"
  /\ due \in [Scanners -> SUBSET Reading]
  /\ \A s \in Scanners : \A seen \in due[s] : watch[seen.id].state # "none"

(* Keys and the scans that hold them.                                      *)
KeyInv ==
  /\ keyed \in [Keys -> {"free", "scan", "other", "stranded"}]
  /\ \A k \in Keys : keyed[k] = "scan" <=> \E s \in Scanners : Scanning(s) /\ Key(scan[s].of) = k
  /\ \A s, t \in Scanners :
       Scanning(s) /\ Scanning(t) /\ Key(scan[s].of) = Key(scan[t].of) => s = t

(* Two scans of one watch hold two keys.                                   *)
TwinInv ==
  \A s, t \in Scanners :
    Scanning(s) /\ Scanning(t) /\ s # t /\ scan[s].of.id = scan[t].of.id
      => scan[s].of.id \in crossed

(* A scan compares with the snapshots it is about to replace.              *)
StoreInv ==
  \A s \in Scanners :
    At(s, "store") /\ scan[s].of.id \notin crossed /\ Kept(scan[s].of.id)
      => scan[s].previous = baseline[scan[s].of.id]

IInv == RowInv /\ ScanInv /\ KeyInv /\ TwinInv /\ StoreInv

-----------------------------------------------------------------------------
LEMMA NothingIsContent == Nothing \in Contents
  BY WatchAssumption DEF Nothing, Contents

LEMMA UnmadeIsRow ==
  /\ Unmade \in Row /\ Unmade.state = "none"
  /\ [Unmade EXCEPT !.state = "gone"] \in Row /\ [Unmade EXCEPT !.state = "gone"].state = "gone"
<1>1. (CHOOSE path \in Paths : TRUE) \in Paths
  BY WatchAssumption
<1>. QED  BY <1>1 DEF Unmade, New, Row, Owners, Statuses

LEMMA InitInv == Init => IInv
<1>. SUFFICES ASSUME Init PROVE IInv
  OBVIOUS
<1>1. RowInv
  BY NothingIsContent, UnmadeIsRow DEF Init, RowInv, RestoreUndoesArchive, WantedInv, Kept
<1>2. ScanInv
  BY DEF Init, ScanInv, ScanOK, At, Idle
<1>3. KeyInv /\ TwinInv /\ StoreInv
  BY DEF Init, KeyInv, TwinInv, StoreInv, At, Scanning, Idle
<1>. QED  BY <1>1, <1>2, <1>3 DEF IInv

-----------------------------------------------------------------------------
(* Rows.                                                                   *)
LEMMA SwitchedRow ==
  ASSUME NEW r \in Row, NEW enabled \in BOOLEAN, NEW paused \in BOOLEAN,
         NEW q, q = [r EXCEPT !.enabled = enabled, !.paused = paused]
  PROVE  /\ q \in Row /\ q.enabled = enabled /\ q.paused = paused
         /\ q.state = r.state /\ q.project = r.project
  BY DEF Row

LEMMA NewRow ==
  ASSUME NEW path \in Paths, NEW p \in Owners, NEW enabled \in BOOLEAN
  PROVE  /\ New(path, p, enabled) \in Row /\ New(path, p, enabled).state = "kept"
         /\ New(path, p, enabled).enabled = enabled /\ New(path, p, enabled).paused = FALSE
  BY DEF Row, New, Statuses

LEMMA DeleteKeeps ==
  ASSUME RowInv, NEW doomed, Delete(doomed), folder' = folder,
         project' \in [Projects -> {"active", "archived", "deleted", "gone"}],
         \A w \in Watches \ doomed : Kept(w) /\ watch[w].project \in Projects
           => project'[watch[w].project] = project[watch[w].project]
  PROVE  RowInv'
<1>1. watch' \in [Watches -> Row]
  BY UnmadeIsRow DEF RowInv, Delete
<1>2. baseline' \in [Watches -> Contents]
  BY NothingIsContent DEF RowInv, Delete
<1>3. \A w \in Watches : w \in doomed => watch'[w].state = "gone"
  BY UnmadeIsRow DEF Delete
<1>4. \A w \in Watches \ doomed : watch'[w] = watch[w] /\ baseline'[w] = baseline[w]
  BY DEF Delete
<1>5. \A w \in Watches : ~Kept(w)' => baseline'[w] = Nothing /\ w \notin wanted'
  BY <1>3, <1>4 DEF RowInv, Delete, Kept
<1>6. RestoreUndoesArchive' /\ WantedInv'
  BY <1>3, <1>4 DEF RowInv, Delete, Kept, RestoreUndoesArchive, WantedInv
<1>. QED  BY <1>1, <1>2, <1>5, <1>6 DEF RowInv

LEMMA PlaceKeeps ==
  ASSUME RowInv, NEW w \in Watches, NEW path \in Paths, NEW p \in Owners, Place(w, path, p)
  PROVE  RowInv'
<1>. PICK enabled \in BOOLEAN : CreateWatch(w, path, p, enabled) \/ UpdateWatch(w, path, p, enabled)
  BY DEF Place
<1>. DEFINE q == IF CreateWatch(w, path, p, enabled) THEN New(path, p, enabled)
                 ELSE [watch[w] EXCEPT !.path = path, !.project = p, !.enabled = enabled,
                                       !.paused = FALSE]
<1>0. watch \in [Watches -> Row]
  BY DEF RowInv
<1>1. watch' = [watch EXCEPT ![w] = q]
  BY DEF CreateWatch, UpdateWatch
<1>2. q \in Row /\ q.state = "kept" /\ q.enabled = enabled /\ q.paused = FALSE
  <2>1. CASE CreateWatch(w, path, p, enabled)
    BY <2>1, NewRow
  <2>2. CASE ~CreateWatch(w, path, p, enabled)
    <3>1. Kept(w) /\ watch[w] \in Row
      BY <1>0, <2>2 DEF UpdateWatch
    <3>2. q = [watch[w] EXCEPT !.path = path, !.project = p, !.enabled = enabled, !.paused = FALSE]
      BY <2>2
    <3>. HIDE DEF q
    <3>3. q \in Row /\ q.enabled = enabled /\ q.paused = FALSE /\ q.state = watch[w].state
      BY <3>1, <3>2 DEF Row
    <3>. QED  BY <3>1, <3>3 DEF Kept
  <2>. QED  BY <2>1, <2>2
<1>. HIDE DEF q
<1>3. watch'[w] = q /\ (\A v \in Watches \ {w} : watch'[v] = watch[v]) /\ watch' \in [Watches -> Row]
  BY <1>0, <1>1, <1>2
<1>4. w \in wanted' <=> enabled
  BY DEF CreateWatch, UpdateWatch, RowInv, Kept
<1>5. \A v \in Watches \ {w} : v \in wanted' <=> v \in wanted
  BY DEF CreateWatch, UpdateWatch
<1>6. UNCHANGED <<folder, baseline, project>>
  BY DEF CreateWatch, UpdateWatch, Change
<1>7. RestoreUndoesArchive' /\ WantedInv'
  BY <1>2, <1>3, <1>4, <1>5, <1>6 DEF RestoreUndoesArchive, WantedInv, RowInv, Kept
<1>8. \A v \in Watches : ~Kept(v)' => baseline'[v] = Nothing /\ v \notin wanted'
  BY <1>2, <1>3, <1>5, <1>6 DEF RowInv, Kept
<1>. QED  BY <1>3, <1>6, <1>7, <1>8 DEF RowInv

LEMMA ManageKeeps ==
  ASSUME RowInv, NEW p \in Projects, Manage(p)
  PROVE  RowInv'
<1>1. CASE AskArchive(p) \/ OtherTask(p) \/ OtherTaskEnds(p)
  BY <1>1 DEF AskArchive, OtherTask, OtherTaskEnds, Change, rows, history, memory, RowInv, Kept,
     RestoreUndoesArchive, WantedInv
<1>2. CASE DeleteProject(p)
  <2>1. Delete(Of(p)) /\ folder' = folder /\ project' = [project EXCEPT ![p] = "gone"]
    BY <1>2 DEF DeleteProject, Change
  <2>2. \A w \in Watches \ Of(p) : Kept(w) => watch[w].project # p
    BY DEF Of
  <2>3. \A w \in Watches \ Of(p) : Kept(w) /\ watch[w].project \in Projects
          => project'[watch[w].project] = project[watch[w].project]
    BY <2>1, <2>2 DEF RowInv
  <2>4. project' \in [Projects -> {"active", "archived", "deleted", "gone"}]
    BY <2>1 DEF RowInv
  <2>. QED  BY <2>1, <2>3, <2>4, DeleteKeeps
<1>3. CASE Archive(p) \/ Restore(p) \/ Discard(p)
  <2>. USE <1>3
  <2>1. UNCHANGED <<folder, baseline, wanted>>
    BY DEF Archive, Restore, Discard, Change, history
  <2>2. watch' \in {watch, Paused(p), Resumed(p)}
    BY DEF Archive, Restore, Discard
  <2>a. watch \in [Watches -> Row]
    BY DEF RowInv
  <2>b. \A w \in Watches :
          watch'[w] \in {watch[w], [watch[w] EXCEPT !.enabled = FALSE, !.paused = TRUE],
                         [watch[w] EXCEPT !.enabled = TRUE, !.paused = FALSE]}
    BY <2>2 DEF Paused, Resumed
  <2>4. \A w \in Watches : /\ watch'[w].state = watch[w].state
                           /\ watch'[w].project = watch[w].project /\ watch'[w] \in Row
    <3>. SUFFICES ASSUME NEW w \in Watches
                  PROVE  watch'[w].state = watch[w].state /\ watch'[w].project = watch[w].project
                         /\ watch'[w] \in Row
      OBVIOUS
    <3>1. watch[w] \in Row
      BY <2>a
    <3>2. CASE watch'[w] = watch[w]
      BY <3>1, <3>2
    <3>3. CASE watch'[w] = [watch[w] EXCEPT !.enabled = FALSE, !.paused = TRUE]
      BY <3>1, <3>3, SwitchedRow
    <3>4. CASE watch'[w] = [watch[w] EXCEPT !.enabled = TRUE, !.paused = FALSE]
      BY <3>1, <3>4, SwitchedRow
    <3>. QED  BY <2>b, <3>2, <3>3, <3>4
  <2>3. watch' \in [Watches -> Row]
    BY <2>2, <2>4, <2>a DEF Paused, Resumed
  <2>5. project' \in [Projects -> {"active", "archived", "deleted", "gone"}]
    BY DEF Archive, Restore, Discard, RowInv
  <2>6. \A q \in Projects \ {p} : project'[q] = project[q]
    BY DEF Archive, Restore, Discard, RowInv
  <2>7. ASSUME NEW w \in Watches, Kept(w)
        PROVE  /\ watch'[w].enabled <=> w \in wanted /\ ~watch'[w].paused
               /\ watch'[w].paused => watch'[w].project \in Projects
                                      /\ project'[watch'[w].project] # "active"
               /\ watch'[w].paused => w \in wanted
    <3>1. /\ watch[w].enabled <=> w \in wanted /\ ~watch[w].paused
          /\ watch[w].paused => watch[w].project \in Projects /\ project[watch[w].project] # "active"
          /\ watch[w].paused => w \in wanted
      BY <2>7 DEF RowInv, RestoreUndoesArchive, WantedInv
    <3>2. watch[w] \in Row
      BY DEF RowInv
    <3>3. CASE w \notin Of(p)
      <4>1. watch'[w] = watch[w]
        BY <2>2, <3>3 DEF Paused, Resumed
      <4>2. watch[w].project # p
        BY <2>7, <3>3 DEF Of
      <4>. QED  BY <2>6, <3>1, <4>1, <4>2
    <3>4. CASE w \in Of(p) /\ Archive(p)
      <4>1. CASE project[p] = "gone"
        BY <3>1, <3>4, <4>1 DEF Archive
      <4>2. CASE project[p] # "gone"
        <5>1. project'[p] = "archived" /\ watch' = Paused(p) /\ watch[w].project = p
          BY <3>4, <4>2 DEF Archive, RowInv, Of
        <5>2. watch'[w] = IF watch[w].enabled
                          THEN [watch[w] EXCEPT !.enabled = FALSE, !.paused = TRUE] ELSE watch[w]
          BY <3>4, <5>1 DEF Paused
        <5>3. CASE watch[w].enabled
          <6>1. watch'[w] = [watch[w] EXCEPT !.enabled = FALSE, !.paused = TRUE]
            BY <5>2, <5>3
          <6>2. watch'[w].enabled = FALSE /\ watch'[w].paused = TRUE /\ watch'[w].project = p
            BY <3>2, <5>1, <6>1, SwitchedRow
          <6>. QED  BY <3>1, <5>1, <5>3, <6>2
        <5>4. CASE ~watch[w].enabled
          <6>1. watch'[w] = watch[w]
            BY <5>2, <5>4
          <6>2. ~watch[w].paused => w \notin wanted
            BY <3>1, <5>4
          <6>. QED  BY <3>1, <5>1, <5>4, <6>1, <6>2
        <5>. QED  BY <5>3, <5>4
      <4>. QED  BY <4>1, <4>2
    <3>5. CASE w \in Of(p) /\ Restore(p)
      <4>1. watch'[w] = IF watch[w].paused
                        THEN [watch[w] EXCEPT !.enabled = TRUE, !.paused = FALSE] ELSE watch[w]
        BY <3>5 DEF Restore, Resumed
      <4>2. CASE watch[w].paused
        <5>1. watch'[w] = [watch[w] EXCEPT !.enabled = TRUE, !.paused = FALSE]
          BY <4>1, <4>2
        <5>2. watch'[w].enabled = TRUE /\ watch'[w].paused = FALSE
          BY <3>2, <5>1, SwitchedRow
        <5>. QED  BY <3>1, <4>2, <5>2
      <4>3. CASE ~watch[w].paused
        <5>1. watch'[w] = watch[w]
          BY <4>1, <4>3
        <5>. QED  BY <3>1, <4>3, <5>1
      <4>. QED  BY <4>2, <4>3
    <3>6. CASE w \in Of(p) /\ Discard(p)
      <4>1. watch' = watch /\ project'[p] = "deleted" /\ watch[w].project = p
        BY <3>6 DEF Discard, RowInv, Of
      <4>. QED  BY <3>1, <4>1
    <3>. QED  BY <3>3, <3>4, <3>5, <3>6
  <2>8. RestoreUndoesArchive' /\ WantedInv'
    BY <2>1, <2>4, <2>7 DEF RestoreUndoesArchive, WantedInv, Kept
  <2>9. \A w \in Watches : ~Kept(w)' => baseline'[w] = Nothing /\ w \notin wanted'
    BY <2>1, <2>4 DEF RowInv, Kept
  <2>. QED  BY <2>1, <2>3, <2>5, <2>8, <2>9 DEF RowInv
<1>. QED  BY <1>1, <1>2, <1>3 DEF Manage

LEMMA StoreKeepsRows ==
  ASSUME RowInv, ScanInv, NEW s \in Scanners, StoreScan(s)
  PROVE  RowInv'
<1>. DEFINE seen == scan[s].of
            w == seen.id
            current == scan[s].current
            verdict == Verdict(seen, scan[s].previous, current)
<1>1. seen \in Reading /\ w \in Watches /\ current \in Contents
  BY DEF ScanInv, ScanOK, StoreScan, At, Idle, Reading
<1>2. UNCHANGED <<folder, project, wanted>>
  BY DEF StoreScan
<1>3. CASE UNCHANGED <<watch, baseline>>
  BY <1>2, <1>3 DEF RowInv, RestoreUndoesArchive, WantedInv, Kept
<1>4. CASE /\ Kept(w)
           /\ watch' = [watch EXCEPT ![w] = [@ EXCEPT !.status = verdict.status,
                                                      !.summary = verdict.summary]]
           /\ baseline' = [baseline EXCEPT ![w] = IF current = Nothing THEN @ ELSE current]
  <2>1. verdict.status \in Statuses /\ verdict.summary \in SUBSET Files
    <3>1. seen.status \in Statuses /\ seen.summary \in SUBSET Files
      BY <1>1 DEF Reading
    <3>. HIDE DEF seen, current
    <3>2. Found(scan[s].previous, current) \in SUBSET Files
      BY DEF Found, Diff
    <3>. QED  BY <3>1, <3>2 DEF Verdict, Announce, Plain, Statuses
  <2>. HIDE DEF verdict, w, current
  <2>2. watch[w] \in Row /\ watch \in [Watches -> Row]
    BY <1>1 DEF RowInv
  <2>3. watch'[w] = [watch[w] EXCEPT !.status = verdict.status, !.summary = verdict.summary]
    BY <1>1, <1>4, <2>2
  <2>4. /\ watch'[w] \in Row /\ watch'[w].state = watch[w].state
        /\ watch'[w].enabled = watch[w].enabled /\ watch'[w].paused = watch[w].paused
        /\ watch'[w].project = watch[w].project
    BY <2>1, <2>2, <2>3 DEF Row
  <2>5. (\A v \in Watches \ {w} : watch'[v] = watch[v]) /\ watch' \in [Watches -> Row]
    BY <1>1, <1>4, <2>2, <2>4
  <2>6. baseline' \in [Watches -> Contents] /\ \A v \in Watches \ {w} : baseline'[v] = baseline[v]
    BY <1>1, <1>4 DEF RowInv
  <2>7. \A v \in Watches : ~Kept(v)' => baseline'[v] = Nothing /\ v \notin wanted'
    BY <1>2, <1>4, <2>4, <2>5, <2>6 DEF RowInv, Kept
  <2>8. RestoreUndoesArchive' /\ WantedInv'
    BY <1>2, <2>4, <2>5 DEF RowInv, RestoreUndoesArchive, WantedInv, Kept
  <2>. QED  BY <1>2, <2>5, <2>6, <2>7, <2>8 DEF RowInv
<1>. QED  BY <1>3, <1>4 DEF StoreScan

LEMMA RowsUntouched ==
  ASSUME RowInv, folder' \in [Paths -> Contents], UNCHANGED <<rows, wanted>>
  PROVE  RowInv'
  BY DEF RowInv, rows, RestoreUndoesArchive, WantedInv, Kept

-----------------------------------------------------------------------------
(* Scans.                                                                  *)

(* Watches are only ever created, changed and deleted, in this order.      *)
Lives == \A w \in Watches : watch[w].state # "none" =>
           /\ watch'[w].state # "none"
           /\ Kept(w)' => Kept(w)

LEMMA ScanMoves ==
  ASSUME ScanInv, Lives, NEW s \in Scanners, NEW q, ScanOK(q),
         scan' = [scan EXCEPT ![s] = q],
         q.pc # "idle" => watch'[q.of.id].state # "none",
         due' \in [Scanners -> SUBSET Reading],
         \A t \in Scanners : \A seen \in due'[t] :
           seen \in due[t] \/ watch'[seen.id].state # "none"
  PROVE  /\ ScanInv'
         /\ scan'[s] = q /\ \A t \in Scanners \ {s} : scan'[t] = scan[t]
<1>1. scan'[s] = q /\ \A t \in Scanners \ {s} : scan'[t] = scan[t]
  BY DEF ScanInv
<1>2. scan' \in [Scanners -> {scan'[t] : t \in Scanners}]
  BY DEF ScanInv
<1>3. \A t \in Scanners : ScanOK(scan'[t])
  BY <1>1 DEF ScanInv
<1>4. \A t \in Scanners : scan'[t].pc # "idle" => watch'[scan'[t].of.id].state # "none"
  <2>1. \A t \in Scanners : scan[t].pc # "idle" => scan[t].of.id \in Watches
    BY DEF ScanInv, ScanOK, Idle, Reading
  <2>. QED  BY <1>1, <2>1 DEF ScanInv, At, Lives
<1>5. \A t \in Scanners : \A seen \in due'[t] : watch'[seen.id].state # "none"
  <2>1. \A t \in Scanners : \A seen \in due[t] : seen.id \in Watches
    BY DEF ScanInv, Reading
  <2>. QED  BY <2>1 DEF ScanInv, Lives
<1>. QED  BY <1>1, <1>2, <1>3, <1>4, <1>5 DEF ScanInv, At

LEMMA ScansStay ==
  ASSUME ScanInv, TwinInv, StoreInv, Lives, UNCHANGED <<scan, due, crossed>>,
         \A w \in Watches : Kept(w)' /\ watch[w].state # "none" => baseline'[w] = baseline[w]
  PROVE  ScanInv' /\ TwinInv' /\ StoreInv'
<1>1. \A t \in Scanners : scan[t].pc # "idle" => scan[t].of.id \in Watches
  BY DEF ScanInv, ScanOK, Idle, Reading
<1>2. \A t \in Scanners : \A seen \in due[t] : seen.id \in Watches
  BY DEF ScanInv, Reading
<1>3. ScanInv'
  BY <1>1, <1>2 DEF ScanInv, At, Lives
<1>4. TwinInv'
  BY DEF TwinInv, Scanning
<1>5. StoreInv'
  BY <1>1 DEF ScanInv, StoreInv, At, Lives
<1>. QED  BY <1>3, <1>4, <1>5

LEMMA KeysStay ==
  ASSUME KeyInv, scan' = scan, keyed' \in [Keys -> {"free", "scan", "other", "stranded"}],
         \A k \in Keys : keyed'[k] = "scan" <=> keyed[k] = "scan"
  PROVE  KeyInv'
  BY DEF KeyInv, Scanning

(* A scan goes on, and nothing about it changes that others see.           *)
LEMMA GoesOn ==
  ASSUME KeyInv, TwinInv, NEW s \in Scanners, NEW q, scan'[s] = q,
         \A t \in Scanners \ {s} : scan'[t] = scan[t], UNCHANGED <<keyed, crossed>>,
         (q.pc \in {"compare", "store", "report"}) = Scanning(s),
         Scanning(s) => q.of = scan[s].of
  PROVE  KeyInv' /\ TwinInv'
<1>1. \A t \in Scanners : /\ Scanning(t)' <=> Scanning(t)
                          /\ Scanning(t) => scan'[t].of = scan[t].of
  BY DEF Scanning
<1>2. KeyInv'
  BY <1>1 DEF KeyInv
<1>3. TwinInv'
  BY <1>1 DEF TwinInv
<1>. QED  BY <1>2, <1>3

(* Unless it is about to store, it has nothing to compare with.            *)
LEMMA OthersStore ==
  ASSUME StoreInv, NEW s \in Scanners, UNCHANGED <<baseline, watch>>, crossed \subseteq crossed',
         \A t \in Scanners \ {s} : scan'[t] = scan[t], scan'[s].pc # "store"
  PROVE  StoreInv'
  BY DEF StoreInv, At, Kept

LEMMA ReadIsReading ==
  ASSUME RowInv, NEW w \in Watches
  PROVE  Read(w) \in Reading /\ Read(w).id = w
<1>1. watch[w] \in Row
  BY DEF RowInv
<1>. QED  BY <1>1 DEF Read, Reading, Row

LEMMA AskKeeps ==
  ASSUME IInv, NEW s \in Scanners,
         \/ \E w \in Watches : ScanOne(s, w)
         \/ \E which \in SUBSET Watches : ScanDue(s, which)
         \/ \E seen \in due[s] : ScanNext(s, seen)
  PROVE  IInv'
<1>. USE DEF IInv
<1>0. RowInv' /\ Lives /\ UNCHANGED <<folder, rows, wanted, keyed, crossed, watch, baseline>>
  <2>1. UNCHANGED <<folder, rows, keyed, history>>
    BY DEF ScanOne, ScanDue, ScanNext, Ask
  <2>. QED  BY <2>1, RowsUntouched DEF rows, history, RowInv, Lives, Kept
<1>1. CASE \E which \in SUBSET Watches : ScanDue(s, which)
  <2>1. PICK which \in SUBSET Watches : ScanDue(s, which)
    BY <1>1
  <2>2. /\ scan' = scan
        /\ due' = [due EXCEPT ![s] = {Read(w) : w \in which}]
        /\ \A w \in which : Kept(w)
    BY <2>1 DEF ScanDue
  <2>3. {Read(w) : w \in which} \in SUBSET Reading
    BY ReadIsReading
  <2>4. due' \in [Scanners -> SUBSET Reading]
    BY <2>2, <2>3 DEF ScanInv
  <2>5. \A t \in Scanners : \A seen \in due'[t] : watch[seen.id].state # "none"
    <3>1. \A seen \in due'[s] : watch[seen.id].state # "none"
      BY <2>2, ReadIsReading DEF ScanInv, Kept
    <3>. QED  BY <2>2, <3>1 DEF ScanInv
  <2>6. ScanInv'
    BY <1>0, <2>2, <2>4, <2>5 DEF ScanInv, At
  <2>7. KeyInv'
    BY <1>0, <2>2, KeysStay DEF KeyInv
  <2>8. TwinInv' /\ StoreInv'
    BY <1>0, <2>2 DEF TwinInv, StoreInv, Scanning, At, Kept
  <2>. QED  BY <1>0, <2>6, <2>7, <2>8
<1>2. ASSUME NEW seen \in Reading, At(s, "idle"), watch[seen.id].state # "none",
             scan' = [scan EXCEPT ![s] = [pc |-> "claim", of |-> seen]],
             due' \in [Scanners -> SUBSET Reading],
             \A t \in Scanners : due'[t] \subseteq due[t]
      PROVE  IInv'
  <2>. DEFINE q == [pc |-> "claim", of |-> seen]
  <2>1. ScanOK(q) /\ q.pc = "claim" /\ q.of = seen
    BY DEF ScanOK
  <2>2. scan' = [scan EXCEPT ![s] = q]
    BY <1>2
  <2>. HIDE DEF q
  <2>3. ScanInv' /\ scan'[s] = q /\ \A t \in Scanners \ {s} : scan'[t] = scan[t]
    BY <1>0, <1>2, <2>1, <2>2, ScanMoves
  <2>4. KeyInv' /\ TwinInv'
    BY <1>0, <1>2, <2>1, <2>3, GoesOn DEF Scanning, At
  <2>5. StoreInv'
    BY <1>0, <2>1, <2>3, OthersStore
  <2>. QED  BY <1>0, <2>3, <2>4, <2>5
<1>3. CASE \E w \in Watches : ScanOne(s, w)
  <2>1. PICK w \in Watches : ScanOne(s, w)
    BY <1>3
  <2>2. Read(w) \in Reading /\ watch[Read(w).id].state # "none"
    BY <2>1, ReadIsReading DEF ScanOne, Kept
  <2>3. At(s, "idle") /\ due' = due /\ scan' = [scan EXCEPT ![s] = [pc |-> "claim", of |-> Read(w)]]
    BY <2>1 DEF ScanOne, Free, Enter
  <2>. QED  BY <1>2, <2>2, <2>3 DEF ScanInv
<1>4. CASE \E seen \in due[s] : ScanNext(s, seen)
  <2>1. PICK seen \in due[s] : ScanNext(s, seen)
    BY <1>4
  <2>2. seen \in Reading /\ watch[seen.id].state # "none"
    BY DEF ScanInv
  <2>3. /\ At(s, "idle") /\ due' = [due EXCEPT ![s] = @ \ {seen}]
        /\ scan' = [scan EXCEPT ![s] = [pc |-> "claim", of |-> seen]]
    BY <2>1 DEF ScanNext, Enter
  <2>4. due' \in [Scanners -> SUBSET Reading] /\ \A t \in Scanners : due'[t] \subseteq due[t]
    BY <2>3 DEF ScanInv
  <2>. QED  BY <1>2, <2>2, <2>3, <2>4
<1>. QED  BY <1>1, <1>3, <1>4

LEMMA KeyInKeys ==
  ASSUME NEW seen \in Reading
  PROVE  Key(seen) \in Keys
  BY DEF Key, Keys, Reading, Owners

LEMMA IdleIsOK == ScanOK(Idle) /\ Idle.pc = "idle"
  BY DEF ScanOK, Idle

LEMMA ClaimKeeps ==
  ASSUME IInv, NEW s \in Scanners, Claim(s)
  PROVE  IInv'
<1>. USE DEF IInv
<1>. DEFINE seen == scan[s].of
<1>0. RowInv' /\ Lives /\ UNCHANGED <<folder, rows, wanted, due, watch, baseline>>
  <2>1. UNCHANGED <<folder, rows, wanted, due>>
    BY DEF Claim, ClaimWhen
  <2>. QED  BY <2>1, RowsUntouched DEF rows, RowInv, Lives, Kept
<1>1. /\ At(s, "claim") /\ ~Scanning(s) /\ seen \in Reading
      /\ watch[seen.id].state # "none" /\ due \in [Scanners -> SUBSET Reading]
  BY DEF Claim, ClaimWhen, ScanInv, ScanOK, Scanning, At, Idle
<1>2. CASE Enter(s, Idle) /\ UNCHANGED <<keyed, crossed>>
  <2>1. ScanInv' /\ scan'[s] = Idle /\ \A t \in Scanners \ {s} : scan'[t] = scan[t]
    BY <1>0, <1>1, <1>2, IdleIsOK, ScanMoves DEF Enter
  <2>2. KeyInv' /\ TwinInv'
    BY <1>1, <1>2, <2>1, IdleIsOK, GoesOn DEF Scanning
  <2>3. StoreInv'
    BY <1>0, <1>2, <2>1, IdleIsOK, OthersStore
  <2>. QED  BY <1>0, <2>1, <2>2, <2>3
<1>3. CASE /\ keyed[Key(seen)] = "free"
           /\ Enter(s, [pc |-> "compare", of |-> seen, current |-> folder[seen.path]])
           /\ keyed' = [keyed EXCEPT ![Key(seen)] = "scan"]
           /\ crossed' = IF \E t \in {t \in Scanners \ {s} : Scanning(t) /\ scan[t].of.id = seen.id} :
                              Key(scan[t].of) # Key(seen)
                         THEN crossed \cup {seen.id} ELSE crossed
  <2>. DEFINE q == [pc |-> "compare", of |-> seen, current |-> folder[seen.path]]
  <2>1. ScanOK(q) /\ q.pc = "compare" /\ q.of = seen
    <3>1. seen.path \in Paths
      BY <1>1 DEF Reading
    <3>. QED  BY <1>1, <3>1 DEF ScanOK, RowInv
  <2>2. scan' = [scan EXCEPT ![s] = q]
    BY <1>3 DEF Enter
  <2>. HIDE DEF q
  <2>3. ScanInv' /\ scan'[s] = q /\ \A t \in Scanners \ {s} : scan'[t] = scan[t]
    BY <1>0, <1>1, <2>1, <2>2, ScanMoves
  <2>4. Scanning(s)' /\ scan'[s].of = seen
    BY <2>1, <2>3 DEF Scanning
  <2>5. \A t \in Scanners \ {s} : (Scanning(t)' <=> Scanning(t)) /\ scan'[t].of = scan[t].of
    BY <2>3 DEF Scanning
  <2>6. \A t \in Scanners : Scanning(t) => Key(scan[t].of) # Key(seen)
    <3>1. Key(seen) \in Keys
      BY <1>1, KeyInKeys
    <3>. QED  BY <1>3, <3>1 DEF KeyInv
  <2>7. KeyInv'
    <3>1. Key(seen) \in Keys
      BY <1>1, KeyInKeys
    <3>2. keyed' \in [Keys -> {"free", "scan", "other", "stranded"}]
      BY <1>3 DEF KeyInv
    <3>3. \A k \in Keys : keyed'[k] = "scan" <=> keyed[k] = "scan" \/ k = Key(seen)
      BY <1>3, <3>1 DEF KeyInv
    <3>4. \A k \in Keys :
            keyed'[k] = "scan" <=> \E t \in Scanners : Scanning(t)' /\ Key(scan'[t].of) = k
      BY <1>1, <2>4, <2>5, <3>3 DEF KeyInv
    <3>5. \A t, u \in Scanners :
            Scanning(t)' /\ Scanning(u)' /\ Key(scan'[t].of) = Key(scan'[u].of) => t = u
      BY <2>4, <2>5, <2>6 DEF KeyInv
    <3>. QED  BY <3>2, <3>4, <3>5 DEF KeyInv, Key
  <2>8. TwinInv'
    <3>1. \A t \in Scanners \ {s} : Scanning(t) /\ scan[t].of.id = seen.id => seen.id \in crossed'
      BY <1>3, <2>6
    <3>2. crossed \subseteq crossed'
      BY <1>3
    <3>. QED  BY <1>1, <2>4, <2>5, <3>1, <3>2 DEF TwinInv
  <2>9. crossed \subseteq crossed' /\ scan'[s].pc # "store"
    BY <1>3, <2>1, <2>3
  <2>10. StoreInv'
    BY <1>0, <2>3, <2>9, OthersStore
  <2>. QED  BY <1>0, <2>3, <2>7, <2>8, <2>10
<1>. QED  BY <1>2, <1>3 DEF Claim, ClaimWhen
LEMMA CompareKeeps ==
  ASSUME IInv, NEW s \in Scanners, Compare(s)
  PROVE  IInv'
<1>. USE DEF IInv
<1>. DEFINE seen == scan[s].of
<1>0. RowInv' /\ Lives /\ UNCHANGED <<rows, wanted, due, watch, baseline, keyed, crossed>>
  <2>1. UNCHANGED <<folder, rows, wanted, due, keyed, crossed>>
    BY DEF Compare, history
  <2>. QED  BY <2>1, RowsUntouched DEF rows, RowInv, Lives, Kept
<1>1. /\ At(s, "compare") /\ Scanning(s) /\ seen \in Reading /\ scan[s].current \in Contents
      /\ watch[seen.id].state # "none" /\ due \in [Scanners -> SUBSET Reading]
  BY DEF Compare, ScanInv, ScanOK, Scanning, At, Idle
<1>2. ASSUME NEW q, ScanOK(q), q.pc \in {"store", "report"}, q.of = seen, Enter(s, q),
             q.pc = "store" => q.previous = baseline[seen.id]
      PROVE  IInv'
  <2>1. ScanInv' /\ scan'[s] = q /\ \A t \in Scanners \ {s} : scan'[t] = scan[t]
    <3>1. scan' = [scan EXCEPT ![s] = q]
      BY <1>2 DEF Enter
    <3>. QED  BY <1>0, <1>1, <1>2, <3>1, ScanMoves
  <2>2. KeyInv' /\ TwinInv'
    BY <1>0, <1>1, <1>2, <2>1, GoesOn
  <2>3. StoreInv'
    BY <1>0, <1>2, <2>1 DEF StoreInv, At, Kept
  <2>. QED  BY <1>0, <2>1, <2>2, <2>3
<1>3. CASE Enter(s, [pc |-> "store", of |-> seen, current |-> scan[s].current,
                     previous |-> baseline[seen.id]])
  <2>. DEFINE q == [pc |-> "store", of |-> seen, current |-> scan[s].current,
                    previous |-> baseline[seen.id]]
  <2>1. baseline[seen.id] \in Contents
    BY <1>1 DEF RowInv, Reading
  <2>2. ScanOK(q) /\ q.pc = "store" /\ q.of = seen /\ q.previous = baseline[seen.id] /\ Enter(s, q)
    BY <1>1, <1>3, <2>1 DEF ScanOK
  <2>. HIDE DEF q
  <2>. QED  BY <1>2, <2>2
<1>4. CASE Enter(s, [pc |-> "report", of |-> seen])
  <2>. DEFINE q == [pc |-> "report", of |-> seen]
  <2>1. ScanOK(q) /\ q.pc = "report" /\ q.of = seen /\ Enter(s, q)
    BY <1>1, <1>4 DEF ScanOK
  <2>. HIDE DEF q
  <2>. QED  BY <1>2, <2>1
<1>. QED  BY <1>3, <1>4 DEF Compare

LEMMA StoreKeeps ==
  ASSUME IInv, NEW s \in Scanners, StoreScan(s)
  PROVE  IInv'
<1>. USE DEF IInv
<1>. DEFINE seen == scan[s].of
            w == seen.id
            q == [pc |-> "report", of |-> seen]
<1>1. /\ At(s, "store") /\ Scanning(s) /\ seen \in Reading /\ w \in Watches
      /\ watch[w].state # "none" /\ due \in [Scanners -> SUBSET Reading]
  BY DEF StoreScan, ScanInv, ScanOK, Scanning, At, Idle, Reading
<1>2. RowInv' /\ UNCHANGED <<due, keyed, crossed>>
  BY StoreKeepsRows DEF StoreScan
<1>3. /\ \A v \in Watches : watch'[v].state = watch[v].state
      /\ \A v \in Watches \ {w} : baseline'[v] = baseline[v]
  <2>1. CASE UNCHANGED <<watch, baseline>>
    BY <2>1
  <2>2. CASE ~UNCHANGED <<watch, baseline>>
    <3>. DEFINE verdict == Verdict(seen, scan[s].previous, scan[s].current)
    <3>1. /\ watch' = [watch EXCEPT ![w] = [@ EXCEPT !.status = verdict.status,
                                                     !.summary = verdict.summary]]
          /\ \A v \in Watches \ {w} : baseline'[v] = baseline[v]
      BY <1>1, <2>2 DEF StoreScan, RowInv
    <3>. HIDE DEF verdict, w
    <3>2. watch[w] \in Row /\ watch \in [Watches -> Row]
      BY <1>1 DEF RowInv
    <3>3. watch'[w] = [watch[w] EXCEPT !.status = verdict.status, !.summary = verdict.summary]
      BY <1>1, <3>1, <3>2
    <3>4. watch'[w].state = watch[w].state
      BY <3>2, <3>3 DEF Row
    <3>5. \A v \in Watches \ {w} : watch'[v] = watch[v]
      BY <1>1, <3>1, <3>2
    <3>. QED  BY <3>1, <3>4, <3>5
  <2>. QED  BY <2>1, <2>2
<1>4. Lives
  BY <1>3 DEF Lives, Kept
<1>5. ScanOK(q) /\ q.pc = "report" /\ q.of = seen /\ scan' = [scan EXCEPT ![s] = q]
  BY <1>1 DEF ScanOK, StoreScan, Enter
<1>6. ScanInv' /\ scan'[s] = q /\ \A t \in Scanners \ {s} : scan'[t] = scan[t]
  <2>1. watch'[seen.id].state # "none"
    BY <1>1, <1>3
  <2>. HIDE DEF q
  <2>. QED  BY <1>1, <1>2, <1>4, <1>5, <2>1, ScanMoves
<1>7. KeyInv' /\ TwinInv'
  <2>. HIDE DEF q
  <2>. QED  BY <1>1, <1>2, <1>5, <1>6, GoesOn
<1>8. StoreInv'
  <2>. SUFFICES ASSUME NEW t \in Scanners, scan'[t].pc = "store",
                       scan'[t].of.id \notin crossed, watch'[scan'[t].of.id].state = "kept"
                PROVE  scan'[t].previous = baseline'[scan'[t].of.id]
    BY <1>2 DEF StoreInv, At, Kept
  <2>1. t # s /\ scan'[t] = scan[t] /\ At(t, "store") /\ Scanning(t)
    BY <1>5, <1>6 DEF At, Scanning
  <2>2. scan[t].of.id \in Watches
    BY <2>1 DEF ScanInv, ScanOK, At, Idle, Reading
  <2>3. scan[t].of.id # w
    BY <1>1, <2>1 DEF TwinInv
  <2>4. Kept(scan[t].of.id)
    BY <1>3, <2>1, <2>2 DEF Kept
  <2>5. scan[t].previous = baseline[scan[t].of.id]
    BY <2>1, <2>4 DEF StoreInv
  <2>. QED  BY <1>3, <2>1, <2>2, <2>3, <2>5
<1>. QED  BY <1>2, <1>6, <1>7, <1>8

LEMMA ReportKeeps ==
  ASSUME IInv, NEW s \in Scanners, ReportScan(s)
  PROVE  IInv'
<1>. USE DEF IInv
<1>. DEFINE k == Key(scan[s].of)
<1>0. RowInv' /\ Lives /\ UNCHANGED <<watch, baseline, due, crossed>>
  <2>1. UNCHANGED <<folder, rows, wanted, due, crossed>>
    BY DEF ReportScan, history
  <2>. QED  BY <2>1, RowsUntouched DEF rows, RowInv, Lives, Kept
<1>1. /\ At(s, "report") /\ Scanning(s) /\ scan[s].of \in Reading /\ k \in Keys
      /\ scan' = [scan EXCEPT ![s] = Idle] /\ keyed' = [keyed EXCEPT ![k] = "free"]
  BY KeyInKeys DEF ReportScan, ScanInv, ScanOK, At, Scanning, Idle, Enter
<1>2. ScanInv' /\ scan'[s] = Idle /\ \A t \in Scanners \ {s} : scan'[t] = scan[t]
  BY <1>0, <1>1, IdleIsOK, ScanMoves DEF ScanInv
<1>3. ~Scanning(s)' /\ \A t \in Scanners \ {s} : Scanning(t)' <=> Scanning(t)
  BY <1>2, IdleIsOK DEF Scanning
<1>4. KeyInv'
  <2>1. keyed' \in [Keys -> {"free", "scan", "other", "stranded"}]
    BY <1>1 DEF KeyInv
  <2>2. \A t \in Scanners \ {s} : Scanning(t) => Key(scan[t].of) # k
    BY <1>1 DEF KeyInv
  <2>3. \A j \in Keys :
          keyed'[j] = "scan" <=> \E t \in Scanners : Scanning(t)' /\ Key(scan'[t].of) = j
    <3>. SUFFICES ASSUME NEW j \in Keys
                  PROVE  keyed'[j] = "scan"
                           <=> \E t \in Scanners : Scanning(t)' /\ Key(scan'[t].of) = j
      OBVIOUS
    <3>1. CASE j = k
      BY <1>1, <1>2, <1>3, <2>2, <3>1 DEF KeyInv
    <3>2. CASE j # k
      BY <1>1, <1>2, <1>3, <3>2 DEF KeyInv
    <3>. QED  BY <3>1, <3>2
  <2>4. \A t, u \in Scanners :
          Scanning(t)' /\ Scanning(u)' /\ Key(scan'[t].of) = Key(scan'[u].of) => t = u
    BY <1>2, <1>3 DEF KeyInv
  <2>. QED  BY <2>1, <2>3, <2>4 DEF KeyInv, Key
<1>5. TwinInv'
  BY <1>0, <1>2, <1>3 DEF TwinInv
<1>6. StoreInv'
  BY <1>0, <1>2, IdleIsOK, OthersStore
<1>. QED  BY <1>0, <1>2, <1>4, <1>5, <1>6

LEMMA CrashKeeps ==
  ASSUME IInv, Crash
  PROVE  IInv'
<1>. USE DEF IInv
<1>1. /\ RowInv' /\ scan' = [s \in Scanners |-> Idle] /\ due' = [s \in Scanners |-> {}]
      /\ keyed' = [k \in Keys |-> IF keyed[k] = "free" THEN "free" ELSE "stranded"]
  <2>1. UNCHANGED <<folder, rows, wanted>>
    BY DEF Crash, history
  <2>. QED  BY <2>1, RowsUntouched DEF Crash, RowInv
<1>2. \A s \in Scanners : scan'[s] = Idle /\ ~Scanning(s)' /\ ~At(s, "store")'
  BY <1>1, IdleIsOK DEF Scanning, At
<1>3. ScanInv'
  BY <1>1, <1>2, IdleIsOK DEF ScanInv, At
<1>4. KeyInv' /\ TwinInv' /\ StoreInv'
  BY <1>1, <1>2 DEF KeyInv, TwinInv, StoreInv
<1>. QED  BY <1>1, <1>3, <1>4

-----------------------------------------------------------------------------
(* What happens beside the scans.                                          *)
LEMMA RowsMove ==
  ASSUME IInv, RowInv', UNCHANGED <<scan, due, crossed>>,
         \A w \in Watches : watch[w].state # "none" => watch'[w].state # "none",
         \A w \in Watches : Kept(w)' /\ watch[w].state # "none" =>
           Kept(w) /\ baseline'[w] = baseline[w],
         keyed' \in [Keys -> {"free", "scan", "other", "stranded"}],
         \A k \in Keys : keyed'[k] = "scan" <=> keyed[k] = "scan"
  PROVE  IInv'
<1>1. Lives
  BY DEF Lives
<1>2. ScanInv' /\ TwinInv' /\ StoreInv'
  BY <1>1, ScansStay DEF IInv
<1>3. KeyInv'
  BY KeysStay DEF IInv
<1>. QED  BY <1>2, <1>3 DEF IInv

LEMMA DeleteMoves ==
  ASSUME NEW doomed, Delete(doomed)
  PROVE  \A w \in Watches :
           /\ watch[w].state # "none" => watch'[w].state # "none"
           /\ Kept(w)' => Kept(w) /\ baseline'[w] = baseline[w]
  BY UnmadeIsRow DEF Delete, Kept

LEMMA EditKeeps ==
  ASSUME IInv, NEW path \in Paths, NEW f \in Files, NEW version \in 0..Newest,
         EditFile(path, f, version)
  PROVE  IInv'
<1>1. folder' \in [Paths -> Contents]
  <2>1. folder' = [folder EXCEPT ![path] = [folder[path] EXCEPT ![f] = version]]
    BY DEF EditFile, IInv, RowInv
  <2>2. [folder[path] EXCEPT ![f] = version] \in Contents
    BY DEF IInv, RowInv, Contents
  <2>. QED  BY <2>1, <2>2 DEF IInv, RowInv
<1>2. UNCHANGED <<rows, wanted, keyed, scan, due, crossed>>
  BY DEF EditFile, memory, history
<1>3. RowInv'
  BY <1>1, <1>2, RowsUntouched DEF IInv
<1>. QED  BY <1>2, <1>3, RowsMove DEF IInv, KeyInv, Kept, rows

LEMMA UsersKeep ==
  ASSUME IInv, NEW w \in Watches, NEW path \in Paths, NEW p \in Owners,
         Place(w, path, p) \/ DeleteWatch(w)
  PROVE  IInv'
<1>1. CASE Place(w, path, p)
  <2>. PICK enabled \in BOOLEAN :
         CreateWatch(w, path, p, enabled) \/ UpdateWatch(w, path, p, enabled)
    BY <1>1 DEF Place
  <2>1. UNCHANGED <<scan, due, keyed, crossed, baseline>>
    BY DEF CreateWatch, UpdateWatch, memory
  <2>2. \A v \in Watches : /\ watch[v].state # "none" => watch'[v].state # "none"
                           /\ Kept(v)' /\ watch[v].state # "none" => Kept(v)
    <3>1. CASE CreateWatch(w, path, p, enabled)
      BY <3>1, NewRow DEF CreateWatch, IInv, RowInv, Kept
    <3>2. CASE UpdateWatch(w, path, p, enabled)
      <4>1. \A v \in Watches \ {w} : watch'[v] = watch[v]
        BY <3>2 DEF UpdateWatch, IInv, RowInv
      <4>2. Kept(w) /\ watch[w] \in Row
        BY <3>2 DEF UpdateWatch, IInv, RowInv
      <4>3. watch'[w] = [watch[w] EXCEPT !.path = path, !.project = p,
                                         !.enabled = enabled, !.paused = FALSE]
        BY <3>2 DEF UpdateWatch, IInv, RowInv
      <4>4. watch'[w].state = "kept"
        BY <4>2, <4>3 DEF Row, Kept
      <4>. QED  BY <4>1, <4>2, <4>4 DEF Kept
    <3>. QED  BY <3>1, <3>2
  <2>3. RowInv'
    BY <1>1, PlaceKeeps DEF IInv
  <2>. QED  BY <2>1, <2>2, <2>3, RowsMove DEF IInv, KeyInv
<1>2. CASE DeleteWatch(w)
  <2>1. /\ Delete({w}) /\ UNCHANGED <<folder, project, scan, due, keyed, crossed>>
    BY <1>2 DEF DeleteWatch, Change, memory
  <2>2. RowInv'
    BY <2>1, DeleteKeeps DEF IInv, RowInv
  <2>. QED  BY <2>1, <2>2, DeleteMoves, RowsMove DEF IInv, KeyInv
<1>. QED  BY <1>1, <1>2

LEMMA ProjectsKeep ==
  ASSUME IInv, NEW p \in Projects, Manage(p)
  PROVE  IInv'
<1>1. RowInv'
  BY ManageKeeps DEF IInv
<1>2. UNCHANGED <<scan, due, crossed>>
  BY DEF Manage, AskArchive, Archive, Restore, Discard, DeleteProject, OtherTask, OtherTaskEnds,
     memory, history
<1>3. /\ keyed' \in [Keys -> {"free", "scan", "other", "stranded"}]
      /\ \A k \in Keys : keyed'[k] = "scan" <=> keyed[k] = "scan"
  <2>1. CASE OtherTask(p) \/ OtherTaskEnds(p)
    <3>1. p \in Keys
      BY DEF Keys
    <3>. QED  BY <2>1, <3>1 DEF OtherTask, OtherTaskEnds, IInv, KeyInv
  <2>2. CASE ~(OtherTask(p) \/ OtherTaskEnds(p))
    BY <2>2 DEF Manage, AskArchive, Archive, Restore, Discard, DeleteProject, IInv, KeyInv
  <2>. QED  BY <2>1, <2>2
<1>4. \A w \in Watches : /\ watch[w].state # "none" => watch'[w].state # "none"
                         /\ Kept(w)' /\ watch[w].state # "none" =>
                              Kept(w) /\ baseline'[w] = baseline[w]
  <2>1. CASE DeleteProject(p)
    BY <2>1, DeleteMoves DEF DeleteProject
  <2>2. CASE AskArchive(p) \/ Discard(p) \/ OtherTask(p) \/ OtherTaskEnds(p)
    BY <2>2 DEF AskArchive, Discard, OtherTask, OtherTaskEnds, rows, Kept
  <2>3. CASE Archive(p) \/ Restore(p)
    <3>1. baseline' = baseline /\ watch' \in {watch, Paused(p), Resumed(p)}
      BY <2>3 DEF Archive, Restore
    <3>2. \A w \in Watches : watch'[w].state = watch[w].state
      <4>. SUFFICES ASSUME NEW w \in Watches PROVE watch'[w].state = watch[w].state
        OBVIOUS
      <4>1. watch[w] \in Row
        BY DEF IInv, RowInv
      <4>2. watch'[w] \in {watch[w], [watch[w] EXCEPT !.enabled = FALSE, !.paused = TRUE],
                           [watch[w] EXCEPT !.enabled = TRUE, !.paused = FALSE]}
        BY <3>1 DEF Paused, Resumed
      <4>3. CASE watch'[w] = watch[w]
        BY <4>3
      <4>4. CASE watch'[w] = [watch[w] EXCEPT !.enabled = FALSE, !.paused = TRUE]
        BY <4>1, <4>4, SwitchedRow
      <4>5. CASE watch'[w] = [watch[w] EXCEPT !.enabled = TRUE, !.paused = FALSE]
        BY <4>1, <4>5, SwitchedRow
      <4>. QED  BY <4>2, <4>3, <4>4, <4>5
    <3>. QED  BY <3>1, <3>2 DEF Kept
  <2>. QED  BY <2>1, <2>2, <2>3 DEF Manage
<1>. QED  BY <1>1, <1>2, <1>3, <1>4, RowsMove

LEMMA NextInv ==
  ASSUME IInv, [Next]_vars
  PROVE  IInv'
<1>1. CASE \E path \in Paths, f \in Files, version \in 0..Newest : EditFile(path, f, version)
  BY <1>1, EditKeeps
<1>2. CASE \E w \in Watches, path \in Paths, p \in Projects \cup {NoProject} : Place(w, path, p)
  BY <1>2, UsersKeep DEF Owners
<1>3. CASE \E w \in Watches : DeleteWatch(w)
  <2>1. PICK w \in Watches : DeleteWatch(w)
    BY <1>3
  <2>2. PICK path \in Paths : TRUE
    BY WatchAssumption
  <2>3. NoProject \in Owners
    BY DEF Owners
  <2>. QED  BY <2>1, <2>2, <2>3, UsersKeep
<1>4. CASE \E p \in Projects : Manage(p)
  BY <1>4, ProjectsKeep
<1>5. CASE \E s \in Scanners : Scan(s)
  <2>1. PICK s \in Scanners : Scan(s)
    BY <1>5
  <2>. QED  BY <2>1, AskKeeps, ClaimKeeps, CompareKeeps, StoreKeeps, ReportKeeps DEF Scan
<1>6. CASE Crash
  BY <1>6, CrashKeeps
<1>7. CASE UNCHANGED vars
  BY <1>7, RowsUntouched, RowsMove DEF vars, rows, memory, history, IInv, RowInv, KeyInv, Kept
<1>. QED  BY <1>1, <1>2, <1>3, <1>4, <1>5, <1>6, <1>7 DEF Next

(* Of every behaviour: the rows, the scans under way and the keys they     *)
(* hold fit together, and a scan about to store compared its folder with   *)
(* the snapshots it is going to replace.                                   *)
THEOREM WatchInvariant == Spec => []IInv
  BY InitInv, NextInv, PTL DEF Spec

-----------------------------------------------------------------------------
(* Of every behaviour: types, and a key is held by the one scan that       *)
(* claimed it until it ends (TypeOK).                                      *)
THEOREM TypesHold == Spec => []TypeOK
<1>1. IInv => TypeOK
  <2>. SUFFICES ASSUME IInv PROVE TypeOK
    OBVIOUS
  <2>1. \A w \in Watches :
          /\ watch[w].state \in {"none", "kept", "gone"} /\ watch[w].path \in Paths
          /\ watch[w].project \in Projects \cup {NoProject}
          /\ watch[w].enabled \in BOOLEAN /\ watch[w].paused \in BOOLEAN
          /\ watch[w].status \in Statuses
          /\ watch[w].summary \subseteq Files
          /\ Kept(w) \/ baseline[w] = Nothing
    BY DEF IInv, RowInv, Row, Owners
  <2>. QED  BY <2>1 DEF IInv, RowInv, KeyInv, TypeOK, Statuses
<1>. QED  BY <1>1, WatchInvariant, PTL

(* Of every behaviour: a watch is enabled as the user wants it, except     *)
(* while its project is not active (update_project_lifecycle_status).      *)
THEOREM ArchiveIsUndone == Spec => []RestoreUndoesArchive
<1>1. IInv => RestoreUndoesArchive
  BY DEF IInv, RowInv
<1>. QED  BY <1>1, WatchInvariant, PTL

LEMMA OnlyStoresMove ==
  ASSUME IInv, [Next]_vars, ~\E s \in Scanners : StoreScan(s), NEW w \in Watches,
         watch'[w].state = "kept", baseline[w] # Nothing
  PROVE  baseline'[w] = baseline[w]
<1>1. Kept(w)
  BY DEF IInv, RowInv
<1>2. CASE \E v \in Watches : DeleteWatch(v)
  BY <1>2, DeleteMoves DEF DeleteWatch, Kept
<1>3. CASE \E p \in Projects : Manage(p)
  <2>1. CASE \E p \in Projects : DeleteProject(p)
    BY <2>1, DeleteMoves DEF DeleteProject, Kept
  <2>2. CASE ~\E p \in Projects : DeleteProject(p)
    BY <1>3, <2>2 DEF Manage, AskArchive, Archive, Restore, Discard, OtherTask, OtherTaskEnds, rows
  <2>. QED  BY <2>1, <2>2
<1>4. CASE \/ \E v \in Watches, path \in Paths, p \in Projects \cup {NoProject} : Place(v, path, p)
           \/ \E path \in Paths, f \in Files, version \in 0..Newest : EditFile(path, f, version)
           \/ Crash \/ UNCHANGED vars
  BY <1>4 DEF Place, CreateWatch, UpdateWatch, EditFile, Crash, rows, vars
<1>5. CASE \E s \in Scanners : Scan(s)
  BY <1>5 DEF Scan, ScanOne, ScanDue, ScanNext, Ask, Claim, ClaimWhen, Compare, ReportScan, rows
<1>. QED  BY <1>2, <1>3, <1>4, <1>5 DEF Next

LEMMA StoreAnnounces ==
  ASSUME IInv, NEW s \in Scanners, StoreScan(s), NEW w \in Watches \ crossed,
         baseline[w] \notin {Nothing, baseline'[w]}, watch'[w].state = "kept"
  PROVE  watch'[w].status = "changed" /\ watch'[w].summary = Diff(baseline[w], baseline'[w])
<1>. DEFINE seen == scan[s].of
            current == scan[s].current
            found == Found(scan[s].previous, current)
            verdict == Verdict(seen, scan[s].previous, current)
<1>1. At(s, "store") /\ seen.id \in Watches /\ current \in Contents
  BY DEF StoreScan, IInv, ScanInv, ScanOK, At, Idle, Reading
<1>2. /\ w = seen.id /\ Kept(w)
      /\ watch' = [watch EXCEPT ![w] = [@ EXCEPT !.status = verdict.status,
                                                 !.summary = verdict.summary]]
      /\ baseline' = [baseline EXCEPT ![w] = IF current = Nothing THEN @ ELSE current]
  BY <1>1 DEF StoreScan, IInv, RowInv
<1>3. current # Nothing /\ baseline'[w] = current
  BY <1>2 DEF IInv, RowInv
<1>4. scan[s].previous = baseline[w]
  BY <1>1, <1>2 DEF IInv, StoreInv
<1>5. found = Diff(baseline[w], current)
  BY <1>3, <1>4 DEF Found
<1>6. found # {}
  <2>1. baseline[w] \in Contents /\ baseline[w] # current
    BY <1>3 DEF IInv, RowInv
  <2>2. \E f \in Files : baseline[w][f] # current[f]
    BY <1>1, <2>1 DEF Contents
  <2>. QED  BY <1>5, <2>2 DEF Diff
<1>7. verdict.status = "changed" /\ verdict.summary = found
  BY <1>6 DEF Verdict, Announce
<1>. HIDE DEF verdict, found, current, seen
<1>8. watch[w] \in Row /\ watch'[w] = [watch[w] EXCEPT !.status = verdict.status,
                                                       !.summary = verdict.summary]
  BY <1>2 DEF IInv, RowInv
<1>9. watch'[w].status = verdict.status /\ watch'[w].summary = verdict.summary
  BY <1>8 DEF Row
<1>. QED  BY <1>3, <1>5, <1>7, <1>9

(* Of every behaviour: snapshots move on only with an announcement of      *)
(* exactly the files that changed (_scan_watch_record).                    *)
THEOREM EveryChangeIsAnnounced == Spec => ChangesAreAnnounced
<1>. DEFINE Announced(w) ==
       baseline[w] \notin {Nothing, baseline'[w]} /\ watch'[w].state = "kept"
         => /\ watch'[w].status = "changed"
            /\ watch'[w].summary = Diff(baseline[w], baseline'[w])
<1>1. IInv /\ [Next]_vars => [\A w \in Watches \ crossed : Announced(w)]_vars
  BY OnlyStoresMove, StoreAnnounces
<1>. QED  BY <1>1, WatchInvariant, PTL DEF Spec, ChangesAreAnnounced
-----------------------------------------------------------------------------
(***************************************************************************)
(*                        The runs of repairs                              *)
(***************************************************************************)
Quiet   == errors + restarts = 0
InFile  == {"read", "open", "fill", "verify"}
InLog   == {"mark", "save", "fill_log", "report"}

(* A task at work on an issue, and the issue it would work on.             *)
Mends(q)     == q.at \in Stretch /\ q.todo # {}
Target(q)    == Min(q.todo)
Rewrites(q, i) == q.at \in {"open", "fill", "verify"} /\ q.todo # {} /\ Target(q) = i

(* What the place of a task says of its record.                            *)
ShapeOf(a, q) ==
  /\ q.at \in {"idle", "wait"} => q.todo = {} /\ q.won = {}
  /\ q.at \in InFile \cup {"mark", "report"} => q.todo # {} /\ q.verdict \in {"fixed", "failed"}
  /\ q.at \in {"read", "verify", "report"} => q.verdict = "fixed"
  /\ q.at \in {"save", "fill_log"} =>
       IF q.todo # {} THEN q.verdict \in {"fixed", "failed"}
       ELSE /\ a \in Handlers /\ q.verdict \in {"scan", "cached"}
            /\ \A i \in Issues : q.book[i] # "fixed"
  /\ q.at \in {"next", "asked"} => q.verdict = "none"

Shape == \A a \in Actors : ShapeOf(a, actor[a])

(* One task mends at a time: those of a loop keep out of each other's way, *)
(* and while a run is on, a direct repair waits.                           *)
OneMender ==
  /\ \A a, b \in Actors : Writing(a) /\ b \in Peers(a) => ~Writing(b)
  /\ ~Active => \A w \in Workers : actor[w].at = "idle"
  /\ Active => \A h \in Handlers : ~Mends(actor[h])

(* What is called fixed was written once.                                  *)
FixedIsWritten == \A i \in Issues : log[i] = "fixed" => text[i] # "old"

(* Contents that may be written back undo no repair.                       *)
Covers(content, i) == \A j \in SameFile(i) : log[j] = "fixed" => content[j] # "old"

(* What a task holds while it mends: a snapshot and a buffer that undo no  *)
(* repair, and after the reading back a repair that is in the file.        *)
KnowsOf(q) ==
  LET c == Target(q) IN
  Mends(q) =>
    /\ q.at \in InFile =>
         /\ Covers(q.snap, c)
         /\ Quiet => \A j \in Issues : q.snap[j] # "garbled"
    /\ q.at \in {"open", "fill"} =>
         /\ Covers(q.buf, c)
         /\ Quiet => \A j \in Issues : q.buf[j] = "garbled" => q.verdict = "fixed" /\ j = c
    /\ q.at = "open" /\ q.verdict = "fixed" => \A j \in SameFile(c) \ {c} : q.buf[j] = text[j]
    /\ q.at = "fill" => \A j \in SameFile(c) : text[j] = "gone"
    /\ q.at \in InLog /\ q.verdict = "fixed" => text[c] = "new"
    /\ q.at \in {"save", "fill_log"} => \A i \in Issues : q.book[i] = "fixed" => text[i] # "old"

MenderKnows == \A a \in Actors : KnowsOf(actor[a])

(* Without errors a text that reads back otherwise is being repaired.      *)
GarbledIsRewritten ==
  Quiet => \A i \in Issues : text[i] = "garbled" => \E a \in Actors : Rewrites(actor[a], i)

(* Workers have batches of their own, taken from the queue.                *)
Busy(w) == actor[w].at # "idle"
BatchesApart ==
  /\ \A w \in Workers : Busy(w) => actor[w].number \in 1..(next - 1)
  /\ \A w, v \in Workers : Busy(w) /\ Busy(v) /\ actor[w].number = actor[v].number => w = v

SplitOf(q) ==
  q.at # "idle" =>
    /\ q.todo \subseteq Batch(q.number) /\ q.won \subseteq Batch(q.number)
    /\ q.todo \cap q.won = {}
    /\ q.at = "asked" => q.todo = Batch(q.number)
BatchSplit == \A w \in Workers : SplitOf(actor[w])

(* The run will not be called completed.                                   *)
Failing(q) == q.at \in Stretch /\ (q.verdict = "failed" \/ q.todo \cup q.won # Batch(q.number))
Doomed   == stats.failed > 0 \/ \E w \in Workers : Failing(actor[w])

(* Issues of the run that were repaired, if no batch of it failed, are in  *)
(* the file, or in the buffer that is about to be written to it.           *)
Done ==
  {i \in run : /\ BatchOf(run, i) < next
               /\ \A w \in Workers : Busy(w) /\ actor[w].number = BatchOf(run, i)
                                       => i \in actor[w].won}
Refills(q, i) == q.at = "fill" /\ i \in SameFile(Target(q)) /\ q.buf[i] = "new"
StandsIn(i)    == text[i] = "new" \/ \E w \in Workers : Refills(actor[w], i)
DoneIsKept == Active /\ ~Doomed => \A i \in Done : StandsIn(i)

RunInv == BatchesApart /\ BatchSplit /\ DoneIsKept
FileInv == FixedIsWritten /\ MenderKnows /\ GarbledIsRewritten
RepairInv == RepairTypeOK /\ Shape /\ OneMender /\ FileInv /\ RunInv

-----------------------------------------------------------------------------
(* Numbers.                                                                *)
LEMMA DivIs ==
  ASSUME NEW x \in Nat, NEW b \in Nat \ {0}
  PROVE  /\ x \div b \in Nat
         /\ b * (x \div b) <= x
         /\ x < b * (x \div b) + b
<1>1. x \div b \in Int
  OBVIOUS
<1>2. x = (b * (x \div b)) + (x % b) /\ x % b \in 0..(b-1)
  OBVIOUS
<1>3. b * (x \div b) <= x /\ x < b * (x \div b) + b
  BY <1>1, <1>2
<1>4. x \div b >= 0
  OBVIOUS
<1> QED BY <1>1, <1>3, <1>4

LEMMA Times ==
  ASSUME NEW p \in Int, NEW q \in Int, q <= p, NEW b \in Nat
  PROVE  b * q <= b * p
<1>1. b * (p - q) >= 0
  <2>1. \A n \in Nat : b * n >= 0
    OBVIOUS
  <2> QED BY <2>1
<1>2. b * p = b * q + b * (p - q)
  OBVIOUS
<1>3. b * p \in Int /\ b * q \in Int
  OBVIOUS
<1> QED BY <1>1, <1>2, <1>3

LEMMA DivMonotone ==
  ASSUME NEW x \in Nat, NEW y \in Nat, NEW b \in Nat \ {0}, x < y
  PROVE  (x \div b) + 1 <= (y + b - 1) \div b
<1> DEFINE p == x \div b
           q == (y + b - 1) \div b
<1>1. p \in Int /\ b * p <= x
  BY DivIs
<1>2. q \in Int /\ y + b - 1 < b * q + b
  BY DivIs
<1> HIDE DEF p, q
<1>3. ~(q <= p)
  <2> SUFFICES ASSUME q <= p PROVE FALSE
    OBVIOUS
  <2>1. b * q <= b * p
    BY <1>1, <1>2, Times
  <2>2. b * q \in Int /\ b * p \in Int
    BY <1>1, <1>2
  <2> QED BY <1>1, <1>2, <2>1, <2>2
<1>4. p + 1 <= q
  BY <1>1, <1>2, <1>3
<1> QED BY <1>4 DEF p, q

LEMMA DivBound ==
  ASSUME NEW y \in Nat, NEW b \in Nat \ {0}
  PROVE  (y + b - 1) \div b <= y
<1> DEFINE q == (y + b - 1) \div b
<1>1. q \in Nat /\ b * q <= y + b - 1
  BY DivIs
<1> HIDE DEF q
<1>2. ~(y + 1 <= q)
  <2> SUFFICES ASSUME y + 1 <= q PROVE FALSE
    OBVIOUS
  <2>1. b * (y + 1) <= b * q
    BY <1>1, Times
  <2>2. b * (y + 1) = b * y + b /\ 1 * y <= b * y
    <3>1. y * 1 <= y * b
      BY Times
    <3> QED BY <3>1
  <2>3. b * y \in Int /\ b * q \in Int
    BY <1>1
  <2> QED BY <1>1, <2>1, <2>2, <2>3
<1> QED BY <1>1, <1>2 DEF q
-----------------------------------------------------------------------------
(* The issue a task takes next is one of those left to it.                 *)
Below == {p \in Nat \X Nat : p[1] < p[2]}

LEMMA LeastIsIn ==
  ASSUME NEW S, S \subseteq Nat, S # {}
  PROVE  Min(S) \in S
<1>1. OpToRel(<, Nat) = Below
  BY Zenon DEF OpToRel, Below
<1>2. IsWellFoundedOn(Below, Nat)
  BY <1>1, NatLessThanWellFounded, Zenon
<1>3. PICK x \in S : \A y \in S : <<y, x>> \notin Below
  BY <1>2, WFMin, Zenon
<1>4. \A y \in S : x =< y
  <2> TAKE y \in S
  <2>1. <<y, x>> \notin Below /\ x \in Nat /\ y \in Nat
    BY <1>3
  <2> QED BY <2>1 DEF Below
<1> QED BY <1>4 DEF Min

LEMMA TargetIsIn ==
  ASSUME NEW q \in Records, q.todo # {}
  PROVE  Target(q) \in q.todo /\ Target(q) \in Issues
BY LeastIsIn, WorkshopAssumption DEF Target, Records

(* Batches are numbered from 1 to Last, and no batch has the number of     *)
(* another issue's.                                                        *)
LEMMA NumberOfIssue ==
  ASSUME NEW s \in SUBSET Issues, NEW i \in s
  PROVE  /\ BatchOf(s, i) \in Nat /\ BatchOf(s, i) >= 1
         /\ BatchOf(s, i) <= (Cardinality(s) + BatchSize - 1) \div BatchSize
<1> DEFINE t == {j \in s : j < i}
           x == Cardinality(t)
           y == Cardinality(s)
<1>0. i \in Nat
  BY WorkshopAssumption
<1>1. IsFiniteSet(s) /\ t \subseteq s /\ i \notin t
  <2>1. IsFiniteSet(s)
    BY FS_Subset, WorkshopAssumption
  <2>2. t \subseteq s /\ i \notin t
    BY <1>0
  <2> QED BY <2>1, <2>2
<1>2. t # s
  BY <1>1
<1>3. x \in Nat /\ y \in Nat /\ x < y
  BY <1>1, <1>2, FS_Subset, FS_CardinalityType
<1>4. BatchSize \in Nat \ {0}
  BY WorkshopAssumption
<1> HIDE DEF x, y
<1>5. x \div BatchSize \in Nat /\ (x \div BatchSize) + 1 <= (y + BatchSize - 1) \div BatchSize
  BY <1>3, <1>4, DivIs, DivMonotone
<1>6. BatchOf(s, i) = x \div BatchSize + 1
  BY DEF BatchOf, x
<1>7. (y + BatchSize - 1) \div BatchSize \in Int
  BY <1>3, <1>4
<1> QED BY <1>5, <1>6, <1>7 DEF y

LEMMA SizeOfBatch ==
  ASSUME RepairTypeOK, NEW n, NEW s \in SUBSET Batch(n)
  PROVE  /\ Cardinality(s) \in Nat /\ Cardinality(Batch(n)) \in Nat
         /\ Cardinality(s) <= Cardinality(Batch(n))
         /\ s # Batch(n) => Cardinality(s) < Cardinality(Batch(n))
<1>1. Batch(n) \subseteq Issues /\ IsFiniteSet(Batch(n))
  BY FS_Subset, WorkshopAssumption DEF RepairTypeOK, Batch
<1> QED BY <1>1, FS_Subset, FS_CardinalityType

LEMMA LastType == RepairTypeOK => Last \in Nat /\ Last <= Cardinality(Issues)
<1> SUFFICES ASSUME RepairTypeOK PROVE Last \in Nat /\ Last <= Cardinality(Issues)
  OBVIOUS
<1>1. IsFiniteSet(Issues) /\ run \subseteq Issues /\ BatchSize \in Nat \ {0}
  BY WorkshopAssumption DEF RepairTypeOK
<1>2. /\ Cardinality(run) \in Nat /\ Cardinality(Issues) \in Nat
      /\ Cardinality(run) <= Cardinality(Issues)
  BY <1>1, FS_Subset, FS_CardinalityType
<1>3. Cardinality(run) + BatchSize - 1 \in Nat
  BY <1>1, <1>2
<1>4. Last \in Nat /\ Last <= Cardinality(run)
  BY <1>1, <1>2, <1>3, DivIs, DivBound DEF Last
<1> QED BY <1>2, <1>4

-----------------------------------------------------------------------------
(* One task mends.                                                         *)
LEMMA Alone ==
  ASSUME RepairTypeOK, OneMender, NEW a \in Actors, NEW b \in Actors, Mends(actor[a]), Mends(actor[b])
  PROVE  a = b
<1>1. \A w \in Workers : Mends(actor[w]) => Active
  BY DEF OneMender, Mends, Stretch
<1>2. (a \in Workers /\ b \in Workers) \/ (a \in Handlers /\ b \in Handlers)
  BY <1>1 DEF OneMender, Actors
<1>3. a # b => b \in Peers(a)
  BY <1>2, WorkshopAssumption DEF Peers
<1> QED BY <1>3 DEF OneMender, Mends, Writing

(* A task that moves from record to record.                                *)
LEMMA MoveShape ==
  ASSUME RepairInv, NEW a \in Actors, NEW r \in Records, Go(a, r), UNCHANGED parent,
         ShapeOf(a, r), r.at \in Stretch => Writing(a) \/ LoopFree(a),
         a \in Workers /\ r.at # "idle" => Active,
         a \in Handlers /\ Mends(r) => ~Active
  PROVE  /\ actor' \in [Actors -> Records] /\ actor'[a] = r
         /\ \A b \in Actors \ {a} : actor'[b] = actor[b]
         /\ Shape' /\ OneMender'
<1>1. actor' \in [Actors -> Records]
  BY DEF RepairInv, RepairTypeOK, Go
<1>2. actor'[a] = r /\ \A b \in Actors \ {a} : actor'[b] = actor[b]
  BY DEF RepairInv, RepairTypeOK, Go
<1>3. Shape'
  BY <1>2 DEF RepairInv, Shape, ShapeOf
<1>4. ASSUME NEW b \in Actors, NEW c \in Actors, Writing(b)', c \in Peers(b)'
      PROVE  ~Writing(c)'
  <2>1. c # b /\ c \in Peers(b) /\ b \in Peers(c)
    BY <1>4, WorkshopAssumption DEF Peers, Actors
  <2>2. CASE b # a /\ c # a
    BY <1>2, <1>4, <2>1, <2>2 DEF RepairInv, OneMender, Writing
  <2>3. CASE b = a
    BY <1>2, <1>4, <2>1, <2>3 DEF RepairInv, OneMender, Writing, LoopFree
  <2>4. CASE c = a
    BY <1>2, <1>4, <2>1, <2>4 DEF RepairInv, OneMender, Writing, LoopFree
  <2> QED BY <2>2, <2>3, <2>4
<1>5. (~Active => \A w \in Workers : actor[w].at = "idle")'
  BY <1>2 DEF RepairInv, OneMender, Active, Actors
<1>6. (Active => \A h \in Handlers : ~Mends(actor[h]))'
  BY <1>2 DEF RepairInv, OneMender, Active, Actors, Mends
<1> QED BY <1>1, <1>2, <1>3, <1>4, <1>5, <1>6 DEF OneMender

(* What a step does to the files and the log keeps what is known of them,  *)
(* if the task that makes it is the one that mends, or leaves the files    *)
(* and puts no mark of a repair in the log.                                *)
LEMMA MoveFiles ==
  ASSUME RepairInv, NEW a \in Actors, NEW r,
         actor'[a] = r, \A b \in Actors \ {a} : actor'[b] = actor[b],
         Quiet' => Quiet,
         Mends(actor[a]) \/ (text' = text /\ \A i \in Issues : log'[i] = "fixed" => log[i] = "fixed"),
         FixedIsWritten', KnowsOf(r)',
         Mends(actor[a]) => (Quiet' => \A i \in Issues : text'[i] = "garbled" => Rewrites(r, i))
  PROVE  FileInv'
<1>1. MenderKnows'
  <2> SUFFICES ASSUME NEW b \in Actors, b # a PROVE KnowsOf(actor[b])'
    BY DEF MenderKnows
  <2>1. actor'[b] = actor[b] /\ KnowsOf(actor[b])
    BY DEF RepairInv, FileInv, MenderKnows
  <2>2. CASE ~Mends(actor[b])
    BY <2>1, <2>2 DEF KnowsOf, Mends
  <2>3. CASE Mends(actor[b])
    <3>1. text' = text /\ \A i \in Issues : log'[i] = "fixed" => log[i] = "fixed"
      BY <2>3, Alone DEF RepairInv
    <3> QED BY <2>1, <2>3, <3>1 DEF KnowsOf, Mends, Covers, SameFile, Target
  <2> QED BY <2>2, <2>3
<1>2. GarbledIsRewritten'
  <2> SUFFICES ASSUME Quiet', NEW i \in Issues, text'[i] = "garbled"
               PROVE  \E b \in Actors : Rewrites(actor'[b], i)
    BY DEF GarbledIsRewritten, Rewrites, Target
  <2>1. CASE Mends(actor[a])
    BY <2>1
  <2>2. CASE ~Mends(actor[a])
    <3>1. PICK b \in Actors : Rewrites(actor[b], i)
      BY <2>2 DEF RepairInv, FileInv, GarbledIsRewritten
    <3>2. b # a
      BY <2>2, <3>1 DEF Rewrites, Mends, Stretch
    <3> QED BY <3>1, <3>2
  <2> QED BY <2>1, <2>2
<1> QED BY <1>1, <1>2 DEF FileInv

(* The run goes on as a task moves: a handler's moves do not concern it,   *)
LEMMA HandlerRun ==
  ASSUME RepairInv, NEW a \in Handlers, \A b \in Actors \ {a} : actor'[b] = actor[b],
         UNCHANGED <<parent, run, next, stats>>, Mends(actor[a]) \/ text' = text
  PROVE  RunInv'
<1>1. \A w \in Workers : actor'[w] = actor[w]
  BY WorkshopAssumption DEF Actors
<1>2. BatchesApart'
  BY <1>1 DEF RepairInv, RunInv, BatchesApart, Busy
<1>3. BatchSplit'
  BY <1>1 DEF RepairInv, RunInv, BatchSplit, SplitOf, Batch
<1>4. Active => text' = text
  BY DEF RepairInv, OneMender
<1>5. Done' = Done /\ (Doomed' <=> Doomed) /\ (Active' <=> Active)
  BY <1>1 DEF Done, Doomed, Failing, Busy, Batch, Active
<1>6. \A i : text' = text => (StandsIn(i)' <=> StandsIn(i))
  BY <1>1 DEF StandsIn, Refills, SameFile, Target
<1>7. DoneIsKept'
  BY <1>4, <1>5, <1>6 DEF RepairInv, RunInv, DoneIsKept
<1> QED BY <1>2, <1>3, <1>7 DEF RunInv

(* and a worker stays in its batch, adds to its repaired issues one that   *)
(* is in the file, and undoes none of those that are done.                 *)
LEMMA WorkerRun ==
  ASSUME RepairInv, NEW a \in Workers, NEW r,
         actor'[a] = r, \A b \in Actors \ {a} : actor'[b] = actor[b],
         UNCHANGED <<parent, run, next, stats>>,
         Busy(a), r.at # "idle", r.number = actor[a].number,
         SplitOf(r), Failing(actor[a]) => Failing(r),
         ~Failing(r) => \A i \in r.won \ actor[a].won : text'[i] = "new",
         ~Failing(r) => \A i \in Done : text[i] = "new" \/ Refills(actor[a], i)
                                        => text'[i] = "new" \/ Refills(r, i)
  PROVE  RunInv'
<1>1. a \in Actors /\ \A w \in Workers : w # a => actor'[w] = actor[w]
  BY DEF Actors
<1>2. BatchesApart'
  BY <1>1 DEF RepairInv, RunInv, BatchesApart, Busy
<1>3. BatchSplit'
  BY <1>1 DEF RepairInv, RunInv, BatchSplit, SplitOf, Batch
<1>4. \A q : Failing(q)' <=> Failing(q)
  BY DEF Failing, Batch
<1>5. DoneIsKept'
  <2> SUFFICES ASSUME Active, ~Doomed', NEW i \in Done' PROVE StandsIn(i)'
    BY DEF DoneIsKept, Active
  <2>1. ~Doomed /\ ~Failing(r)
    BY <1>1, <1>4 DEF Doomed
  <2>2. i \in Done \/ i \in r.won \ actor[a].won
    BY <1>1 DEF Done, Busy
  <2>3. CASE i \in r.won \ actor[a].won
    BY <2>1, <2>3 DEF StandsIn
  <2>4. CASE i \in Done
    <3>1. StandsIn(i)
      BY <2>1, <2>4 DEF RepairInv, RunInv, DoneIsKept
    <3>2. CASE text[i] = "new" \/ Refills(actor[a], i)
      BY <1>1, <2>1, <2>4, <3>2 DEF StandsIn, Refills, SameFile, Target
    <3>3. ASSUME NEW w \in Workers, w # a, Refills(actor[w], i)
          PROVE  StandsIn(i)'
      BY <1>1, <3>3 DEF StandsIn, Refills, SameFile, Target
    <3> QED BY <3>1, <3>2, <3>3 DEF StandsIn
  <2> QED BY <2>2, <2>3, <2>4
<1> QED BY <1>2, <1>3, <1>5 DEF RunInv

-----------------------------------------------------------------------------
(* What is known of a task that mends.                                     *)
LEMMA Mender ==
  ASSUME RepairInv, NEW a \in Actors, Mends(actor[a])
  PROVE  /\ actor[a] \in Records /\ ShapeOf(a, actor[a]) /\ KnowsOf(actor[a])
         /\ Current(a) = Target(actor[a])
         /\ Target(actor[a]) \in actor[a].todo /\ Target(actor[a]) \in Issues
         /\ Writing(a)
         /\ a \in Workers => Active /\ Busy(a) /\ SplitOf(actor[a])
         /\ a \in Handlers => ~Active
<1>1. actor[a] \in Records /\ ShapeOf(a, actor[a]) /\ KnowsOf(actor[a])
  BY DEF RepairInv, RepairTypeOK, Shape, FileInv, MenderKnows
<1>2. Current(a) = Target(actor[a]) /\ Writing(a) /\ actor[a].todo # {}
  BY DEF Current, Target, Mends, Writing
<1>3. Target(actor[a]) \in actor[a].todo /\ Target(actor[a]) \in Issues
  BY <1>1, <1>2, TargetIsIn
<1>4. a \in Workers => Active /\ Busy(a) /\ SplitOf(actor[a])
  BY DEF RepairInv, OneMender, Busy, Mends, Stretch, RunInv, BatchSplit
<1>5. a \in Handlers => ~Active
  BY DEF RepairInv, OneMender
<1> QED BY <1>1, <1>2, <1>3, <1>4, <1>5

(* An error is counted, or not.                                            *)
MayFail ==
  \/ UNCHANGED bounds
  \/ errors < MaxErrors /\ errors' = errors + 1 /\ UNCHANGED <<runs, requests, restarts>>

LEMMA FailureCounts ==
  ASSUME RepairTypeOK, MayFail
  PROVE  /\ runs' \in 0..MaxRuns /\ requests' \in 0..MaxRequests
         /\ errors' \in 0..MaxErrors /\ restarts' \in 0..MaxRestarts
         /\ Quiet' => Quiet /\ UNCHANGED bounds
BY WorkshopAssumption DEF RepairTypeOK, MayFail, bounds, Quiet

(* A task that mends takes a step that leaves the files and the ledger as  *)
(* they are and is not yet through with its batch.                         *)
LEMMA MendingMove ==
  ASSUME RepairInv, NEW a \in Actors, Mends(actor[a]), NEW r \in Records, Go(a, r),
         UNCHANGED <<text, ledger, plan>>, MayFail,
         log' \in [Issues -> Marks], sidecar' \subseteq Issues, FixedIsWritten', KnowsOf(r)',
         r.at \in Stretch, ShapeOf(a, r),
         Quiet' => \A i \in Issues : Rewrites(actor[a], i) /\ text[i] = "garbled" => Rewrites(r, i),
         r.number = actor[a].number,
         a \in Workers =>
           /\ SplitOf(r)
           /\ Failing(actor[a]) => Failing(r)
           /\ ~Failing(r) => \A i \in Issues : /\ i \in r.won \ actor[a].won => text[i] = "new"
                                               /\ Refills(actor[a], i) => Refills(r, i)
  PROVE  RepairInv'
<1> USE DEF ledger, plan
<1>1. /\ actor' \in [Actors -> Records] /\ actor'[a] = r
      /\ \A b \in Actors \ {a} : actor'[b] = actor[b]
      /\ Shape' /\ OneMender'
  BY Mender, MoveShape
<1>2. RepairTypeOK'
  BY <1>1, FailureCounts DEF RepairInv, RepairTypeOK
<1>3. Quiet' => Quiet
  BY FailureCounts DEF RepairInv
<1>4. ASSUME Quiet', NEW i \in Issues, text'[i] = "garbled" PROVE Rewrites(r, i)
  <2>1. PICK b \in Actors : Rewrites(actor[b], i)
    BY <1>3, <1>4 DEF RepairInv, FileInv, GarbledIsRewritten
  <2>2. b = a
    BY <2>1, Alone DEF RepairInv, Rewrites, Mends, Stretch
  <2> QED BY <1>4, <2>1, <2>2
<1>5. FixedIsWritten' /\ KnowsOf(r)'
  OBVIOUS
<1>6. Quiet' => \A i \in Issues : text'[i] = "garbled" => Rewrites(r, i)
  BY <1>4
<1>7. FileInv'
  BY <1>1, <1>3, <1>5, <1>6, MoveFiles
<1>8. RunInv'
  <2>1. CASE a \in Handlers
    BY <1>1, <2>1, HandlerRun
  <2>2. CASE a \in Workers
    <3>1. Busy(a) /\ r.at # "idle"
      BY <2>2, Mender DEF Stretch
    <3>2. r.won \in SUBSET Issues /\ Done \subseteq Issues
      BY DEF Records, Done, RepairInv, RepairTypeOK
    <3>3. UNCHANGED <<parent, run, next, stats>> /\ text' = text
      OBVIOUS
    <3>4. ~Failing(r) => \A i \in Issues : /\ i \in r.won \ actor[a].won => text[i] = "new"
                                           /\ Refills(actor[a], i) => Refills(r, i)
      BY <2>2
    <3>5. /\ ~Failing(r) => \A i \in r.won \ actor[a].won : text'[i] = "new"
          /\ ~Failing(r) => \A i \in Done : text[i] = "new" \/ Refills(actor[a], i)
                                            => text'[i] = "new" \/ Refills(r, i)
      BY ONLY <3>2, <3>3, <3>4
    <3>6. SplitOf(r) /\ (Failing(actor[a]) => Failing(r)) /\ r.number = actor[a].number /\ RepairInv
      BY <2>2
    <3> QED BY <1>1, <2>2, <3>1, <3>3, <3>5, <3>6, WorkerRun
  <2> QED BY <2>1, <2>2 DEF Actors
<1> QED BY <1>1, <1>2, <1>7, <1>8 DEF RepairInv

LEMMA MendingStep ==
  ASSUME RepairInv, NEW a \in Actors, Mends(actor[a]), NEW r \in Records, Go(a, r),
         UNCHANGED <<disk, ledger, plan>>, MayFail,
         r.at \in Stretch, ShapeOf(a, r), KnowsOf(r),
         Quiet' => \A i \in Issues : Rewrites(actor[a], i) /\ text[i] = "garbled" => Rewrites(r, i),
         r.number = actor[a].number,
         a \in Workers =>
           /\ SplitOf(r)
           /\ Failing(actor[a]) => Failing(r)
           /\ ~Failing(r) => \A i \in Issues : /\ i \in r.won \ actor[a].won => text[i] = "new"
                                               /\ Refills(actor[a], i) => Refills(r, i)
  PROVE  RepairInv'
<1>1. UNCHANGED <<text, ledger, plan>> /\ log' = log /\ sidecar' = sidecar
  BY DEF disk
<1>2. log' \in [Issues -> Marks] /\ sidecar' \subseteq Issues
  BY <1>1 DEF RepairInv, RepairTypeOK
<1>3. FixedIsWritten'
  BY <1>1 DEF RepairInv, FileInv, FixedIsWritten
<1>4. Quiet' => Quiet
  BY FailureCounts DEF RepairInv
<1>5. KnowsOf(r)'
  BY <1>1, <1>4 DEF KnowsOf, Covers, SameFile, Target, Mends
<1> QED BY <1>1, <1>2, <1>3, <1>5, MendingMove

(* The task as it leaves its issue behind.                                 *)
Leaving(a, won) == [Onward(a) EXCEPT !.won = won]

LEMMA OnwardRecord ==
  ASSUME RepairInv, NEW a \in Actors, Mends(actor[a]), NEW won \in SUBSET Issues,
         NEW r, r = Leaving(a, won)
  PROVE  /\ r \in Records /\ r.at = "next" /\ r.number = actor[a].number
         /\ r.todo = actor[a].todo \ {Target(actor[a])} /\ r.won = won /\ r.verdict = "none"
         /\ ShapeOf(a, r) /\ KnowsOf(r)
<1>1. NoText \in [Issues -> Texts] /\ NoLog \in [Issues -> Marks]
  BY DEF NoText, NoLog, Texts, Marks
<1>2. /\ r \in Records /\ r.at = "next" /\ r.number = actor[a].number
      /\ r.todo = actor[a].todo \ {Target(actor[a])} /\ r.won = won /\ r.verdict = "none"
  BY <1>1, Mender DEF Leaving, Onward, Records, Stretch
<1> QED BY <1>2 DEF ShapeOf, KnowsOf, InFile, InLog

LEMMA PassOverKeepsRepairInv ==
  ASSUME RepairInv, NEW a \in Actors, PassOver(a)
  PROVE  RepairInv'
<1> DEFINE q == actor[a]
           r == Onward(a)
<1>1. Mends(q)
  BY DEF PassOver, Mends, Stretch
<1>2. q.at = "next" /\ q \in Records /\ q.won \in SUBSET Issues
  BY <1>1, Mender DEF PassOver, Records
<1>3. r = Leaving(a, q.won)
  BY <1>1, <1>2, Mender DEF Leaving, Onward, Records
<1> HIDE DEF r
<1>4. /\ r \in Records /\ r.at = "next" /\ r.number = q.number
      /\ r.todo = q.todo \ {Target(q)} /\ r.won = q.won /\ r.verdict = "none"
      /\ ShapeOf(a, r) /\ KnowsOf(r)
  BY <1>1, <1>2, <1>3, OnwardRecord
<1>5. a \in Workers => SplitOf(r) /\ Failing(r)
  BY <1>1, <1>2, <1>4, Mender DEF SplitOf, Failing, Stretch
<1>6. \A i : ~Rewrites(q, i)
  BY <1>2 DEF Rewrites
<1>7. Go(a, r) /\ UNCHANGED <<disk, ledger, plan>> /\ MayFail
  BY DEF PassOver, MayFail, r
<1> QED BY <1>1, <1>4, <1>5, <1>6, <1>7, MendingStep DEF Stretch

(* Where no task is between a reading and a reading back, no text reads    *)
(* back otherwise.                                                         *)
LEMMA NoneGarbled ==
  ASSUME RepairInv, NEW a \in Actors, Mends(actor[a]), actor[a].at \notin {"open", "fill", "verify"},
         Quiet, NEW i \in Issues
  PROVE  text[i] # "garbled"
<1> SUFFICES ASSUME text[i] = "garbled" PROVE FALSE
  OBVIOUS
<1>1. PICK b \in Actors : Rewrites(actor[b], i)
  BY DEF RepairInv, FileInv, GarbledIsRewritten
<1>2. b = a
  BY <1>1, Alone DEF RepairInv, Rewrites, Mends, Stretch
<1> QED BY <1>1, <1>2 DEF Rewrites

LEMMA RejectKeepsRepairInv ==
  ASSUME RepairInv, NEW a \in Actors, Reject(a)
  PROVE  RepairInv'
<1> DEFINE q == actor[a]
           r == [q EXCEPT !.at = "mark", !.verdict = "failed"]
<1>1. Mends(q) /\ q.at = "next"
  BY DEF Reject, Mends, Stretch
<1>2. q \in Records /\ q.todo # {}
  BY <1>1, Mender DEF Mends
<1>3. /\ r \in Records /\ r.at = "mark" /\ r.number = q.number
      /\ r.todo = q.todo /\ r.won = q.won /\ r.verdict = "failed"
  BY <1>2 DEF Records, Stretch
<1>4. Go(a, r) /\ UNCHANGED <<disk, ledger, plan>> /\ MayFail
  BY DEF Reject, MayFail
<1> HIDE DEF r
<1>5. ShapeOf(a, r) /\ KnowsOf(r)
  BY <1>2, <1>3 DEF ShapeOf, KnowsOf, InFile, InLog
<1>6. a \in Workers => SplitOf(r) /\ Failing(r)
  BY <1>1, <1>3, Mender DEF SplitOf, Failing, Stretch
<1>7. \A i : ~Rewrites(q, i)
  BY <1>1 DEF Rewrites
<1> QED BY <1>1, <1>3, <1>4, <1>5, <1>6, <1>7, MendingStep DEF Stretch

LEMMA ContentType ==
  ASSUME RepairTypeOK, NEW i \in Issues
  PROVE  /\ Content(i) \in [Issues -> Texts]
         /\ \A j \in SameFile(i) : Content(i)[j] = text[j]
         /\ \A j \in Issues : Content(i)[j] \in {text[j], "old"}
BY DEF RepairTypeOK, Content, SameFile, Texts

LEMMA SnapshotKeepsRepairInv ==
  ASSUME RepairInv, NEW a \in Actors, Snapshot(a)
  PROVE  RepairInv'
<1> DEFINE q == actor[a]
           c == Target(q)
           r == [q EXCEPT !.at = "read", !.snap = Content(c), !.verdict = "fixed"]
<1>1. Mends(q) /\ q.at = "next"
  BY DEF Snapshot, Mends, Stretch
<1>2. /\ q \in Records /\ q.todo # {} /\ c \in Issues /\ Current(a) = c
      /\ q.verdict = "none"
  BY <1>1, Mender DEF Mends, ShapeOf
<1>3. Content(c) \in [Issues -> Texts] /\ \A j \in SameFile(c) : Content(c)[j] = text[j]
  BY <1>2, ContentType DEF RepairInv
<1>4. /\ r \in Records /\ r.at = "read" /\ r.number = q.number /\ r.snap = Content(c)
      /\ r.todo = q.todo /\ r.won = q.won /\ r.verdict = "fixed"
  BY <1>2, <1>3 DEF Records, Stretch
<1>5. Go(a, r) /\ UNCHANGED <<disk, ledger, plan>> /\ MayFail
  BY <1>2 DEF Snapshot, MayFail
<1> HIDE DEF r
<1>6. ShapeOf(a, r)
  BY <1>2, <1>4 DEF ShapeOf, InFile
<1>7. KnowsOf(r)
  <2>1. Target(r) = c
    BY <1>4 DEF Target
  <2>2. Covers(r.snap, c)
    BY <1>3, <1>4 DEF Covers, RepairInv, FileInv, FixedIsWritten, SameFile
  <2>3. Quiet => \A j \in Issues : r.snap[j] # "garbled"
    BY <1>1, <1>2, <1>4, NoneGarbled, ContentType DEF RepairInv
  <2> QED BY <1>4, <2>1, <2>2, <2>3 DEF KnowsOf, InLog
<1>8. a \in Workers => SplitOf(r) /\ (Failing(q) => Failing(r)) /\ r.won = q.won
  BY <1>1, <1>2, <1>4, Mender DEF SplitOf, Failing, Stretch
<1>9. \A i : ~Rewrites(q, i) /\ ~Refills(q, i)
  BY <1>1 DEF Rewrites, Refills
<1> QED BY <1>1, <1>4, <1>5, <1>6, <1>7, <1>8, <1>9, MendingStep DEF Stretch

(* Back to the snapshot.                                                   *)
LEMMA RestoringRecord ==
  ASSUME RepairInv, NEW a \in Actors, Mends(actor[a]), actor[a].at \in InFile,
         NEW r, r = Restoring(a)
  PROVE  /\ r \in Records /\ r.at = "open" /\ r.number = actor[a].number
         /\ r.todo = actor[a].todo /\ r.won = actor[a].won
         /\ ShapeOf(a, r) /\ KnowsOf(r)
         /\ a \in Workers => SplitOf(r) /\ Failing(r)
<1> DEFINE q == actor[a]
<1>1. q \in Records /\ q.todo # {} /\ KnowsOf(q)
  BY Mender DEF Mends
<1>2. /\ r \in Records /\ r.at = "open" /\ r.number = q.number
      /\ r.todo = q.todo /\ r.won = q.won /\ r.verdict = "failed"
      /\ r.snap = q.snap /\ r.buf = q.snap
  BY <1>1 DEF Restoring, Records, Stretch
<1>3. ShapeOf(a, r)
  BY <1>1, <1>2 DEF ShapeOf
<1>4. KnowsOf(r)
  BY <1>1, <1>2 DEF KnowsOf, InFile, InLog, Mends, Target
<1>5. a \in Workers => SplitOf(r) /\ Failing(r)
  BY <1>1, <1>2, Mender DEF SplitOf, Failing, Stretch, InFile
<1> QED BY <1>2, <1>3, <1>4, <1>5

LEMMA ReadLinesKeepsRepairInv ==
  ASSUME RepairInv, NEW a \in Actors, ReadLines(a)
  PROVE  RepairInv'
<1> DEFINE q == actor[a]
           c == Target(q)
<1>1. Mends(q) /\ q.at = "read" /\ q.verdict = "fixed"
  BY DEF ReadLines, Mends, Stretch, RepairInv, Shape, ShapeOf, InFile
<1>2. /\ q \in Records /\ q.todo # {} /\ c \in Issues /\ Current(a) = c /\ KnowsOf(q)
  BY <1>1, Mender DEF Mends
<1>3. \A i : ~Rewrites(q, i) /\ ~Refills(q, i)
  BY <1>1 DEF Rewrites, Refills
<1>4. UNCHANGED <<disk, ledger, plan>> /\ MayFail
  BY DEF ReadLines, MayFail
<1>5. CASE text[c] = "gone"
  <2> DEFINE r == Restoring(a)
  <2>1. Go(a, r)
    BY <1>2, <1>5 DEF ReadLines
  <2> HIDE DEF r
  <2> QED BY <1>1, <1>3, <1>4, <2>1, RestoringRecord, MendingStep DEF Stretch, InFile, r
<1>6. CASE text[c] # "gone"
  <2>1. PICK v \in {"new", "garbled"} :
          Go(a, [q EXCEPT !.at = "open", !.buf = [Content(c) EXCEPT ![c] = v]])
    BY <1>2, <1>6 DEF ReadLines
  <2> DEFINE buf == [Content(c) EXCEPT ![c] = v]
             r == [q EXCEPT !.at = "open", !.buf = buf]
  <2>2. Content(c) \in [Issues -> Texts] /\ \A j \in SameFile(c) : Content(c)[j] = text[j]
    BY <1>2, ContentType DEF RepairInv
  <2>3. /\ buf \in [Issues -> Texts] /\ buf[c] = v
        /\ \A j \in Issues \ {c} : buf[j] = Content(c)[j]
        /\ \A j \in SameFile(c) \ {c} : buf[j] = text[j]
    BY <1>2, <2>2 DEF Texts, SameFile
  <2> HIDE DEF buf
  <2>4. /\ r \in Records /\ r.at = "open" /\ r.number = q.number /\ r.snap = q.snap
        /\ r.todo = q.todo /\ r.won = q.won /\ r.verdict = "fixed" /\ r.buf = buf
    BY <1>1, <1>2, <2>3 DEF Records, Stretch
  <2>5. Go(a, r)
    BY <2>1 DEF buf
  <2> HIDE DEF r
  <2>6. ShapeOf(a, r)
    BY <1>2, <2>4 DEF ShapeOf
  <2>7. KnowsOf(r)
    <3>1. Target(r) = c
      BY <2>4 DEF Target
    <3>2. Covers(r.snap, c) /\ (Quiet => \A j \in Issues : r.snap[j] # "garbled")
      BY <1>1, <1>2, <2>4 DEF KnowsOf, InFile
    <3>3. Covers(r.buf, c)
      BY <2>3, <2>4 DEF Covers, RepairInv, FileInv, FixedIsWritten, SameFile
    <3>4. ASSUME Quiet, NEW j \in Issues, j # c PROVE r.buf[j] # "garbled"
      <4>1. text[j] # "garbled"
        BY <1>1, <3>4, NoneGarbled
      <4> QED BY <1>2, <2>3, <2>4, <3>4, <4>1, ContentType DEF RepairInv
    <3> QED BY <2>3, <2>4, <3>1, <3>2, <3>3, <3>4 DEF KnowsOf, InLog
  <2>8. a \in Workers => SplitOf(r) /\ (Failing(q) => Failing(r)) /\ r.won = q.won
    BY <1>1, <2>4, Mender DEF SplitOf, Failing, Stretch
  <2> QED BY <1>1, <1>3, <1>4, <2>4, <2>5, <2>6, <2>7, <2>8, MendingStep DEF Stretch
<1> QED BY <1>5, <1>6

LEMMA WriteRaisesKeepsRepairInv ==
  ASSUME RepairInv, NEW a \in Actors, WriteRaises(a)
  PROVE  RepairInv'
<1> DEFINE q == actor[a]
<1>1. Mends(q) /\ q.at \in {"open", "fill"} /\ q.verdict \in {"fixed", "failed"}
  BY DEF WriteRaises, Mends, Stretch, RepairInv, Shape, ShapeOf, InFile
<1>2. UNCHANGED <<disk, ledger, plan>> /\ MayFail
  BY DEF WriteRaises, MayFail
<1>3. ~Quiet'
  BY <1>2 DEF WriteRaises, Quiet, RepairInv, RepairTypeOK
<1>4. CASE q.verdict = "fixed"
  <2> DEFINE r == Restoring(a)
  <2>1. Go(a, r)
    BY <1>4 DEF WriteRaises
  <2> HIDE DEF r
  <2> QED BY <1>1, <1>2, <1>3, <2>1, RestoringRecord, MendingStep DEF Stretch, InFile, r
<1>5. CASE q.verdict = "failed"
  <2> DEFINE r == [q EXCEPT !.at = "mark"]
  <2>1. Go(a, r)
    BY <1>5 DEF WriteRaises
  <2>2. q \in Records /\ q.todo # {}
    BY <1>1, Mender DEF Mends
  <2>3. /\ r \in Records /\ r.at = "mark" /\ r.number = q.number
        /\ r.todo = q.todo /\ r.won = q.won /\ r.verdict = "failed"
    BY <1>5, <2>2 DEF Records, Stretch
  <2> HIDE DEF r
  <2>4. ShapeOf(a, r) /\ KnowsOf(r)
    BY <2>2, <2>3 DEF ShapeOf, KnowsOf, InFile, InLog
  <2>5. a \in Workers => SplitOf(r) /\ Failing(r)
    BY <1>1, <2>3, Mender DEF SplitOf, Failing, Stretch
  <2> QED BY <1>1, <1>2, <1>3, <2>1, <2>3, <2>4, <2>5, MendingStep DEF Stretch
<1> QED BY <1>1, <1>4, <1>5

LEMMA VerifyKeepsRepairInv ==
  ASSUME RepairInv, NEW a \in Actors, Verify(a)
  PROVE  RepairInv'
<1> DEFINE q == actor[a]
           c == Target(q)
<1>1. Mends(q) /\ q.at = "verify" /\ q.verdict = "fixed"
  BY DEF Verify, Mends, Stretch, RepairInv, Shape, ShapeOf, InFile
<1>2. q \in Records /\ q.todo # {} /\ Current(a) = c
  BY <1>1, Mender DEF Mends
<1>3. UNCHANGED <<disk, ledger, plan>> /\ MayFail
  BY DEF Verify, MayFail
<1>4. \A i : ~Refills(q, i) /\ (Rewrites(q, i) => i = c)
  BY <1>1 DEF Refills, Rewrites
<1>5. CASE text[c] = "new"
  <2> DEFINE r == [q EXCEPT !.at = "mark", !.snap = NoText]
  <2>1. Go(a, r)
    BY <1>2, <1>5 DEF Verify
  <2>2. /\ r \in Records /\ r.at = "mark" /\ r.number = q.number
        /\ r.todo = q.todo /\ r.won = q.won /\ r.verdict = "fixed"
    BY <1>1, <1>2 DEF Records, Stretch, NoText, Texts
  <2> HIDE DEF r
  <2>3. ShapeOf(a, r) /\ KnowsOf(r)
    BY <1>2, <1>5, <2>2 DEF ShapeOf, KnowsOf, InFile, InLog, Target
  <2>4. a \in Workers => SplitOf(r) /\ (Failing(q) => Failing(r))
    BY <1>1, <2>2, Mender DEF SplitOf, Failing, Stretch
  <2> QED BY <1>1, <1>3, <1>4, <1>5, <2>1, <2>2, <2>3, <2>4, MendingStep DEF Stretch
<1>6. CASE text[c] # "new"
  <2> DEFINE r == Restoring(a)
  <2>1. Go(a, r)
    BY <1>2, <1>6 DEF Verify
  <2>2. r.at = "open" /\ r.todo = q.todo
    BY <1>1, RestoringRecord DEF InFile
  <2> HIDE DEF r
  <2>3. \A i : Rewrites(q, i) => Rewrites(r, i)
    BY <2>2 DEF Rewrites, Target
  <2> QED BY <1>1, <1>3, <1>4, <2>1, <2>3, RestoringRecord, MendingStep DEF Stretch, InFile, r
<1> QED BY <1>5, <1>6

(* The task after the mark of its issue.                                   *)
LEMMA MarkedRecord ==
  ASSUME RepairInv, NEW a \in Actors, Mends(actor[a]), actor[a].at \in InLog, NEW r, r = Marked(a)
  PROVE  /\ r \in Records /\ r.at \in {"next", "report"} /\ r.number = actor[a].number
         /\ ShapeOf(a, r) /\ KnowsOf(r)
         /\ a \in Workers => /\ SplitOf(r) /\ r.won = actor[a].won
                             /\ Failing(actor[a]) => Failing(r)
<1> DEFINE q == actor[a]
           c == Target(q)
<1>1. q \in Records /\ q.todo # {} /\ KnowsOf(q) /\ q.verdict \in {"fixed", "failed"}
  BY Mender DEF Mends, ShapeOf, InLog
<1>2. CASE q.verdict = "fixed"
  <2>1. /\ r \in Records /\ r.at = "report" /\ r.number = q.number
        /\ r.todo = q.todo /\ r.won = q.won /\ r.verdict = "fixed"
    BY <1>1, <1>2 DEF Marked, Records, Stretch, NoLog, Marks
  <2>2. text[Target(r)] = "new"
    BY <1>1, <1>2, <2>1 DEF KnowsOf, Target
  <2>3. ShapeOf(a, r) /\ KnowsOf(r)
    BY <1>1, <2>1, <2>2 DEF ShapeOf, KnowsOf, InFile, InLog
  <2>4. a \in Workers => SplitOf(r) /\ (Failing(q) => Failing(r))
    BY <1>2, <2>1, Mender DEF SplitOf, Failing, Stretch, InLog
  <2> QED BY <2>1, <2>2, <2>3, <2>4
<1>3. CASE q.verdict = "failed"
  <2>1. q.won \in SUBSET Issues
    BY <1>1 DEF Records
  <2>2. r = Leaving(a, q.won)
    BY <1>1, <1>3, Mender DEF Marked, Leaving, Onward, Records
  <2>3. /\ r \in Records /\ r.at = "next" /\ r.number = q.number
        /\ r.todo = q.todo \ {c} /\ r.won = q.won /\ r.verdict = "none"
        /\ ShapeOf(a, r) /\ KnowsOf(r)
    BY <2>1, <2>2, OnwardRecord
  <2>4. a \in Workers => SplitOf(r) /\ Failing(r)
    BY <2>3, Mender DEF SplitOf, Failing, Stretch, InLog
  <2> QED BY <2>3, <2>4
<1> QED BY <1>1, <1>2, <1>3

LEMMA LoadLogKeepsRepairInv ==
  ASSUME RepairInv, NEW a \in Actors, LoadLog(a)
  PROVE  RepairInv'
<1> DEFINE q == actor[a]
           c == Target(q)
<1>1. Mends(q) /\ q.at = "mark" /\ q.verdict \in {"fixed", "failed"}
  BY DEF LoadLog, Mends, Stretch, RepairInv, Shape, ShapeOf
<1>2. /\ q \in Records /\ q.todo # {} /\ c \in Issues /\ Current(a) = c /\ KnowsOf(q)
  BY <1>1, Mender DEF Mends
<1>3. UNCHANGED <<disk, ledger, plan>> /\ MayFail
  BY DEF LoadLog, MayFail
<1>4. \A i : ~Refills(q, i) /\ ~Rewrites(q, i)
  BY <1>1 DEF Refills, Rewrites
<1>5. CASE log[c] = "absent"
  <2> DEFINE r == Marked(a)
  <2>1. Go(a, r)
    BY <1>2, <1>5 DEF LoadLog
  <2> HIDE DEF r
  <2> QED BY <1>1, <1>3, <1>4, <2>1, MarkedRecord, MendingStep DEF Stretch, InLog, r
<1>6. CASE log[c] # "absent"
  <2> DEFINE book == [log EXCEPT ![c] = q.verdict]
             r == [q EXCEPT !.at = "save", !.snap = NoText, !.buf = NoText, !.book = book]
  <2>1. Go(a, r)
    BY <1>2, <1>6 DEF LoadLog
  <2>2. /\ book \in [Issues -> Marks] /\ book[c] = q.verdict
        /\ \A i \in Issues \ {c} : book[i] = log[i]
    BY <1>1, <1>2 DEF RepairInv, RepairTypeOK, Marks
  <2> HIDE DEF book
  <2>3. /\ r \in Records /\ r.at = "save" /\ r.number = q.number
        /\ r.todo = q.todo /\ r.won = q.won /\ r.verdict = q.verdict /\ r.book = book
    BY <1>2, <2>2 DEF Records, Stretch, NoText, Texts
  <2> HIDE DEF r
  <2>4. ShapeOf(a, r)
    BY <1>1, <1>2, <2>3 DEF ShapeOf, InFile
  <2>5. KnowsOf(r)
    <3>1. Target(r) = c
      BY <2>3 DEF Target
    <3>2. q.verdict = "fixed" => text[c] = "new"
      BY <1>1, <1>2 DEF KnowsOf, InLog
    <3>3. \A i \in Issues : r.book[i] = "fixed" => text[i] # "old"
      BY <2>2, <2>3, <3>2 DEF RepairInv, FileInv, FixedIsWritten
    <3> QED BY <2>3, <3>1, <3>2, <3>3 DEF KnowsOf, InFile
  <2>6. a \in Workers => SplitOf(r) /\ (Failing(q) => Failing(r))
    BY <1>1, <2>3, Mender DEF SplitOf, Failing, Stretch
  <2> QED BY <1>1, <1>3, <1>4, <2>1, <2>3, <2>4, <2>5, <2>6, MendingStep DEF Stretch
<1> QED BY <1>5, <1>6

(* A handler takes a step of its own that changes no file.                 *)
LEMMA HandlerStep ==
  ASSUME RepairInv, NEW a \in Handlers, NEW r \in Records, Go(a, r),
         UNCHANGED <<text, ledger, plan>>,
         log' \in [Issues -> Marks], sidecar' \subseteq Issues,
         \A i \in Issues : log'[i] = "fixed" => log[i] = "fixed",
         runs' \in 0..MaxRuns, requests' \in 0..MaxRequests,
         errors' \in 0..MaxErrors, restarts' \in 0..MaxRestarts, Quiet' => Quiet,
         Mends(actor[a]) => ~Quiet',
         ShapeOf(a, r), KnowsOf(r)', Mends(r) => ~Active,
         r.at \in Stretch => Writing(a) \/ LoopFree(a)
  PROVE  RepairInv'
<1> USE DEF ledger, plan
<1>1. a \in Actors /\ a \notin Workers
  BY WorkshopAssumption DEF Actors
<1>2. /\ actor' \in [Actors -> Records] /\ actor'[a] = r
      /\ \A b \in Actors \ {a} : actor'[b] = actor[b]
      /\ Shape' /\ OneMender'
  BY <1>1, MoveShape
<1>3. RepairTypeOK'
  BY <1>2 DEF RepairInv, RepairTypeOK
<1>4. FixedIsWritten'
  BY DEF RepairInv, FileInv, FixedIsWritten
<1>5. FileInv'
  BY <1>1, <1>2, <1>4, MoveFiles
<1>6. RunInv'
  BY <1>2, HandlerRun
<1> QED BY <1>2, <1>3, <1>5, <1>6 DEF RepairInv

LEMMA IdleRecord ==
  /\ AtRest \in Records /\ AtRest.at = "idle" /\ AtRest.todo = {} /\ AtRest.won = {}
  /\ \A a : ShapeOf(a, AtRest)
  /\ ~Mends(AtRest) /\ ~Failing(AtRest) /\ SplitOf(AtRest) /\ KnowsOf(AtRest) /\ KnowsOf(AtRest)'
<1>1. NoText \in [Issues -> Texts] /\ NoLog \in [Issues -> Marks]
  BY DEF NoText, NoLog, Texts, Marks
<1>2. AtRest \in Records /\ AtRest.at = "idle" /\ AtRest.todo = {} /\ AtRest.won = {}
  BY <1>1 DEF AtRest, Records
<1>3. ~Mends(AtRest) /\ ~Failing(AtRest)
  BY <1>2 DEF Mends, Failing, Stretch
<1> QED BY <1>2, <1>3 DEF ShapeOf, KnowsOf, SplitOf, InFile

LEMMA LogRaisesKeepsRepairInv ==
  ASSUME RepairInv, NEW a \in Actors, LogRaises(a)
  PROVE  RepairInv'
<1> DEFINE q == actor[a]
           r == Marked(a)
<1>1. q.at \in {"save", "fill_log"} /\ Go(a, r) /\ ShapeOf(a, q) /\ Writing(a)
  BY DEF LogRaises, RepairInv, Shape, Writing, Stretch
<1>2. UNCHANGED <<disk, ledger, plan>> /\ MayFail
  BY DEF LogRaises, MayFail
<1>3. \A i : ~Refills(q, i) /\ ~Rewrites(q, i)
  BY <1>1 DEF Refills, Rewrites
<1> HIDE DEF r
<1>4. CASE q.todo # {}
  <2>1. Mends(q)
    BY <1>1, <1>4 DEF Mends, Stretch
  <2> QED BY <1>1, <1>2, <1>3, <2>1, MarkedRecord, MendingStep DEF Stretch, InLog, r
<1>5. CASE q.todo = {}
  <2>1. a \in Handlers /\ r = AtRest
    BY <1>1, <1>5 DEF ShapeOf, r, Marked
  <2>2. ~Mends(q)
    BY <1>5 DEF Mends
  <2>3. /\ runs' \in 0..MaxRuns /\ requests' \in 0..MaxRequests
        /\ errors' \in 0..MaxErrors /\ restarts' \in 0..MaxRestarts /\ (Quiet' => Quiet)
    BY <1>2, FailureCounts DEF RepairInv
  <2>4. UNCHANGED <<text, ledger, plan>> /\ log' = log /\ sidecar' = sidecar
    BY <1>2 DEF disk
  <2>5. log' \in [Issues -> Marks] /\ sidecar' \subseteq Issues
    BY <2>4 DEF RepairInv, RepairTypeOK
  <2> QED BY <1>1, <2>1, <2>2, <2>3, <2>4, <2>5, IdleRecord, HandlerStep
<1> QED BY <1>4, <1>5

LEMMA ReportKeepsRepairInv ==
  ASSUME RepairInv, NEW a \in Actors, Report(a)
  PROVE  RepairInv'
<1> DEFINE q == actor[a]
           c == Target(q)
           r == [Onward(a) EXCEPT !.won = @ \cup {Current(a)}]
<1>1. Mends(q) /\ q.at = "report" /\ q.verdict = "fixed"
  BY DEF Report, Mends, Stretch, RepairInv, Shape, ShapeOf
<1>2. /\ q \in Records /\ q.todo # {} /\ c \in q.todo /\ c \in Issues /\ Current(a) = c
      /\ KnowsOf(q) /\ q.won \in SUBSET Issues /\ q.won \cup {c} \in SUBSET Issues
  BY <1>1, Mender DEF Mends, Records
<1>3. UNCHANGED <<disk, ledger, plan>> /\ MayFail /\ Go(a, r)
  BY DEF Report, MayFail
<1>4. r = Leaving(a, q.won \cup {c})
  <2>1. Onward(a).won = q.won
    BY <1>2 DEF Onward, Records
  <2> QED BY <1>2, <2>1 DEF Leaving
<1> HIDE DEF r
<1>5. /\ r \in Records /\ r.at = "next" /\ r.number = q.number
      /\ r.todo = q.todo \ {c} /\ r.won = q.won \cup {c} /\ r.verdict = "none"
      /\ ShapeOf(a, r) /\ KnowsOf(r)
  BY <1>1, <1>2, <1>4, OnwardRecord
<1>6. \A i : ~Refills(q, i) /\ ~Rewrites(q, i)
  BY <1>1 DEF Refills, Rewrites
<1>7. text[c] = "new"
  BY <1>1, <1>2 DEF KnowsOf, InLog
<1>8. a \in Workers => SplitOf(r) /\ (Failing(q) => Failing(r))
  BY <1>1, <1>2, <1>5, Mender DEF SplitOf, Failing, Stretch
<1>9. \A i \in Issues : i \in r.won \ q.won => text[i] = "new"
  BY <1>5, <1>7
<1> QED BY <1>1, <1>3, <1>5, <1>6, <1>8, <1>9, MendingStep DEF Stretch

LEMMA OpenLogKeepsRepairInv ==
  ASSUME RepairInv, NEW a \in Actors, OpenLog(a)
  PROVE  RepairInv'
<1> DEFINE q == actor[a]
<1>1. q.at = "save" /\ q \in Records /\ ShapeOf(a, q) /\ Writing(a)
  BY DEF OpenLog, RepairInv, RepairTypeOK, Shape, Writing, Stretch
<1>2. UNCHANGED <<text, ledger, plan>> /\ sidecar' = sidecar /\ log' = NoLog /\ MayFail
  BY DEF OpenLog, MayFail
<1>3. /\ log' \in [Issues -> Marks] /\ sidecar' \subseteq Issues /\ FixedIsWritten'
      /\ \A i \in Issues : log'[i] # "fixed"
  BY <1>2 DEF NoLog, Marks, FixedIsWritten, RepairInv, RepairTypeOK
<1>4. \A i : ~Refills(q, i) /\ ~Rewrites(q, i)
  BY <1>1 DEF Refills, Rewrites
<1>5. PICK r : r = [q EXCEPT !.at = "fill_log"]
  OBVIOUS
<1>6. /\ r \in Records /\ r.at = "fill_log" /\ r.number = q.number /\ r.book = q.book
      /\ r.todo = q.todo /\ r.won = q.won /\ r.verdict = q.verdict /\ Go(a, r)
  BY <1>1, <1>5 DEF Records, Stretch, OpenLog
<1>7. ShapeOf(a, r)
  BY <1>1, <1>6 DEF ShapeOf, InFile
<1>8. CASE q.todo # {}
  <2>1. Mends(q)
    BY <1>1, <1>8 DEF Mends, Stretch
  <2>2. KnowsOf(r)'
    <3>1. Target(r) = Target(q) /\ KnowsOf(q)
      BY <1>6, <2>1, Mender DEF Target
    <3> QED BY <1>1, <1>2, <1>6, <2>1, <3>1 DEF KnowsOf, InFile, InLog, Target
  <2>3. a \in Workers => SplitOf(r) /\ (Failing(q) => Failing(r))
    BY <1>1, <1>6, <2>1, Mender DEF SplitOf, Failing, Stretch
  <2> QED BY <1>2, <1>3, <1>4, <1>6, <1>7, <2>1, <2>2, <2>3, MendingMove DEF Stretch
<1>9. CASE q.todo = {}
  <2>1. ~Mends(q) /\ a \in Handlers
    BY <1>1, <1>9 DEF Mends, ShapeOf
  <2>2. KnowsOf(r)' /\ ~Mends(r)
    BY <1>6, <1>9 DEF KnowsOf, Mends
  <2>3. /\ runs' \in 0..MaxRuns /\ requests' \in 0..MaxRequests
        /\ errors' \in 0..MaxErrors /\ restarts' \in 0..MaxRestarts /\ (Quiet' => Quiet)
    BY <1>2, FailureCounts DEF RepairInv
  <2> QED BY <1>1, <1>2, <1>3, <1>6, <1>7, <2>1, <2>2, <2>3, HandlerStep
<1> QED BY <1>8, <1>9

LEMMA FillLogKeepsRepairInv ==
  ASSUME RepairInv, NEW a \in Actors, FillLog(a)
  PROVE  RepairInv'
<1> DEFINE q == actor[a]
<1>1. q.at = "fill_log" /\ q \in Records /\ ShapeOf(a, q) /\ Writing(a)
  BY DEF FillLog, RepairInv, RepairTypeOK, Shape, Writing, Stretch
<1>2. UNCHANGED <<text, ledger, plan>> /\ log' = q.book /\ sidecar' \subseteq Issues /\ MayFail
  BY DEF FillLog, MayFail, RepairInv, RepairTypeOK
<1>3. log' \in [Issues -> Marks]
  BY <1>1, <1>2 DEF Records
<1>4. \A i : ~Refills(q, i) /\ ~Rewrites(q, i)
  BY <1>1 DEF Refills, Rewrites
<1>5. PICK r : r = Marked(a)
  OBVIOUS
<1>6. Go(a, r)
  BY <1>5 DEF FillLog
<1>7. CASE q.todo # {}
  <2>1. Mends(q)
    BY <1>1, <1>7 DEF Mends, Stretch
  <2>2. /\ r \in Records /\ r.at \in {"next", "report"} /\ r.number = q.number
        /\ ShapeOf(a, r) /\ KnowsOf(r)
        /\ a \in Workers => SplitOf(r) /\ r.won = q.won /\ (Failing(q) => Failing(r))
    BY <1>1, <1>5, <2>1, MarkedRecord DEF InLog
  <2>3. KnowsOf(r)'
    <3>1. r.at = "report" => r.at \in InLog
      BY DEF InLog
    <3> QED BY <1>2, <2>2, <3>1 DEF KnowsOf, InFile, InLog, Target, Mends
  <2>4. FixedIsWritten'
    BY <1>1, <1>2, <2>1, Mender DEF KnowsOf, FixedIsWritten
  <2> QED BY <1>2, <1>3, <1>4, <1>6, <2>1, <2>2, <2>3, <2>4, MendingMove DEF Stretch
<1>8. CASE q.todo = {}
  <2>1. ~Mends(q) /\ a \in Handlers /\ r = AtRest
    BY <1>1, <1>5, <1>8 DEF Mends, ShapeOf, Marked
  <2>2. \A i \in Issues : log'[i] = "fixed" => log[i] = "fixed"
    BY <1>1, <1>2, <1>8 DEF ShapeOf
  <2>3. /\ runs' \in 0..MaxRuns /\ requests' \in 0..MaxRequests
        /\ errors' \in 0..MaxErrors /\ restarts' \in 0..MaxRestarts /\ (Quiet' => Quiet)
    BY <1>2, FailureCounts DEF RepairInv
  <2>4. KnowsOf(r)' /\ ~Mends(r) /\ r \in Records /\ ShapeOf(a, r)
    BY <2>1, IdleRecord
  <2> QED BY <1>1, <1>2, <1>3, <1>6, <2>1, <2>2, <2>3, <2>4, HandlerStep
<1> QED BY <1>7, <1>8

(* The two steps that change a file.                                       *)
LEMMA StoredIs ==
  ASSUME RepairTypeOK, NEW c \in Issues, NEW content \in [Issues -> Texts], text' = Stored(c, content)
  PROVE  /\ text' \in [Issues -> Texts]
         /\ \A i \in SameFile(c) : text'[i] = content[i]
         /\ \A i \in Issues \ SameFile(c) : text'[i] = text[i]
         /\ c \in SameFile(c) /\ SameFile(c) \subseteq Issues
BY DEF RepairTypeOK, Stored, SameFile

(* An issue that is done is not the one its worker is at.                  *)
LEMMA DoneIsPast ==
  ASSUME RepairInv, NEW a \in Workers, Mends(actor[a])
  PROVE  Target(actor[a]) \notin Done
<1>1. a \in Actors
  BY DEF Actors
<1>2. /\ Busy(a) /\ SplitOf(actor[a]) /\ Target(actor[a]) \in actor[a].todo
      /\ actor[a].at # "idle"
  BY <1>1, Mender DEF Busy
<1> QED BY <1>2 DEF Done, SplitOf, Batch

(* A task that mends changes its file.                                     *)
LEMMA FileStep ==
  ASSUME RepairInv, NEW a \in Actors, Mends(actor[a]), NEW r \in Records, Go(a, r),
         UNCHANGED <<log, sidecar, ledger, plan, bounds>>, text' \in [Issues -> Texts],
         FixedIsWritten', KnowsOf(r)', r.at \in Stretch, ShapeOf(a, r), r.todo = actor[a].todo,
         Quiet => \A i \in Issues : text'[i] = "garbled" => Rewrites(r, i),
         r.number = actor[a].number, r.won = actor[a].won, r.verdict = actor[a].verdict,
         a \in Workers /\ ~Failing(r) =>
           \A i \in Issues \ {Target(actor[a])} : text[i] = "new" \/ Refills(actor[a], i)
                                                 => text'[i] = "new" \/ Refills(r, i)
  PROVE  RepairInv'
<1> USE DEF ledger, plan, bounds
<1>1. /\ actor' \in [Actors -> Records] /\ actor'[a] = r
      /\ \A b \in Actors \ {a} : actor'[b] = actor[b]
      /\ Shape' /\ OneMender'
  BY Mender, MoveShape
<1>2. RepairTypeOK'
  BY <1>1 DEF RepairInv, RepairTypeOK
<1>3. Quiet' => Quiet
  BY DEF Quiet
<1>4. FileInv'
  BY <1>1, <1>3, MoveFiles
<1>5. RunInv'
  <2>1. CASE a \in Handlers
    BY <1>1, <2>1, HandlerRun
  <2>2. CASE a \in Workers
    <3>1. Busy(a) /\ r.at # "idle" /\ SplitOf(actor[a])
      BY <2>2, Mender DEF Stretch
    <3>2. SplitOf(r) /\ (Failing(actor[a]) => Failing(r))
      BY <3>1, Mender DEF SplitOf, Failing, Busy, Stretch
    <3>3. Done \subseteq Issues \ {Target(actor[a])}
      BY <2>2, DoneIsPast DEF Done, RepairInv, RepairTypeOK
    <3>4. r.won \ actor[a].won = {}
      OBVIOUS
    <3> QED BY <1>1, <2>2, <3>1, <3>2, <3>3, <3>4, WorkerRun
  <2> QED BY <2>1, <2>2 DEF Actors
<1> QED BY <1>1, <1>2, <1>4, <1>5 DEF RepairInv

LEMMA OpenFileKeepsRepairInv ==
  ASSUME RepairInv, NEW a \in Actors, OpenFile(a)
  PROVE  RepairInv'
<1> DEFINE q == actor[a]
           c == Target(q)
           none == [i \in Issues |-> "gone"]
<1>1. Mends(q) /\ q.at = "open" /\ q.verdict \in {"fixed", "failed"}
  BY DEF OpenFile, Mends, Stretch, RepairInv, Shape, ShapeOf, InFile
<1>2. q \in Records /\ q.todo # {} /\ c \in Issues /\ Current(a) = c /\ KnowsOf(q)
  BY <1>1, Mender DEF Mends
<1>3. none \in [Issues -> Texts] /\ \A i \in Issues : none[i] = "gone"
  BY DEF Texts
<1>4. text' = Stored(c, none) /\ UNCHANGED <<log, sidecar, ledger, plan, bounds>>
  BY <1>2 DEF OpenFile
<1> HIDE DEF none
<1>5. /\ text' \in [Issues -> Texts]
      /\ \A i \in SameFile(c) : text'[i] = "gone"
      /\ \A i \in Issues \ SameFile(c) : text'[i] = text[i]
      /\ c \in SameFile(c) /\ SameFile(c) \subseteq Issues
  <2>1. RepairTypeOK
    BY DEF RepairInv
  <2> QED BY <1>2, <1>3, <1>4, <2>1, StoredIs
<1>6. PICK r : r = [q EXCEPT !.at = "fill"]
  OBVIOUS
<1>7. /\ r \in Records /\ r.at = "fill" /\ r.number = q.number /\ r.snap = q.snap /\ r.buf = q.buf
      /\ r.todo = q.todo /\ r.won = q.won /\ r.verdict = q.verdict /\ Go(a, r)
  BY <1>2, <1>6 DEF Records, Stretch, OpenFile
<1>8. ShapeOf(a, r)
  BY <1>1, <1>2, <1>7 DEF ShapeOf, InFile
<1>9. Target(r) = c
  BY <1>7 DEF Target
<1>10. FixedIsWritten'
  BY <1>4, <1>5 DEF RepairInv, FileInv, FixedIsWritten
<1>11. KnowsOf(r)'
  <2>1. /\ Covers(q.snap, c) /\ Covers(q.buf, c)
        /\ Quiet => /\ \A j \in Issues : q.snap[j] # "garbled"
                    /\ \A j \in Issues : q.buf[j] = "garbled" => q.verdict = "fixed" /\ j = c
    BY <1>1, <1>2 DEF KnowsOf, InFile
  <2>2. Covers(r.snap, Target(r))' /\ Covers(r.buf, Target(r))'
    BY <1>4, <1>7, <1>9, <2>1 DEF Covers, SameFile
  <2>3. Quiet' = Quiet
    BY <1>4 DEF Quiet, bounds
  <2>4. (\A j \in SameFile(Target(r)) : text[j] = "gone")'
    BY <1>5, <1>9 DEF SameFile
  <2> QED BY <1>7, <1>9, <2>1, <2>2, <2>3, <2>4 DEF KnowsOf, InFile, InLog
<1>12. ASSUME Quiet, NEW i \in Issues, text'[i] = "garbled" PROVE FALSE
  <2>1. text[i] = "garbled" /\ i \notin SameFile(c)
    BY <1>5, <1>12
  <2>2. PICK b \in Actors : Rewrites(actor[b], i)
    BY <1>12, <2>1 DEF RepairInv, FileInv, GarbledIsRewritten
  <2>3. b = a
    BY <1>1, <2>2, Alone DEF RepairInv, Rewrites, Mends, Stretch
  <2> QED BY <1>5, <2>1, <2>2, <2>3 DEF Rewrites
<1>13. ASSUME ~Failing(r), NEW i \in Issues \ {c}, text[i] = "new" \/ Refills(q, i)
       PROVE  text'[i] = "new" \/ Refills(r, i)
  <2>1. text[i] = "new"
    BY <1>1, <1>13 DEF Refills
  <2>2. q.verdict = "fixed"
    BY <1>1, <1>7, <1>13 DEF Failing, Stretch
  <2>3. i \in SameFile(c) => q.buf[i] = text[i]
    BY <1>1, <1>2, <1>13, <2>2 DEF KnowsOf
  <2> QED BY <1>5, <1>7, <1>9, <2>1, <2>3 DEF Refills
<1> QED BY <1>1, <1>4, <1>5, <1>7, <1>8, <1>10, <1>11, <1>12, <1>13, FileStep DEF Stretch

LEMMA FillFileKeepsRepairInv ==
  ASSUME RepairInv, NEW a \in Actors, FillFile(a)
  PROVE  RepairInv'
<1> DEFINE q == actor[a]
           c == Target(q)
           at == IF q.verdict = "fixed" THEN "verify" ELSE "mark"
<1>1. Mends(q) /\ q.at = "fill" /\ q.verdict \in {"fixed", "failed"}
  BY DEF FillFile, Mends, Stretch, RepairInv, Shape, ShapeOf, InFile
<1>2. q \in Records /\ q.todo # {} /\ c \in Issues /\ Current(a) = c /\ KnowsOf(q)
  BY <1>1, Mender DEF Mends
<1>3. q.buf \in [Issues -> Texts]
  BY <1>2 DEF Records
<1>4. text' = Stored(c, q.buf) /\ UNCHANGED <<log, sidecar, ledger, plan, bounds>>
  BY <1>2 DEF FillFile
<1>5. /\ text' \in [Issues -> Texts]
      /\ \A i \in SameFile(c) : text'[i] = q.buf[i]
      /\ \A i \in Issues \ SameFile(c) : text'[i] = text[i]
      /\ c \in SameFile(c) /\ SameFile(c) \subseteq Issues
  <2>1. RepairTypeOK
    BY DEF RepairInv
  <2> QED BY <1>2, <1>3, <1>4, <2>1, StoredIs
<1>6. PICK r : r = [q EXCEPT !.at = at, !.buf = NoText]
  OBVIOUS
<1>7. /\ r \in Records /\ r.at = at /\ r.number = q.number /\ r.snap = q.snap
      /\ r.todo = q.todo /\ r.won = q.won /\ r.verdict = q.verdict /\ Go(a, r)
  BY <1>2, <1>6 DEF Records, Stretch, FillFile, NoText, Texts
<1>8. ShapeOf(a, r)
  BY <1>1, <1>2, <1>7 DEF ShapeOf, InFile
<1>9. Target(r) = c
  BY <1>7 DEF Target
<1>10. /\ Covers(q.snap, c) /\ Covers(q.buf, c)
       /\ Quiet => /\ \A j \in Issues : q.snap[j] # "garbled"
                   /\ \A j \in Issues : q.buf[j] = "garbled" => q.verdict = "fixed" /\ j = c
       /\ \A j \in SameFile(c) : text[j] = "gone"
  BY <1>1, <1>2 DEF KnowsOf, InFile
<1>11. FixedIsWritten'
  BY <1>4, <1>5, <1>10 DEF RepairInv, FileInv, FixedIsWritten, Covers
<1>12. KnowsOf(r)'
  <2>1. Covers(r.snap, Target(r))'
    BY <1>4, <1>7, <1>9, <1>10 DEF Covers, SameFile
  <2>2. Quiet' = Quiet
    BY <1>4 DEF Quiet, bounds
  <2> QED BY <1>1, <1>7, <1>9, <1>10, <2>1, <2>2 DEF KnowsOf, InFile, InLog
<1>13. ASSUME Quiet, NEW i \in Issues, text'[i] = "garbled" PROVE Rewrites(r, i)
  <2>1. CASE i \in SameFile(c)
    BY <1>2, <1>5, <1>7, <1>9, <1>10, <1>13, <2>1 DEF Rewrites
  <2>2. CASE i \notin SameFile(c)
    <3>1. PICK b \in Actors : Rewrites(actor[b], i)
      BY <1>5, <1>13, <2>2 DEF RepairInv, FileInv, GarbledIsRewritten
    <3>2. b = a
      BY <1>1, <3>1, Alone DEF RepairInv, Rewrites, Mends, Stretch
    <3> QED BY <1>5, <2>2, <3>1, <3>2 DEF Rewrites
  <2> QED BY <2>1, <2>2
<1>14. ASSUME NEW i \in Issues, text[i] = "new" \/ Refills(q, i)
       PROVE  text'[i] = "new"
  <2>1. CASE i \in SameFile(c)
    BY <1>5, <1>10, <1>14, <2>1 DEF Refills
  <2>2. CASE i \notin SameFile(c)
    BY <1>5, <1>14, <2>2 DEF Refills
  <2> QED BY <2>1, <2>2
<1> QED BY <1>1, <1>4, <1>5, <1>7, <1>8, <1>11, <1>12, <1>13, <1>14, FileStep DEF Stretch

-----------------------------------------------------------------------------
(* A worker that does not mend, or leaves its batch for good.              *)
LEMMA WorkerStep ==
  ASSUME RepairInv, NEW a \in Workers, NEW r \in Records, Go(a, r),
         UNCHANGED <<disk, parent>>, ShapeOf(a, r), KnowsOf(r)',
         r.at # "idle" => Active, r.at \in Stretch => Writing(a) \/ LoopFree(a),
         run' \subseteq Issues, next' \in Nat \ {0},
         stats' \in [completed : Nat, success : Nat, failed : Nat],
         child' \in [Numbers -> {"none", "queued", "processing"} \cup Ended],
         MayFail, Mends(actor[a]) => ~Quiet', RunInv'
  PROVE  RepairInv'
<1> USE DEF disk
<1>1. a \in Actors /\ a \notin Handlers
  BY WorkshopAssumption DEF Actors
<1>2. /\ actor' \in [Actors -> Records] /\ actor'[a] = r
      /\ \A b \in Actors \ {a} : actor'[b] = actor[b]
      /\ Shape' /\ OneMender'
  BY <1>1, MoveShape
<1>3. RepairTypeOK'
  BY <1>2, FailureCounts DEF RepairInv, RepairTypeOK
<1>4. FixedIsWritten'
  BY DEF RepairInv, FileInv, FixedIsWritten
<1>5. Quiet' => Quiet
  BY FailureCounts DEF RepairInv
<1>6. FileInv'
  BY <1>1, <1>2, <1>4, <1>5, MoveFiles
<1> QED BY <1>2, <1>3, <1>6 DEF RepairInv

(* The batch of a worker that leaves counts as failed, or all its issues   *)
(* were repaired.                                                          *)
LEMMA LeavingRun ==
  ASSUME RepairInv, NEW a \in Workers, actor[a].at \notin {"idle", "fill"}, Go(a, AtRest),
         UNCHANGED <<text, parent, run, next>>,
         \/ stats'.failed > 0
         \/ /\ stats'.failed = stats.failed /\ ~Failing(actor[a])
            /\ Batch(actor[a].number) \subseteq actor[a].won
  PROVE  RunInv'
<1>1. a \in Actors /\ actor'[a] = AtRest /\ \A w \in Workers : w # a => actor'[w] = actor[w]
  BY DEF Actors, RepairInv, RepairTypeOK, Go
<1>2. BatchesApart'
  BY <1>1, IdleRecord DEF RepairInv, RunInv, BatchesApart, Busy
<1>3. BatchSplit'
  BY <1>1, IdleRecord DEF RepairInv, RunInv, BatchSplit, SplitOf, Batch
<1>4. \A q : Failing(q)' <=> Failing(q)
  BY DEF Failing, Batch
<1>5. DoneIsKept'
  <2> SUFFICES ASSUME Active, ~Doomed', NEW i \in Done' PROVE StandsIn(i)'
    BY DEF DoneIsKept, Active
  <2>1. /\ stats'.failed = stats.failed /\ ~Failing(actor[a])
        /\ Batch(actor[a].number) \subseteq actor[a].won
    BY DEF Doomed
  <2>2. ~Doomed
    BY <1>1, <1>4, <2>1 DEF Doomed
  <2>3. i \in Done
    BY <1>1, <2>1 DEF Done, Busy, Batch
  <2>4. StandsIn(i)
    BY <2>2, <2>3 DEF RepairInv, RunInv, DoneIsKept
  <2>5. \A w \in Workers : Refills(actor[w], i) => w # a /\ Refills(actor[w], i)'
    BY <1>1 DEF Refills, SameFile, Target
  <2> QED BY <2>4, <2>5 DEF StandsIn
<1> QED BY <1>2, <1>3, <1>5 DEF RunInv

(* What a worker at work has.                                              *)
LEMMA AtWork ==
  ASSUME RepairInv, NEW a \in Workers, actor[a].at # "idle"
  PROVE  /\ a \in Actors /\ actor[a] \in Records /\ Active /\ Busy(a)
         /\ ShapeOf(a, actor[a]) /\ SplitOf(actor[a])
         /\ actor[a].number \in 1..(next - 1)
BY DEF RepairInv, RepairTypeOK, OneMender, Busy, Shape, RunInv, BatchSplit, BatchesApart, Actors

LEMMA FailedBatchType ==
  ASSUME RepairInv, NEW a \in Workers, FailBatch(a)
  PROVE  /\ stats' \in [completed : Nat, success : Nat, failed : Nat]
         /\ child' \in [Numbers -> {"none", "queued", "processing"} \cup Ended]
         /\ stats'.failed = stats.failed + Cardinality(Batch(actor[a].number))
<1>1. Cardinality(Batch(actor[a].number)) \in Nat
  BY SizeOfBatch DEF RepairInv
<1>2. stats \in [completed : Nat, success : Nat, failed : Nat]
  BY DEF RepairInv, RepairTypeOK
<1>3. stats' = [completed |-> stats.completed + Cardinality(Batch(actor[a].number)),
                success   |-> stats.success,
                failed    |-> stats.failed + Cardinality(Batch(actor[a].number))]
  BY <1>2 DEF FailBatch
<1>4. child' \in [Numbers -> {"none", "queued", "processing"} \cup Ended]
  BY DEF FailBatch, RepairInv, RepairTypeOK, Ended
<1> QED BY <1>1, <1>2, <1>3, <1>4

(* A batch given up, at its question or over its report.                   *)
LEMMA GivenUp ==
  ASSUME RepairInv, NEW a \in Workers, FailBatch(a), actor[a].at \in {"asked", "report"},
         errors < MaxErrors /\ errors' = errors + 1, UNCHANGED <<runs, requests, restarts>>
  PROVE  RepairInv'
<1> DEFINE q == actor[a]
           b == Batch(q.number)
<1>1. q.at # "idle" /\ q.at # "fill"
  OBVIOUS
<1>2. /\ a \in Actors /\ q \in Records /\ Active /\ ShapeOf(a, q) /\ SplitOf(q)
  BY <1>1, AtWork
<1>3. Go(a, AtRest) /\ UNCHANGED <<disk, parent, run, next>> /\ MayFail
  BY DEF FailBatch, MayFail
<1>4. /\ stats' \in [completed : Nat, success : Nat, failed : Nat]
      /\ child' \in [Numbers -> {"none", "queued", "processing"} \cup Ended]
      /\ stats'.failed = stats.failed + Cardinality(b)
  BY FailedBatchType
<1>5. ~Quiet'
  BY <1>3 DEF Quiet, RepairInv, RepairTypeOK
<1>6. Cardinality(b) \in Nat /\ (b # {} => Cardinality(b) > 0)
  <2>1. {} \in SUBSET b
    OBVIOUS
  <2> QED BY <2>1, SizeOfBatch, FS_EmptySet DEF RepairInv
<1>7. stats.failed \in Nat
  BY DEF RepairInv, RepairTypeOK
<1>8. \/ stats'.failed > 0
      \/ stats'.failed = stats.failed /\ ~Failing(q) /\ b \subseteq q.won
  <2>1. CASE b # {}
    BY <1>4, <1>6, <1>7, <2>1
  <2>2. CASE b = {}
    <3>1. q.at = "asked"
      BY <1>2, <2>2 DEF SplitOf, ShapeOf
    <3>2. Cardinality(b) = 0
      BY <2>2, FS_EmptySet
    <3> QED BY <1>4, <1>7, <2>2, <3>1, <3>2 DEF Failing, Stretch
  <2> QED BY <2>1, <2>2
<1>9. RunInv'
  BY <1>1, <1>3, <1>8, LeavingRun DEF disk
<1> QED BY <1>2, <1>3, <1>4, <1>5, <1>9, IdleRecord, WorkerStep DEF RepairInv, RepairTypeOK, Stretch

LEMMA RefusedKeepsRepairInv ==
  ASSUME RepairInv, NEW a \in Actors, Refused(a)
  PROVE  RepairInv'
<1>1. CASE a \in Workers
  BY <1>1, GivenUp DEF Refused
<1>2. CASE a \in Handlers
  <2>1. a \notin Workers
    BY <1>2, WorkshopAssumption
  <2>2. /\ Go(a, AtRest) /\ UNCHANGED <<disk, ledger, plan>> /\ MayFail /\ actor[a].at = "asked"
    BY <2>1 DEF Refused, MayFail
  <2>3. /\ runs' \in 0..MaxRuns /\ requests' \in 0..MaxRequests
        /\ errors' \in 0..MaxErrors /\ restarts' \in 0..MaxRestarts /\ (Quiet' => Quiet)
    BY <2>2, FailureCounts DEF RepairInv
  <2>4. UNCHANGED <<text, ledger, plan>> /\ log' = log /\ sidecar' = sidecar
    BY <2>2 DEF disk
  <2>5. log' \in [Issues -> Marks] /\ sidecar' \subseteq Issues
    BY <2>4 DEF RepairInv, RepairTypeOK
  <2>6. ~Mends(actor[a])
    BY <2>2 DEF Mends, Stretch
  <2> QED BY <1>2, <2>2, <2>3, <2>4, <2>5, <2>6, IdleRecord, HandlerStep DEF Stretch
<1> QED BY <1>1, <1>2 DEF Actors

LEMMA ReportRaisesKeepsRepairInv ==
  ASSUME RepairInv, NEW a \in Actors, ReportRaises(a)
  PROVE  RepairInv'
<1>1. CASE a \in Workers
  BY <1>1, GivenUp DEF ReportRaises
<1>2. CASE a \in Handlers
  <2>1. a \notin Workers
    BY <1>2, WorkshopAssumption
  <2>2. /\ Go(a, AtRest) /\ UNCHANGED <<disk, ledger, plan>> /\ MayFail
    BY <2>1 DEF ReportRaises, MayFail
  <2>3. /\ runs' \in 0..MaxRuns /\ requests' \in 0..MaxRequests
        /\ errors' \in 0..MaxErrors /\ restarts' \in 0..MaxRestarts /\ (Quiet' => Quiet)
    BY <2>2, FailureCounts DEF RepairInv
  <2>4. UNCHANGED <<text, ledger, plan>> /\ log' = log /\ sidecar' = sidecar
    BY <2>2 DEF disk
  <2>5. log' \in [Issues -> Marks] /\ sidecar' \subseteq Issues
    BY <2>4 DEF RepairInv, RepairTypeOK
  <2>6. ~Quiet'
    BY DEF ReportRaises, Quiet, RepairInv, RepairTypeOK
  <2> QED BY <1>2, <2>2, <2>3, <2>4, <2>5, <2>6, IdleRecord, HandlerStep DEF Stretch
<1> QED BY <1>1, <1>2 DEF Actors

LEMMA CompleteBatchKeepsRepairInv ==
  ASSUME RepairInv, NEW a \in Workers, CompleteBatch(a)
  PROVE  RepairInv'
<1> DEFINE q == actor[a]
           b == Batch(q.number)
<1>1. q.at = "next" /\ q.at # "idle" /\ q.todo = {}
  BY DEF CompleteBatch
<1>2. a \in Actors /\ q \in Records /\ Active /\ ShapeOf(a, q) /\ SplitOf(q) /\ Writing(a)
  BY <1>1, AtWork DEF Writing, Stretch
<1>3. Go(a, AtRest) /\ UNCHANGED <<disk, parent, run, next, bounds>> /\ MayFail
  BY DEF CompleteBatch, MayFail
<1>4. q.won \in SUBSET b
  BY <1>1, <1>2 DEF SplitOf
<1>5. /\ Cardinality(q.won) \in Nat /\ Cardinality(b) \in Nat
      /\ Cardinality(q.won) <= Cardinality(b)
      /\ q.won # b => Cardinality(q.won) < Cardinality(b)
  BY <1>4, SizeOfBatch DEF RepairInv
<1>6. stats \in [completed : Nat, success : Nat, failed : Nat] /\ stats.failed \in Nat
  BY DEF RepairInv, RepairTypeOK
<1>7. stats' = [completed |-> stats.completed + Cardinality(b),
                success   |-> stats.success + Cardinality(q.won),
                failed    |-> stats.failed + Cardinality(b) - Cardinality(q.won)]
  BY DEF CompleteBatch
<1>8. stats' \in [completed : Nat, success : Nat, failed : Nat]
  BY <1>5, <1>6, <1>7
<1>9. child' \in [Numbers -> {"none", "queued", "processing"} \cup Ended]
  BY DEF CompleteBatch, RepairInv, RepairTypeOK, Ended
<1>10. CASE q.won # b
  <2>1. stats'.failed > 0
    BY <1>5, <1>6, <1>7, <1>10
  <2>2. RunInv'
    BY <1>1, <1>3, <2>1, LeavingRun DEF disk
  <2>3. ~Mends(q)
    BY <1>1 DEF Mends
  <2> QED BY <1>2, <1>3, <1>8, <1>9, <2>2, <2>3, IdleRecord, WorkerStep DEF RepairInv, RepairTypeOK, Stretch
<1>11. CASE q.won = b
  <2>1. stats'.failed = stats.failed
    BY <1>5, <1>6, <1>7, <1>11
  <2>2. ~Failing(q)
    BY <1>1, <1>2, <1>11 DEF Failing, ShapeOf
  <2>3. RunInv'
    BY <1>1, <1>3, <1>11, <2>1, <2>2, LeavingRun DEF disk
  <2>4. ~Mends(q)
    BY <1>1 DEF Mends
  <2> QED BY <1>2, <1>3, <1>8, <1>9, <2>3, <2>4, IdleRecord, WorkerStep DEF RepairInv, RepairTypeOK, Stretch
<1> QED BY <1>10, <1>11

LEMMA TakeBatchKeepsRepairInv ==
  ASSUME RepairInv, NEW a \in Workers, TakeBatch(a)
  PROVE  RepairInv'
<1>1. /\ Active /\ actor[a].at = "idle" /\ a \in Actors /\ next <= Last
      /\ UNCHANGED <<disk, ledger, run, stats, bounds>> /\ next' = next + 1 /\ MayFail
  BY DEF TakeBatch, Actors, MayFail
<1>2. next \in Numbers /\ next' \in Nat \ {0} /\ next \in Nat
  <2>1. Last \in Nat /\ Last <= Cardinality(Issues) /\ next \in Nat \ {0}
    BY LastType DEF RepairInv, RepairTypeOK
  <2>2. Cardinality(Issues) \in Nat
    BY FS_CardinalityType, WorkshopAssumption
  <2> QED BY <1>1, <2>1, <2>2 DEF Numbers
<1>3. PICK r : r = [AtRest EXCEPT !.at = "wait", !.number = next]
  OBVIOUS
<1>4. /\ r \in Records /\ r.at = "wait" /\ r.number = next /\ r.todo = {} /\ r.won = {}
      /\ Go(a, r)
  BY <1>2, <1>3, IdleRecord DEF Records, TakeBatch
<1>5. ShapeOf(a, r) /\ KnowsOf(r)' /\ ~Failing(r) /\ ~Mends(actor[a])
  BY <1>1, <1>4 DEF ShapeOf, KnowsOf, Failing, Mends, Stretch, InFile
<1>6. actor'[a] = r /\ \A w \in Workers : w # a => actor'[w] = actor[w]
  BY <1>1, <1>4 DEF Actors, RepairInv, RepairTypeOK, Go
<1>7. BatchesApart'
  <2>1. \A w \in Workers : actor[w].at # "idle" => actor[w].number \in 1..(next - 1)
    BY DEF RepairInv, RunInv, BatchesApart, Busy
  <2>2. \A w \in Workers : actor'[w].at # "idle" => actor'[w].number \in 1..(next' - 1)
    <3>1. next' = next + 1 /\ next \in Nat \ {0} /\ next \in 1..(next' - 1)
      BY <1>1, <1>2 DEF RepairInv, RepairTypeOK
    <3>2. \A n \in 1..(next - 1) : n \in 1..(next' - 1)
      BY <3>1
    <3>3. actor'[a].number = next
      BY <1>4, <1>6
    <3> QED BY <1>6, <2>1, <3>1, <3>2, <3>3
  <2>3. ASSUME NEW w \in Workers, NEW v \in Workers, Busy(w)', Busy(v)',
               actor'[w].number = actor'[v].number
        PROVE  w = v
    <3>1. \A u \in Workers : u # a /\ actor'[u].at # "idle" => actor'[u].number # next
      BY <1>2, <1>6, <2>1
    <3>2. CASE w # a /\ v # a
      BY <1>6, <2>3, <3>2 DEF RepairInv, RunInv, BatchesApart, Busy
    <3>3. CASE w = a \/ v = a
      BY <1>4, <1>6, <2>3, <3>1, <3>3 DEF Busy
    <3> QED BY <3>2, <3>3
  <2> QED BY <2>2, <2>3 DEF BatchesApart, Busy
<1>8. BatchSplit'
  BY <1>1, <1>4, <1>6 DEF RepairInv, RunInv, BatchSplit, SplitOf, Batch
<1>9. DoneIsKept'
  <2> SUFFICES ASSUME ~Doomed', NEW i \in Done' PROVE StandsIn(i)'
    BY DEF DoneIsKept
  <2>1. ~Doomed
    BY <1>1, <1>6 DEF Doomed, Failing, Batch, Stretch
  <2>2. i \in Done
    <3>1. i \in run /\ BatchOf(run, i) < next + 1 /\ BatchOf(run, i) \in Nat
      BY <1>1, NumberOfIssue DEF Done, RepairInv, RepairTypeOK
    <3>2. BatchOf(run, i) # next
      <4> SUFFICES ASSUME BatchOf(run, i) = next PROVE FALSE
        OBVIOUS
      <4>1. actor'[a].at # "idle" /\ actor'[a].number = BatchOf(run, i)
        BY <1>4, <1>6
      <4>2. i \in actor'[a].won
        BY <1>1, <4>1 DEF Done, Busy
      <4> QED BY <1>4, <1>6, <4>2
    <3>3. BatchOf(run, i) < next
      BY <1>2, <3>1, <3>2
    <3> QED BY <1>1, <1>6, <3>1, <3>3 DEF Done, Busy
  <2>3. StandsIn(i)
    BY <1>1, <2>1, <2>2 DEF RepairInv, RunInv, DoneIsKept
  <2>4. \A w \in Workers : Refills(actor[w], i) => w # a /\ Refills(actor[w], i)'
    BY <1>1, <1>6 DEF Refills, SameFile, Target
  <2> QED BY <1>1, <2>3, <2>4 DEF StandsIn, disk
<1>10. RunInv'
  BY <1>7, <1>8, <1>9 DEF RunInv
<1>11. /\ run' \subseteq Issues /\ parent' = parent
       /\ stats' \in [completed : Nat, success : Nat, failed : Nat]
       /\ child' \in [Numbers -> {"none", "queued", "processing"} \cup Ended]
  BY <1>1 DEF RepairInv, RepairTypeOK, ledger
<1> QED BY <1>1, <1>2, <1>4, <1>5, <1>10, <1>11, WorkerStep DEF Stretch

LEMMA StartChildKeepsRepairInv ==
  ASSUME RepairInv, NEW a \in Workers, StartChild(a)
  PROVE  RepairInv'
<1> DEFINE q == actor[a]
<1>1. q.at = "wait" /\ q.at # "idle"
  BY DEF StartChild
<1>2. /\ a \in Actors /\ q \in Records /\ Active /\ Busy(a) /\ ShapeOf(a, q) /\ SplitOf(q)
      /\ q.todo = {} /\ q.won = {}
  BY <1>1, AtWork DEF ShapeOf
<1>3. UNCHANGED <<disk, parent, plan, bounds>> /\ MayFail
  BY DEF StartChild, MayFail
<1>4. Batch(q.number) \in SUBSET Issues
  BY DEF Batch, RepairInv, RepairTypeOK
<1>5. PICK r : r = [AtRest EXCEPT !.at = "asked", !.number = q.number, !.todo = Batch(q.number)]
  OBVIOUS
<1>6. /\ r \in Records /\ r.at = "asked" /\ r.number = q.number /\ r.todo = Batch(q.number)
      /\ r.won = {} /\ r.verdict = "none" /\ Go(a, r)
  BY <1>2, <1>4, <1>5, IdleRecord DEF Records, StartChild, AtRest
<1>7. /\ ShapeOf(a, r) /\ KnowsOf(r)' /\ ~Mends(q) /\ SplitOf(r) /\ ~Failing(q)
      /\ \A i : ~Refills(q, i)
  BY <1>1, <1>6 DEF ShapeOf, KnowsOf, Mends, Stretch, InFile, SplitOf, Failing, Refills
<1>8. actor'[a] = r /\ \A b \in Actors \ {a} : actor'[b] = actor[b]
  BY <1>2, <1>6 DEF RepairInv, RepairTypeOK, Go
<1>9. UNCHANGED <<parent, run, next, stats>> /\ text' = text
  BY <1>3 DEF plan, disk
<1>10. RunInv'
  BY <1>2, <1>6, <1>7, <1>8, <1>9, WorkerRun
<1>11. child' \in [Numbers -> {"none", "queued", "processing"} \cup Ended]
  BY DEF StartChild, RepairInv, RepairTypeOK
<1> QED BY <1>2, <1>3, <1>6, <1>7, <1>9, <1>10, <1>11, WorkerStep DEF RepairInv, RepairTypeOK, Stretch

LEMMA AnswerKeepsRepairInv ==
  ASSUME RepairInv, ~Overlap, NEW a \in Actors, NEW good \in SUBSET actor[a].todo, Answer(a, good)
  PROVE  RepairInv'
<1> DEFINE q == actor[a]
<1>1. q.at = "asked" /\ q.at # "idle" /\ LoopFree(a) /\ (a \in Workers \/ ~Active)
  BY DEF Answer
<1>2. q \in Records /\ ShapeOf(a, q) /\ q.verdict = "none"
  BY <1>1 DEF RepairInv, RepairTypeOK, Shape, ShapeOf
<1>3. UNCHANGED <<disk, ledger, plan, bounds>> /\ MayFail
  BY DEF Answer, MayFail
<1>4. PICK r : r = [q EXCEPT !.at = "next", !.good = good]
  OBVIOUS
<1>5. /\ r \in Records /\ r.at = "next" /\ r.number = q.number /\ r.todo = q.todo
      /\ r.won = q.won /\ r.verdict = "none" /\ Go(a, r)
  BY <1>2, <1>4 DEF Records, Answer, Stretch
<1>6. /\ ShapeOf(a, r) /\ KnowsOf(r)' /\ ~Mends(q) /\ ~Failing(q) /\ \A i : ~Refills(q, i)
  BY <1>1, <1>5 DEF ShapeOf, KnowsOf, Mends, Stretch, InFile, InLog, Failing, Refills
<1>7. CASE a \in Workers
  <2>1. Active /\ Busy(a) /\ SplitOf(q)
    BY <1>1, <1>7, AtWork
  <2>2. SplitOf(r)
    BY <1>1, <1>5, <2>1 DEF SplitOf
  <2>3. actor'[a] = r /\ \A b \in Actors \ {a} : actor'[b] = actor[b]
    BY <1>5 DEF RepairInv, RepairTypeOK, Go
  <2>4. UNCHANGED <<parent, child, run, next, stats>> /\ text' = text
    BY <1>3 DEF plan, disk, ledger
  <2>5. RunInv'
    BY <1>5, <1>6, <1>7, <2>1, <2>2, <2>3, <2>4, WorkerRun
  <2>6. /\ run' \subseteq Issues /\ next' \in Nat \ {0}
        /\ stats' \in [completed : Nat, success : Nat, failed : Nat]
        /\ child' \in [Numbers -> {"none", "queued", "processing"} \cup Ended]
    BY <2>4 DEF RepairInv, RepairTypeOK
  <2> QED BY <1>1, <1>3, <1>5, <1>6, <1>7, <2>1, <2>4, <2>5, <2>6, WorkerStep
<1>8. CASE a \in Handlers
  <2>1. /\ runs' \in 0..MaxRuns /\ requests' \in 0..MaxRequests
        /\ errors' \in 0..MaxErrors /\ restarts' \in 0..MaxRestarts /\ (Quiet' => Quiet)
    BY <1>3, FailureCounts DEF RepairInv
  <2>2. UNCHANGED <<text, ledger, plan>> /\ log' = log /\ sidecar' = sidecar
    BY <1>3 DEF disk
  <2>3. log' \in [Issues -> Marks] /\ sidecar' \subseteq Issues
    BY <2>2 DEF RepairInv, RepairTypeOK
  <2>4. ~Active
    BY <1>1, <1>8, WorkshopAssumption
  <2> QED BY <1>1, <1>5, <1>6, <1>8, <2>1, <2>2, <2>3, <2>4, HandlerStep
<1> QED BY <1>7, <1>8 DEF Actors

-----------------------------------------------------------------------------
(* Handlers between their repairs.                                         *)
LEMMA ArrivingStep ==
  ASSUME RepairInv, NEW h \in Handlers, NEW r \in Records, Go(h, r), actor[h].at = "idle", LoopFree(h),
         UNCHANGED <<disk, ledger, plan, runs, errors, restarts>>,
         requests < MaxRequests, requests' = requests + 1, ShapeOf(h, r), ~Mends(r)
  PROVE  RepairInv'
<1>1. UNCHANGED <<text, ledger, plan>> /\ log' = log /\ sidecar' = sidecar
  BY DEF disk
<1>2. log' \in [Issues -> Marks] /\ sidecar' \subseteq Issues
  BY <1>1 DEF RepairInv, RepairTypeOK
<1>3. /\ runs' \in 0..MaxRuns /\ requests' \in 0..MaxRequests
      /\ errors' \in 0..MaxErrors /\ restarts' \in 0..MaxRestarts /\ (Quiet' => Quiet)
  BY WorkshopAssumption DEF RepairInv, RepairTypeOK, Quiet
<1>4. KnowsOf(r)' /\ ~Mends(actor[h])
  BY DEF KnowsOf, Mends, Stretch
<1> QED BY <1>1, <1>2, <1>3, <1>4, HandlerStep

LEMMA ArrivalsKeepRepairInv ==
  ASSUME RepairInv, NEW h \in Handlers,
         (\E s \in SUBSET Issues \ {{}} : Request(h, s)) \/ ScanFiles(h) \/ LoadCached(h)
  PROVE  RepairInv'
<1>1. ASSUME NEW s \in SUBSET Issues, Request(h, s) PROVE RepairInv'
  <2>1. PICK r : r = [AtRest EXCEPT !.at = "asked", !.todo = s]
    OBVIOUS
  <2>2. r \in Records /\ r.at = "asked" /\ r.verdict = "none"
    BY <2>1, IdleRecord DEF Records, AtRest
  <2>3. ShapeOf(h, r) /\ ~Mends(r)
    BY <2>2 DEF ShapeOf, InFile, Mends, Stretch
  <2> QED BY <1>1, <2>1, <2>2, <2>3, ArrivingStep DEF Request
<1>2. ASSUME NEW book \in [Issues -> Marks], \A i \in Issues : book[i] # "fixed",
             NEW verdict \in {"scan", "cached"}, NEW r,
             r = [AtRest EXCEPT !.at = "save", !.verdict = verdict, !.book = book]
      PROVE  r \in Records /\ ShapeOf(h, r) /\ ~Mends(r)
  <2>1. r \in Records /\ r.at = "save" /\ r.verdict = verdict /\ r.todo = {} /\ r.book = book
    BY <1>2, IdleRecord DEF Records, AtRest, Stretch
  <2> QED BY <1>2, <2>1 DEF ShapeOf, InFile, Mends
<1>3. CASE ScanFiles(h)
  <2>1. PICK book : book = [i \in Issues |-> IF text[i] \in {"new", "gone"} THEN "absent" ELSE "detected"]
    OBVIOUS
  <2>2. book \in [Issues -> Marks] /\ \A i \in Issues : book[i] # "fixed"
    BY <2>1 DEF Marks
  <2>3. PICK r : r = [AtRest EXCEPT !.at = "save", !.verdict = "scan", !.book = book]
    OBVIOUS
  <2>4. Go(h, r)
    BY <1>3, <2>1, <2>3 DEF ScanFiles
  <2>5. r \in Records /\ ShapeOf(h, r) /\ ~Mends(r)
    BY <1>2, <2>2, <2>3
  <2> QED BY <1>3, <2>4, <2>5, ArrivingStep DEF ScanFiles
<1>4. CASE LoadCached(h)
  <2>1. PICK book : book = [i \in Issues |-> IF i \in sidecar THEN "detected" ELSE "absent"]
    OBVIOUS
  <2>2. book \in [Issues -> Marks] /\ \A i \in Issues : book[i] # "fixed"
    BY <2>1 DEF Marks
  <2>3. PICK r : r = [AtRest EXCEPT !.at = "save", !.verdict = "cached", !.book = book]
    OBVIOUS
  <2>4. Go(h, r)
    BY <1>4, <2>1, <2>3 DEF LoadCached
  <2>5. r \in Records /\ ShapeOf(h, r) /\ ~Mends(r)
    BY <1>2, <2>2, <2>3
  <2> QED BY <1>4, <2>4, <2>5, ArrivingStep DEF LoadCached
<1> QED BY <1>1, <1>3, <1>4

LEMMA EndRequestKeepsRepairInv ==
  ASSUME RepairInv, NEW h \in Handlers, EndRequest(h)
  PROVE  RepairInv'
<1>1. UNCHANGED <<disk, ledger, plan, bounds>> /\ MayFail /\ Go(h, AtRest) /\ ~Mends(actor[h])
  BY DEF EndRequest, MayFail, Mends
<1>2. UNCHANGED <<text, ledger, plan>> /\ log' = log /\ sidecar' = sidecar
  BY <1>1 DEF disk
<1>3. log' \in [Issues -> Marks] /\ sidecar' \subseteq Issues
  BY <1>2 DEF RepairInv, RepairTypeOK
<1>4. /\ runs' \in 0..MaxRuns /\ requests' \in 0..MaxRequests
      /\ errors' \in 0..MaxErrors /\ restarts' \in 0..MaxRestarts /\ (Quiet' => Quiet)
  BY <1>1, FailureCounts DEF RepairInv
<1> QED BY <1>1, <1>2, <1>3, <1>4, IdleRecord, HandlerStep DEF Stretch

-----------------------------------------------------------------------------
(* The run as a whole.                                                     *)
LEMMA StartRunKeepsRepairInv ==
  ASSUME RepairInv, ~Overlap, NEW s \in SUBSET Issues, StartRun(s)
  PROVE  RepairInv'
<1>1. /\ ~Active /\ runs < MaxRuns /\ runs' = runs + 1 /\ run' = s /\ next' = 1 /\ stats' = NoStats
      /\ parent' = "processing" /\ UNCHANGED <<disk, actor, requests, errors, restarts>>
  BY DEF StartRun
<1>2. \A h \in Handlers : ~Mends(actor[h])
  BY DEF StartRun, Mends, Writing
<1>3. \A w \in Workers : actor[w].at = "idle"
  BY <1>1 DEF RepairInv, OneMender
<1>4. child' \in [Numbers -> {"none", "queued", "processing"} \cup Ended]
  BY DEF StartRun
<1>5. RepairTypeOK'
  BY <1>1, <1>4, WorkshopAssumption DEF RepairInv, RepairTypeOK, NoStats, disk
<1>6. Shape'
  BY <1>1 DEF RepairInv, Shape, ShapeOf
<1>7. OneMender'
  BY <1>1, <1>2, <1>3 DEF RepairInv, OneMender, Active, Writing, Peers, Mends
<1>8. FileInv'
  BY <1>1 DEF RepairInv, FileInv, FixedIsWritten, MenderKnows, KnowsOf, GarbledIsRewritten, Quiet, disk,
              Covers, SameFile, Target, Mends, Rewrites
<1>9. RunInv'
  <2>1. BatchesApart' /\ BatchSplit'
    BY <1>1, <1>3 DEF BatchesApart, BatchSplit, SplitOf, Busy
  <2>2. Done' = {}
    <3>1. ASSUME NEW i \in s PROVE ~(BatchOf(s, i) < 1)
      <4>1. BatchOf(s, i) \in Nat /\ BatchOf(s, i) >= 1
        BY NumberOfIssue
      <4> QED BY <4>1
    <3> QED BY <1>1, <3>1 DEF Done
  <2> QED BY <2>1, <2>2 DEF RunInv, DoneIsKept
<1> QED BY <1>5, <1>6, <1>7, <1>8, <1>9 DEF RepairInv

(* The run that completes has repaired all it was given.                   *)
LEMMA AllRepaired ==
  ASSUME RepairInv, CompleteParent, parent' = "completed", NEW i \in run
  PROVE  text[i] = "new"
<1>1. /\ Active /\ next > Last /\ stats.failed = 0 /\ \A w \in Workers : actor[w].at = "idle"
  BY DEF CompleteParent
<1>2. ~Doomed
  BY <1>1 DEF Doomed, Failing, Stretch
<1>3. i \in Done
  <2>1. BatchOf(run, i) \in Nat /\ BatchOf(run, i) <= Last
    BY NumberOfIssue DEF RepairInv, RepairTypeOK, Last
  <2>2. Last \in Nat /\ next \in Nat
    BY LastType DEF RepairInv, RepairTypeOK
  <2> QED BY <1>1, <2>1, <2>2 DEF Done, Busy
<1>4. StandsIn(i)
  BY <1>1, <1>2, <1>3 DEF RepairInv, RunInv, DoneIsKept
<1> QED BY <1>1, <1>4 DEF StandsIn, Refills

LEMMA CompleteParentKeepsRepairInv ==
  ASSUME RepairInv, CompleteParent
  PROVE  RepairInv'
<1>1. /\ UNCHANGED <<disk, child, plan, actor, bounds>> /\ \A w \in Workers : actor[w].at = "idle"
      /\ parent' \in {"completed", "partial_failed"}
  BY DEF CompleteParent
<1> USE DEF disk, plan, bounds
<1>2. RepairTypeOK'
  BY <1>1 DEF RepairInv, RepairTypeOK, Ended
<1>3. Shape'
  BY <1>1 DEF RepairInv, Shape, ShapeOf
<1>4. ~Active'
  BY <1>1 DEF Active
<1>5. OneMender'
  BY <1>1, <1>4 DEF RepairInv, OneMender, Writing, Peers
<1>6. FileInv'
  BY <1>1 DEF RepairInv, FileInv, FixedIsWritten, MenderKnows, KnowsOf, GarbledIsRewritten, Quiet,
              Covers, SameFile, Target, Mends, Rewrites
<1>7. RunInv'
  BY <1>1, <1>4 DEF RunInv, BatchesApart, BatchSplit, SplitOf, Busy, DoneIsKept
<1> QED BY <1>2, <1>3, <1>5, <1>6, <1>7 DEF RepairInv

LEMMA AllIdle ==
  ASSUME actor = [a \in Actors |-> AtRest]
  PROVE  /\ actor \in [Actors -> Records] /\ Shape /\ MenderKnows
         /\ \A a \in Actors : actor[a].at = "idle" /\ ~Writing(a) /\ ~Mends(actor[a])
         /\ BatchesApart /\ BatchSplit
<1>1. \A a \in Actors : actor[a] = AtRest
  OBVIOUS
<1>2. \A a \in Workers : a \in Actors
  BY DEF Actors
<1>3. actor \in [Actors -> Records]
  BY IdleRecord
<1>4. Shape /\ MenderKnows
  BY <1>1, IdleRecord DEF Shape, MenderKnows
<1>5. \A a \in Actors : actor[a].at = "idle" /\ ~Writing(a) /\ ~Mends(actor[a])
  BY <1>1, IdleRecord DEF Writing, Stretch
<1>6. BatchesApart /\ BatchSplit
  BY <1>2, <1>5 DEF BatchesApart, BatchSplit, SplitOf, Busy
<1> QED BY <1>3, <1>4, <1>5, <1>6

LEMMA RestartKeepsRepairInv ==
  ASSUME RepairInv, Restart
  PROVE  RepairInv'
<1>1. /\ restarts < MaxRestarts /\ restarts' = restarts + 1 /\ actor' = [a \in Actors |-> AtRest]
      /\ run' = {} /\ next' = 1 /\ stats' = NoStats
      /\ parent' = (IF Active THEN "interrupted" ELSE parent)
      /\ UNCHANGED <<disk, runs, requests, errors>>
  BY DEF Restart
<1>2. /\ actor' \in [Actors -> Records] /\ Shape' /\ MenderKnows'
      /\ \A a \in Actors : actor'[a].at = "idle" /\ ~Writing(a)' /\ ~Mends(actor'[a])
      /\ BatchesApart' /\ BatchSplit'
  <2>1. actor' = [a \in Actors |-> AtRest]
    BY <1>1
  <2>2. /\ \A a \in Actors : actor'[a] = AtRest
        /\ \A a \in Workers : a \in Actors
    BY <2>1 DEF Actors
  <2>3. actor' \in [Actors -> Records] /\ Shape'
    BY <2>1, <2>2, IdleRecord DEF Shape
  <2>4. \A a \in Actors : actor'[a].at = "idle" /\ ~Writing(a)' /\ ~Mends(actor'[a])
    BY <2>2, IdleRecord DEF Writing, Stretch
  <2>5. BatchesApart' /\ BatchSplit'
    BY <2>2, <2>4 DEF BatchesApart, BatchSplit, SplitOf, Busy
  <2>6. MenderKnows'
    BY <2>2, <2>4 DEF MenderKnows, KnowsOf, Mends
  <2> QED BY <2>3, <2>4, <2>5, <2>6
<1>3. child' \in [Numbers -> {"none", "queued", "processing"} \cup Ended]
  BY DEF Restart, RepairInv, RepairTypeOK, Ended
<1>4. parent' \in {"none", "processing"} \cup Ended
  BY <1>1 DEF RepairInv, RepairTypeOK, Ended
<1>5. RepairTypeOK'
  BY <1>1, <1>2, <1>3, <1>4, WorkshopAssumption DEF RepairInv, RepairTypeOK, NoStats, disk
<1>6. ~Active' /\ ~Quiet'
  BY <1>1 DEF Active, Quiet, RepairInv, RepairTypeOK
<1>7. OneMender'
  <2>1. \A w \in Workers : w \in Actors
    BY DEF Actors
  <2> QED BY <1>2, <1>6, <2>1 DEF OneMender
<1>8. FixedIsWritten' /\ GarbledIsRewritten'
  BY <1>1, <1>6 DEF RepairInv, FileInv, FixedIsWritten, GarbledIsRewritten, disk
<1>9. RunInv'
  BY <1>2, <1>6 DEF RunInv, DoneIsKept
<1> QED BY <1>2, <1>5, <1>7, <1>8, <1>9 DEF RepairInv, FileInv

LEMMA InitRepairInv == RepairInit => RepairInv
<1> SUFFICES ASSUME RepairInit PROVE RepairInv
  OBVIOUS
<1>1. /\ actor \in [Actors -> Records] /\ Shape /\ MenderKnows
      /\ \A a \in Actors : actor[a].at = "idle" /\ ~Writing(a) /\ ~Mends(actor[a])
      /\ BatchesApart /\ BatchSplit
  BY AllIdle DEF RepairInit, Actors
<1>2. RepairTypeOK
  BY <1>1, WorkshopAssumption DEF RepairInit, RepairTypeOK, NoText, Texts, Marks, NoStats
<1>3. ~Active
  BY DEF RepairInit, Active
<1>4. OneMender
  <2>1. /\ \A w \in Workers : w \in Actors
        /\ \A h \in Handlers : h \in Actors
    BY DEF Actors
  <2> QED BY <1>1, <1>3, <2>1 DEF OneMender
<1>5. FixedIsWritten /\ GarbledIsRewritten
  BY DEF RepairInit, FixedIsWritten, GarbledIsRewritten, NoText
<1>6. RunInv
  BY <1>1, <1>3 DEF RunInv, DoneIsKept
<1> QED BY <1>1, <1>2, <1>4, <1>5, <1>6 DEF RepairInv, FileInv

LEMMA StutterKeepsRepairInv == RepairInv /\ UNCHANGED repairVars => RepairInv'
<1> SUFFICES ASSUME RepairInv, UNCHANGED repairVars PROVE RepairInv'
  OBVIOUS
<1> USE DEF repairVars, disk, ledger, plan, bounds
<1>1. RepairTypeOK'
  BY DEF RepairInv, RepairTypeOK
<1>2. Shape'
  BY DEF RepairInv, Shape, ShapeOf
<1>3. OneMender'
  BY DEF RepairInv, OneMender, Writing, Peers, Active, Mends
<1>4. FileInv'
  BY DEF RepairInv, FileInv, FixedIsWritten, MenderKnows, KnowsOf, GarbledIsRewritten, Quiet,
         Covers, SameFile, Target, Mends, Rewrites
<1>5. BatchesApart' /\ BatchSplit'
  BY DEF RepairInv, RunInv, BatchesApart, BatchSplit, SplitOf, Busy, Batch
<1>6. DoneIsKept'
  BY DEF RepairInv, RunInv, DoneIsKept, Active, Doomed, Failing, Batch, Done, Busy, StandsIn, Refills, SameFile, Target
<1> QED BY <1>1, <1>2, <1>3, <1>4, <1>5, <1>6 DEF RepairInv, RunInv

LEMMA RepairKeepsRepairInv ==
  ASSUME RepairInv, ~Overlap, NEW a \in Actors, Repair(a)
  PROVE  RepairInv'
BY AnswerKeepsRepairInv, RefusedKeepsRepairInv, PassOverKeepsRepairInv, RejectKeepsRepairInv, SnapshotKeepsRepairInv,
   ReadLinesKeepsRepairInv, OpenFileKeepsRepairInv, FillFileKeepsRepairInv, WriteRaisesKeepsRepairInv, VerifyKeepsRepairInv,
   LoadLogKeepsRepairInv, OpenLogKeepsRepairInv, FillLogKeepsRepairInv, LogRaisesKeepsRepairInv,
   ReportKeepsRepairInv, ReportRaisesKeepsRepairInv DEF Repair

LEMMA NextKeepsRepairInv ==
  ASSUME RepairInv, ~Overlap, RepairNext
  PROVE  RepairInv'
<1>1. ASSUME NEW w \in Workers, Worker(w) PROVE RepairInv'
  BY <1>1, TakeBatchKeepsRepairInv, StartChildKeepsRepairInv, CompleteBatchKeepsRepairInv, RepairKeepsRepairInv
     DEF Worker, Actors
<1>2. ASSUME NEW h \in Handlers, Handler(h) PROVE RepairInv'
  BY <1>2, ArrivalsKeepRepairInv, EndRequestKeepsRepairInv, RepairKeepsRepairInv DEF Handler, Actors
<1>3. ASSUME NEW s \in SUBSET Issues \ {{}}, StartRun(s) PROVE RepairInv'
  BY <1>3, StartRunKeepsRepairInv
<1> QED BY <1>1, <1>2, <1>3, CompleteParentKeepsRepairInv, RestartKeepsRepairInv DEF RepairNext

-----------------------------------------------------------------------------
(* Of every behaviour in which direct repairs wait for a run to end: the   *)
(* inductive invariant.                                                    *)
THEOREM RepairInvariant == ~Overlap => (RepairSpec => []RepairInv)
<1> SUFFICES ASSUME ~Overlap PROVE RepairSpec => []RepairInv
  OBVIOUS
<1>1. RepairInit => RepairInv
  BY InitRepairInv
<1>2. RepairInv /\ [RepairNext]_repairVars => RepairInv'
  BY NextKeepsRepairInv, StutterKeepsRepairInv
<1> QED BY <1>1, <1>2, PTL DEF RepairSpec

LEMMA RepairInvGivesFixed == RepairInv => FixedIsInFile
<1> SUFFICES ASSUME RepairInv, NEW i \in Issues, log[i] = "fixed", text[i] \notin {"new", "gone"}
             PROVE  /\ text[i] = "garbled"
                    /\ errors + restarts > 0 \/ \E a \in Actors : Rewriting(a, i)
  BY DEF FixedIsInFile
<1>1. text[i] = "garbled"
  BY DEF RepairInv, RepairTypeOK, Texts, FileInv, FixedIsWritten
<1>2. CASE Quiet
  BY <1>1, <1>2 DEF RepairInv, FileInv, GarbledIsRewritten, Rewrites, Rewriting, Current, Target
<1>3. CASE ~Quiet
  BY <1>1, <1>3 DEF Quiet, RepairInv, RepairTypeOK
<1> QED BY <1>2, <1>3

(* And what the log calls fixed is in its file, unless the file was lost,  *)
(* or left half repaired by an error or a restart                          *)
(* (apply_validated_workshop_fix_to_path, mark_attempt_result).            *)
THEOREM FixedStaysInFile == ~Overlap => (RepairSpec => []FixedIsInFile)
BY RepairInvariant, RepairInvGivesFixed, PTL

(* And every variable has its type.                                        *)
THEOREM RepairTypes == ~Overlap => (RepairSpec => []RepairTypeOK)
<1>1. RepairInv => RepairTypeOK
  BY DEF RepairInv
<1> QED BY <1>1, RepairInvariant, PTL

LEMMA OnlyParent ==
  ASSUME RepairNext, parent' # parent, parent' = "completed"
  PROVE  CompleteParent
<1> USE DEF ledger
<1>1. ASSUME NEW a, Repair(a) PROVE parent' = parent
  BY <1>1 DEF Repair, Answer, Refused, FailBatch, PassOver, Reject, Snapshot, ReadLines, OpenFile, FillFile,
     WriteRaises, Verify, LoadLog, OpenLog, FillLog, LogRaises, Report, ReportRaises
<1>2. ASSUME NEW w, Worker(w) PROVE parent' = parent
  BY <1>1, <1>2 DEF Worker, TakeBatch, StartChild, CompleteBatch
<1>3. ASSUME NEW h, Handler(h) PROVE parent' = parent
  BY <1>1, <1>3 DEF Handler, Request, ScanFiles, LoadCached, EndRequest
<1>4. ASSUME NEW s, StartRun(s) PROVE parent' = "processing"
  BY <1>4 DEF StartRun
<1>5. Restart => parent' = parent \/ parent' = "interrupted"
  BY DEF Restart
<1> QED BY <1>2, <1>3, <1>4, <1>5 DEF RepairNext

(* And a run that completes has repaired each of its issues in the file    *)
(* (_execute_batch, _record_batch_failure).                                *)
THEOREM CompletedRunRepairedAll == ~Overlap => (RepairSpec => CompletedRepairedAll)
<1>1. ASSUME RepairInv, [RepairNext]_repairVars
      PROVE  [parent # "completed" /\ parent' = "completed" => \A i \in run : text[i] = "new"]_repairVars
  <2>1. ASSUME parent # "completed", parent' = "completed", NEW i \in run PROVE text[i] = "new"
    <3>1. RepairNext
      BY <1>1, <2>1 DEF repairVars, ledger
    <3>2. CompleteParent
      BY <2>1, <3>1, OnlyParent
    <3> QED BY <1>1, <2>1, <3>2, AllRepaired
  <2> QED BY <2>1
<1> QED BY <1>1, RepairInvariant, PTL DEF RepairSpec, CompletedRepairedAll
=============================================================================
