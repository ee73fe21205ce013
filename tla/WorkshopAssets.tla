---------------------------- MODULE WorkshopAssets ---------------------------
(***************************************************************************)
(* Publishing workspaces for the Steam Workshop: versions of a cover and   *)
(* of a description, of which one each is selected.  Rows are in SQLite,   *)
(* the PNG of a cover is a file beside it, and saving a cover or having a  *)
(* description generated is a task of the ledger.  The handlers run in     *)
(* the threads of a pool: a transaction is one step, and what lies between *)
(* two transactions is open to every other handler.                        *)
(*                                                                         *)
(* A version is a number, given when its request arrives; the task of a    *)
(* request goes by the version it is to make.  What else a workspace is    *)
(* bound to (project, item) is changed by single statements and left out.  *)
(***************************************************************************)
EXTENDS Naturals, FiniteSets, FiniteSetsExt

CONSTANTS
  Spaces,       \* workspaces there may ever be
  Requests,     \* threads that serve requests
  MaxVersions,  \* bound: versions asked for
  MaxMishaps,   \* bound: writes, transactions and removals that raise, ends of the process
  None, Gone    \* not yet, and no longer

Types    == {"cover", "description"}
Versions == 1..MaxVersions

(* What a workspace has selected, and the row of a version.                *)
Selections  == [Types -> Versions \cup {None}]
VersionRows == [space : Spaces, type : Types, sequence : Nat,
                status : {"candidate", "selected"}, parent : Versions \cup {None}]

ASSUME AssetsAssumption ==
  /\ {MaxVersions, MaxMishaps} \subseteq Nat
  /\ None # Gone /\ None \notin {"running", "completed", "failed"}
  /\ \A x \in {None, Gone} : x \notin Nat /\ x \notin Selections /\ x \notin VersionRows

VARIABLES
  space,     \* workspace -> None, Gone, or what it has selected of each type
  version,   \* version -> None, Gone, or its row
  png,       \* versions that have a file
  task,      \* version -> status of the task that makes it, or None
  req,       \* request -> what it does and what it has read
  given,     \* versions asked for
  mishaps,
  (* History. *)
  unread,    \* versions that were saved and could not be read back
  leaked,    \* versions whose file could not be written, removed, or was left by a crash
  cut        \* versions whose request ended with the process

assetRows  == <<space, version>>
bounds     == <<given, mishaps>>
history    == <<unread, leaked, cut>>
assetsVars == <<assetRows, png, task, req, bounds, history>>

-----------------------------------------------------------------------------
There == {s \in Spaces : space[s] \notin {None, Gone}}
Kept  == {v \in Versions : version[v] \notin {None, Gone}}

Of(s, t)   == {v \in Kept : version[v].space = s /\ version[v].type = t}
Current(s) == {space[s][t] : t \in Types}

Idle == [op |-> "none", pc |-> "idle", space |-> None, type |-> "cover", parent |-> None,
         version |-> None]

AssetsInit ==
  /\ space = [s \in Spaces |-> None]
  /\ version = [v \in Versions |-> None]
  /\ png = {}
  /\ task = [v \in Versions |-> None]
  /\ req = [r \in Requests |-> Idle]
  /\ given = 0 /\ mishaps = 0
  /\ unread = {} /\ leaked = {} /\ cut = {}

Go(r, pc) == req' = [req EXCEPT ![r].pc = pc]
Done(r)   == req' = [req EXCEPT ![r] = Idle]
Mishap    == mishaps < MaxMishaps /\ mishaps' = mishaps + 1

-----------------------------------------------------------------------------
(* Workspaces.                                                             *)
CreateSpace ==
  /\ \E s \in Spaces :
       /\ space[s] = None
       /\ space' = [space EXCEPT ![s] = [t \in Types |-> None]]
  /\ UNCHANGED <<version, png, task, req, bounds, history>>

(* The versions are looked for outside the transaction that deletes.       *)
CheckEmpty(r) ==
  /\ req[r].pc = "idle"
  /\ \E s \in There :
       /\ \A t \in Types : Of(s, t) = {}
       /\ req' = [req EXCEPT ![r] = [Idle EXCEPT !.op = "erase", !.pc = "erase", !.space = s]]
  /\ UNCHANGED <<assetRows, png, task, bounds, history>>

(* A version saved in between keeps its workspace: a foreign key.          *)
EraseSpace(r) ==
  /\ req[r].pc = "erase"
  /\ LET s == req[r].space IN
       space' = IF s \in There /\ \A t \in Types : Of(s, t) = {}
                THEN [space EXCEPT ![s] = Gone] ELSE space
  /\ Done(r)
  /\ UNCHANGED <<version, png, task, bounds, history>>

-----------------------------------------------------------------------------
(* A version is asked for.                                                 *)
Ask(r, op, type, s, parent, pc) ==
  /\ req[r].pc = "idle" /\ given < MaxVersions
  /\ given' = given + 1
  /\ req' = [req EXCEPT ![r] = [op |-> op, pc |-> pc, space |-> s, type |-> type,
                                parent |-> parent, version |-> given']]
  /\ task' = [task EXCEPT ![given'] = IF op = "manual" THEN None ELSE "running"]
  /\ UNCHANGED <<assetRows, png, mishaps, history>>

AskDescription(r) ==
  \E s \in There, parent \in Kept \cup {None} :
    Ask(r, "manual", "description", s, parent, "validate")

AskCover(r) ==
  \E s \in There, parent \in Kept \cup {None} : Ask(r, "cover", "cover", s, parent, "validate")

(* The parent is the selected description as it was before the model is    *)
(* asked.                                                                  *)
AskModel(r) ==
  \E s \in There : Ask(r, "model", "description", s, space[s]["description"], "answer")

(* The item is read and the model answers, or one of them does not.        *)
Answer(r) ==
  /\ req[r].pc = "answer"
  /\ \E pc \in {"validate", "fail"} : Go(r, pc)
  /\ UNCHANGED <<assetRows, png, task, bounds, history>>

(* Where an exception leads: the except branches, from the inner one out.  *)
Raised(r)  == IF req[r].op = "manual" THEN Done(r) ELSE Go(r, "fail")
Undone(r)  == IF req[r].op = "cover" THEN Go(r, "undo") ELSE Raised(r)

Valid(q) ==
  /\ q.space \in There
  /\ q.parent = None \/ q.parent \in Of(q.space, q.type)

(* Workspace, metadata and parent, and for a cover its canvas and picture. *)
Validate(r) ==
  /\ req[r].pc = "validate"
  /\ \/ Valid(req[r]) /\ Go(r, IF req[r].op = "cover" THEN "write" ELSE "insert")
     \/ ~Valid(req[r]) /\ Raised(r)
     \/ req[r].op # "model" /\ Raised(r)      \* what the client sent is refused
  /\ UNCHANGED <<assetRows, png, task, bounds, history>>

WritePng(r) ==
  /\ req[r].pc = "write"
  /\ png' = png \cup {req[r].version}
  /\ Go(r, "insert")
  /\ UNCHANGED <<assetRows, task, bounds, history>>

(* The writing is outside the try: what there is of the file stays.        *)
WriteFails(r) ==
  /\ req[r].pc = "write" /\ Mishap
  /\ png' \in {png, png \cup {req[r].version}}
  /\ leaked' = leaked \cup {req[r].version}
  /\ Raised(r)
  /\ UNCHANGED <<assetRows, task, given, unread, cut>>

CountSequence(s, t) == \* mutant: the versions are counted
  Cardinality(Of(s, t)) + 1

NextSequence(s, t) ==
  Max({0} \cup {version[v].sequence : v \in Of(s, t)}) + 1

(* create_version: one transaction, with the foreign keys checked.         *)
Insert(r) ==
  /\ req[r].pc = "insert"
  /\ LET q == req[r] IN
       \/ /\ q.space \in There /\ (q.parent = None \/ q.parent \in Kept)
          /\ version' = [version EXCEPT ![q.version] =
               [space |-> q.space, type |-> q.type, sequence |-> NextSequence(q.space, q.type),
                status |-> "candidate", parent |-> q.parent]]
          /\ Go(r, "readback")
       \/ /\ q.space \notin There \/ (q.parent # None /\ q.parent \notin Kept)
          /\ version' = version
          /\ Undone(r)
  /\ UNCHANGED <<space, png, task, bounds, history>>

InsertFailsBare(r) == \* mutant: nothing removes the file of a cover that was not saved
  /\ req[r].pc = "insert" /\ Mishap
  /\ Raised(r)
  /\ UNCHANGED <<assetRows, png, task, given, history>>

InsertFails(r) ==
  /\ req[r].pc = "insert" /\ Mishap
  /\ Undone(r)
  /\ UNCHANGED <<assetRows, png, task, given, history>>

(* The new version is read in a transaction of its own.  If it is gone, no *)
(* exception is raised before the handler uses it.                         *)
ReadBack(r) ==
  /\ req[r].pc = "readback"
  /\ IF req[r].op = "manual" THEN Done(r)
     ELSE Go(r, IF req[r].version \in Kept THEN "complete" ELSE "fail")
  /\ UNCHANGED <<assetRows, png, task, bounds, history>>

ReadBackFails(r) ==
  /\ req[r].pc = "readback" /\ Mishap
  /\ unread' = unread \cup {req[r].version}
  /\ Undone(r)
  /\ UNCHANGED <<assetRows, png, task, given, leaked, cut>>

Undo(r) ==
  /\ req[r].pc = "undo"
  /\ png' = png \ {req[r].version}
  /\ Go(r, "fail")
  /\ UNCHANGED <<assetRows, task, bounds, history>>

UndoFails(r) ==
  /\ req[r].pc = "undo" /\ Mishap
  /\ leaked' = leaked \cup {req[r].version}
  /\ Go(r, "fail")
  /\ UNCHANGED <<assetRows, png, task, given, unread, cut>>

FinishCompleted(r) == \* mutant: the except branch does not fail the task
  /\ req[r].pc \in {"complete", "fail"}
  /\ task' = IF req[r].pc = "complete" THEN [task EXCEPT ![req[r].version] = "completed"] ELSE task
  /\ Done(r)
  /\ UNCHANGED <<assetRows, png, bounds, history>>

FinishTask(r) ==
  /\ req[r].pc \in {"complete", "fail"}
  /\ task' = [task EXCEPT ![req[r].version] = IF req[r].pc = "complete" THEN "completed" ELSE "failed"]
  /\ Done(r)
  /\ UNCHANGED <<assetRows, png, bounds, history>>

-----------------------------------------------------------------------------
SelectOnly(s, t, v) == \* mutant: the one selected before keeps its status
  /\ v \in Of(s, t)
  /\ version' = [version EXCEPT ![v].status = "selected"]
  /\ space' = [space EXCEPT ![s][t] = v]

Chosen(s, t, v) ==
  /\ v \in Of(s, t)
  /\ version' = [w \in Versions |->
                   IF w \notin Of(s, t) THEN version[w]
                   ELSE [version[w] EXCEPT !.status = IF w = v THEN "selected" ELSE "candidate"]]
  /\ space' = [space EXCEPT ![s][t] = v]

Select ==
  /\ \E s \in There, t \in Types, v \in Versions : Chosen(s, t, v)
  /\ UNCHANGED <<png, task, req, bounds, history>>

(* One transaction; the file goes after it.                                *)
DeleteVersion(r) ==
  /\ req[r].pc = "idle"
  /\ \E v \in Kept :
       /\ v \notin Current(version[v].space)
       /\ version' = [w \in Versions |->
                        IF w = v THEN Gone
                        ELSE IF w \in Kept /\ version[w].parent = v
                             THEN [version[w] EXCEPT !.parent = None] ELSE version[w]]
       /\ req' = IF version[v].type = "description" THEN req
                 ELSE [req EXCEPT ![r] = [Idle EXCEPT !.op = "delete", !.pc = "unlink", !.version = v]]
  /\ UNCHANGED <<space, png, task, bounds, history>>

Unlink(r) ==
  /\ req[r].pc = "unlink"
  /\ png' = png \ {req[r].version}
  /\ Done(r)
  /\ UNCHANGED <<assetRows, task, bounds, history>>

UnlinkFails(r) ==
  /\ req[r].pc = "unlink" /\ Mishap
  /\ leaked' = leaked \cup {req[r].version}
  /\ Done(r)
  /\ UNCHANGED <<assetRows, png, task, given, unread, cut>>

(* A picture that was being written is left, whole or not.                 *)
Crash ==
  /\ Mishap
  /\ \E r \in Requests : req[r].pc # "idle"
  /\ LET hit == {req[r].version : r \in Requests} \ {None} IN
       /\ cut' = cut \cup hit
       /\ leaked' = leaked \cup hit
       /\ \E W \in SUBSET {req[r].version : r \in {q \in Requests : req[q].pc = "write"}} :
            png' = png \cup W
  /\ req' = [r \in Requests |-> Idle]
  /\ UNCHANGED <<assetRows, task, given, unread>>

-----------------------------------------------------------------------------
Handler(r) ==
  \/ CheckEmpty(r) \/ EraseSpace(r)
  \/ AskDescription(r) \/ AskCover(r) \/ AskModel(r) \/ Answer(r)
  \/ Validate(r) \/ WritePng(r) \/ WriteFails(r)
  \/ Insert(r) \/ InsertFails(r) \/ ReadBack(r) \/ ReadBackFails(r)
  \/ Undo(r) \/ UndoFails(r) \/ FinishTask(r)
  \/ DeleteVersion(r) \/ Unlink(r) \/ UnlinkFails(r)

AssetsNext ==
  \/ CreateSpace \/ Select
  \/ \E r \in Requests : Handler(r)
  \/ Crash

AssetsSpec == AssetsInit /\ [][AssetsNext]_assetsVars

-----------------------------------------------------------------------------
(***************************************************************************)
(* Properties.                                                             *)
(***************************************************************************)
Selected(s, t) == {v \in Of(s, t) : version[v].status = "selected"}

(* What a workspace has selected exists, is one of its versions of that    *)
(* kind, and is the only one marked so, through deletions, selections and  *)
(* saves beside each other.                                                *)
SelectionStands ==
  \A s \in There, t \in Types : Selected(s, t) = {space[s][t]} \ {None}

(* Every version belongs to a workspace that exists; no two of a kind have *)
(* one number; a parent exists, is of the same workspace and kind, and has *)
(* a lower number.                                                         *)
LineageStands ==
  \A v \in Kept :
    LET row == version[v] IN
      /\ row.space \in There
      /\ \A w \in Of(row.space, row.type) : version[w].sequence = row.sequence => w = v
      /\ row.parent # None => /\ row.parent \in Of(row.space, row.type)
                              /\ version[row.parent].sequence < row.sequence

(* A cover that is listed has its whole picture, unless it could not be    *)
(* read back when it was saved; and when nothing is under way, a picture   *)
(* without a version was left by a write or a removal that failed or was   *)
(* cut off.                                                                *)
FilesFollowRows ==
  \A v \in Versions :
    /\ v \in Kept /\ version[v].type = "cover" => v \in png \cup unread
    /\ (\A r \in Requests : req[r].pc = "idle") /\ v \in png => v \in Kept \cup leaked

(* A task that completed saved its version; one that failed left none,     *)
(* unless it could not be read back; and one that still runs has a request *)
(* that works for it, or was cut off by the end of the process.            *)
TasksTellTruth ==
  \A v \in Versions :
    /\ task[v] = "completed" => version[v] # None
    /\ task[v] = "failed" => v \notin Kept \/ v \in unread
    /\ task[v] = "running" => v \in cut \/ \E r \in Requests : req[r].version = v
=============================================================================
