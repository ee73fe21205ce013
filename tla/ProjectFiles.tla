---------------------------- MODULE ProjectFiles -----------------------------
(***************************************************************************)
(* The sidecar of a project (.remis_project.json: translation folders, the *)
(* board with each file's status, notes), which lies in the source folder  *)
(* and is read and written whole; the folder itself, which the user or an  *)
(* update may change; and the proofreading of a translation file, whose    *)
(* save names the revision it was made from and marks the file as done.    *)
(* Handlers share one event loop and lose it when they await the database, *)
(* a worker has a loop of its own: from its reading of the sidecar to its  *)
(* writing a call is alone on its loop, but not in the process.            *)
(*                                                                         *)
(* Each source folder and each translation folder has one file, named as   *)
(* the folder is.  What is proofread is the file of one translation folder.*)
(***************************************************************************)
EXTENDS Naturals, Sequences, FiniteSets

CONSTANTS
  Roots, Home, Dirs, Notes,
  Target,           \* the translation folder whose file is proofread
  Handlers,         \* calls of the API, on one loop
  Workers,          \* threads of runs, each with a loop of its own
  Windows,          \* clients that proofread the file
  MaxEvents,        \* bound: calls, changes of the file by others, writes that raise, restarts
  None

ASSUME FilesAssumption ==
  /\ Home \in Roots /\ Target \in Dirs /\ Roots \cap Dirs = {}
  /\ Handlers \cap Workers = {}
  /\ None \notin Roots \cup Dirs \cup Notes \cup Windows \cup Handlers \cup Workers
  /\ MaxEvents \in Nat

Files    == Roots \cup Dirs
Calls    == Handlers \cup Workers
Statuses == {"todo", "done"}

VARIABLES
  source,    \* the project's row: its source folder
  side,      \* folder -> its sidecar: Missing, Torn, or what it holds
  text,      \* revision of the file that is proofread
  call,      \* call -> what it does, where it stands, what it has read
  doc,       \* window -> the text it shows, and the revision it will name
  (* History. *)
  asked,     \* what users and runs asked for, one call after the other
  left,      \* files that were out of the project's sight since their status was set
  crowded,   \* two calls used a sidecar at once
  cut,       \* a call that used it failed or was cut off
  stale,     \* a board was saved that others had changed since it was shown
  raced,     \* calls between whose check and write the file was written
  misled,    \* windows between whose write and answer the file was written
  revisions, events

project == <<source, side>>
proof   == <<text, doc, raced, misled, revisions>>
history == <<asked, left, crowded, cut, stale>>
vars    == <<project, proof, call, history, events>>

-----------------------------------------------------------------------------
Missing == [state |-> "missing"]
Torn    == [state |-> "torn"]
Tasks   == [Files -> Statuses \cup {"absent"}]
NoTasks == [f \in Files |-> "absent"]

(* What a sidecar that cannot be read counts as, and what a new one holds. *)
Blank   == [state |-> "whole", config |-> FALSE, dirs |-> {}, columns |-> FALSE, tasks |-> NoTasks,
            notes |-> {}]
Default == [Blank EXCEPT !.config = TRUE, !.columns = TRUE]

Read(r) == IF side[r].state = "whole" THEN side[r] ELSE Blank

(* The files found on disk for a source folder and a sidecar, with the     *)
(* status the sidecar knows of each.                                       *)
Visible(r, dirs) == {r} \cup dirs
Preview(r, s) ==
  [f \in Files |-> IF f \notin Visible(r, s.dirs) THEN "absent"
                   ELSE IF s.tasks[f] = "absent" THEN "todo" ELSE s.tasks[f]]

Idle == [op |-> "none", arg |-> None, status |-> "todo", pc |-> "idle", root |-> None, own |-> 0,
         old |-> Blank, tasks |-> NoTasks, shown |-> NoTasks, data |-> Blank,
         todo |-> <<>>, after |-> "end"]

(* A new project, or one that has been translated; the other folders may   *)
(* have been a project's before.                                           *)
Init ==
  /\ source = Home
  /\ \E D \in {{}, {Target}}, other \in {Missing, Default} :
       /\ side = [r \in Roots |-> IF r = Home THEN [Default EXCEPT !.dirs = D] ELSE other]
       /\ asked = [dirs |-> D, notes |-> {}, tasks |-> [f \in Files |-> "todo"]]
  /\ text = 0 /\ revisions = 0
  /\ call = [c \in Calls |-> Idle]
  /\ doc = [w \in Windows |-> [shown |-> 0, base |-> 0]]
  /\ left = {} /\ crowded = FALSE /\ cut = FALSE /\ stale = FALSE
  /\ raced = {} /\ misled = {}
  /\ events = 0

-----------------------------------------------------------------------------
(* Loops.  At an await a call has given its loop away.                     *)
Awaits == {"idle", "project", "lookup", "search", "again", "rows", "noted"}
SameLoop(c, d) == c = d \/ (c \in Handlers /\ d \in Handlers)
Turn(c) == \A d \in Calls : SameLoop(c, d) /\ c # d => call[d].pc \in Awaits
At(c, pc) == call[c].pc = pc /\ Turn(c)

(* A call that has nothing in hand of the project's row or sidecar.        *)
Apart == {"idle", "project", "lookup", "search", "write", "answer"}
Using(cs) == {c \in Calls : cs[c].pc \notin Apart}

Happens == events < MaxEvents /\ events' = events + 1

Step(c, record) ==
  /\ call' = [call EXCEPT ![c] = record]
  /\ crowded' = (crowded \/ \E a, b \in Using(call') : a # b)

Begin(c, op, arg, status, pc) ==
  /\ call[c].pc = "idle" /\ Happens
  /\ Step(c, [Idle EXCEPT !.op = op, !.arg = arg, !.status = status, !.pc = pc])
  /\ UNCHANGED <<project, proof, asked, left, cut, stale>>

(* update_file_status_with_kanban_sync: a handler, or a worker that has    *)
(* finished a source file.                                                 *)
SetStatus(c) ==
  \E f \in Files, s \in Statuses :
    (c \in Workers => f \in Roots /\ s = "done") /\ Begin(c, "status", f, s, "project")

AddDir(c)    == \E d \in Dirs : Begin(c, "add", d, "todo", "project")
RemoveDir(c) == c \in Handlers /\ \E d \in Dirs : Begin(c, "remove", d, "todo", "project")
NoteDown(c)  == c \in Handlers /\ \E n \in Notes, op \in {"note", "unnote"} :
                                    Begin(c, op, n, "todo", "project")
Mend(c)      == c \in Handlers /\ Begin(c, "mend", None, "todo", "project")
MoveTo(c)    == c \in Handlers /\ \E r \in Roots : Begin(c, "move", r, "todo", "project")
Promote(c)   == c \in Workers /\ \E r \in Roots : Begin(c, "promote", r, "todo", "project")

(* A window has one request under way.                                     *)
Saving(w) == {c \in Calls : call[c].op = "proofread" /\ call[c].arg = w}

Proofread(c) ==
  c \in Handlers /\ \E w \in Windows : Saving(w) = {} /\ Begin(c, "proofread", w, "done", "lookup")

(* The board is shown, one file is moved on it, and all of it is posted    *)
(* whenever the user is ready: what is sent says nothing of its age.       *)
SaveBoard(c) ==
  LET shown == Preview(source, Read(source)) IN
  \E f \in Files, s \in Statuses :
    /\ c \in Handlers /\ shown[f] \notin {"absent", s}
    /\ call[c].pc = "idle" /\ Happens
    /\ Step(c, [Idle EXCEPT !.op = "board", !.arg = f, !.status = s, !.pc = "project",
                            !.tasks = [shown EXCEPT ![f] = s], !.shown = shown])
    /\ UNCHANGED <<project, proof, asked, left, cut, stale>>

-----------------------------------------------------------------------------
(* The sidecar.                                                            *)
Edit(part, value) == [part |-> part, value |-> value]

Apply(e, s) ==
  CASE e.part = "dirs"   -> [s EXCEPT !.dirs = e.value, !.config = TRUE]
    [] e.part = "none"   -> [s EXCEPT !.config = TRUE]
    [] e.part = "tasks"  -> [s EXCEPT !.tasks = e.value, !.columns = TRUE]
    [] e.part = "note"   -> [s EXCEPT !.notes = @ \cup {e.value}]
    [] e.part = "unnote" -> [s EXCEPT !.notes = @ \ {e.value}]

Keeps == UNCHANGED <<source, proof, asked, left, cut, stale, events>>

(* The call with edits to make, or at the step after them.                 *)
Then(c, pc)       == [call[c] EXCEPT !.pc = pc]
Save(c, es, next) == [call[c] EXCEPT !.pc = "load", !.todo = es, !.after = next]

(* The row is read, and the call goes on without giving its loop away.     *)
FindProject(c) ==
  /\ At(c, "project")
  /\ LET q == [call[c] EXCEPT !.root = source]
         one(e, pc) == [q EXCEPT !.pc = pc, !.todo = <<e>>]
     IN Step(c, CASE q.op \in {"status", "proofread"}               -> [q EXCEPT !.pc = "discover"]
                  [] q.op \in {"add", "remove", "mend", "promote"}  -> [q EXCEPT !.pc = "config"]
                  [] q.op = "move"                                  -> [q EXCEPT !.pc = "copy"]
                  [] q.op = "board"                  -> one(Edit("tasks", q.tasks), "load")
                  [] q.op = "unnote"                 -> one(Edit("unnote", q.arg), "load")
                  [] OTHER (* note *)                -> one(Edit("note", q.arg), "noted"))
  /\ side' = side /\ Keeps

(* A new note is first summed up in the project's row.                     *)
NoteRow(c) ==
  /\ At(c, "noted")
  /\ Step(c, Then(c, "load"))
  /\ side' = side /\ Keeps

FileOf(q) == IF q.op = "proofread" THEN Target ELSE q.arg

(* A status: all files found are put on the board, the others leave it.    *)
Discover(c) ==
  /\ At(c, "discover")
  /\ LET q == call[c]
         tasks == Preview(q.root, Read(q.root))
     IN Step(c, IF tasks[FileOf(q)] \in {"absent", q.status} THEN Then(c, "end")
                ELSE Save(c, <<Edit("tasks", [tasks EXCEPT ![FileOf(q)] = q.status])>>, "end"))
  /\ side' = side /\ Keeps

(* ProjectJsonManager makes a sidecar where there is none.                 *)
Ensure(r) == side' = IF side[r] = Missing THEN [side EXCEPT ![r] = Default] ELSE side

ReadConfig(c) ==
  /\ At(c, "config")
  /\ LET q == call[c]
         dirs == Read(q.root).dirs
         unchanged == q.op = "promote" /\ q.arg = q.root
     IN /\ IF unchanged THEN side' = side ELSE Ensure(q.root)
        /\ Step(c, CASE q.op = "add" /\ q.arg \notin dirs   ->
                          Save(c, <<Edit("dirs", dirs \cup {q.arg})>>, "end")
                     [] q.op = "remove" /\ q.arg \in dirs  ->
                          Save(c, <<Edit("dirs", dirs \ {q.arg})>>, "end")
                     [] q.op = "mend"                      -> Save(c, <<Edit("dirs", dirs)>>, "board")
                     [] q.op = "promote" /\ ~unchanged     ->
                          [q EXCEPT !.old = Read(q.root), !.pc = "board"]
                     [] OTHER                              -> Then(c, "end"))
  /\ Keeps

(* get_kanban_data, which makes the columns anew if they are not there.    *)
ReadBoard(c) ==
  /\ At(c, "board")
  /\ LET q == call[c]
         s == Read(q.root)
         next == IF q.op = "promote" THEN "again" ELSE "end"
         kept == [q EXCEPT !.old.tasks = s.tasks, !.pc = next]
     IN Step(c, IF s.columns THEN kept
                ELSE [kept EXCEPT !.pc = "load", !.todo = <<Edit("tasks", s.tasks)>>, !.after = next])
  /\ side' = side /\ Keeps

(* Each save reads the file anew.  No note is taken from one without any.   *)
Load(c) ==
  /\ At(c, "load")
  /\ LET q == call[c]
         s == IF side[q.root] = Missing THEN Default ELSE Read(q.root)
     IN /\ Ensure(q.root)
        /\ Step(c, IF q.op = "unnote" /\ s.notes = {} THEN Then(c, q.after)
                   ELSE [q EXCEPT !.data = s, !.pc = "open"])
        /\ stale' = (stale \/ (q.op = "board" /\ Preview(q.root, s) # q.shown))
  /\ UNCHANGED <<source, proof, asked, left, cut, events>>

Open(c) ==
  /\ At(c, "open")
  /\ side' = [side EXCEPT ![call[c].root] = Torn]
  /\ Step(c, Then(c, "fill"))
  /\ Keeps

(* Written over what another call has written since both opened the file,  *)
(* it may be a mixture of both.                                            *)
Fill(c) ==
  /\ At(c, "fill")
  /\ LET q == call[c]
         s == Apply(Head(q.todo), q.data)
     IN /\ \E whole \in {s} \cup (IF side[q.root] = Torn THEN {} ELSE {Torn}) :
             side' = [side EXCEPT ![q.root] = whole]
        /\ Step(c, IF Len(q.todo) = 1 THEN [q EXCEPT !.todo = <<>>, !.pc = q.after]
                   ELSE [q EXCEPT !.todo = Tail(@), !.pc = "load"])
  /\ Keeps

(* The file cannot be opened, or what is written raises.  For a status the *)
(* error is logged.                                                        *)
FillFails(c) ==
  /\ (At(c, "open") \/ At(c, "fill")) /\ Happens
  /\ Step(c, IF call[c].op = "proofread" THEN Then(c, "end") ELSE Idle)
  /\ cut' = TRUE
  /\ UNCHANGED <<project, proof, asked, left, stale>>

(* update_source_path: the sidecar goes along unless the folder has one.   *)
AskAgain(c) ==
  /\ At(c, "again")
  /\ Step(c, [Then(c, "copy") EXCEPT !.root = source])
  /\ side' = side /\ Keeps

CarryBoard(c) == \* mutant: the translation folders are not carried
  [Save(c, <<Edit("tasks", call[c].old.tasks)>>, "end") EXCEPT !.root = call[c].arg]

(* promote_incremental_source carries the old configuration and board over *)
(* what the new folder's sidecar holds; notes are not carried.             *)
Carry(c) ==
  [Save(c, << IF call[c].old.config THEN Edit("dirs", call[c].old.dirs) ELSE Edit("none", None),
              Edit("tasks", call[c].old.tasks) >>, "end") EXCEPT !.root = call[c].arg]

Copy(c) ==
  /\ At(c, "copy")
  /\ LET q == call[c]
         own == side[q.arg] # Missing
     IN \/ /\ q.arg = q.root
           /\ Step(c, IF q.op = "move" THEN Then(c, "end") ELSE Carry(c))
           /\ UNCHANGED <<side, cut, events>>
        \/ /\ q.arg # q.root
           /\ side' = IF own THEN side ELSE [side EXCEPT ![q.arg] = side[q.root]]
           /\ Step(c, [q EXCEPT !.pc = "rows", !.after = IF own THEN "own" ELSE "copied"])
           /\ UNCHANGED <<cut, events>>
        \/ /\ q.arg # q.root /\ ~own /\ side[q.root] # Missing
           /\ Happens
           /\ cut' = TRUE /\ side' = side
           /\ Step(c, [q EXCEPT !.pc = "rows", !.after = "copied"])
  /\ UNCHANGED <<source, proof, asked, left, stale>>

Taken(s, r) == [dirs |-> s.dirs, notes |-> s.notes,
                tasks |-> [f \in Files |-> IF s.tasks[f] = "absent" THEN "todo" ELSE s.tasks[f]]]

SetSource(c) ==
  /\ At(c, "rows")
  /\ LET q == call[c]
         s == Read(q.arg)
     IN /\ source' = q.arg
        /\ asked' = IF q.after # "own" THEN asked
                    ELSE IF q.op = "move" THEN Taken(s, q.arg) ELSE [asked EXCEPT !.notes = s.notes]
        /\ left' = IF q.op = "move" /\ q.after = "own" THEN Files \ Visible(q.arg, s.dirs)
                   ELSE left \cup Roots
        /\ Step(c, IF q.op = "move" THEN Then(c, "end") ELSE Carry(c))
  /\ UNCHANGED <<side, proof, cut, stale, events>>

(* What was asked for is now what the project should hold.  A status asked *)
(* of a file that the project does not see is no more than a warning.      *)
End(c) ==
  /\ At(c, "end")
  /\ LET q == call[c]
         f == FileOf(q)
         set == q.op \in {"status", "board", "proofread"} /\ f \in Visible(source, asked.dirs)
     IN /\ asked' = CASE set              -> [asked EXCEPT !.tasks[f] = q.status]
                      [] q.op = "add"     -> [asked EXCEPT !.dirs = @ \cup {q.arg}]
                      [] q.op = "remove"  -> [asked EXCEPT !.dirs = @ \ {q.arg}]
                      [] q.op = "note"    -> [asked EXCEPT !.notes = @ \cup {q.arg}]
                      [] q.op = "unnote"  -> [asked EXCEPT !.notes = @ \ {q.arg}]
                      [] OTHER            -> asked
        /\ left' = IF set THEN left \ {f} ELSE left \cup (asked.dirs \ asked'.dirs)
        /\ Step(c, IF q.op = "proofread" THEN Then(c, "answer") ELSE Idle)
  /\ UNCHANGED <<project, proof, cut, stale, events>>

-----------------------------------------------------------------------------
(* Proofreading.                                                           *)
Front      == {"lookup", "search", "write"}
Past(w)    == \E c \in Saving(w) : call[c].pc \notin Front
Checked(c) == call[c].op = "proofread" /\ call[c].pc \in {"search", "write"}

(* The file is written by something else than the call given.              *)
Rewritten(but) ==
  /\ revisions' = revisions + 1
  /\ text' = revisions'
  /\ raced' = (raced \ {but}) \cup {c \in Calls \ {but} : Checked(c)}

Rest == UNCHANGED <<project, history>>

(* The file is read, and then its revision, which the window will name.    *)
ShowText(w) ==
  /\ Saving(w) = {} /\ doc[w] # [shown |-> text, base |-> text]
  /\ doc' = [doc EXCEPT ![w] = [shown |-> text, base |-> text]]
  /\ misled' = misled \ {w}
  /\ UNCHANGED <<text, raced, revisions, call, events>> /\ Rest

EditFile ==
  /\ Happens
  /\ Rewritten(None)
  /\ \/ /\ doc' = doc
        /\ misled' = misled \cup {w \in Windows : Past(w)}
     \/ \E w \in Windows :                \* between the text that is read and its revision
          /\ Saving(w) = {}
          /\ doc' = [doc EXCEPT ![w] = [shown |-> text, base |-> text']]
          /\ misled' = misled \cup {w} \cup {v \in Windows : Past(v)}
  /\ UNCHANGED call /\ Rest

CheckFile(c) == \* mutant: the revision is not compared
  /\ At(c, "lookup")
  /\ \E next \in IF Target \in Read(source).dirs THEN {Then(c, "write"), Then(c, "search")}
                  ELSE {Idle} : Step(c, next)
  /\ UNCHANGED <<text, doc, misled, raced, revisions, events>> /\ Rest

(* The file is found and its revision compared.  Then the source's file is *)
(* found by its path, or the project's files are searched, at an await.    *)
Check(c) ==
  /\ At(c, "lookup")
  /\ \E next \in IF Target \in Read(source).dirs /\ doc[call[c].arg].base = text
                  THEN {Then(c, "write"), Then(c, "search")} ELSE {Idle} : Step(c, next)
  /\ UNCHANGED <<text, doc, misled, raced, revisions, events>> /\ Rest

Search(c) ==
  /\ At(c, "search")
  /\ Step(c, Then(c, "write"))
  /\ UNCHANGED <<text, doc, misled, raced, revisions, events>> /\ Rest

Write(c) ==
  /\ At(c, "write")
  /\ Rewritten(c)
  /\ Step(c, [Then(c, "project") EXCEPT !.own = text'])
  /\ misled' = (misled \ {call[c].arg}) \cup {w \in Windows \ {call[c].arg} : Past(w)}
  /\ UNCHANGED <<doc, events>> /\ Rest

(* The answer names the revision that the file has by now.                 *)
Answer(c) ==
  /\ At(c, "answer")
  /\ doc' = [doc EXCEPT ![call[c].arg] = [shown |-> call[c].own, base |-> text]]
  /\ Step(c, Idle)
  /\ UNCHANGED <<text, misled, raced, revisions, events>> /\ Rest

(* The write raises, or what follows it: the window hears of no revision.  *)
SaveFails(c) ==
  /\ call[c].op = "proofread" /\ (At(c, "write") \/ At(c, "project"))
  /\ Happens
  /\ Step(c, Idle)
  /\ raced' = raced \ {c}
  /\ UNCHANGED <<text, doc, misled, revisions>> /\ Rest

Crash ==
  /\ Happens
  /\ \E c \in Calls : call[c].pc # "idle"
  /\ call' = [c \in Calls |-> Idle]
  /\ cut' = (cut \/ Using(call) # {})
  /\ raced' = {}
  /\ UNCHANGED <<project, text, doc, misled, revisions, asked, left, crowded, stale>>

-----------------------------------------------------------------------------
Sidecar(c) ==
  \/ FindProject(c) \/ NoteRow(c) \/ Discover(c) \/ ReadConfig(c) \/ ReadBoard(c)
  \/ Load(c) \/ Open(c) \/ Fill(c) \/ FillFails(c)
  \/ AskAgain(c) \/ Copy(c) \/ SetSource(c) \/ End(c)

Request(c) ==
  \/ SetStatus(c) \/ AddDir(c) \/ RemoveDir(c) \/ NoteDown(c) \/ Mend(c)
  \/ MoveTo(c) \/ Promote(c) \/ Proofread(c) \/ SaveBoard(c)

Next ==
  \/ \E c \in Calls : Request(c) \/ Sidecar(c) \/ Check(c) \/ Search(c) \/ Write(c)
                       \/ Answer(c) \/ SaveFails(c)
  \/ \E w \in Windows : ShowText(w)
  \/ EditFile
  \/ Crash

Spec == Init /\ [][Next]_vars

-----------------------------------------------------------------------------
(***************************************************************************)
(* Properties.                                                             *)
(***************************************************************************)

(* At rest the project's sidecar holds what users and runs have asked for, *)
(* over every move of the source folder and every way a write makes the    *)
(* whole file anew: the folders, the notes, and the status of each file    *)
(* that the project has seen since its status was set.  The exceptions are *)
(* named: two calls used a sidecar at once, one was cut off while it did,  *)
(* or a board was saved that others had changed since it was shown.        *)
AskedIsKept ==
  (\A c \in Calls : call[c].pc = "idle") /\ ~crowded /\ ~cut /\ ~stale =>
    LET s == side[source] IN
      /\ s.state = "whole" /\ s.dirs = asked.dirs /\ s.notes = asked.notes
      /\ \A f \in Visible(source, asked.dirs) \ left : Preview(source, s)[f] = asked.tasks[f]

(* A save of a proofread file replaces the very text that its window       *)
(* shows, whatever other windows, runs and editors have written: the       *)
(* exceptions are a write that falls between the save's check of the       *)
(* revision and its own write, or between a text and the revision that is  *)
(* handed out with it.                                                     *)
NoBlindOverwrite ==
  [][\A c \in Calls : call[c].pc = "write" /\ call'[c].pc = "project" =>
       \/ text = doc[call[c].arg].shown
       \/ c \in raced \/ call[c].arg \in misled]_vars
=============================================================================
