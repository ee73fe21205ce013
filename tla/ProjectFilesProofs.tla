------------------------- MODULE ProjectFilesProofs --------------------------
(***************************************************************************)
(* What the proofreading of ProjectFiles guarantees for any number of      *)
(* windows, calls, folders and events.  A save between its check and its   *)
(* write holds the revision its window names, unless it is raced           *)
(* (Held); a save after its write is the file's last, unless its window is *)
(* misled (Last); and a window that names the file's revision shows the    *)
(* file, unless it is misled (Shows).  The last holds through a save that  *)
(* fails after its write, because a revision never comes back.             *)
(*                                                                         *)
(* And what its sidecar guarantees.  That it holds at rest what was asked  *)
(* for is far from inductive: a call that has it in hand reads it, tears   *)
(* it and fills it in several steps, from what it read before, and a file  *)
(* that nobody sees loses its place on the board and must be due to have   *)
(* it back as it was.                                                      *)
(***************************************************************************)
EXTENDS ProjectFiles, TLAPS

Fields == DOMAIN Idle
Proofs == Front \cup {"answer"}       \* where only the save of a window can be

(* A call: its record, and that only a save of a window proofreads.        *)
CallOf(c) ==
  /\ DOMAIN call[c] = Fields
  /\ call[c].after \notin Proofs
  /\ call[c].pc \in Proofs => call[c].op = "proofread"
  /\ call[c].op = "proofread" => call[c].arg \in Windows

Shape ==
  /\ DOMAIN call = Calls /\ DOMAIN doc = Windows
  /\ \A c \in Calls : CallOf(c)
  /\ \A c, d \in Calls : call[c].op = "proofread" /\ call[d].op = "proofread"
                           /\ call[c].arg = call[d].arg => c = d

Revisions ==
  /\ revisions \in Nat /\ text \in Nat /\ text <= revisions
  /\ \A w \in Windows : doc[w].base \in Nat /\ doc[w].base <= revisions

Held  == \A c \in Calls : Checked(c) => c \in raced \/ doc[call[c].arg].base = text
Last  == \A c \in Calls : call[c].op = "proofread" /\ call[c].pc \notin Front
                            => call[c].own = text \/ call[c].arg \in misled
Shows == \A w \in Windows : doc[w].base = text => doc[w].shown = text \/ w \in misled

IInv == Shape /\ Revisions /\ Held /\ Last /\ Shows

-----------------------------------------------------------------------------
LEMMA IdleFields ==
  /\ Fields = {"op", "arg", "status", "pc", "root", "own", "old", "tasks", "shown", "data",
               "todo", "after"}
  /\ Idle.op = "none" /\ Idle.pc = "idle" /\ Idle.after = "end"
BY DEF Fields, Idle

LEMMA InitInv == Init => IInv
<1> SUFFICES ASSUME Init PROVE IInv
  OBVIOUS
<1> USE IdleFields
<1>1. Shape
  BY DEF Init, Shape, CallOf, Front, Proofs, Fields
<1>2. Revisions
  BY DEF Init, Revisions
<1>3. Held /\ Last
  BY DEF Init, Held, Last, Checked
<1>4. Shows
  BY DEF Init, Shows
<1> QED
  BY <1>1, <1>2, <1>3, <1>4 DEF IInv

(* A step of one call that leaves the file, the windows and its place in   *)
(* a save alone.                                                           *)
Like(r, q) ==
  /\ DOMAIN r = Fields /\ r.after \notin Proofs
  /\ r.pc = "answer" => r.op = "proofread"
  /\ \/ r.op # "proofread" /\ r.pc \notin Front
     \/ /\ r.op = q.op /\ r.arg = q.arg /\ r.own = q.own
        /\ q.pc \notin Front /\ r.pc \notin Front

LEMMA QuietStep ==
  ASSUME IInv, UNCHANGED proof, NEW c \in Calls, NEW r,
         call' = [call EXCEPT ![c] = r], Like(r, call[c])
  PROVE  IInv'
<1> USE DEF IInv, proof
<1>1. /\ call'[c] = r /\ DOMAIN call' = Calls
      /\ \A d \in Calls \ {c} : call'[d] = call[d]
  BY DEF Shape
<1>2. \A d \in Calls : CallOf(d)'
  BY <1>1 DEF Shape, CallOf, Like, Proofs
<1>3. Shape'
  BY <1>1, <1>2 DEF Shape, Like, CallOf, Proofs
<1>4. Revisions' /\ Shows'
  BY DEF Revisions, Shows
<1>5. Held'
  BY <1>1 DEF Held, Checked, Like, Front, Proofs
<1>6. Last'
  BY <1>1 DEF Last, Like, Front, Proofs
<1> QED
  BY <1>3, <1>4, <1>5, <1>6

-----------------------------------------------------------------------------
(* Each way a request begins: an idle call takes a record of its own.      *)
LEMMA RequestStep ==
  ASSUME IInv, NEW c \in Calls, Request(c)
  PROVE  IInv'
<1> USE IdleFields
<1>1. ASSUME NEW op, NEW arg, NEW status, Begin(c, op, arg, status, "project"), op # "proofread"
      PROVE  IInv'
  <2> DEFINE r == [Idle EXCEPT !.op = op, !.arg = arg, !.status = status, !.pc = "project"]
  <2>1. Like(r, call[c])
    <3>1. DOMAIN r = Fields /\ r.op = op /\ r.pc = "project" /\ r.after = "end"
      BY DEF Fields
    <3> QED
      BY <1>1, <3>1 DEF Like, Front, Proofs
  <2>2. UNCHANGED proof /\ call' = [call EXCEPT ![c] = r]
    BY <1>1 DEF Begin, Step
  <2> HIDE DEF r
  <2> QED
    BY <2>1, <2>2, QuietStep
<1>2. CASE SaveBoard(c)
  <2>1. PICK f \in Files, s \in Statuses :
          LET shown == Preview(source, Read(source))
          IN  call' = [call EXCEPT ![c] =
                [Idle EXCEPT !.op = "board", !.arg = f, !.status = s, !.pc = "project",
                             !.tasks = [shown EXCEPT ![f] = s], !.shown = shown]]
    BY <1>2 DEF SaveBoard, Step
  <2> DEFINE r == call'[c]
  <2>2. Like(r, call[c]) /\ call' = [call EXCEPT ![c] = r]
    BY <2>1 DEF IInv, Shape, Like, Fields, Front, Proofs
  <2>3. UNCHANGED proof
    BY <1>2 DEF SaveBoard
  <2> HIDE DEF r
  <2> QED
    BY <2>2, <2>3, QuietStep
<1>3. CASE Proofread(c)
  <2>1. PICK w \in Windows : Saving(w) = {} /\ Begin(c, "proofread", w, "done", "lookup")
    BY <1>3 DEF Proofread
  <2> DEFINE r == [Idle EXCEPT !.op = "proofread", !.arg = w, !.status = "done", !.pc = "lookup"]
  <2>2. DOMAIN r = Fields /\ r.op = "proofread" /\ r.arg = w /\ r.pc = "lookup" /\ r.after = "end"
    BY DEF Fields
  <2>3. UNCHANGED proof /\ call' = [call EXCEPT ![c] = r]
    BY <2>1 DEF Begin, Step
  <2> HIDE DEF r
  <2>4. call'[c] = r /\ DOMAIN call' = Calls /\ \A d \in Calls \ {c} : call'[d] = call[d]
    BY <2>3 DEF IInv, Shape
  <2>5. Shape'
    BY <2>1, <2>2, <2>3, <2>4 DEF IInv, Shape, CallOf, Front, Proofs, Saving, proof
  <2>6. Revisions' /\ Shows'
    BY <2>3 DEF IInv, Revisions, Shows, proof
  <2>7. Held' /\ Last'
    BY <2>2, <2>3, <2>4 DEF IInv, Held, Last, Checked, Front, Proofs, proof
  <2> QED
    BY <2>5, <2>6, <2>7 DEF IInv
<1>4. CASE SetStatus(c)
  BY <1>1, <1>4 DEF SetStatus
<1>5. CASE AddDir(c) \/ RemoveDir(c)
  BY <1>1, <1>5 DEF AddDir, RemoveDir
<1>6. CASE NoteDown(c)
  BY <1>1, <1>6 DEF NoteDown
<1>7. CASE Mend(c) \/ MoveTo(c) \/ Promote(c)
  BY <1>1, <1>7 DEF Mend, MoveTo, Promote
<1> QED
  BY <1>2, <1>3, <1>4, <1>5, <1>6, <1>7 DEF Request

-----------------------------------------------------------------------------
(* A record of the same call, further on and behind its save's write.      *)
Onward(r, q) ==
  /\ DOMAIN r = Fields /\ r.after \notin Proofs /\ r.pc \notin Front
  /\ r.pc = "answer" => r.op = "proofread"
  /\ r.op = q.op /\ r.arg = q.arg /\ r.own = q.own

LEMMA OnwardStep ==
  ASSUME IInv, UNCHANGED proof, NEW c \in Calls, call[c].pc \notin Front, NEW r,
         Step(c, r), r = Idle \/ Onward(r, call[c])
  PROVE  IInv'
BY QuietStep, IdleFields DEF Step, Onward, Like, Front, Proofs, Fields

(* The records that the sidecar's actions make.                            *)
LEMMA ThenOnward ==
  ASSUME IInv, NEW c \in Calls, NEW pc, pc \notin Front,
         pc = "answer" => call[c].op = "proofread"
  PROVE  Onward(Then(c, pc), call[c])
BY IdleFields DEF Onward, Then, IInv, Shape, CallOf, Proofs

LEMMA SaveOnward ==
  ASSUME IInv, NEW c \in Calls, NEW es, NEW next, next \notin Proofs
  PROVE  /\ Onward(Save(c, es, next), call[c])
         /\ \A r : Onward([Save(c, es, next) EXCEPT !.root = r], call[c])
BY IdleFields DEF Onward, Save, IInv, Shape, CallOf, Front, Proofs

LEMMA CarryOnward ==
  ASSUME IInv, NEW c \in Calls
  PROVE  Onward(Carry(c), call[c])
BY SaveOnward DEF Carry, Front, Proofs

LEMMA SidecarStep ==
  ASSUME IInv, NEW c \in Calls, Sidecar(c)
  PROVE  IInv'
<1> DEFINE q == call[c]
<1>0. DOMAIN q = Fields /\ q.after \notin Proofs
  BY DEF IInv, Shape, CallOf, Proofs
<1> USE DEF Keeps, At, proof
<1>1. CASE FindProject(c)
  <2> DEFINE p == [q EXCEPT !.root = source]
  <2>1. \A pc, es : pc \notin Proofs =>
          Onward([p EXCEPT !.pc = pc], q) /\ Onward([p EXCEPT !.pc = pc, !.todo = es], q)
    BY <1>0, IdleFields DEF Onward, Front, Proofs
  <2> DEFINE found(s) == Step(c, s) /\ Onward(s, q)
  <2>2. CASE p.op \in {"status", "proofread"}
    <3>1. found([p EXCEPT !.pc = "discover"])
      BY <1>1, <2>1, <2>2 DEF FindProject, Front, Proofs
    <3> QED
      BY <1>1, <3>1, OnwardStep DEF FindProject, Front, Proofs
  <2>3. CASE p.op \in {"add", "remove", "mend", "promote"}
    <3>1. found([p EXCEPT !.pc = "config"])
      BY <1>1, <2>1, <2>3 DEF FindProject, Front, Proofs
    <3> QED
      BY <1>1, <3>1, OnwardStep DEF FindProject, Front, Proofs
  <2>4. CASE p.op = "move"
    <3>1. found([p EXCEPT !.pc = "copy"])
      BY <1>1, <2>1, <2>4 DEF FindProject, Front, Proofs
    <3> QED
      BY <1>1, <3>1, OnwardStep DEF FindProject, Front, Proofs
  <2>5. CASE p.op \in {"board", "unnote"}
    <3>1. PICK es : found([p EXCEPT !.pc = "load", !.todo = es])
      BY <1>1, <2>1, <2>5 DEF FindProject, Front, Proofs
    <3> QED
      BY <1>1, <3>1, OnwardStep DEF FindProject, Front, Proofs
  <2>6. CASE p.op \notin {"status", "proofread", "add", "remove", "mend", "promote", "move",
                         "board", "unnote"}
    <3>1. PICK es : found([p EXCEPT !.pc = "noted", !.todo = es])
      BY <1>1, <2>1, <2>6 DEF FindProject, Front, Proofs
    <3> QED
      BY <1>1, <3>1, OnwardStep DEF FindProject, Front, Proofs
  <2> QED
    BY <2>2, <2>3, <2>4, <2>5, <2>6
<1>2. CASE NoteRow(c)
  BY <1>2, ThenOnward, OnwardStep DEF NoteRow, Front, Proofs
<1>3. CASE Discover(c)
  BY <1>3, ThenOnward, SaveOnward, OnwardStep DEF Discover, Front, Proofs
<1>4. CASE ReadConfig(c)
  <2> DEFINE carried == [q EXCEPT !.old = Read(q.root), !.pc = "board"]
             unchanged == q.op = "promote" /\ q.arg = q.root
  <2>0. UNCHANGED proof /\ q.pc \notin Front
    BY <1>4 DEF ReadConfig, Front, Proofs
  <2>1. Onward(carried, q)
    BY <1>0, IdleFields DEF Onward, Front, Proofs
  <2>2. \/ Step(c, carried)
        \/ Step(c, Then(c, "end"))
        \/ \E es : Step(c, Save(c, es, "end")) \/ Step(c, Save(c, es, "board"))
    BY <1>4 DEF ReadConfig
  <2> QED
    BY <2>0, <2>1, <2>2, ThenOnward, SaveOnward, OnwardStep DEF Front, Proofs
<1>5. CASE ReadBoard(c)
  BY <1>5, <1>0, OnwardStep, IdleFields DEF ReadBoard, Front, Proofs, Onward
<1>6. CASE Load(c)
  <2>0. UNCHANGED proof /\ q.pc \notin Front
    BY <1>6 DEF Load, Front, Proofs
  <2>1. \A s : Onward([q EXCEPT !.data = s, !.pc = "open"], q)
    BY <1>0, IdleFields DEF Onward, Front, Proofs
  <2>2. Step(c, Then(c, q.after)) \/ \E s : Step(c, [q EXCEPT !.data = s, !.pc = "open"])
    BY <1>6 DEF Load
  <2> QED
    BY <1>0, <2>0, <2>1, <2>2, ThenOnward, OnwardStep DEF Front, Proofs
<1>7. CASE Open(c)
  BY <1>7, ThenOnward, OnwardStep DEF Open, Front, Proofs
<1>8. CASE Fill(c)
  BY <1>8, <1>0, OnwardStep, IdleFields DEF Fill, Front, Proofs, Onward
<1>9. CASE FillFails(c)
  BY <1>9, ThenOnward, OnwardStep DEF FillFails, Front, Proofs
<1>10. CASE AskAgain(c)
  BY <1>10, <1>0, OnwardStep, IdleFields DEF AskAgain, Then, Front, Proofs, Onward
<1>11. CASE Copy(c)
  <2>0. UNCHANGED proof /\ q.pc \notin Front
    BY <1>11 DEF Copy, Front, Proofs
  <2>1. \A next : next \notin Proofs => Onward([q EXCEPT !.pc = "rows", !.after = next], q)
    BY <1>0, IdleFields DEF Onward, Front, Proofs
  <2>2. \/ Step(c, Then(c, "end")) \/ Step(c, Carry(c))
        \/ \E next \in {"own", "copied"} : Step(c, [q EXCEPT !.pc = "rows", !.after = next])
    BY <1>11 DEF Copy
  <2> QED
    BY <2>0, <2>1, <2>2, ThenOnward, CarryOnward, OnwardStep DEF Front, Proofs
<1>12. CASE SetSource(c)
  BY <1>12, ThenOnward, CarryOnward, OnwardStep DEF SetSource, Front, Proofs
<1>13. CASE End(c)
  BY <1>13, ThenOnward, OnwardStep DEF End, Front, Proofs
<1> QED
  BY <1>1, <1>2, <1>3, <1>4, <1>5, <1>6, <1>7, <1>8, <1>9, <1>10, <1>11, <1>12, <1>13
  DEF Sidecar

-----------------------------------------------------------------------------
(* A new revision is nobody's, so that it cannot be named by mistake; the  *)
(* saves and windows it concerns become raced or misled.                   *)
LEMMA ShowTextStep ==
  ASSUME IInv, NEW w \in Windows, ShowText(w)
  PROVE  IInv'
<1>1. /\ doc'[w] = [shown |-> text, base |-> text] /\ DOMAIN doc' = Windows
      /\ \A v \in Windows \ {w} : doc'[v] = doc[v]
      /\ \A c \in Calls : ~(call[c].op = "proofread" /\ call[c].arg = w)
  BY DEF ShowText, IInv, Shape, Saving
<1>2. UNCHANGED <<text, raced, revisions, call>> /\ misled' = misled \ {w}
  BY DEF ShowText
<1>3. Shape'
  BY <1>1, <1>2 DEF IInv, Shape, CallOf, Proofs
<1>4. Revisions' /\ Shows'
  BY <1>1, <1>2 DEF IInv, Revisions, Shows
<1>5. Held' /\ Last'
  BY <1>1, <1>2 DEF IInv, Shape, CallOf, Held, Last, Checked, Front, Proofs
<1> QED
  BY <1>3, <1>4, <1>5 DEF IInv

LEMMA EditFileStep ==
  ASSUME IInv, EditFile
  PROVE  IInv'
<1>1. /\ revisions' = revisions + 1 /\ text' = revisions + 1 /\ call' = call
      /\ \A c \in Calls : c # None /\ Checked(c) => c \in raced'
      /\ misled \subseteq misled'
      /\ \A v \in Windows : Past(v) => v \in misled'
  BY DEF EditFile, Rewritten
<1>2. DOMAIN doc' = Windows /\ \A v \in Windows :
        \/ doc'[v] = doc[v]
        \/ Saving(v) = {} /\ v \in misled' /\ doc'[v] = [shown |-> text, base |-> text']
  BY DEF EditFile, IInv, Shape
<1>3. Shape'
  BY <1>1, <1>2 DEF IInv, Shape, CallOf, Proofs
<1>4. Revisions'
  BY <1>1, <1>2 DEF IInv, Revisions
<1>5. Shows'
  BY <1>1, <1>2 DEF IInv, Revisions, Shows
<1>6. Held'
  BY <1>1, FilesAssumption DEF IInv, Held, Checked, Calls
<1>7. Last'
  BY <1>1 DEF IInv, Shape, CallOf, Last, Past, Saving, Proofs
<1> QED
  BY <1>3, <1>4, <1>5, <1>6, <1>7 DEF IInv

LEMMA CheckStep ==
  ASSUME IInv, NEW c \in Calls, Check(c) \/ Search(c)
  PROVE  IInv'
<1>1. UNCHANGED proof /\ call[c].pc \in Front
  BY DEF Check, Search, At, proof, Front, Proofs
<1>2. CASE Step(c, Idle)
  <2>1. Like(Idle, call[c])
    BY IdleFields DEF Like, Front, Proofs, Fields
  <2> QED
    BY <1>1, <1>2, <2>1, QuietStep DEF Step
<1>3. ASSUME NEW pc \in {"write", "search"}, Step(c, Then(c, pc)),
             Checked(c) \/ doc[call[c].arg].base = text
      PROVE  IInv'
  <2>1. /\ DOMAIN call' = Calls /\ \A d \in Calls \ {c} : call'[d] = call[d]
        /\ DOMAIN call'[c] = Fields /\ call'[c].pc = pc /\ call'[c].op = call[c].op
        /\ call'[c].arg = call[c].arg /\ call'[c].after = call[c].after
    BY <1>3, IdleFields DEF Step, Then, IInv, Shape, CallOf, Proofs
  <2>2. \A d \in Calls : CallOf(d)'
    BY <1>1, <2>1 DEF IInv, Shape, CallOf, Front, Proofs
  <2>3. Shape'
    BY <1>1, <2>1, <2>2 DEF IInv, Shape, proof
  <2>4. Revisions' /\ Shows'
    BY <1>1 DEF IInv, Revisions, Shows, proof
  <2>5. Held'
    BY <1>1, <1>3, <2>1 DEF IInv, Held, Checked, proof
  <2>6. Last'
    BY <1>1, <2>1 DEF IInv, Last, Front, Proofs, proof
  <2> QED
    BY <2>3, <2>4, <2>5, <2>6 DEF IInv
<1>4. CASE Check(c)
  BY <1>2, <1>3, <1>4 DEF Check
<1>5. CASE Search(c)
  <2>1. Checked(c)
    BY <1>5 DEF Search, At, Checked, IInv, Shape, CallOf, Front, Proofs
  <2> QED
    BY <1>3, <1>5, <2>1 DEF Search
<1> QED
  BY <1>4, <1>5

LEMMA WriteStep ==
  ASSUME IInv, NEW c \in Calls, Write(c)
  PROVE  IInv'
<1> DEFINE w == call[c].arg
<1>1. /\ call[c].pc = "write" /\ call[c].op = "proofread" /\ w \in Windows
  BY DEF Write, At, IInv, Shape, CallOf, Front, Proofs
<1>2. /\ DOMAIN call' = Calls /\ \A d \in Calls \ {c} : call'[d] = call[d]
      /\ DOMAIN call'[c] = Fields /\ call'[c].pc = "project" /\ call'[c].op = call[c].op
      /\ call'[c].arg = w /\ call'[c].after = call[c].after /\ call'[c].own = text'
  BY IdleFields DEF Write, Step, Then, IInv, Shape, CallOf, Proofs
<1>3. /\ revisions' = revisions + 1 /\ text' = revisions + 1 /\ doc' = doc
      /\ \A d \in Calls \ {c} : Checked(d) => d \in raced'
      /\ misled \ {w} \subseteq misled'
      /\ \A v \in Windows \ {w} : Past(v) => v \in misled'
  BY DEF Write, Rewritten
<1>4. \A d \in Calls : CallOf(d)'
  BY <1>1, <1>2 DEF IInv, Shape, CallOf, Front, Proofs
<1>5. Shape'
  BY <1>1, <1>2, <1>3, <1>4 DEF IInv, Shape
<1>6. Revisions' /\ Shows'
  BY <1>3 DEF IInv, Revisions, Shows
<1>7. Held'
  BY <1>2, <1>3 DEF IInv, Held, Checked
<1>8. Last'
  <2> SUFFICES ASSUME NEW d \in Calls, call'[d].op = "proofread", call'[d].pc \notin Front, d # c
               PROVE  call'[d].arg \in misled'
    BY <1>2 DEF Last, Front, Proofs
  <2>1. call[d].arg # w /\ call[d].arg \in Windows /\ Past(call[d].arg)
    BY <1>1, <1>2 DEF IInv, Shape, CallOf, Past, Saving, Proofs
  <2> QED
    BY <1>2, <1>3, <2>1
<1> QED
  BY <1>5, <1>6, <1>7, <1>8 DEF IInv

LEMMA AnswerStep ==
  ASSUME IInv, NEW c \in Calls, Answer(c), call[c].op = "proofread"
  PROVE  IInv'
<1> DEFINE w == call[c].arg
<1>1. /\ call[c].pc \notin Front /\ w \in Windows
      /\ call[c].own = text \/ w \in misled
  BY DEF Answer, At, IInv, Shape, CallOf, Front, Proofs, Last
<1>2. /\ call'[c] = Idle /\ DOMAIN call' = Calls /\ \A d \in Calls \ {c} : call'[d] = call[d]
      /\ doc'[w] = [shown |-> call[c].own, base |-> text] /\ DOMAIN doc' = Windows
      /\ \A v \in Windows \ {w} : doc'[v] = doc[v]
      /\ UNCHANGED <<text, misled, raced, revisions>>
  BY <1>1 DEF Answer, Step, IInv, Shape
<1>3. \A d \in Calls \ {c} : call[d].op = "proofread" => call[d].arg # w
  BY DEF IInv, Shape
<1>4. \A d \in Calls : CallOf(d)'
  BY <1>2, IdleFields DEF IInv, Shape, CallOf, Front, Proofs, Fields
<1>5. Shape'
  BY <1>2, <1>4, IdleFields DEF IInv, Shape
<1>6. Revisions' /\ Shows'
  BY <1>1, <1>2 DEF IInv, Revisions, Shows
<1>7. Held' /\ Last'
  BY <1>2, <1>3, IdleFields DEF IInv, Shape, CallOf, Held, Last, Checked, Front, Proofs
<1> QED
  BY <1>5, <1>6, <1>7 DEF IInv

LEMMA StopStep ==
  ASSUME IInv, (\E c \in Calls : SaveFails(c)) \/ Crash
  PROVE  IInv'
<1>1. /\ UNCHANGED <<text, doc, misled, revisions>>
      /\ DOMAIN call' = Calls /\ \A d \in Calls : call'[d] = Idle \/ call'[d] = call[d]
      /\ \A d \in Calls : call'[d] # Idle /\ d \in raced => d \in raced'
  BY DEF SaveFails, Crash, Step, IInv, Shape
<1>2. \A d \in Calls : CallOf(d)'
  BY <1>1, IdleFields DEF IInv, Shape, CallOf, Front, Proofs, Fields
<1>3. Shape'
  BY <1>1, <1>2, IdleFields DEF IInv, Shape
<1>4. Revisions' /\ Shows'
  BY <1>1 DEF IInv, Revisions, Shows
<1>5. Held' /\ Last'
  BY <1>1, IdleFields DEF IInv, Held, Last, Checked
<1> QED
  BY <1>3, <1>4, <1>5 DEF IInv

-----------------------------------------------------------------------------
(* Every reachable state has the invariant, in the file's lines and the    *)
(* windows' (Init, and every action of Next).                              *)
THEOREM Invariant == Spec => []IInv
<1>1. IInv /\ [Next]_vars => IInv'
  <2> SUFFICES ASSUME IInv, [Next]_vars PROVE IInv'
    OBVIOUS
  <2>1. ASSUME NEW c \in Calls, Request(c) \/ Sidecar(c) PROVE IInv'
    BY <2>1, RequestStep, SidecarStep
  <2>2. ASSUME NEW c \in Calls, Check(c) \/ Search(c) \/ Write(c) PROVE IInv'
    BY <2>2, CheckStep, WriteStep
  <2>3. ASSUME NEW c \in Calls, Answer(c) PROVE IInv'
    <3>1. call[c].op = "proofread"
      BY <2>3 DEF Answer, At, IInv, Shape, CallOf, Proofs
    <3> QED
      BY <2>3, <3>1, AnswerStep
  <2>4. CASE (\E c \in Calls : SaveFails(c)) \/ Crash
    BY <2>4, StopStep
  <2>5. CASE EditFile \/ \E w \in Windows : ShowText(w)
    BY <2>5, EditFileStep, ShowTextStep
  <2>6. CASE UNCHANGED vars
    BY <2>6 DEF vars, proof, IInv, Shape, CallOf, Revisions, Held, Last, Shows, Checked
  <2> QED
    BY <2>1, <2>2, <2>3, <2>4, <2>5, <2>6 DEF Next
<1> QED
  BY <1>1, InitInv, PTL DEF Spec

(* Whoever writes the file, a save that gets to its write replaces the     *)
(* text that its window shows, for any number of windows, calls and other  *)
(* writers: the revision is compared (save_proofread_data), and the two    *)
(* gaps around that comparison are the only ones.                          *)
THEOREM NothingIsOverwrittenBlindly == Spec => NoBlindOverwrite
<1> DEFINE Blind(c) == /\ call[c].pc = "write" /\ call'[c].pc = "project"
                       /\ text # doc[call[c].arg].shown
                       /\ c \notin raced /\ call[c].arg \notin misled
<1>1. IInv => \A c \in Calls : ~Blind(c)
  <2> SUFFICES ASSUME IInv, NEW c \in Calls, call[c].pc = "write", c \notin raced,
                      call[c].arg \notin misled
               PROVE  text = doc[call[c].arg].shown
    OBVIOUS
  <2>1. Checked(c) /\ call[c].arg \in Windows
    BY DEF IInv, Shape, CallOf, Checked, Front, Proofs
  <2> QED
    BY <2>1 DEF IInv, Held, Shows
<1>2. IInv => [\A c \in Calls : call[c].pc = "write" /\ call'[c].pc = "project" =>
                 \/ text = doc[call[c].arg].shown
                 \/ c \in raced \/ call[c].arg \in misled]_vars
  BY <1>1
<1> QED
  BY <1>2, Invariant, PTL DEF NoBlindOverwrite

-----------------------------------------------------------------------------
(***************************************************************************)
(* What is asked is kept.  A call that has the sidecar in hand, alone,     *)
(* takes it from what was asked before the call to what will have been     *)
(* asked after it (Goal); what it has yet to write is known at each of its *)
(* steps (Midway).                                                         *)
(***************************************************************************)
Orderly == ~crowded /\ ~cut /\ ~stale

Wholes == [state : {"whole"}, config : {TRUE}, dirs : SUBSET Dirs, columns : BOOLEAN,
           tasks : Tasks, notes : SUBSET Notes]

(* A status that was never set is todo.                                    *)
Known(tasks, f) == IF tasks[f] = "absent" THEN "todo" ELSE tasks[f]

Agrees(tasks, a, l) == \A f \in Files \ l : Known(tasks, f) = a.tasks[f]
Hidden(r, a, l)     == \A f \in Files \ l : f \notin Visible(r, a.dirs) => a.tasks[f] = "todo"

Good(s, r, a, l) ==
  /\ s \in Wholes /\ s.dirs = a.dirs /\ s.notes = a.notes
  /\ Agrees(s.tasks, a, l) /\ Hidden(r, a, l)

Sets(q) == q.op \in {"status", "board", "proofread"} /\ FileOf(q) \in Visible(source, asked.dirs)

Goal(q) == CASE Sets(q)           -> [asked EXCEPT !.tasks[FileOf(q)] = q.status]
             [] q.op = "add"      -> [asked EXCEPT !.dirs = @ \cup {q.arg}]
             [] q.op = "remove"   -> [asked EXCEPT !.dirs = @ \ {q.arg}]
             [] q.op = "note"     -> [asked EXCEPT !.notes = @ \cup {q.arg}]
             [] q.op = "unnote"   -> [asked EXCEPT !.notes = @ \ {q.arg}]
             [] OTHER             -> asked
LeftAfter(q) == IF Sets(q) THEN left \ {FileOf(q)} ELSE left \cup (asked.dirs \ Goal(q).dirs)

Now        == Good(side[source], source, asked, left)
Fits(q, s) == Good(s, source, Goal(q), LeftAfter(q))

(* What is left to be written, to what the sidecar holds.                  *)
Pending(q, s) ==
  \/ /\ Len(q.todo) = 1 /\ q.todo = <<q.todo[1]>>
     /\ Fits(q, Apply(q.todo[1], s))
  \/ /\ Len(q.todo) = 2 /\ q.todo = <<q.todo[1], q.todo[2]>>
     /\ q.op = "promote" /\ q.after = "end"
     /\ Apply(q.todo[1], s) \in Wholes
     /\ Fits(q, Apply(q.todo[2], Apply(q.todo[1], s)))

OldKept(q) ==
  q.old \in Wholes /\ q.old.dirs = asked.dirs /\ Agrees(q.old.tasks, asked, left)

Writes(q) ==
  /\ q.after \in {"end", "board", "again"}
  /\ q.after = "board" => q.op = "mend"
  /\ q.after = "again" => q.op = "promote" /\ OldKept(q)

Reading == [discover |-> {"status", "proofread"}, noted |-> {"note"},
            config |-> {"add", "remove", "mend", "promote"}, board |-> {"mend", "promote"},
            again |-> {"promote"}, copy |-> {"move", "promote"}, rows |-> {"move", "promote"}]

Midway(q) ==
  /\ q.pc \in DOMAIN Reading =>
       /\ q.root = source /\ Now /\ q.op \in Reading[q.pc]
       /\ q.op = "promote" /\ q.pc # "config" => OldKept(q)
       /\ q.pc = "noted" => q.todo = <<Edit("note", q.arg)>> /\ q.after = "end"
  /\ q.pc = "rows" => \/ q.after = "own" /\ side[q.arg] \in Wholes
                      \/ q.after = "copied" /\ side[q.arg] = side[q.root]
  /\ q.pc \in {"load", "open", "fill"} => q.root = source /\ Writes(q)
  /\ q.pc = "load" =>
       /\ side[source] \in Wholes
       /\ IF q.op = "board" THEN Now /\ q.todo = <<Edit("tasks", q.tasks)>> /\ q.after = "end"
          ELSE Pending(q, side[source])
       /\ q.op = "unnote" => Now /\ q.after = "end"
  /\ q.pc = "open" => q.data = side[source] /\ q.data \in Wholes /\ Pending(q, q.data)
  /\ q.pc = "fill" => side[source] = Torn /\ q.data \in Wholes /\ Pending(q, q.data)
  /\ q.pc = "end"  => Fits(q, side[source])
  /\ q.pc \in DOMAIN Reading \cup {"load", "open", "fill", "end"}

AskTypes ==
  /\ asked \in [dirs : SUBSET Dirs, notes : SUBSET Notes, tasks : [Files -> Statuses]]
  /\ source \in Roots /\ left \subseteq Files /\ DOMAIN side = Roots

Asks(q) ==
  /\ q.status \in Statuses
  /\ q.op \in {"none", "status", "board", "add", "remove", "note", "unnote", "mend", "move",
               "promote", "proofread"}
  /\ q.op \in {"status", "board"} => q.arg \in Files
  /\ q.op \in {"add", "remove"}   => q.arg \in Dirs
  /\ q.op \in {"note", "unnote"}  => q.arg \in Notes
  /\ q.op \in {"move", "promote"} => q.arg \in Roots
  /\ q.op = "none" => q.pc = "idle"
  /\ q.op = "board" => /\ q.shown \in Tasks /\ q.shown[q.arg] # "absent"
                       /\ q.tasks = [q.shown EXCEPT ![q.arg] = q.status]
  /\ q.pc \in Front \cup {"project"} => q.after = "end"

Alone == \A c, d \in Using(call) : c = d

(* A sidecar is torn only by the call that fills it.                       *)
Sides == \A r \in Roots : side[r] = Missing \/ side[r] \in Wholes
                            \/ (side[r] = Torn /\ \E c \in Using(call) : call[c].pc = "fill" /\ r = source)

Kept ==
  /\ AskTypes
  /\ \A c \in Calls : Asks(call[c])
  /\ Alone /\ Sides
  /\ Using(call) = {} => Now
  /\ \A c \in Using(call) : Midway(call[c])

-----------------------------------------------------------------------------
(* The sidecar's data.                                                     *)
LEMMA Sorts ==
  /\ Missing # Torn /\ Missing \notin Wholes /\ Torn \notin Wholes
  /\ Default \in Wholes /\ Default.dirs = {} /\ Default.notes = {} /\ Default.tasks = NoTasks
  /\ NoTasks \in Tasks
BY DEF Missing, Torn, Wholes, Default, Blank, Tasks, NoTasks

LEMMA WholeFields ==
  ASSUME NEW s \in Wholes
  PROVE  /\ s.state = "whole" /\ s.config = TRUE /\ s.dirs \subseteq Dirs /\ s.columns \in BOOLEAN
         /\ s.tasks \in Tasks /\ s.notes \subseteq Notes
BY DEF Wholes

LEMMA ReadWhole ==
  ASSUME NEW r, side[r] \in Wholes
  PROVE  Read(r) = side[r]
BY DEF Read, Wholes

LEMMA ApplyWhole ==
  ASSUME NEW s \in Wholes
  PROVE  /\ \A d \in SUBSET Dirs : LET t == Apply(Edit("dirs", d), s) IN
              t \in Wholes /\ t.dirs = d /\ t.notes = s.notes /\ t.tasks = s.tasks
         /\ LET t == Apply(Edit("none", None), s) IN
              t \in Wholes /\ t.dirs = s.dirs /\ t.notes = s.notes /\ t.tasks = s.tasks
         /\ \A T \in Tasks : LET t == Apply(Edit("tasks", T), s) IN
              t \in Wholes /\ t.dirs = s.dirs /\ t.notes = s.notes /\ t.tasks = T
         /\ \A n \in Notes : LET t == Apply(Edit("note", n), s) IN
              t \in Wholes /\ t.dirs = s.dirs /\ t.notes = s.notes \cup {n} /\ t.tasks = s.tasks
         /\ \A n \in Notes : LET t == Apply(Edit("unnote", n), s) IN
              t \in Wholes /\ t.dirs = s.dirs /\ t.notes = s.notes \ {n} /\ t.tasks = s.tasks
BY DEF Wholes, Apply, Edit

LEMMA PreviewKnown ==
  ASSUME NEW s \in Wholes, NEW r
  PROVE  /\ Preview(r, s) \in Tasks
         /\ \A f \in Files : Preview(r, s)[f] = IF f \notin Visible(r, s.dirs) THEN "absent"
                                                ELSE Known(s.tasks, f)
BY WholeFields DEF Preview, Known, Tasks, Statuses

(* A status set on the board, and all other files found put there with it. *)
LEMMA BoardKept ==
  ASSUME NEW s, NEW r, NEW a, NEW l, Good(s, r, a, l),
         a \in [dirs : SUBSET Dirs, notes : SUBSET Notes, tasks : [Files -> Statuses]],
         NEW f \in Files, NEW st \in Statuses, f \in Visible(r, a.dirs)
  PROVE  LET T == [Preview(r, s) EXCEPT ![f] = st] IN
           /\ T \in Tasks
           /\ Good(Apply(Edit("tasks", T), s), r, [a EXCEPT !.tasks[f] = st], l \ {f})
<1> DEFINE P == Preview(r, s)
           T == [P EXCEPT ![f] = st]
           b == [a EXCEPT !.tasks[f] = st]
           t == Apply(Edit("tasks", T), s)
<1>0. s \in Wholes /\ s.dirs = a.dirs /\ s.notes = a.notes
  BY DEF Good
<1>1. T \in Tasks
  BY <1>0, PreviewKnown DEF Tasks
<1>2. t \in Wholes /\ t.dirs = s.dirs /\ t.notes = s.notes /\ t.tasks = T
  <2> HIDE DEF T
  <2> QED
    BY <1>0, <1>1, ApplyWhole
<1>3. /\ b.dirs = a.dirs /\ b.notes = a.notes /\ b.tasks[f] = st
      /\ \A g \in Files \ {f} : b.tasks[g] = a.tasks[g]
  OBVIOUS
<1>4. \A g \in Files \ {f} : T[g] = P[g]
  BY <1>0, PreviewKnown DEF Tasks
<1>5. T[f] = st
  BY <1>0, PreviewKnown DEF Tasks
<1>6. Agrees(T, b, l \ {f})
  <2> SUFFICES ASSUME NEW g \in Files \ (l \ {f}) PROVE Known(T, g) = b.tasks[g]
    BY DEF Agrees
  <2>1. CASE g = f
    BY <1>3, <1>5, <2>1 DEF Known, Statuses
  <2>2. CASE g # f
    <3>1. Known(s.tasks, g) = a.tasks[g] /\ a.tasks[g] # "absent"
      BY <2>2 DEF Good, Agrees, Statuses
    <3>2. g \notin Visible(r, a.dirs) => a.tasks[g] = "todo"
      BY <2>2 DEF Good, Hidden
    <3>3. P[g] = IF g \notin Visible(r, a.dirs) THEN "absent" ELSE Known(s.tasks, g)
      BY <1>0, PreviewKnown
    <3> HIDE DEF P, T, b
    <3>4. T[g] = P[g] /\ b.tasks[g] = a.tasks[g]
      BY <2>2, <1>3, <1>4
    <3> QED
      BY <3>1, <3>2, <3>3, <3>4 DEF Known
  <2> QED
    BY <2>1, <2>2
<1>7. Hidden(r, b, l \ {f})
  <2> HIDE DEF b
  <2> QED
    BY <1>3 DEF Good, Hidden
<1> HIDE DEF T, P, b, t
<1>8. Good(t, r, b, l \ {f})
  BY <1>0, <1>2, <1>3, <1>6, <1>7 DEF Good
<1> QED
  BY <1>1, <1>8 DEF T, P, b, t

-----------------------------------------------------------------------------
(* What a call is on its way to depends on its request alone, and on what  *)
(* the project is.                                                         *)
Carries(r, q) ==
  r.op = q.op /\ r.arg = q.arg /\ r.status = q.status /\ r.tasks = q.tasks /\ r.shown = q.shown

LEMMA SameGoal ==
  ASSUME NEW r, NEW q, Carries(r, q)
  PROVE  Goal(r) = Goal(q) /\ LeftAfter(r) = LeftAfter(q) /\ \A s : Fits(r, s) = Fits(q, s)
<1>1. FileOf(r) = FileOf(q) /\ Sets(r) = Sets(q)
  BY DEF Carries, FileOf, Sets
<1>2. Goal(r) = Goal(q)
  BY <1>1 DEF Carries, Goal
<1>3. LeftAfter(r) = LeftAfter(q)
  BY <1>1, <1>2 DEF LeftAfter
<1> QED
  BY <1>2, <1>3 DEF Fits

LEMMA SameAsks ==
  ASSUME NEW r, NEW q, Carries(r, q), Asks(q), q.op # "none", 
         r.pc \in Front \cup {"project"} => r.after = "end"
  PROVE  Asks(r)
BY DEF Asks, Carries

Frozen == UNCHANGED <<source, side, asked, left>>

LEMMA FrozenGoal ==
  ASSUME Frozen, NEW q, NEW s
  PROVE  Goal(q)' = Goal(q) /\ LeftAfter(q)' = LeftAfter(q) /\ Fits(q, s)' = Fits(q, s)
<1>1. Sets(q)' = Sets(q)
  BY DEF Frozen, Sets
<1>2. Goal(q)' = Goal(q)
  BY <1>1 DEF Frozen, Goal
<1>3. LeftAfter(q)' = LeftAfter(q)
  BY <1>1, <1>2 DEF Frozen, LeftAfter
<1> QED
  BY <1>2, <1>3 DEF Fits, Frozen

LEMMA FrozenMidway ==
  ASSUME Frozen, NEW q
  PROVE  Midway(q)' = Midway(q) /\ Now' = Now /\ AskTypes' = AskTypes
<1>1. Now' = Now /\ AskTypes' = AskTypes
  BY DEF Frozen, Now, AskTypes
<1>2. OldKept(q)' = OldKept(q)
  BY DEF Frozen, OldKept
<1>3. Writes(q)' = Writes(q)
  BY <1>2 DEF Writes
<1>4. ASSUME NEW s PROVE Pending(q, s)' = Pending(q, s)
  BY FrozenGoal DEF Pending
<1>5. Pending(q, side[source])' = Pending(q, side[source])
  BY <1>4 DEF Frozen
<1>6. Fits(q, side[source])' = Fits(q, side[source])
  BY FrozenGoal DEF Frozen
<1> QED
  BY <1>1, <1>2, <1>3, <1>4, <1>5, <1>6 DEF Midway, Frozen

(* Calls that have nothing in hand, before a step and after it.            *)
LEMMA ApartStep ==
  ASSUME Kept, Frozen, Shape, DOMAIN call' = Calls,
         \A d \in Calls : /\ call'[d] = call[d] \/ (call[d].pc \in Apart /\ call'[d].pc \in Apart)
                          /\ Asks(call'[d])
  PROVE  Kept'
<1>1. Using(call') = Using(call) /\ \A d \in Using(call) : call'[d] = call[d]
  BY DEF Using
<1>2. ASSUME NEW d \in Using(call) PROVE Midway(call[d])'
  <2>1. PICK q : q = call[d]
    OBVIOUS
  <2>2. q = call'[d] /\ Midway(q)
    BY <1>1, <2>1 DEF Kept
  <2> QED
    BY <2>2, FrozenMidway
<1>3. AskTypes' /\ (Using(call') = {} => Now')
  BY <1>1, FrozenMidway DEF Kept
<1>4. Sides' /\ Alone'
  BY <1>1 DEF Kept, Sides, Alone, Frozen
<1>5. \A d \in Calls : Asks(call[d])'
  BY DEF Asks
<1> QED
  BY <1>1, <1>2, <1>3, <1>4, <1>5 DEF Kept

(* A step of the call that has the sidecar in hand, or takes it.           *)
TornBy(q) == \A r \in Roots : side[r] = Missing \/ side[r] \in Wholes
                                \/ (side[r] = Torn /\ q.pc = "fill" /\ r = source)

LEMMA InHandStep ==
  ASSUME Kept, Shape, NEW c \in Calls, NEW r, Step(c, r), ~crowded',
         call[c].pc \notin Apart \/ r.pc \notin Apart,
         Asks(r), AskTypes', TornBy(r)', IF r.pc \in Apart THEN Now' ELSE Midway(r)'
  PROVE  Kept'
<1>1. call'[c] = r /\ DOMAIN call' = Calls /\ \A d \in Calls \ {c} : call'[d] = call[d]
  BY DEF Step, Shape
<1>2. \A a, b \in Using(call') : a = b
  BY DEF Step
<1>3. \A a, b \in Using(call) : a = b
  BY DEF Kept, Alone
<1>4. Using(call') = IF r.pc \in Apart THEN {} ELSE {c}
  <2>1. CASE r.pc \in Apart
    BY <1>1, <1>3, <2>1 DEF Using
  <2>2. CASE r.pc \notin Apart
    BY <1>1, <1>2, <2>2 DEF Using
  <2> QED
    BY <2>1, <2>2
<1>5. \A d \in Calls : Asks(call[d])'
  BY <1>1 DEF Kept, Asks
<1>6. Sides' /\ Alone'
  BY <1>1, <1>4 DEF Sides, TornBy, Alone, Apart
<1>7. \A d \in Using(call') : Midway(call[d])'
  BY <1>1, <1>4
<1> QED
  BY <1>4, <1>5, <1>6, <1>7 DEF Kept

(* No sidecar is torn but by the call that fills it.                       *)
LEMMA NoneTorn ==
  ASSUME Kept, Shape, NEW c \in Calls, call[c].pc # "fill",
         call[c].pc \notin Apart \/ Using(call) = {}
  PROVE  \A r \in Roots : side[r] = Missing \/ side[r] \in Wholes
BY DEF Kept, Sides, Alone, Using

(* Whoever takes the sidecar in hand finds it free.                        *)
LEMMA TakenFree ==
  ASSUME Kept, Shape, NEW c \in Calls, NEW r, Step(c, r), ~crowded',
         call[c].pc \in Apart, r.pc \notin Apart
  PROVE  Using(call) = {} /\ Now
<1>1. call'[c] = r /\ DOMAIN call' = Calls /\ \A d \in Calls \ {c} : call'[d] = call[d]
  BY DEF Step, Shape
<1>2. \A a, b \in Using(call') : a = b
  BY DEF Step
<1>3. Using(call) = {}
  BY <1>1, <1>2 DEF Using
<1> QED
  BY <1>3 DEF Kept

(* The same where the sidecar is only read.                                *)
LEMMA ReadingStep ==
  ASSUME Kept, Shape, Frozen, NEW c \in Calls, NEW r, Step(c, r), ~crowded',
         call[c].pc \notin Apart \/ r.pc \notin Apart, call[c].pc # "fill",
         call[c].op # "none", Carries(r, call[c]), r.pc \notin Front \cup {"project"},
         IF r.pc \in Apart THEN Now ELSE Midway(r)
  PROVE  Kept'
<1>1. Asks(r)
  BY SameAsks DEF Kept
<1>2. AskTypes'
  BY FrozenMidway DEF Kept
<1>3. IF r.pc \in Apart THEN Now' ELSE Midway(r)'
  BY FrozenMidway
<1>4. call[c].pc \notin Apart \/ Using(call) = {}
  BY TakenFree
<1>5. TornBy(r)'
  BY <1>4, NoneTorn DEF TornBy, Frozen
<1> QED
  BY <1>1, <1>2, <1>3, <1>5, InHandStep

-----------------------------------------------------------------------------
(* What each request comes to, of a sidecar that holds what was asked.     *)
LEMMA OtherGoal ==
  ASSUME NEW q, q.op \notin {"status", "board", "proofread"}
  PROVE  /\ ~Sets(q)
         /\ q.op = "add"    => Goal(q) = [asked EXCEPT !.dirs = @ \cup {q.arg}]
         /\ q.op = "remove" => Goal(q) = [asked EXCEPT !.dirs = @ \ {q.arg}]
         /\ q.op = "note"   => Goal(q) = [asked EXCEPT !.notes = @ \cup {q.arg}]
         /\ q.op = "unnote" => Goal(q) = [asked EXCEPT !.notes = @ \ {q.arg}]
         /\ q.op \notin {"add", "remove", "note", "unnote"} => Goal(q) = asked
         /\ LeftAfter(q) = left \cup (asked.dirs \ Goal(q).dirs)
BY DEF Sets, Goal, LeftAfter

LEMMA DirsFit ==
  ASSUME AskTypes, Now, NEW q, Asks(q), q.op \in {"add", "remove"}
  PROVE  LET d == IF q.op = "add" THEN asked.dirs \cup {q.arg} ELSE asked.dirs \ {q.arg} IN
           /\ d \subseteq Dirs
           /\ Fits(q, Apply(Edit("dirs", d), side[source]))
           /\ d = asked.dirs => Fits(q, side[source])
<1> DEFINE d == IF q.op = "add" THEN asked.dirs \cup {q.arg} ELSE asked.dirs \ {q.arg}
           s == side[source]
           t == Apply(Edit("dirs", d), s)
<1>1. /\ d \subseteq Dirs
      /\ Goal(q).dirs = d /\ Goal(q).notes = asked.notes /\ Goal(q).tasks = asked.tasks
      /\ LeftAfter(q) = left \cup (asked.dirs \ d)
  <2>1. LeftAfter(q) = left \cup (asked.dirs \ Goal(q).dirs) /\ d \subseteq Dirs
    BY OtherGoal DEF Asks, AskTypes
  <2>2. Goal(q) = [asked EXCEPT !.dirs = d]
    BY OtherGoal
  <2>3. Goal(q).dirs = d /\ Goal(q).notes = asked.notes /\ Goal(q).tasks = asked.tasks
    BY <2>2 DEF AskTypes
  <2> QED
    BY <2>1, <2>3
<1>2. s \in Wholes /\ s.notes = asked.notes /\ s.dirs = asked.dirs /\ Agrees(s.tasks, asked, left)
      /\ Hidden(source, asked, left)
  BY DEF Now, Good
<1> HIDE DEF d, s
<1>3. t \in Wholes /\ t.dirs = d /\ t.notes = s.notes /\ t.tasks = s.tasks
  <2>1. d \in SUBSET Dirs
    BY <1>1
  <2> QED
    BY <1>2, <2>1, ApplyWhole
<1> HIDE DEF t
<1>4. Agrees(s.tasks, Goal(q), LeftAfter(q)) /\ Hidden(source, Goal(q), LeftAfter(q))
  BY <1>1, <1>2 DEF Agrees, Hidden, Visible
<1>5. Fits(q, t) /\ (d = asked.dirs => Fits(q, s))
  BY <1>1, <1>2, <1>3, <1>4 DEF Fits, Good
<1> QED
  BY <1>1, <1>5 DEF d, s, t

LEMMA NotesFit ==
  ASSUME AskTypes, Now, NEW q, Asks(q), q.op \in {"note", "unnote"}
  PROVE  /\ Fits(q, Apply(Edit(q.op, q.arg), side[source]))
         /\ q.op = "unnote" /\ side[source].notes = {} => Fits(q, side[source])
<1> DEFINE n == IF q.op = "note" THEN asked.notes \cup {q.arg} ELSE asked.notes \ {q.arg}
           s == side[source]
           t == Apply(Edit(q.op, q.arg), s)
<1>1. /\ Goal(q).dirs = asked.dirs /\ Goal(q).notes = n /\ Goal(q).tasks = asked.tasks
      /\ LeftAfter(q) = left /\ q.arg \in Notes
  <2>1. LeftAfter(q) = left \cup (asked.dirs \ Goal(q).dirs) /\ q.arg \in Notes
    BY OtherGoal DEF Asks
  <2>2. Goal(q) = [asked EXCEPT !.notes = n]
    BY OtherGoal
  <2>3. Goal(q).dirs = asked.dirs /\ Goal(q).notes = n /\ Goal(q).tasks = asked.tasks
    BY <2>2 DEF AskTypes
  <2> QED
    BY <2>1, <2>3
<1>2. s \in Wholes /\ s.notes = asked.notes /\ s.dirs = asked.dirs /\ Agrees(s.tasks, asked, left)
      /\ Hidden(source, asked, left)
  BY DEF Now, Good
<1>3. t \in Wholes /\ t.dirs = s.dirs /\ t.notes = n /\ t.tasks = s.tasks
  <2>1. CASE q.op = "note"
    <3>1. t = Apply(Edit("note", q.arg), s) /\ n = asked.notes \cup {q.arg}
      BY <2>1 DEF Edit
    <3> HIDE DEF t, s, n
    <3> QED
      BY <1>1, <1>2, <2>1, <3>1, ApplyWhole
  <2>2. CASE q.op = "unnote"
    <3>1. t = Apply(Edit("unnote", q.arg), s) /\ n = asked.notes \ {q.arg}
      BY <2>2 DEF Edit
    <3> HIDE DEF t, s, n
    <3>2. PICK k \in Notes : k = q.arg
      BY <1>1
    <3>3. LET u == Apply(Edit("unnote", k), s) IN
            u \in Wholes /\ u.dirs = s.dirs /\ u.notes = s.notes \ {k} /\ u.tasks = s.tasks
      BY <1>2, ApplyWhole
    <3> QED
      BY <1>2, <3>1, <3>2, <3>3
  <2> QED
    BY <2>1, <2>2
<1>4. q.op = "unnote" /\ s.notes = {} => n = s.notes
  BY <1>2
<1> HIDE DEF n, s, t
<1>5. Agrees(s.tasks, Goal(q), LeftAfter(q)) /\ Hidden(source, Goal(q), LeftAfter(q))
  BY <1>1, <1>2 DEF Agrees, Hidden, Visible
<1>6. Fits(q, t) /\ (q.op = "unnote" /\ s.notes = {} => Fits(q, s))
  BY <1>1, <1>2, <1>3, <1>4, <1>5 DEF Fits, Good
<1> QED
  BY <1>6 DEF s, t

LEMMA SameFits ==
  ASSUME AskTypes, Now, NEW q, q.op \in {"mend", "move", "promote"}
  PROVE  /\ Goal(q) = asked /\ LeftAfter(q) = left /\ Fits(q, side[source])
         /\ Fits(q, Apply(Edit("dirs", side[source].dirs), side[source]))
         /\ Fits(q, Apply(Edit("tasks", side[source].tasks), side[source]))
<1> DEFINE s == side[source]
<1>1. Goal(q) = asked /\ LeftAfter(q) = left
  <2>1. Goal(q) = asked /\ LeftAfter(q) = left \cup (asked.dirs \ asked.dirs)
    BY OtherGoal
  <2> QED
    BY <2>1
<1>2. s \in Wholes /\ s.dirs \in SUBSET Dirs /\ s.tasks \in Tasks
  BY WholeFields DEF Now, Good
<1> QED
  BY <1>1, <1>2, ApplyWhole DEF Fits, Now, Good

LEMMA StatusFits ==
  ASSUME AskTypes, Now, NEW q, Asks(q), q.op \in {"status", "proofread", "board"},
         q.op = "board" => Preview(source, side[source]) = q.shown
  PROVE  LET P == Preview(source, side[source])
             f == FileOf(q) IN
           IF P[f] \in {"absent", q.status} /\ q.op # "board" THEN Fits(q, side[source])
           ELSE Fits(q, Apply(Edit("tasks", [P EXCEPT ![f] = q.status]), side[source]))
<1> DEFINE s == side[source]
           P == Preview(source, s)
           f == FileOf(q)
<1>1. s \in Wholes /\ s.notes = asked.notes /\ s.dirs = asked.dirs /\ Agrees(s.tasks, asked, left)
      /\ Hidden(source, asked, left)
  BY DEF Now, Good
<1>2. f \in Files /\ q.status \in Statuses
  BY FilesAssumption DEF Asks, FileOf, Files
<1>3. /\ P \in Tasks
      /\ \A g \in Files : P[g] = IF g \notin Visible(source, asked.dirs) THEN "absent"
                                 ELSE Known(s.tasks, g)
  BY <1>1, PreviewKnown
<1>4. Sets(q) <=> f \in Visible(source, asked.dirs)
  BY DEF Sets
<1>5. q.op = "board" => P[f] # "absent"
  BY DEF Asks, FileOf
<1> HIDE DEF f, s, P
<1>6. ASSUME Sets(q)
      PROVE  Fits(q, Apply(Edit("tasks", [P EXCEPT ![f] = q.status]), s))
  <2>1. Goal(q) = [asked EXCEPT !.tasks[f] = q.status] /\ LeftAfter(q) = left \ {f}
    BY <1>6 DEF Goal, LeftAfter, f
  <2>2. Good(s, source, asked, left)
    BY DEF Now, s
  <2> QED
    BY <1>2, <1>4, <1>6, <2>1, <2>2, BoardKept DEF Fits, P, AskTypes
<1>7. ASSUME Sets(q), P[f] = q.status
      PROVE  Fits(q, s)
  <2>1. /\ Goal(q).dirs = asked.dirs /\ Goal(q).notes = asked.notes
        /\ Goal(q).tasks = [asked.tasks EXCEPT ![f] = q.status] /\ LeftAfter(q) = left \ {f}
    BY <1>7 DEF Goal, LeftAfter, f, AskTypes
  <2>2. Known(s.tasks, f) = q.status
    BY <1>2, <1>3, <1>7 DEF Statuses
  <2>3. \A g \in Files \ (left \ {f}) :
            Known(s.tasks, g) = Goal(q).tasks[g] /\ (g # f => Goal(q).tasks[g] = asked.tasks[g])
    BY <1>1, <2>1, <2>2 DEF Agrees, AskTypes
  <2>4. Hidden(source, Goal(q), LeftAfter(q))
    BY <1>1, <1>4, <1>7, <2>1, <2>3 DEF Hidden
  <2> QED
    BY <1>1, <2>1, <2>3, <2>4 DEF Fits, Good, Agrees
<1>8. ASSUME ~Sets(q)
      PROVE  Fits(q, s) /\ P[f] = "absent"
  <2>1. Goal(q) = asked /\ (q.op # "board" => LeftAfter(q) = left \cup (asked.dirs \ asked.dirs))
    BY <1>8 DEF Goal, LeftAfter
  <2>2. P[f] = "absent" /\ q.op # "board"
    BY <1>2, <1>3, <1>4, <1>5, <1>8
  <2>3. LeftAfter(q) = left
    BY <2>1, <2>2
  <2> QED
    BY <1>1, <2>1, <2>2, <2>3 DEF Fits, Good
<1>9. CASE Sets(q)
  <2>1. P[f] # "absent"
    BY <1>2, <1>3, <1>4, <1>9 DEF Known
  <2> QED
    BY <1>6, <1>7, <1>9, <2>1 DEF f, s, P
<1>10. CASE ~Sets(q)
  BY <1>5, <1>8, <1>10 DEF f, s, P
<1> QED
  BY <1>9, <1>10

(* A promotion carries the old folder's translation folders and board over *)
(* whatever the new one's sidecar holds.                                   *)
LEMMA CarriedFits ==
  ASSUME NEW s \in Wholes, NEW r, NEW a, NEW l, NEW old,
         s.notes = a.notes, Hidden(r, a, l), old.dirs \in SUBSET Dirs, old.dirs = a.dirs,
         old.tasks \in Tasks, Agrees(old.tasks, a, l)
  PROVE  /\ Apply(Edit("dirs", old.dirs), s) \in Wholes
         /\ Good(Apply(Edit("tasks", old.tasks), Apply(Edit("dirs", old.dirs), s)), r, a, l)
<1> DEFINE t == Apply(Edit("dirs", old.dirs), s)
           u == Apply(Edit("tasks", old.tasks), t)
<1>1. t \in Wholes /\ t.dirs = a.dirs /\ t.notes = a.notes
  BY ApplyWhole
<1>2. u \in Wholes /\ u.dirs = a.dirs /\ u.notes = a.notes /\ u.tasks = old.tasks
  <2> HIDE DEF t
  <2> QED
    BY <1>1, ApplyWhole
<1> QED
  BY <1>1, <1>2 DEF Good

-----------------------------------------------------------------------------
(* The records that the actions make.                                      *)
LEMMA Records ==
  ASSUME Shape, NEW c \in Calls
  PROVE  LET q == call[c] IN
         /\ DOMAIN q = Fields
         /\ \A pc : LET r == Then(c, pc) IN
              /\ Carries(r, q) /\ r.pc = pc /\ r.root = q.root /\ r.old = q.old
              /\ r.todo = q.todo /\ r.after = q.after /\ r.data = q.data
         /\ \A es, next : LET r == Save(c, es, next) IN
              /\ Carries(r, q) /\ r.pc = "load" /\ r.root = q.root /\ r.old = q.old
              /\ r.todo = es /\ r.after = next
         /\ \A es, next, x : LET r == [Save(c, es, next) EXCEPT !.root = x] IN
              /\ Carries(r, q) /\ r.pc = "load" /\ r.root = x /\ r.old = q.old
              /\ r.todo = es /\ r.after = next
<1> DEFINE q == call[c]
<1>1. DOMAIN q = Fields
  BY DEF Shape, CallOf
<1> QED
  BY <1>1, IdleFields DEF Then, Save, Carries

LEMMA ReadingFacts ==
  /\ DOMAIN Reading = {"discover", "noted", "config", "board", "again", "copy", "rows"}
  /\ Reading["discover"] = {"status", "proofread"} /\ Reading["noted"] = {"note"}
  /\ Reading["config"] = {"add", "remove", "mend", "promote"}
  /\ Reading["board"] = {"mend", "promote"} /\ Reading["again"] = {"promote"}
  /\ Reading["copy"] = {"move", "promote"} /\ Reading["rows"] = {"move", "promote"}
BY DEF Reading

LEMMA IdleAsks ==
  Asks(Idle) /\ Idle.pc \in Apart
BY IdleFields DEF Asks, Idle, Statuses, Front, Apart

(* A request takes nothing in hand.                                        *)
LEMMA RequestKept ==
  ASSUME Kept, Shape, NEW c \in Calls, Request(c)
  PROVE  Kept'
<1>1. ASSUME NEW r, call' = [call EXCEPT ![c] = r], Frozen, call[c].pc = "idle",
             r.pc \in Apart, Asks(r)
      PROVE  Kept'
  <2>1. DOMAIN call' = Calls /\ call'[c] = r /\ \A d \in Calls \ {c} : call'[d] = call[d]
    BY <1>1 DEF Shape
  <2> QED
    BY <1>1, <2>1, ApartStep DEF Kept, Apart
<1>2. ASSUME NEW op, NEW arg, NEW status \in Statuses, NEW pc \in {"project", "lookup"},
             Begin(c, op, arg, status, pc),
             \/ op \in {"status"} /\ arg \in Files
             \/ op \in {"add", "remove"} /\ arg \in Dirs
             \/ op \in {"note", "unnote"} /\ arg \in Notes
             \/ op \in {"move", "promote"} /\ arg \in Roots
             \/ op \in {"mend", "proofread"}
      PROVE  Kept'
  <2> DEFINE r == [Idle EXCEPT !.op = op, !.arg = arg, !.status = status, !.pc = pc]
  <2>1. r.op = op /\ r.arg = arg /\ r.status = status /\ r.pc = pc /\ r.after = "end"
    BY IdleFields DEF Fields
  <2>2. call' = [call EXCEPT ![c] = r] /\ Frozen /\ call[c].pc = "idle"
    BY <1>2 DEF Begin, Step, Frozen, project
  <2> HIDE DEF r
  <2>3. Asks(r) /\ r.pc \in Apart
    BY <1>2, <2>1 DEF Asks, Apart, Front
  <2> QED
    BY <2>2, <2>3, <1>1
<1>3. CASE SaveBoard(c)
  <2> DEFINE shown == Preview(source, Read(source))
  <2>1. PICK f \in Files, s \in Statuses :
          /\ shown[f] \notin {"absent", s} /\ call[c].pc = "idle"
          /\ Step(c, [Idle EXCEPT !.op = "board", !.arg = f, !.status = s, !.pc = "project",
                                  !.tasks = [shown EXCEPT ![f] = s], !.shown = shown])
    BY <1>3 DEF SaveBoard
  <2>2. PICK p : p = shown
    OBVIOUS
  <2> DEFINE r == [Idle EXCEPT !.op = "board", !.arg = f, !.status = s, !.pc = "project",
                               !.tasks = [p EXCEPT ![f] = s], !.shown = p]
  <2>3. /\ r.op = "board" /\ r.arg = f /\ r.status = s /\ r.pc = "project" /\ r.after = "end"
        /\ r.tasks = [p EXCEPT ![f] = s] /\ r.shown = p
    BY IdleFields DEF Fields
  <2>4. call' = [call EXCEPT ![c] = r] /\ Frozen /\ call[c].pc = "idle"
    BY <1>3, <2>1, <2>2 DEF SaveBoard, Step, Frozen, project
  <2> HIDE DEF r
  <2>5. p \in Tasks /\ p[f] # "absent"
    <3>1. Read(source).tasks \in Tasks
      <4>1. side[source] \in {Missing, Torn} \cup Wholes
        BY DEF Kept, AskTypes, Sides
      <4>2. CASE side[source] \in Wholes
        BY <4>2, ReadWhole, WholeFields
      <4>3. CASE side[source] \in {Missing, Torn}
        BY <4>3, Sorts DEF Read, Missing, Torn, Blank
      <4> QED
        BY <4>1, <4>2, <4>3
    <3> HIDE DEF shown
    <3>2. p[f] # "absent"
      BY <2>1, <2>2
    <3> USE DEF shown
    <3>3. p \in Tasks
      BY <2>2, <3>1 DEF Preview, Tasks, Statuses
    <3> QED
      BY <3>2, <3>3
  <2>6. Asks(r) /\ r.pc \in Apart
    BY <2>3, <2>5 DEF Asks, Apart, Front
  <2> QED
    BY <2>4, <2>6, <1>1
<1> USE DEF Statuses
<1>4. CASE SetStatus(c)
  BY <1>2, <1>4 DEF SetStatus
<1>5. CASE AddDir(c) \/ RemoveDir(c)
  BY <1>2, <1>5 DEF AddDir, RemoveDir
<1>6. CASE NoteDown(c)
  BY <1>2, <1>6 DEF NoteDown
<1>7. CASE Mend(c)
  BY <1>2, <1>7 DEF Mend
<1>8. CASE MoveTo(c) \/ Promote(c)
  BY <1>2, <1>8 DEF MoveTo, Promote
<1>9. CASE Proofread(c)
  BY <1>2, <1>9 DEF Proofread
<1> QED
  BY <1>3, <1>4, <1>5, <1>6, <1>7, <1>8, <1>9 DEF Request

(* Nor do the parts of a save that are about the file, or a restart.       *)
LEMMA ProofKept ==
  ASSUME Kept, Shape, NEW c \in Calls,
         Check(c) \/ Search(c) \/ Write(c) \/ Answer(c) \/ SaveFails(c)
  PROVE  Kept'
<1> DEFINE q == call[c]
<1>1. Frozen /\ DOMAIN call' = Calls /\ \A d \in Calls \ {c} : call'[d] = call[d]
  BY DEF Check, Search, Write, Answer, SaveFails, Rest, Frozen, project, history, Step, Shape
<1>2. /\ q.pc \in {"lookup", "search", "write", "answer", "project"}
      /\ q.pc # "project" \/ SaveFails(c)
  BY DEF Check, Search, Write, Answer, SaveFails, At
<1>3. CASE call'[c] = Idle
  BY <1>1, <1>2, <1>3, IdleAsks, ApartStep DEF Kept, Apart
<1>4. ASSUME NEW pc \in {"write", "search"}, call'[c] = Then(c, pc), q.pc \in Front
      PROVE  Kept'
  <2>1. call'[c].pc = pc /\ call'[c].after = q.after /\ Carries(call'[c], q)
    BY <1>4, Records
  <2>2. PICK r : r = call'[c]
    OBVIOUS
  <2>3. Asks(r)
    <3>1. Asks(q) /\ q.op # "none"
      BY <1>4 DEF Kept, Asks, Front
    <3> QED
      BY <1>4, <2>1, <2>2, <3>1, SameAsks DEF Asks
  <2> QED
    BY <1>1, <1>2, <2>1, <2>2, <2>3, <1>4, ApartStep DEF Kept, Apart
<1>5. CASE Write(c)
  <2>1. PICK n : n = text'
    OBVIOUS
  <2>2. PICK r : r = [Then(c, "project") EXCEPT !.own = n]
    OBVIOUS
  <2>3. call'[c] = r /\ q.pc = "write"
    BY <1>5, <2>1, <2>2 DEF Write, Step, At, Shape
  <2>4. r.pc = "project" /\ r.after = q.after /\ Carries(r, q)
    BY <2>2, IdleFields, Records DEF Then, Carries
  <2>5. Asks(r)
    <3>1. Asks(q) /\ q.op # "none" /\ q.after = "end"
      BY <2>3 DEF Kept, Asks, Front
    <3> QED
      BY <2>4, <3>1, SameAsks
  <2> QED
    BY <1>1, <2>3, <2>4, <2>5, ApartStep DEF Kept, Apart
<1>6. CASE Check(c)
  <2>1. q.pc \in Front /\ (call'[c] = Idle \/ \E pc \in {"write", "search"} : call'[c] = Then(c, pc))
    BY <1>6 DEF Check, At, Step, Front, Shape
  <2> QED
    BY <2>1, <1>3, <1>4
<1>7. CASE Search(c)
  BY <1>4, <1>7 DEF Search, At, Step, Front, Shape
<1>8. CASE Answer(c) \/ SaveFails(c)
  BY <1>3, <1>8 DEF Answer, SaveFails, Step, Shape
<1> QED
  BY <1>5, <1>6, <1>7, <1>8

LEMMA CrashKept ==
  ASSUME Kept, Shape, Crash, ~cut'
  PROVE  Kept'
<1>1. Frozen /\ DOMAIN call' = Calls /\ (\A d \in Calls : call'[d] = Idle) /\ Using(call) = {}
  BY DEF Crash, Frozen, project
<1>2. \A d \in Calls : call[d].pc \in Apart
  BY <1>1 DEF Using
<1> QED
  BY <1>1, <1>2, IdleAsks, ApartStep

LEMMA FileKept ==
  ASSUME Kept, Shape, EditFile \/ \E w \in Windows : ShowText(w)
  PROVE  Kept'
<1>1. Frozen /\ call' = call
  BY DEF EditFile, ShowText, Rest, Frozen, project, history
<1> QED
  BY <1>1, ApartStep DEF Kept, Shape

-----------------------------------------------------------------------------
(* The steps of the call that has the sidecar in hand: those that read.    *)
LEMMA NowFields ==
  ASSUME Now
  PROVE  /\ side[source] \in Wholes /\ side[source] # Missing /\ Read(source) = side[source]
         /\ side[source].dirs = asked.dirs /\ side[source].notes = asked.notes
         /\ Agrees(side[source].tasks, asked, left) /\ Hidden(source, asked, left)
BY Sorts, ReadWhole DEF Now, Good

(* What a call is known to be at, in hand.                                 *)
LEMMA InHand ==
  ASSUME Kept, NEW c \in Calls, call[c].pc \notin Apart
  PROVE  /\ Midway(call[c]) /\ Asks(call[c]) /\ AskTypes /\ c \in Using(call)
         /\ call[c].op # "none" /\ call[c].op \in {"status", "board", "add", "remove", "note",
               "unnote", "mend", "move", "promote", "proofread"}
BY DEF Kept, Using, Asks, Apart

(* Midway of a record that has one edit to write.                          *)
LEMMA LoadMidway ==
  ASSUME NEW r, r.pc = "load", r.root = source, r.op # "board",
         side[source] \in Wholes, r.op = "unnote" => Now /\ r.after = "end",
         Writes(r), NEW e, r.todo = <<e>>, Fits(r, Apply(e, side[source]))
  PROVE  Midway(r)
<1>1. r.todo[1] = e /\ Len(r.todo) = 1
  OBVIOUS
<1>2. Pending(r, side[source])
  BY <1>1 DEF Pending
<1> QED
  BY <1>2, ReadingFacts DEF Midway

LEMMA FindKept ==
  ASSUME Kept, Shape, NEW c \in Calls, FindProject(c), ~crowded'
  PROVE  Kept'
<1> DEFINE q == call[c]
<1>0. /\ q.pc = "project" /\ q.after = "end" /\ DOMAIN q = Fields /\ Asks(q) /\ AskTypes
      /\ q.op # "none" /\ q.op \in {"status", "board", "add", "remove", "note",
               "unnote", "mend", "move", "promote", "proofread"}
      /\ Frozen
  BY Records DEF FindProject, At, Kept, Asks, Keeps, Frozen
<1>1. ASSUME NEW r, Step(c, r), Carries(r, q), r.pc \notin Apart,
             Now => Midway(r)
      PROVE  Kept'
  <2>1. Now
    BY <1>0, <1>1, TakenFree DEF Apart
  <2> QED
    BY <1>0, <1>1, <2>1, ReadingStep DEF Apart, Front
<1>2. ASSUME NEW pc \in DOMAIN Reading \ {"noted", "rows"}, q.op \in Reading[pc],
             Step(c, [[q EXCEPT !.root = source] EXCEPT !.pc = pc]),
             q.op = "promote" => pc = "config"
      PROVE  Kept'
  <2> DEFINE r == [[q EXCEPT !.root = source] EXCEPT !.pc = pc]
  <2>1. Carries(r, q) /\ r.pc = pc /\ r.root = source
    BY <1>0, IdleFields DEF Carries
  <2> HIDE DEF r
  <2>2. Now => Midway(r)
    BY <1>2, <2>1, ReadingFacts DEF Midway, Carries
  <2>3. r.pc \notin Apart
    BY <2>1, ReadingFacts DEF Apart
  <2>4. Step(c, r)
    BY <1>2 DEF r
  <2> QED
    BY <1>1, <2>1, <2>2, <2>3, <2>4
<1>3. ASSUME NEW pc \in {"load", "noted"}, NEW e,
             Step(c, [[q EXCEPT !.root = source] EXCEPT !.pc = pc, !.todo = <<e>>]),
             \/ q.op = "board" /\ pc = "load" /\ e = Edit("tasks", q.tasks)
             \/ q.op = "unnote" /\ pc = "load" /\ e = Edit("unnote", q.arg)
             \/ q.op = "note" /\ pc = "noted" /\ e = Edit("note", q.arg)
      PROVE  Kept'
  <2> DEFINE r == [[q EXCEPT !.root = source] EXCEPT !.pc = pc, !.todo = <<e>>]
  <2>1. Carries(r, q) /\ r.pc = pc /\ r.root = source /\ r.todo = <<e>> /\ r.after = "end"
    BY <1>0, IdleFields DEF Carries
  <2> HIDE DEF r
  <2>2. ASSUME Now PROVE Midway(r)
    <3>1. CASE q.op = "unnote"
      <4>1. Fits(q, Apply(e, side[source]))
        BY <1>0, <1>3, <2>2, <3>1, NotesFit DEF Edit
      <4>2. Fits(r, Apply(e, side[source]))
        BY <2>1, <4>1, SameGoal
      <4> QED
        BY <1>3, <2>1, <2>2, <3>1, <4>2, LoadMidway, NowFields DEF Carries, Writes
    <3>2. CASE q.op = "board"
      BY <1>3, <2>1, <2>2, <3>2, NowFields, ReadingFacts DEF Midway, Carries, Writes
    <3>3. CASE q.op = "note"
      BY <1>3, <2>1, <2>2, <3>3, ReadingFacts DEF Midway, Carries
    <3> QED
      BY <1>3, <3>1, <3>2, <3>3
  <2>3. r.pc \notin Apart
    BY <2>1 DEF Apart
  <2>4. Step(c, r)
    BY <1>3 DEF r
  <2> QED
    BY <1>1, <2>1, <2>2, <2>3, <2>4
<1> DEFINE p == [q EXCEPT !.root = source]
<1>4. p.op = q.op /\ p.tasks = q.tasks /\ p.arg = q.arg
  BY <1>0, IdleFields
<1> HIDE DEF q
<1>5. CASE q.op \in {"status", "proofread"}
  <2>1. Step(c, [p EXCEPT !.pc = "discover"])
    BY <1>4, <1>5 DEF FindProject, q
  <2> QED
    BY <1>2, <1>5, <2>1, ReadingFacts
<1>6. CASE q.op \in {"add", "remove", "mend", "promote"}
  <2>1. Step(c, [p EXCEPT !.pc = "config"])
    BY <1>4, <1>6 DEF FindProject, q
  <2> QED
    BY <1>2, <1>6, <2>1, ReadingFacts
<1>7. CASE q.op = "move"
  <2>1. Step(c, [p EXCEPT !.pc = "copy"])
    BY <1>4, <1>7 DEF FindProject, q
  <2> QED
    BY <1>2, <1>7, <2>1, ReadingFacts
<1>8. CASE q.op = "board"
  <2>1. Step(c, [p EXCEPT !.pc = "load", !.todo = <<Edit("tasks", q.tasks)>>])
    BY <1>4, <1>8 DEF FindProject, q
  <2> QED
    BY <1>3, <1>8, <2>1
<1>9. CASE q.op = "unnote"
  <2>1. Step(c, [p EXCEPT !.pc = "load", !.todo = <<Edit("unnote", q.arg)>>])
    BY <1>4, <1>9 DEF FindProject, q
  <2> QED
    BY <1>3, <1>9, <2>1
<1>10. CASE q.op = "note"
  <2>1. Step(c, [p EXCEPT !.pc = "noted", !.todo = <<Edit("note", q.arg)>>])
    BY <1>4, <1>10 DEF FindProject, q
  <2> QED
    BY <1>3, <1>10, <2>1
<1> QED
  BY <1>0, <1>5, <1>6, <1>7, <1>8, <1>9, <1>10

LEMMA ReadSteps ==
  ASSUME Kept, Shape, NEW c \in Calls, NoteRow(c) \/ Discover(c) \/ AskAgain(c), ~crowded'
  PROVE  Kept'
<1> DEFINE q == call[c]
<1>0. q.pc \in {"noted", "discover", "again"} /\ q.pc \notin Apart /\ DOMAIN q = Fields /\ Frozen
  BY Records DEF NoteRow, Discover, AskAgain, At, Apart, Keeps, Frozen
<1>1. /\ Midway(q) /\ Asks(q) /\ AskTypes /\ q.op # "none"
      /\ q.root = source /\ Now /\ q.op \in Reading[q.pc]
  BY <1>0, InHand, ReadingFacts DEF Midway
<1>2. ASSUME NEW r, Step(c, r), Carries(r, q), r.pc \in {"load", "end", "copy"}, Midway(r)
      PROVE  Kept'
  BY <1>0, <1>1, <1>2, ReadingStep DEF Apart, Front
<1>3. CASE NoteRow(c)
  <2> DEFINE r == Then(c, "load")
  <2>1. Step(c, r) /\ q.pc = "noted"
    BY <1>3 DEF NoteRow, At
  <2>2. /\ Carries(r, q) /\ r.pc = "load" /\ r.root = q.root /\ r.todo = q.todo
        /\ r.after = q.after
    BY Records
  <2>3. q.op = "note" /\ q.todo = <<Edit("note", q.arg)>> /\ q.after = "end"
    BY <1>1, <2>1, ReadingFacts DEF Midway
  <2>4. Fits(q, Apply(Edit("note", q.arg), side[source]))
    BY <1>1, <2>3, NotesFit
  <2> HIDE DEF r, q
  <2>5. Fits(r, Apply(Edit("note", q.arg), side[source]))
    BY <2>2, <2>4, SameGoal
  <2>6. Midway(r)
    BY <1>1, <2>2, <2>3, <2>5, NowFields, LoadMidway DEF Carries, Writes
  <2> QED
    BY <1>2, <2>1, <2>2, <2>6
<1>4. CASE Discover(c)
  <2> DEFINE tasks == Preview(q.root, Read(q.root))
             f == FileOf(q)
             e == Edit("tasks", [tasks EXCEPT ![f] = q.status])
  <2>1. q.op \in {"status", "proofread"}
    BY <1>1, <1>4, ReadingFacts DEF Discover, At
  <2>2. IF tasks[f] \in {"absent", q.status} THEN Fits(q, side[source])
        ELSE Fits(q, Apply(e, side[source]))
    BY <1>1, <2>1, NowFields, StatusFits
  <2>3. CASE tasks[f] \in {"absent", q.status}
    <3> DEFINE r == Then(c, "end")
    <3>1. Step(c, r)
      BY <1>4, <2>3 DEF Discover
    <3>2. Carries(r, q) /\ r.pc = "end"
      BY Records
    <3> HIDE DEF r
    <3>3. Midway(r)
      BY <2>2, <2>3, <3>2, SameGoal, ReadingFacts DEF Midway
    <3> QED
      BY <1>2, <3>1, <3>2, <3>3
  <2>4. CASE tasks[f] \notin {"absent", q.status}
    <3> DEFINE r == Save(c, <<e>>, "end")
    <3>1. Step(c, r)
      BY <1>4, <2>4 DEF Discover
    <3>2. Carries(r, q) /\ r.pc = "load" /\ r.todo = <<e>> /\ r.after = "end" /\ r.root = q.root
      BY Records
    <3> HIDE DEF r, e
    <3>3. Fits(r, Apply(e, side[source]))
      BY <2>2, <2>4, <3>2, SameGoal
    <3>4. Midway(r)
      BY <1>1, <2>1, <3>2, <3>3, NowFields, LoadMidway DEF Carries, Writes
    <3> QED
      BY <1>2, <3>1, <3>2, <3>4
  <2> QED
    BY <2>3, <2>4
<1>5. CASE AskAgain(c)
  <2> DEFINE r == [Then(c, "copy") EXCEPT !.root = source]
  <2>1. Step(c, r) /\ q.pc = "again"
    BY <1>5 DEF AskAgain, At
  <2>2. Carries(r, q) /\ r.pc = "copy" /\ r.root = source /\ r.old = q.old
    BY <1>0, IdleFields DEF Then, Carries
  <2> HIDE DEF r
  <2>3. q.op = "promote" /\ OldKept(q)
    BY <1>1, <2>1, ReadingFacts DEF Midway
  <2>4. OldKept(r) /\ r.op \in Reading["copy"] /\ Now
    BY <1>1, <2>2, <2>3, ReadingFacts DEF Carries, OldKept
  <2>5. Midway(r)
    BY <2>2, <2>4, ReadingFacts DEF Midway
  <2> QED
    BY <1>2, <2>1, <2>2, <2>5
<1> QED
  BY <1>3, <1>4, <1>5

LEMMA ConfigKept ==
  ASSUME Kept, Shape, NEW c \in Calls, ReadConfig(c), ~crowded'
  PROVE  Kept'
<1> DEFINE q == call[c]
           s == side[source]
<1>0. q.pc = "config" /\ q.pc \notin Apart /\ DOMAIN q = Fields
  BY Records DEF ReadConfig, At, Apart
<1>1. /\ Asks(q) /\ AskTypes /\ q.op # "none" /\ q.root = source /\ Now
      /\ q.op \in {"add", "remove", "mend", "promote"}
  BY <1>0, InHand, ReadingFacts DEF Midway
<1>2. Frozen /\ Read(q.root) = s
  BY <1>1, NowFields DEF ReadConfig, Ensure, Keeps, Frozen
<1>3. ASSUME NEW r, Step(c, r), Carries(r, q), r.pc \in {"load", "end", "board"}, Midway(r)
      PROVE  Kept'
  BY <1>0, <1>1, <1>2, <1>3, ReadingStep DEF Apart, Front
<1>4. ASSUME Step(c, Then(c, "end")), Fits(q, s) PROVE Kept'
  <2>1. PICK r : r = Then(c, "end")
    OBVIOUS
  <2>2. Carries(r, q) /\ r.pc = "end"
    BY <2>1, Records
  <2>3. Midway(r)
    BY <1>4, <2>2, SameGoal, ReadingFacts DEF Midway
  <2> QED
    BY <1>3, <1>4, <2>1, <2>2, <2>3
<1>5. ASSUME NEW e, NEW next \in {"end", "board"}, Step(c, Save(c, <<e>>, next)),
             Fits(q, Apply(e, s)), next = "board" => q.op = "mend"
      PROVE  Kept'
  <2>1. PICK r : r = Save(c, <<e>>, next)
    OBVIOUS
  <2>2. Carries(r, q) /\ r.pc = "load" /\ r.todo = <<e>> /\ r.after = next /\ r.root = source
    BY <1>1, <2>1, Records
  <2>3. Fits(r, Apply(e, s))
    BY <1>5, <2>2, SameGoal
  <2>4. Midway(r)
    BY <1>1, <1>5, <2>2, <2>3, NowFields, LoadMidway DEF Carries, Writes
  <2> QED
    BY <1>3, <1>5, <2>1, <2>2, <2>4
<1> DEFINE unchanged == q.op = "promote" /\ q.arg = q.root
<1>6. CASE q.op = "add"
  <2>1. Fits(q, Apply(Edit("dirs", s.dirs \cup {q.arg}), s)) /\ (q.arg \in s.dirs => Fits(q, s))
    BY <1>1, <1>6, DirsFit, NowFields
  <2>2. IF q.arg \notin s.dirs THEN Step(c, Save(c, <<Edit("dirs", s.dirs \cup {q.arg})>>, "end"))
        ELSE Step(c, Then(c, "end"))
    BY <1>2, <1>6 DEF ReadConfig
  <2> QED
    BY <1>4, <1>5, <1>6, <2>1, <2>2
<1>7. CASE q.op = "remove"
  <2>1. /\ Fits(q, Apply(Edit("dirs", s.dirs \ {q.arg}), s))
        /\ s.dirs \ {q.arg} = s.dirs => Fits(q, s)
    BY <1>1, <1>7, DirsFit, NowFields
  <2>2. IF q.arg \in s.dirs THEN Step(c, Save(c, <<Edit("dirs", s.dirs \ {q.arg})>>, "end"))
        ELSE Step(c, Then(c, "end"))
    BY <1>2, <1>7 DEF ReadConfig
  <2>3. q.arg \notin s.dirs => s.dirs \ {q.arg} = s.dirs
    OBVIOUS
  <2> QED
    BY <1>4, <1>5, <1>7, <2>1, <2>2, <2>3
<1>8. CASE q.op = "mend"
  <2>1. Fits(q, Apply(Edit("dirs", s.dirs), s))
    BY <1>1, <1>8, SameFits
  <2>2. Step(c, Save(c, <<Edit("dirs", s.dirs)>>, "board"))
    BY <1>2, <1>8 DEF ReadConfig
  <2> QED
    BY <1>5, <1>8, <2>1, <2>2
<1>9. CASE q.op = "promote" /\ q.arg = q.root
  <2>1. Step(c, Then(c, "end"))
    BY <1>9 DEF ReadConfig
  <2> QED
    BY <1>1, <1>4, <1>9, <2>1, SameFits
<1>10. CASE q.op = "promote" /\ q.arg # q.root
  <2>1. PICK r : r = [q EXCEPT !.old = s, !.pc = "board"]
    OBVIOUS
  <2>2. Step(c, r)
    BY <1>2, <1>10, <2>1 DEF ReadConfig
  <2>3. Carries(r, q) /\ r.pc = "board" /\ r.old = s /\ r.root = source
    BY <1>0, <1>1, <2>1, IdleFields DEF Carries
  <2>4. OldKept(r) /\ r.op \in Reading["board"]
    BY <1>1, <1>10, <2>3, NowFields, ReadingFacts DEF OldKept, Carries
  <2> HIDE DEF q, s
  <2>5. Midway(r)
    BY <1>1, <2>3, <2>4, ReadingFacts DEF Midway
  <2> QED
    BY <1>3, <2>2, <2>3, <2>5
<1> QED
  BY <1>1, <1>6, <1>7, <1>8, <1>9, <1>10

LEMMA BoardStepKept ==
  ASSUME Kept, Shape, NEW c \in Calls, ReadBoard(c), ~crowded'
  PROVE  Kept'
<1> DEFINE q == call[c]
           s == side[source]
           next == IF q.op = "promote" THEN "again" ELSE "end"
           p == [q EXCEPT !.old.tasks = s.tasks, !.pc = next]
<1>0. q.pc = "board" /\ q.pc \notin Apart /\ DOMAIN q = Fields
  BY Records DEF ReadBoard, At, Apart
<1>1. /\ Asks(q) /\ AskTypes /\ q.op # "none" /\ q.root = source /\ Now
      /\ q.op \in {"mend", "promote"} /\ (q.op = "promote" => OldKept(q))
  BY <1>0, InHand, ReadingFacts DEF Midway
<1>2. Frozen /\ Read(q.root) = s
  BY <1>1, NowFields DEF ReadBoard, Keeps, Frozen
<1>3. ASSUME NEW r, Step(c, r), Carries(r, q), r.pc \in {"load", "end", "again"}, Midway(r)
      PROVE  Kept'
  BY <1>0, <1>1, <1>2, <1>3, ReadingStep DEF Apart, Front
<1>4. PICK old : old = [q.old EXCEPT !.tasks = s.tasks]
  OBVIOUS
<1>5. q.op = "promote" => /\ old \in Wholes /\ old.dirs = asked.dirs
                         /\ Agrees(old.tasks, asked, left)
  <2>1. s.tasks \in Tasks /\ Agrees(s.tasks, asked, left)
    BY <1>1, NowFields, WholeFields
  <2> HIDE DEF q, s
  <2> QED
    BY <1>1, <1>4, <2>1 DEF OldKept, Wholes
<1>6. CASE s.columns
  <2>1. PICK r : r = p
    OBVIOUS
  <2>2. Step(c, r)
    BY <1>2, <1>6, <2>1 DEF ReadBoard
  <2>3. Carries(r, q) /\ r.pc = next /\ r.old = old /\ r.root = source
    BY <1>0, <1>1, <1>4, <2>1, IdleFields DEF Carries
  <2>4. CASE q.op = "promote"
    <3>1. OldKept(r)
      BY <1>5, <2>3, <2>4 DEF OldKept
    <3>2. Midway(r)
      BY <1>1, <2>3, <2>4, <3>1, ReadingFacts DEF Midway, Carries
    <3> QED
      BY <1>3, <2>2, <2>3, <2>4, <3>2
  <2>5. CASE q.op = "mend"
    <3>1. Fits(r, s)
      BY <1>1, <2>3, <2>5, SameFits, SameGoal
    <3>2. Midway(r)
      BY <2>3, <2>5, <3>1, ReadingFacts DEF Midway
    <3> QED
      BY <1>3, <2>2, <2>3, <2>5, <3>2
  <2> QED
    BY <1>1, <2>4, <2>5
<1>7. CASE ~s.columns
  <2> DEFINE e == Edit("tasks", s.tasks)
  <2>1. PICK r : r = [p EXCEPT !.pc = "load", !.todo = <<e>>, !.after = next]
    OBVIOUS
  <2>2. Step(c, r)
    BY <1>2, <1>7, <2>1 DEF ReadBoard
  <2>3. /\ Carries(r, q) /\ r.pc = "load" /\ r.old = old /\ r.root = source /\ r.todo = <<e>>
        /\ r.after = next
    BY <1>0, <1>1, <1>4, <2>1, IdleFields DEF Carries
  <2>4. Fits(r, Apply(e, s))
    BY <1>1, <2>3, SameFits, SameGoal
  <2>5. Writes(r)
    BY <1>1, <1>5, <2>3 DEF Writes, OldKept, Carries
  <2>6. Midway(r)
    BY <1>1, <2>3, <2>4, <2>5, NowFields, LoadMidway DEF Carries
  <2> QED
    BY <1>3, <2>2, <2>3, <2>6
<1> QED
  BY <1>6, <1>7

(* Each save reads the file anew: what it has to write is known by then.   *)
LEMMA LoadKept ==
  ASSUME Kept, Shape, NEW c \in Calls, Load(c), ~crowded', ~stale'
  PROVE  Kept'
<1> DEFINE q == call[c]
           s == side[source]
<1>0. q.pc = "load" /\ q.pc \notin Apart /\ DOMAIN q = Fields
  BY Records DEF Load, At, Apart
<1>1. /\ Asks(q) /\ AskTypes /\ q.op # "none" /\ q.root = source /\ Midway(q) /\ Writes(q)
      /\ s \in Wholes /\ s # Missing /\ Read(source) = s
  BY <1>0, InHand, ReadWhole, Sorts DEF Midway
<1>2. Frozen
  BY <1>1 DEF Load, Ensure, Frozen
<1>3. ASSUME NEW r, Step(c, r), Carries(r, q), r.pc \in {"open", "end"}, Midway(r)
      PROVE  Kept'
  BY <1>0, <1>1, <1>2, <1>3, ReadingStep DEF Apart, Front
<1>4. CASE q.op = "unnote" /\ s.notes = {}
  <2>1. PICK r : r = Then(c, "end")
    OBVIOUS
  <2>2. Now /\ q.after = "end"
    BY <1>0, <1>1, <1>4 DEF Midway
  <2>3. Step(c, r)
    BY <1>1, <1>4, <2>1, <2>2 DEF Load
  <2>4. Carries(r, q) /\ r.pc = "end"
    BY <2>1, Records
  <2>5. Fits(r, s)
    BY <1>1, <1>4, <2>2, <2>4, NotesFit, SameGoal
  <2>6. Midway(r)
    BY <2>4, <2>5, ReadingFacts DEF Midway
  <2> QED
    BY <1>3, <2>3, <2>4, <2>6
<1>5. CASE ~(q.op = "unnote" /\ s.notes = {})
  <2>1. PICK r : r = [q EXCEPT !.data = s, !.pc = "open"]
    OBVIOUS
  <2>2. Step(c, r) /\ (q.op = "board" => Preview(source, s) = q.shown)
    BY <1>1, <1>5, <2>1 DEF Load
  <2>3. /\ Carries(r, q) /\ r.pc = "open" /\ r.data = s /\ r.todo = q.todo /\ r.root = source
        /\ r.after = q.after /\ r.old = q.old
    BY <1>0, <1>1, <2>1, IdleFields DEF Carries
  <2>4. Pending(q, s)
    <3>1. CASE q.op # "board"
      BY <1>0, <1>1, <3>1 DEF Midway
    <3>2. CASE q.op = "board"
      <4>1. Now /\ q.todo = <<Edit("tasks", q.tasks)>>
        BY <1>0, <1>1, <3>2 DEF Midway
      <4>2. q.tasks = [Preview(source, s) EXCEPT ![FileOf(q)] = q.status]
        BY <1>1, <2>2, <3>2 DEF Asks, FileOf
      <4>3. Fits(q, Apply(Edit("tasks", q.tasks), s))
        BY <1>1, <2>2, <3>2, <4>1, <4>2, StatusFits
      <4>4. q.todo[1] = Edit("tasks", q.tasks) /\ Len(q.todo) = 1
        BY <4>1
      <4> HIDE DEF q, s
      <4> QED
        BY <4>1, <4>3, <4>4 DEF Pending
    <3> QED
      BY <3>1, <3>2
  <2> HIDE DEF q, s
  <2>5. Pending(r, s)
    BY <2>3, <2>4, SameGoal DEF Pending, Carries
  <2>6. Writes(r)
    BY <1>1, <2>3 DEF Writes, OldKept, Carries
  <2>7. Midway(r)
    BY <1>1, <2>3, <2>5, <2>6, ReadingFacts DEF Midway, s
  <2> QED
    BY <1>3, <2>2, <2>3, <2>7
<1> QED
  BY <1>4, <1>5

-----------------------------------------------------------------------------
(* The steps that write.  The project's row stays.                         *)
LEMMA SidesFrozen ==
  ASSUME UNCHANGED <<source, asked, left>>, NEW q, NEW s
  PROVE  Fits(q, s)' = Fits(q, s) /\ Pending(q, s)' = Pending(q, s) /\ Writes(q)' = Writes(q)
         /\ Good(s, source, asked, left)' = Good(s, source, asked, left)
<1>1. Sets(q)' = Sets(q)
  BY DEF Sets
<1>2. Goal(q)' = Goal(q)
  BY <1>1 DEF Goal
<1>3. LeftAfter(q)' = LeftAfter(q)
  BY <1>1, <1>2 DEF LeftAfter
<1>4. ASSUME NEW t PROVE Fits(q, t)' = Fits(q, t)
  BY <1>2, <1>3 DEF Fits
<1>5. Pending(q, s)' = Pending(q, s)
  BY <1>4 DEF Pending
<1>6. Writes(q)' = Writes(q)
  BY DEF Writes, OldKept
<1> QED
  BY <1>4, <1>5, <1>6

LEMMA OpenKept ==
  ASSUME Kept, Shape, NEW c \in Calls, Open(c), ~crowded'
  PROVE  Kept'
<1> DEFINE q == call[c]
<1>0. q.pc = "open" /\ q.pc \notin Apart /\ DOMAIN q = Fields
  BY Records DEF Open, At, Apart
<1>1. /\ Asks(q) /\ AskTypes /\ q.op # "none" /\ q.root = source /\ Midway(q) /\ Writes(q)
      /\ q.data \in Wholes /\ Pending(q, q.data)
  BY <1>0, InHand DEF Midway
<1>2. PICK r : r = Then(c, "fill")
  OBVIOUS
<1>3. /\ Step(c, r) /\ UNCHANGED <<source, asked, left>> /\ DOMAIN side' = Roots
      /\ side'[source] = Torn /\ \A x \in Roots \ {source} : side'[x] = side[x]
  BY <1>1, <1>2 DEF Open, Keeps, AskTypes
<1>4. /\ Carries(r, q) /\ r.pc = "fill" /\ r.data = q.data /\ r.todo = q.todo /\ r.root = source
      /\ r.after = q.after /\ r.old = q.old
  BY <1>1, <1>2, Records
<1> HIDE DEF q
<1>5. Pending(r, r.data) /\ Writes(r)
  <2>1. Pending(r, q.data)
    BY <1>1, <1>4, SameGoal DEF Pending, Carries
  <2> QED
    BY <1>1, <1>4, <2>1 DEF Writes, OldKept, Carries
<1>6. Pending(r, r.data)' /\ Writes(r)'
  BY <1>3, <1>5, SidesFrozen
<1>7. Midway(r)'
  BY <1>1, <1>3, <1>4, <1>6, ReadingFacts DEF Midway
<1>8. TornBy(r)'
  BY <1>0, <1>3, <1>4, NoneTorn DEF TornBy, q
<1>9. AskTypes' /\ Asks(r)
  BY <1>1, <1>3, <1>4, SameAsks DEF AskTypes, Front
<1> QED
  BY <1>0, <1>3, <1>4, <1>7, <1>8, <1>9, InHandStep DEF q, Apart

LEMMA SecondEdit ==
  ASSUME NEW a, NEW b
  PROVE  Tail(<<a, b>>) = <<b>>
OBVIOUS

LEMMA FillKept ==
  ASSUME Kept, Shape, NEW c \in Calls, Fill(c), ~crowded'
  PROVE  Kept'
<1> DEFINE q == call[c]
           s == Apply(Head(q.todo), q.data)
<1>0. q.pc = "fill" /\ q.pc \notin Apart /\ DOMAIN q = Fields
  BY Records DEF Fill, At, Apart
<1>1. /\ Asks(q) /\ AskTypes /\ q.op # "none" /\ q.root = source /\ Midway(q) /\ Writes(q)
      /\ q.data \in Wholes /\ Pending(q, q.data) /\ side[source] = Torn
  BY <1>0, InHand DEF Midway
<1>2. PICK t : t = s
  OBVIOUS
<1>3. /\ UNCHANGED <<source, asked, left>> /\ DOMAIN side' = Roots
      /\ side'[source] = t /\ \A x \in Roots \ {source} : side'[x] = side[x]
  BY <1>1, <1>2 DEF Fill, Keeps, AskTypes
<1>4. \A x \in Roots \ {source} : side[x] = Missing \/ side[x] \in Wholes
  BY DEF Kept, Sides
<1>5. ASSUME NEW r, Step(c, r), Carries(r, q), r.pc \notin Apart \cup {"fill"}, t \in Wholes, Midway(r)'
      PROVE  Kept'
  <2>1. TornBy(r)'
    BY <1>3, <1>4, <1>5 DEF TornBy
  <2>2. AskTypes' /\ Asks(r)
    BY <1>1, <1>3, <1>5, SameAsks DEF AskTypes, Apart, Front
  <2> QED
    BY <1>0, <1>5, <2>1, <2>2, InHandStep
<1>6. CASE Len(q.todo) = 1 /\ q.todo = <<q.todo[1]>> /\ Fits(q, Apply(q.todo[1], q.data))
  <2>1. PICK r : r = [q EXCEPT !.todo = <<>>, !.pc = q.after]
    OBVIOUS
  <2>2. Step(c, r) /\ t = Apply(q.todo[1], q.data)
    BY <1>2, <1>6, <2>1 DEF Fill
  <2>3. Carries(r, q) /\ r.pc = q.after /\ r.root = source /\ r.old = q.old
    BY <1>0, <1>1, <2>1, IdleFields DEF Carries
  <2>4. Fits(r, t) /\ t \in Wholes
    BY <1>6, <2>2, <2>3, SameGoal DEF Fits, Good
  <2>5. Fits(r, side[source])'
    <3>1. Fits(r, t)'
      BY <1>3, <2>4, SidesFrozen
    <3> QED
      BY <1>3, <3>1 DEF Fits
  <2> HIDE DEF q, s
  <2>6. q.after \in {"end", "board", "again"}
    BY <1>1 DEF Writes
  <2>7. CASE q.after = "end"
    <3>1. Midway(r)'
      BY <2>3, <2>5, <2>7, ReadingFacts DEF Midway
    <3> QED
      BY <1>5, <2>2, <2>3, <2>4, <2>7, <3>1 DEF Apart
  <2>8. CASE q.after \in {"board", "again"}
    <3>1. q.op = (IF q.after = "board" THEN "mend" ELSE "promote")
      BY <1>1, <2>8 DEF Writes
    <3>2. Goal(r) = asked /\ LeftAfter(r) = left
      <4>1. Goal(r) = asked /\ LeftAfter(r) = left \cup (asked.dirs \ asked.dirs)
        BY <2>3, <3>1, OtherGoal DEF Carries
      <4> QED
        BY <4>1
    <3>3. Now'
      <4>1. Good(t, source, asked, left)
        BY <2>4, <3>2 DEF Fits
      <4>2. Good(t, source, asked, left)'
        BY <1>3, <4>1, SidesFrozen
      <4> QED
        BY <1>3, <4>2 DEF Now
    <3>4. q.after = "again" => OldKept(r)'
      BY <1>1, <1>3, <2>3 DEF Writes, OldKept
    <3>5. Midway(r)'
      BY <1>3, <2>3, <2>8, <3>1, <3>3, <3>4, ReadingFacts DEF Midway, Carries
    <3> QED
      BY <1>5, <2>2, <2>3, <2>4, <2>8, <3>5 DEF Apart
  <2> QED
    BY <2>6, <2>7, <2>8
<1>7. CASE /\ Len(q.todo) = 2 /\ q.todo = <<q.todo[1], q.todo[2]>>
           /\ q.op = "promote" /\ q.after = "end"
           /\ Apply(q.todo[1], q.data) \in Wholes
           /\ Fits(q, Apply(q.todo[2], Apply(q.todo[1], q.data)))
  <2>1. PICK r : r = [q EXCEPT !.todo = Tail(@), !.pc = "load"]
    OBVIOUS
  <2>2. Step(c, r) /\ t = Apply(q.todo[1], q.data)
    BY <1>2, <1>7, <2>1 DEF Fill
  <2>3. PICK e : e = q.todo[2]
    OBVIOUS
  <2>4. Tail(q.todo) = <<e>>
    BY <1>7, <2>3, SecondEdit
  <2>5. /\ Carries(r, q) /\ r.pc = "load" /\ r.root = source /\ r.todo = <<e>>
        /\ r.after = q.after /\ r.old = q.old
    BY <1>0, <1>1, <2>1, <2>4, IdleFields DEF Carries
  <2>6. Pending(r, t)
    <3>1. Fits(r, Apply(e, t))
      BY <1>7, <2>2, <2>3, <2>5, SameGoal
    <3> QED
      BY <2>5, <3>1 DEF Pending
  <2>7. Writes(r)'
    <3>1. Writes(r)
      BY <1>1, <2>5 DEF Writes, OldKept, Carries
    <3> QED
      BY <1>3, <3>1, SidesFrozen
  <2>8. Pending(r, side[source])'
    <3>1. Pending(r, t)'
      BY <1>3, <2>6, SidesFrozen
    <3> QED
      BY <1>3, <3>1 DEF Pending
  <2> HIDE DEF q, s
  <2>9. Midway(r)'
    BY <1>3, <1>7, <2>2, <2>5, <2>7, <2>8, ReadingFacts DEF Midway, Carries
  <2> QED
    BY <1>5, <1>7, <2>2, <2>5, <2>9 DEF Apart
<1> QED
  BY <1>1, <1>6, <1>7 DEF Pending

(* The steps that move the project to another folder.                      *)
LEMMA CarryRecord ==
  ASSUME Shape, NEW c \in Calls, call[c].old \in Wholes
  PROVE  LET q == call[c]
             r == Carry(c) IN
           /\ Carries(r, q) /\ r.pc = "load" /\ r.root = q.arg /\ r.old = q.old /\ r.after = "end"
           /\ r.todo = <<Edit("dirs", q.old.dirs), Edit("tasks", q.old.tasks)>>
<1> DEFINE q == call[c]
           es == <<Edit("dirs", q.old.dirs), Edit("tasks", q.old.tasks)>>
<1>1. q.old.config = TRUE
  BY WholeFields
<1>2. Carry(c) = [Save(c, es, "end") EXCEPT !.root = q.arg]
  BY <1>1 DEF Carry
<1> HIDE DEF es
<1>3. DOMAIN q = Fields
  BY Records
<1> HIDE DEF q
<1>4. LET r == Carry(c) IN
        /\ Carries(r, q) /\ r.pc = "load" /\ r.root = q.arg /\ r.old = q.old /\ r.after = "end"
        /\ r.todo = es
  BY <1>2, <1>3, IdleFields DEF Save, Carries, q
<1> QED
  BY <1>4 DEF es, q

LEMMA TwoEdits ==
  ASSUME NEW t, NEW a, NEW b, t = <<a, b>>
  PROVE  Len(t) = 2 /\ t = <<t[1], t[2]>> /\ t[1] = a /\ t[2] = b
OBVIOUS

LEMMA CarryMidway ==
  ASSUME NEW r, r.pc = "load", r.root = source, r.after = "end", r.op = "promote",
         r.old \in Wholes, r.old.dirs = asked.dirs, Agrees(r.old.tasks, asked, left),
         r.todo = <<Edit("dirs", r.old.dirs), Edit("tasks", r.old.tasks)>>,
         side[source] \in Wholes, side[source].notes = asked.notes, Hidden(source, asked, left)
  PROVE  Midway(r)
<1> DEFINE a == Edit("dirs", r.old.dirs)
           b == Edit("tasks", r.old.tasks)
           s == side[source]
<1>1. Goal(r) = asked /\ LeftAfter(r) = left
  <2>1. Goal(r) = asked /\ LeftAfter(r) = left \cup (asked.dirs \ asked.dirs)
    BY OtherGoal
  <2> QED
    BY <2>1
<1>2. r.old.dirs \in SUBSET Dirs /\ r.old.tasks \in Tasks
  BY WholeFields
<1>3. Apply(a, s) \in Wholes /\ Fits(r, Apply(b, Apply(a, s)))
  BY <1>1, <1>2, CarriedFits DEF Fits
<1>4. Len(r.todo) = 2 /\ r.todo = <<r.todo[1], r.todo[2]>> /\ r.todo[1] = a /\ r.todo[2] = b
  BY TwoEdits
<1> HIDE DEF a, b, s
<1>5. Pending(r, s)
  BY <1>3, <1>4 DEF Pending
<1> QED
  BY <1>5, ReadingFacts DEF Midway, Writes, s

LEMMA CopyKept ==
  ASSUME Kept, Shape, NEW c \in Calls, Copy(c), ~crowded', ~cut'
  PROVE  Kept'
<1> DEFINE q == call[c]
<1>0. q.pc = "copy" /\ q.pc \notin Apart /\ DOMAIN q = Fields
  BY Records DEF Copy, At, Apart
<1>1. /\ Asks(q) /\ AskTypes /\ q.op # "none" /\ q.root = source /\ Now
      /\ q.op \in {"move", "promote"} /\ (q.op = "promote" => OldKept(q)) /\ q.arg \in Roots
  <2>1. Asks(q) /\ AskTypes /\ q.op # "none" /\ Midway(q)
    BY <1>0, InHand
  <2>2. q.root = source /\ Now /\ q.op \in {"move", "promote"} /\ (q.op = "promote" => OldKept(q))
    BY <1>0, <2>1, ReadingFacts DEF Midway
  <2> QED
    BY <2>1, <2>2 DEF Asks
<1>2. UNCHANGED <<source, asked, left>>
  BY DEF Copy
<1>3. CASE q.arg = q.root
  <2>1. Frozen /\ (q.op = "move" => Step(c, Then(c, "end"))) /\ (q.op = "promote" => Step(c, Carry(c)))
    BY <1>3 DEF Copy, Frozen
  <2>2. CASE q.op = "move"
    <3>1. PICK r : r = Then(c, "end")
      OBVIOUS
    <3>2. Carries(r, q) /\ r.pc = "end"
      BY <3>1, Records
    <3>3. Fits(r, side[source])
      BY <1>1, <2>2, <3>2, SameFits, SameGoal
    <3>4. Midway(r)
      BY <3>2, <3>3, ReadingFacts DEF Midway
    <3> QED
      BY <1>0, <1>1, <2>1, <2>2, <3>1, <3>2, <3>4, ReadingStep DEF Apart, Front
  <2>3. CASE q.op = "promote"
    <3>1. PICK r : r = Carry(c)
      OBVIOUS
    <3>2. OldKept(q)
      BY <1>1, <2>3
    <3>3. /\ Carries(r, q) /\ r.pc = "load" /\ r.root = source /\ r.old = q.old /\ r.after = "end"
          /\ r.todo = <<Edit("dirs", r.old.dirs), Edit("tasks", r.old.tasks)>>
      BY <1>1, <1>3, <3>1, <3>2, CarryRecord DEF OldKept
    <3>4. Midway(r)
      BY <1>1, <2>3, <3>2, <3>3, NowFields, CarryMidway DEF OldKept, Carries
    <3> QED
      BY <1>0, <1>1, <2>1, <2>3, <3>1, <3>3, <3>4, ReadingStep DEF Apart, Front
  <2> QED
    BY <1>1, <2>2, <2>3
<1>4. CASE q.arg # q.root
  <2> DEFINE own == side[q.arg] # Missing
  <2>1. \A x \in Roots : side[x] = Missing \/ side[x] \in Wholes
    BY <1>0, NoneTorn DEF Apart
  <2>2. PICK r : r = [q EXCEPT !.pc = "rows", !.after = IF own THEN "own" ELSE "copied"]
    OBVIOUS
  <2>3. Step(c, r) /\ side' = IF own THEN side ELSE [side EXCEPT ![q.arg] = side[q.root]]
    <3>1. ~(cut' = TRUE)
      OBVIOUS
    <3> QED
      BY <1>4, <2>2, <3>1 DEF Copy
  <2>4. /\ Carries(r, q) /\ r.pc = "rows" /\ r.root = source /\ r.old = q.old
        /\ r.after = IF own THEN "own" ELSE "copied"
    BY <1>0, <1>1, <2>2, IdleFields DEF Carries
  <2>5. /\ DOMAIN side' = Roots /\ side'[source] = side[source]
        /\ own => side'[r.arg] \in Wholes
        /\ ~own => side'[r.arg] = side'[source]
        /\ \A x \in Roots : side'[x] = Missing \/ side'[x] \in Wholes
    BY <1>1, <1>4, <2>1, <2>3, <2>4, NowFields DEF AskTypes, Carries
  <2>6. Now'
    BY <1>1, <1>2, <2>5 DEF Now
  <2>7. (r.op = "promote" => OldKept(r)') /\ r.op \in Reading["rows"]
    BY <1>1, <1>2, <2>4, ReadingFacts DEF OldKept, Carries
  <2> HIDE DEF q
  <2>8. Midway(r)'
    BY <1>2, <2>4, <2>5, <2>6, <2>7, ReadingFacts DEF Midway
  <2>9. AskTypes' /\ Asks(r) /\ TornBy(r)'
    BY <1>1, <1>2, <2>4, <2>5, SameAsks DEF AskTypes, Front, TornBy
  <2> QED
    BY <1>0, <2>3, <2>4, <2>8, <2>9, InHandStep DEF q, Apart
<1> QED
  BY <1>3, <1>4

LEMMA SetSourceKept ==
  ASSUME Kept, Shape, NEW c \in Calls, SetSource(c), ~crowded'
  PROVE  Kept'
<1> DEFINE q == call[c]
           s == side[q.arg]
<1>0. q.pc = "rows" /\ q.pc \notin Apart /\ DOMAIN q = Fields
  BY Records DEF SetSource, At, Apart
<1>1. /\ Asks(q) /\ AskTypes /\ q.op # "none" /\ q.root = source /\ Now
      /\ q.op \in {"move", "promote"} /\ (q.op = "promote" => OldKept(q)) /\ q.arg \in Roots
      /\ \/ q.after = "own" /\ s \in Wholes
         \/ q.after = "copied" /\ s = side[source]
  <2>1. Asks(q) /\ AskTypes /\ q.op # "none" /\ Midway(q)
    BY <1>0, InHand
  <2>2. /\ q.root = source /\ Now /\ q.op \in {"move", "promote"} /\ (q.op = "promote" => OldKept(q))
        /\ \/ q.after = "own" /\ s \in Wholes
           \/ q.after = "copied" /\ s = side[source]
    BY <1>0, <2>1, ReadingFacts DEF Midway
  <2> QED
    BY <2>1, <2>2 DEF Asks
<1>2. s \in Wholes /\ Read(q.arg) = s
  BY <1>1, NowFields, ReadWhole
<1>3. PICK t \in Wholes : t = s
  BY <1>2
<1>4. PICK x \in Roots : x = q.arg
  BY <1>1
<1>5. /\ side' = side /\ source' = x
      /\ asked' = IF q.after # "own" THEN asked
                  ELSE IF q.op = "move" THEN Taken(t, x) ELSE [asked EXCEPT !.notes = t.notes]
      /\ left' = IF q.op = "move" /\ q.after = "own" THEN Files \ Visible(x, t.dirs)
                 ELSE left \cup Roots
  BY <1>2, <1>3, <1>4 DEF SetSource
<1>6. \A r : TornBy(r)'
  BY <1>0, <1>5, NoneTorn DEF TornBy, Apart
<1>7. t.dirs \subseteq Dirs /\ t.notes \subseteq Notes /\ t.tasks \in Tasks
  BY WholeFields
<1>8. /\ asked' \in [dirs : SUBSET Dirs, notes : SUBSET Notes, tasks : [Files -> Statuses]]
      /\ left' \subseteq Files
  <2>1. Taken(t, x) \in [dirs : SUBSET Dirs, notes : SUBSET Notes, tasks : [Files -> Statuses]]
    BY <1>7 DEF Taken, Tasks, Statuses
  <2>2. [asked EXCEPT !.notes = t.notes]
          \in [dirs : SUBSET Dirs, notes : SUBSET Notes, tasks : [Files -> Statuses]]
    BY <1>1, <1>7 DEF AskTypes
  <2>3. left \cup Roots \subseteq Files
    BY <1>1 DEF AskTypes, Files
  <2> QED
    BY <1>1, <1>5, <2>1, <2>2, <2>3 DEF AskTypes
<1>9. AskTypes'
  BY <1>1, <1>5, <1>8 DEF AskTypes
<1>10. t.notes = asked'.notes /\ Hidden(source, asked, left)'
  <2>1. CASE q.after = "own" /\ q.op = "move"
    <3>1. asked' = Taken(t, x) /\ left' = Files \ Visible(x, t.dirs)
      BY <1>5, <2>1
    <3> QED
      BY <1>5, <3>1 DEF Taken, Hidden
  <2>2. CASE ~(q.after = "own" /\ q.op = "move")
    <3>1. left' = left \cup Roots /\ asked'.dirs = asked.dirs /\ asked'.tasks = asked.tasks
      BY <1>1, <1>5, <2>2 DEF AskTypes
    <3>2. t.notes = asked'.notes
      BY <1>1, <1>3, <1>5, <2>2, NowFields DEF AskTypes
    <3>3. Hidden(source, asked, left)
      BY <1>1, NowFields
    <3>4. \A f \in Files \ left' : f \notin Visible(x, asked.dirs) => f \notin Visible(source, asked.dirs)
      BY <1>1, <3>1 DEF Visible, AskTypes
    <3> QED
      BY <1>5, <3>1, <3>2, <3>3, <3>4 DEF Hidden
  <2> QED
    BY <2>1, <2>2
<1>11. CASE q.op = "move"
  <2>1. PICK r : r = Then(c, "end")
    OBVIOUS
  <2>2. Carries(r, q) /\ r.pc = "end" /\ Step(c, r)
    BY <1>11, <2>1, Records DEF SetSource
  <2>3. Now'
    <3>1. t.dirs = asked'.dirs /\ Agrees(t.tasks, asked, left)'
      <4>1. CASE q.after = "own"
        BY <1>5, <1>7, <1>11, <4>1 DEF Taken, Agrees, Known
      <4>2. CASE q.after # "own"
        <5>1. t.dirs = asked.dirs /\ Agrees(t.tasks, asked, left)
          BY <1>1, <1>3, <4>2, NowFields
        <5> QED
          BY <1>5, <4>2, <5>1 DEF Agrees
      <4> QED
        BY <4>1, <4>2
    <3> QED
      BY <1>3, <1>4, <1>5, <1>10, <3>1 DEF Now, Good
  <2>4. Fits(r, side[source])'
    <3>1. Goal(r)' = asked' /\ LeftAfter(r)' = left' \cup (asked'.dirs \ asked'.dirs)
      BY <1>11, <2>2 DEF Goal, LeftAfter, Sets, Carries
    <3>2. LeftAfter(r)' = left'
      BY <3>1
    <3> QED
      BY <2>3, <3>1, <3>2 DEF Fits, Now
  <2> HIDE DEF q
  <2>5. Midway(r)'
    BY <2>2, <2>4, ReadingFacts DEF Midway
  <2>6. Asks(r)
    BY <1>1, <2>2, SameAsks DEF Front
  <2> QED
    BY <1>0, <1>6, <1>9, <2>2, <2>5, <2>6, InHandStep DEF Apart, q
<1>12. CASE q.op = "promote"
  <2>1. PICK r : r = Carry(c)
    OBVIOUS
  <2>2. OldKept(q) /\ Step(c, r)
    BY <1>1, <1>12, <2>1 DEF SetSource
  <2>3. /\ Carries(r, q) /\ r.pc = "load" /\ r.root = x /\ r.old = q.old /\ r.after = "end"
        /\ r.todo = <<Edit("dirs", r.old.dirs), Edit("tasks", r.old.tasks)>>
    BY <1>4, <2>1, <2>2, CarryRecord DEF OldKept
  <2>4. r.old.dirs = asked'.dirs /\ Agrees(r.old.tasks, asked, left)'
    <3>1. asked'.dirs = asked.dirs /\ asked'.tasks = asked.tasks /\ left' = left \cup Roots
      BY <1>1, <1>5, <1>12 DEF AskTypes
    <3> QED
      BY <2>2, <2>3, <3>1 DEF OldKept, Agrees
  <2>5. /\ r.root = source' /\ side'[source'] = t /\ r.op = "promote" /\ r.old \in Wholes
    BY <1>3, <1>4, <1>5, <1>12, <2>2, <2>3 DEF OldKept, Carries
  <2>6. Midway(r)'
    <3> DEFINE a == Edit("dirs", r.old.dirs)
               b == Edit("tasks", r.old.tasks)
    <3>1. Goal(r)' = asked' /\ LeftAfter(r)' = left'
      <4>1. Goal(r)' = asked' /\ LeftAfter(r)' = left' \cup (asked'.dirs \ asked'.dirs)
        BY <2>5 DEF Goal, LeftAfter, Sets
      <4> QED
        BY <4>1
    <3>2. r.old.dirs \in SUBSET Dirs /\ r.old.tasks \in Tasks
      BY <2>5, WholeFields
    <3>3. Apply(a, t) \in Wholes /\ Good(Apply(b, Apply(a, t)), source', asked', left')
      BY <1>10, <2>4, <2>5, <3>2, CarriedFits DEF Hidden, Agrees
    <3>4. Len(r.todo) = 2 /\ r.todo = <<r.todo[1], r.todo[2]>> /\ r.todo[1] = a /\ r.todo[2] = b
      BY <2>3, TwoEdits
    <3> HIDE DEF a, b, q
    <3>5. Pending(r, t)'
      BY <2>3, <2>5, <3>1, <3>3, <3>4 DEF Pending, Fits
    <3>6. Pending(r, side[source])'
      BY <2>5, <3>5 DEF Pending
    <3> QED
      BY <1>4, <1>5, <2>3, <2>5, <3>6, ReadingFacts DEF Midway, Writes
  <2>7. Asks(r)
    BY <1>1, <2>3, SameAsks DEF Front
  <2> QED
    BY <1>0, <1>6, <1>9, <2>2, <2>3, <2>6, <2>7, InHandStep DEF Apart, q
<1> QED
  BY <1>1, <1>11, <1>12

LEMMA EndKept ==
  ASSUME Kept, Shape, NEW c \in Calls, End(c), ~crowded'
  PROVE  Kept'
<1> DEFINE q == call[c]
<1>0. q.pc = "end" /\ q.pc \notin Apart /\ DOMAIN q = Fields
  BY Records DEF End, At, Apart
<1>1. Asks(q) /\ AskTypes /\ q.op # "none" /\ Fits(q, side[source])
  BY <1>0, InHand DEF Midway
<1>2. UNCHANGED <<source, side>> /\ asked' = Goal(q) /\ left' = LeftAfter(q)
  BY DEF End, Goal, LeftAfter, Sets, project
<1>3. Now'
  BY <1>1, <1>2 DEF Fits, Now
<1>4. AskTypes'
  <2> HIDE DEF q
  <2>1. FileOf(q) \in Files \/ ~Sets(q)
    BY <1>1, FilesAssumption DEF Asks, FileOf, Sets, Files
  <2>2. Goal(q) \in [dirs : SUBSET Dirs, notes : SUBSET Notes, tasks : [Files -> Statuses]]
    BY <1>1, <2>1 DEF Goal, AskTypes, Asks
  <2>3. LeftAfter(q) \subseteq Files
    BY <1>1 DEF LeftAfter, AskTypes, Files
  <2> QED
    BY <1>1, <1>2, <2>2, <2>3 DEF AskTypes
<1>5. PICK r : Step(c, r) /\ r = IF q.op = "proofread" THEN Then(c, "answer") ELSE Idle
  BY DEF End
<1>6. r.pc \in Apart /\ r.pc # "fill" /\ Asks(r)
  <2>1. CASE q.op = "proofread"
    <3>1. Carries(r, q) /\ r.pc = "answer"
      BY <1>5, <2>1, Records
    <3> QED
      BY <1>1, <3>1, SameAsks DEF Apart, Front
  <2>2. CASE q.op # "proofread"
    BY <1>5, <2>2, IdleAsks, IdleFields
  <2> QED
    BY <2>1, <2>2
<1>7. TornBy(r)'
  BY <1>0, <1>2, NoneTorn DEF TornBy, Apart
<1> QED
  BY <1>0, <1>3, <1>4, <1>5, <1>6, <1>7, InHandStep DEF Apart

-----------------------------------------------------------------------------
(* The exceptions are for good, so that a step to an orderly state starts  *)
(* from one.                                                               *)
LEMMA CrowdedBefore ==
  ASSUME NEW c, NEW r, Step(c, r), ~crowded'
  PROVE  ~crowded
BY ZenonT(20) DEF Step

LEMMA OrderlyBefore ==
  ASSUME Next \/ UNCHANGED vars, Orderly'
  PROVE  Orderly
<1>0. ~crowded' /\ ~cut' /\ ~stale'
  BY DEF Orderly
<1>1. ASSUME NEW c, NEW r, Step(c, r), cut' = cut, stale' = stale PROVE Orderly
  BY <1>0, <1>1, CrowdedBefore DEF Orderly
<1>2. ASSUME NEW c \in Calls, Request(c) PROVE Orderly
  <2>1. CASE SaveBoard(c)
    BY <1>1, <2>1 DEF SaveBoard
  <2>2. CASE \E op, arg, status, pc : Begin(c, op, arg, status, pc)
    BY <1>1, <2>2 DEF Begin
  <2>3. SaveBoard(c) \/ \E op, arg, status, pc : Begin(c, op, arg, status, pc)
    BY <1>2 DEF Request, SetStatus, AddDir, RemoveDir, NoteDown, Mend, MoveTo, Promote, Proofread
  <2> QED
    BY <2>1, <2>2, <2>3
<1>3. ASSUME NEW c \in Calls, Sidecar(c) PROVE Orderly
  <2> USE DEF Keeps
  <2>1. CASE FindProject(c) \/ NoteRow(c) \/ Discover(c)
    BY <1>1, <2>1 DEF FindProject, NoteRow, Discover
  <2>2. CASE ReadConfig(c) \/ ReadBoard(c) \/ AskAgain(c)
    BY <1>1, <2>2 DEF ReadConfig, ReadBoard, AskAgain
  <2>3. CASE Load(c)
    <3>1. (\E r : Step(c, r)) /\ cut' = cut /\ ~stale
      BY <1>0, <2>3 DEF Load
    <3> QED
      BY <1>0, <3>1, CrowdedBefore DEF Orderly
  <2>4. CASE Open(c) \/ Fill(c)
    BY <1>1, <2>4 DEF Open, Fill
  <2>5. CASE FillFails(c)
    BY <1>0, <2>5 DEF FillFails
  <2>6. CASE Copy(c)
    <3>1. (\E r : Step(c, r)) /\ cut' = cut /\ stale' = stale
      BY <1>0, <2>6 DEF Copy
    <3> QED
      BY <1>1, <3>1
  <2>7. CASE SetSource(c) \/ End(c)
    BY <1>1, <2>7 DEF SetSource, End
  <2> QED
    BY <1>3, <2>1, <2>2, <2>3, <2>4, <2>5, <2>6, <2>7 DEF Sidecar
<1>4. ASSUME NEW c \in Calls, Check(c) \/ Search(c) \/ Write(c) \/ Answer(c) \/ SaveFails(c)
      PROVE  Orderly
  BY <1>0, <1>4 DEF Orderly, Check, Search, Write, Answer, SaveFails, Rest, history
<1>5. CASE EditFile \/ Crash \/ \E w \in Windows : ShowText(w)
  <2>1. CASE Crash
    BY <1>0, <2>1 DEF Orderly, Crash
  <2>2. CASE EditFile \/ \E w \in Windows : ShowText(w)
    BY <1>0, <2>2 DEF Orderly, EditFile, ShowText, Rest, history
  <2> QED
    BY <1>5, <2>1, <2>2
<1>6. CASE UNCHANGED vars
  BY <1>0, <1>6 DEF Orderly, vars, history
<1> QED
  BY <1>2, <1>3, <1>4, <1>5, <1>6 DEF Next

LEMMA SidecarKept ==
  ASSUME Kept, Shape, NEW c \in Calls, Sidecar(c), Orderly'
  PROVE  Kept'
<1>1. ~crowded' /\ ~cut' /\ ~stale'
  BY DEF Orderly
<1>2. CASE FillFails(c)
  BY <1>1, <1>2 DEF FillFails
<1> QED
  BY <1>1, <1>2, FindKept, ReadSteps, ConfigKept, BoardStepKept, LoadKept, OpenKept, FillKept,
     CopyKept, SetSourceKept, EndKept DEF Sidecar

LEMMA InitKept == Init => Kept
<1> SUFFICES ASSUME Init PROVE Kept
  OBVIOUS
<1>1. PICK D \in {{}, {Target}}, other \in {Missing, Default} :
        /\ side = [r \in Roots |-> IF r = Home THEN [Default EXCEPT !.dirs = D] ELSE other]
        /\ asked = [dirs |-> D, notes |-> {}, tasks |-> [f \in Files |-> "todo"]]
  BY DEF Init
<1>2. source = Home /\ source \in Roots /\ left = {} /\ D \subseteq Dirs
  BY FilesAssumption DEF Init
<1>3. PICK s : s = [Default EXCEPT !.dirs = D]
  OBVIOUS
<1>4. s \in Wholes /\ s.dirs = D /\ s.notes = {} /\ s.tasks = NoTasks
  BY <1>2, <1>3, Sorts DEF Wholes
<1>5. AskTypes
  BY <1>1, <1>2 DEF AskTypes, Statuses
<1>6. \A c \in Calls : Asks(call[c])
  BY IdleAsks DEF Init
<1>7. Using(call) = {}
  BY IdleAsks DEF Init, Using
<1>8. Sides
  BY <1>1, <1>3, <1>4, Sorts DEF Sides
<1>9. Now
  <2>1. side[source] = s /\ asked.dirs = D /\ asked.notes = {} /\ \A f \in Files : asked.tasks[f] = "todo"
    BY <1>1, <1>2, <1>3
  <2>2. \A f \in Files : Known(NoTasks, f) = "todo"
    BY DEF Known, NoTasks
  <2> QED
    BY <1>4, <2>1, <2>2 DEF Now, Good, Agrees, Hidden
<1> QED
  BY <1>5, <1>6, <1>7, <1>8, <1>9 DEF Kept, Alone

(* As long as no exception has happened, every call that has the sidecar   *)
(* in hand is on its way to what will have been asked (Init, and every     *)
(* action of Next).                                                        *)
THEOREM KeptInvariant == Spec => [](Orderly => Kept)
<1>1. Init => (Orderly => Kept)
  BY InitKept
<1>2. IInv /\ (Orderly => Kept) /\ [Next]_vars => (Orderly => Kept)'
  <2> SUFFICES ASSUME IInv, Orderly => Kept, [Next]_vars, Orderly' PROVE Kept'
    OBVIOUS
  <2>1. Kept /\ Shape
    BY OrderlyBefore DEF IInv
  <2>2. ~cut'
    BY DEF Orderly
  <2>3. CASE UNCHANGED vars
    BY <2>1, <2>3, ApartStep DEF vars, project, history, Frozen, Shape, Kept
  <2>4. CASE Next
    BY <2>1, <2>2, <2>4, RequestKept, SidecarKept, ProofKept, FileKept, CrashKept DEF Next
  <2> QED
    BY <2>3, <2>4
<1> QED
  BY <1>1, <1>2, Invariant, PTL DEF Spec

(* At rest the project's sidecar holds what users and runs have asked for, *)
(* over every move of the source folder and every way a write makes the    *)
(* file anew (ProjectJsonManager, update_source_path,                      *)
(* promote_incremental_source), for any number of folders, notes, calls    *)
(* and events; the exceptions are the three that the property names.       *)
THEOREM WhatIsAskedIsKept == Spec => []AskedIsKept
<1>1. (Orderly => Kept) => AskedIsKept
  <2> SUFFICES ASSUME Orderly => Kept, \A c \in Calls : call[c].pc = "idle", Orderly
               PROVE  LET s == side[source] IN
                        /\ s.state = "whole" /\ s.dirs = asked.dirs /\ s.notes = asked.notes
                        /\ \A f \in Visible(source, asked.dirs) \ left :
                             Preview(source, s)[f] = asked.tasks[f]
    BY DEF AskedIsKept, Orderly
  <2>1. Now /\ AskTypes
    BY DEF Kept, Using, Apart
  <2>2. PICK s \in Wholes : s = side[source]
    BY <2>1, NowFields
  <2>3. Visible(source, asked.dirs) \subseteq Files
    BY <2>1 DEF AskTypes, Visible, Files
  <2>4. \A f \in Visible(source, asked.dirs) \ left : Preview(source, s)[f] = asked.tasks[f]
    BY <2>1, <2>2, <2>3, NowFields, PreviewKnown DEF Agrees
  <2> QED
    BY <2>1, <2>2, <2>4, NowFields, WholeFields
<1> QED
  BY <1>1, KeptInvariant, PTL
=============================================================================
