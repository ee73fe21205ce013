----------------------------- MODULE TaskLedger -----------------------------
(***************************************************************************)
(* The ledger of background tasks: scripts/shared/task_state.py keeps a    *)
(* record per task in the process (`tasks`), TaskRepository a copy of it   *)
(* in SQLite.  Every function of task_state runs under one lock, so each   *)
(* call is one step; a save that SQLite refuses is logged and swallowed,   *)
(* and then the two copies differ.                                         *)
(*                                                                         *)
(* A record carries the dedupe key `project_translation_write:<project>`   *)
(* that keeps two writers off one project, and the idempotency key that    *)
(* makes a repeated request find the task it started before.  The workers  *)
(* (`job`) are what the process really runs: they hold the task id and the *)
(* project as arguments, and outlive whatever happens to the record.       *)
(***************************************************************************)
EXTENDS Naturals, FiniteSets

CONSTANTS
  Tasks,        \* task ids (uuid4: never drawn twice)
  Projects,     \* projects, each with its write key
  Ops,          \* idempotency keys the callers may send
  NoProject,    \* a record without a dedupe key
  NoOp,         \* a request without an idempotency key
  MaxTerminal,  \* MAX_TERMINAL_TASKS
  MinTerminal,  \* MIN_TERMINAL_TASKS
  MaxFaults,    \* bound: saves that fail
  MaxResets,    \* bound: uses of POST /api/system/reset-db
  MaxRestarts   \* bound: restarts of the process

ASSUME RetentionAssumption ==
  MaxTerminal \in Nat \ {0} /\ MinTerminal \in Nat
ASSUME BoundAssumption ==
  MaxFaults \in Nat /\ MaxResets \in Nat /\ MaxRestarts \in Nat
ASSUME SentinelAssumption == NoProject \notin Projects /\ NoOp \notin Ops
ASSUME TasksAssumption == IsFiniteSet(Tasks)

VARIABLES
  memory,    \* task_state.tasks: task id -> record
  rows,      \* background_tasks: task id -> record
  job,       \* what the process runs for a task id
  clock,     \* finished_at stamps given so far
  faults, resets, restarts

vars == <<memory, rows, job, clock, faults, resets, restarts>>

(* "processing" stands for every active status after the queue: starting,  *)
(* running, processing, in_progress and the two waits for approval.        *)
Active   == {"pending", "processing"}
Terminal == {"completed", "failed", "partial_failed", "interrupted"}
Kind     == {"initial_translation", "incremental_translation",
             "agent_workshop", "project_watch_scan"}

Record == [status:   Active \cup Terminal \cup {"absent"},
           kind:     Kind \cup {"task"},
           key:      Projects \cup {NoProject},
           op:       Ops \cup {NoOp},
           finished: Nat,               \* 0: no finished_at yet
           archived: BOOLEAN]

Absent == [status |-> "absent", kind |-> "task", key |-> NoProject,
           op |-> NoOp, finished |-> 0, archived |-> FALSE]

(* "requested": the HTTP handler that created the task has not returned;   *)
(* "queued": handed to BackgroundTasks; "tail": the worker still runs      *)
(* after it reported a terminal status.                                    *)
Phase == {"unborn", "requested", "queued", "running", "tail", "gone"}
Job   == [phase: Phase, kind: Kind \cup {"task"},
          project: Projects \cup {NoProject}]

(* A worker that is, or will be, writing the project's files.              *)
Live == {"requested", "queued", "running"}

NoJob == [phase |-> "unborn", kind |-> "task", project |-> NoProject]

IsActive(rec)   == rec.status \in Active
IsTerminal(rec) == rec.status \in Terminal
Known(t)        == memory[t].status # "absent"

-----------------------------------------------------------------------------
(* repository.save_task is one transaction; its failure is swallowed.      *)
Save(t, rec) ==
  \/ /\ rows' = [rows EXCEPT ![t] = rec]
     /\ UNCHANGED faults
  \/ /\ faults < MaxFaults
     /\ faults' = faults + 1
     /\ UNCHANGED rows

(* _ensure_task: an id the process does not know starts a bare record.     *)
Ensured(t) ==
  IF Known(t) THEN memory[t] ELSE [Absent EXCEPT !.status = "pending"]

(* The status a call sets, and the finished_at that the first terminal     *)
(* status brings with it (setdefault).                                     *)
WithStatus(rec, s) ==
  [rec EXCEPT !.status = s,
              !.finished = IF s \in Terminal /\ @ = 0 THEN clock + 1 ELSE @]

(* The record a call leaves, in memory and (if the save succeeds) on disk. *)
Put(t, rec) ==
  /\ memory' = [memory EXCEPT ![t] = rec]
  /\ Save(t, rec)
  /\ clock' = IF rec.finished > clock THEN rec.finished ELSE clock

(* update_task(t, status=s): no status forbids another.                    *)
UpdateStatus(t, s) == Put(t, WithStatus(Ensured(t), s))

(* Mutants: only the process's memory is asked; a record that has not      *)
(* started yet is overlooked.                                              *)
KeyHeldInMemory(p)  == \E t \in Tasks : IsActive(memory[t]) /\ memory[t].key = p
KeyHeldByStarted(p) ==
  \E t \in Tasks : \E r \in {memory[t], rows[t]} : r.status = "processing" /\ r.key = p

(* find_active_by_dedupe_key: the memory first, then the database.         *)
KeyHeld(p) ==
  \E t \in Tasks : \/ IsActive(memory[t]) /\ memory[t].key = p
                   \/ IsActive(rows[t]) /\ rows[t].key = p

OpBoundInMemory(o) == o # NoOp /\ \E t \in Tasks : memory[t].op = o \* mutant

OpBound(o) ==
  /\ o # NoOp
  /\ \E t \in Tasks : memory[t].op = o \/ rows[t].op = o

(* The kinds whose requests carry an idempotency key.                      *)
TakesOp(k) == k \in {"initial_translation", "agent_workshop"}

-----------------------------------------------------------------------------
Init ==
  /\ memory = [t \in Tasks |-> Absent]
  /\ rows = [t \in Tasks |-> Absent]
  /\ job = [t \in Tasks |-> NoJob]
  /\ clock = 0 /\ faults = 0 /\ resets = 0 /\ restarts = 0

UNCHANGED_Process == UNCHANGED <<resets, restarts>>

(* A request for a project write: rejected with 409 while the idempotency  *)
(* key is bound or the project's key is held, else a new record.  A watch  *)
(* scan runs in the handler itself and is created "running".               *)
CreateTask(t, k, p, o) ==
  LET scan == k = "project_watch_scan" IN
  /\ job[t].phase = "unborn"
  /\ TakesOp(k) \/ o = NoOp
  /\ ~OpBound(o)
  /\ ~KeyHeld(p)
  /\ Put(t, [Absent EXCEPT !.status = IF scan THEN "processing" ELSE "pending",
                           !.kind = k, !.key = p, !.op = o])
  /\ job' = [job EXCEPT ![t] = [phase |-> IF scan THEN "running" ELSE "requested",
                                kind |-> k, project |-> p]]
  /\ UNCHANGED_Process

(* A watch scan that finds the key held leaves a failed record, without    *)
(* the key, to tell the user.                                              *)
RecordBlockedScan(t, p) ==
  /\ job[t].phase = "unborn"
  /\ KeyHeld(p)
  /\ Put(t, [Absent EXCEPT !.status = "failed", !.kind = "project_watch_scan",
                           !.finished = clock + 1])
  /\ job' = [job EXCEPT ![t].phase = "gone"]
  /\ UNCHANGED_Process

(* The handler hands the worker to BackgroundTasks and returns.  Initial   *)
(* translation reports "starting" first.                                   *)
AcceptRequest(t) ==
  /\ job[t].phase = "requested"
  /\ IF job[t].kind = "initial_translation"
       THEN UpdateStatus(t, "processing")
       ELSE UNCHANGED <<memory, rows, clock, faults>>
  /\ job' = [job EXCEPT ![t].phase = "queued"]
  /\ UNCHANGED_Process

(* start_translation_project raises 400 after it created the task: the     *)
(* project's source folder is gone.  Nothing touches the record again.     *)
AbandonRequest(t) ==
  /\ job[t].phase = "requested"
  /\ job[t].kind = "initial_translation"
  /\ job' = [job EXCEPT ![t].phase = "gone"]
  /\ UNCHANGED <<memory, rows, clock, faults>>
  /\ UNCHANGED_Process

(* The worker's first report.                                              *)
BeginWork(t) ==
  /\ job[t].phase = "queued"
  /\ UpdateStatus(t, "processing")
  /\ job' = [job EXCEPT ![t].phase = "running"]
  /\ UNCHANGED_Process

(* A progress report: the status stays, the record is saved again.         *)
ReportProgress(t) ==
  /\ job[t].phase = "running"
  /\ UpdateStatus(t, Ensured(t).status)
  /\ UNCHANGED job
  /\ UNCHANGED_Process

(* The worker's terminal report.  Only a repair ends partial_failed.  An   *)
(* incremental run that completed goes on to write its logs.               *)
FinishWork(t, s) ==
  /\ job[t].phase = "running"
  /\ \/ s \in {"completed", "failed"}
     \/ s = "partial_failed" /\ job[t].kind = "agent_workshop"
  /\ UpdateStatus(t, s)
  /\ job' = [job EXCEPT ![t].phase =
                IF s = "completed" /\ job[t].kind = "incremental_translation"
                THEN "tail" ELSE "gone"]
  /\ UNCHANGED_Process

(* Mutant: the log writing reports "processing" again.                     *)
FinishTailReopening(t, s) ==
  /\ job[t].phase = "tail"
  /\ s \in Active
  /\ UpdateStatus(t, s)
  /\ job' = [job EXCEPT ![t].phase = "gone"]
  /\ UNCHANGED_Process

(* _write_incremental_logs and the result fields come after "completed";   *)
(* an exception there reports "failed".                                    *)
FinishTail(t, s) ==
  /\ job[t].phase = "tail"
  /\ s \in {Ensured(t).status, "failed"}
  /\ UpdateStatus(t, s)
  /\ job' = [job EXCEPT ![t].phase = "gone"]
  /\ UNCHANGED_Process

(* get_task: a record the process does not hold is loaded from its row.    *)
ViewTask(t) ==
  /\ ~Known(t) /\ rows[t].status # "absent"
  /\ memory' = [memory EXCEPT ![t] = rows[t]]
  /\ UNCHANGED <<rows, job, clock, faults>>
  /\ UNCHANGED_Process

(* Archive refuses active tasks with 409; restore takes any.  Both load    *)
(* the record and save it again with archived_at set or cleared.           *)
ArchiveTask(t, a) ==
  LET rec == IF Known(t) THEN memory[t] ELSE rows[t] IN
  /\ rec.status # "absent"
  /\ a => ~IsActive(rec)
  /\ Put(t, [rec EXCEPT !.archived = a])
  /\ UNCHANGED job
  /\ UNCHANGED_Process

-----------------------------------------------------------------------------
(* Start-up.                                                               *)
TerminalRows == {t \in Tasks : IsTerminal(rows[t])}

Least(a, b)    == IF a < b THEN a ELSE b
Greatest(a, b) == IF a < b THEN b ELSE a

(* prune_terminal_tasks: ordered by finishing time, the first              *)
(* min(MinTerminal, MaxTerminal) stay, those older than the retention      *)
(* period go, and so does everything past MaxTerminal.  `cutoff` stands    *)
(* for the age limit, which no other part of the model determines.         *)
Prunable(cutoff) ==
  LET n     == Cardinality(TerminalRows)
      old   == Cardinality({t \in TerminalRows : rows[t].finished < cutoff})
      stay  == Least(MaxTerminal, Greatest(Least(MinTerminal, MaxTerminal), n - old))
  IN {V \in SUBSET TerminalRows :
        /\ Cardinality(TerminalRows \ V) = Least(n, stay)
        /\ \A v \in V, k \in TerminalRows \ V : rows[v].finished <= rows[k].finished}

(* list_tasks(statuses=ACTIVE_TASK_STATUSES)                               *)
Loaded == Active

(* Mutant: only repairs that had begun are interrupted.                    *)
InterruptsStarted(rec) == rec.status = "processing" /\ rec.kind = "agent_workshop"

(* Which records of the loaded rows start-up declares interrupted.         *)
Interrupts(rec) == IsActive(rec) /\ rec.kind = "agent_workshop"

AsInterrupted(rec) == [rec EXCEPT !.status = "interrupted", !.finished = clock + 1]

(* configure_repository(hydrate=True): prune (a failure leaves the rows),  *)
(* mirror the active rows, mark the repairs among them interrupted and     *)
(* save those (any of these saves may fail).                               *)
Hydrate(pruned) ==
  LET stopped == {t \in Tasks \ pruned : rows[t].status \in Loaded /\ Interrupts(rows[t])} IN
  \E lost \in SUBSET stopped :
    /\ faults + Cardinality(lost) <= MaxFaults
    /\ faults' = faults + Cardinality(lost)
    /\ rows' = [t \in Tasks |->
                  IF t \in pruned THEN Absent
                  ELSE IF t \in stopped \ lost THEN AsInterrupted(rows[t])
                  ELSE rows[t]]
    /\ memory' = [t \in Tasks |->
                  IF rows[t].status \notin Loaded THEN Absent
                  ELSE IF t \in stopped THEN AsInterrupted(rows[t])
                  ELSE rows[t]]
    /\ clock' = IF stopped = {} THEN clock ELSE clock + 1

(* The process dies, with its memory and its workers, and starts again.    *)
Restart ==
  /\ restarts < MaxRestarts
  /\ restarts' = restarts + 1
  /\ \E cutoff \in 0..clock + 1 : \E pruned \in Prunable(cutoff) \cup {{}} : Hydrate(pruned)
  /\ job' = [t \in Tasks |->
              IF job[t].phase = "unborn" THEN job[t] ELSE [job[t] EXCEPT !.phase = "gone"]]
  /\ UNCHANGED resets

(* POST /api/system/reset-db: the database is rebuilt from the skeleton    *)
(* and the memory replaced by its (empty) ledger.  The workers run on.     *)
ResetDatabase ==
  /\ resets < MaxResets
  /\ resets' = resets + 1
  /\ memory' = [t \in Tasks |-> Absent]
  /\ rows' = [t \in Tasks |-> Absent]
  /\ UNCHANGED <<job, clock, faults, restarts>>

WorkerStep(t) ==
  \/ AcceptRequest(t)
  \/ BeginWork(t)
  \/ \E s \in Terminal : FinishWork(t, s)
  \/ \E s \in Active \cup Terminal : FinishTail(t, s)

TaskStep(t) ==
  \/ \E k \in Kind, p \in Projects, o \in Ops \cup {NoOp} : CreateTask(t, k, p, o)
  \/ \E p \in Projects : RecordBlockedScan(t, p)
  \/ AbandonRequest(t)
  \/ WorkerStep(t)
  \/ ReportProgress(t)
  \/ ViewTask(t)
  \/ \E a \in BOOLEAN : ArchiveTask(t, a)

Next ==
  \/ \E t \in Tasks : TaskStep(t)
  \/ Restart
  \/ ResetDatabase

Spec == Init /\ [][Next]_vars

(* A worker that was accepted runs to its end: batches and retries are     *)
(* bounded and every failure is caught and reported.                       *)
FairSpec == Spec /\ \A t \in Tasks : WF_vars(WorkerStep(t))

-----------------------------------------------------------------------------
(* Types of the variables.                                                 *)
TypeOK ==
  /\ memory \in [Tasks -> Record]
  /\ rows \in [Tasks -> Record]
  /\ job \in [Tasks -> Job]
  /\ clock \in Nat /\ faults \in Nat /\ resets \in Nat /\ restarts \in Nat

(* A project's write key has one holder, whether one asks the process or   *)
(* the database, and across the two, even when saves fail and the process  *)
(* restarts (create_task: "already owns this operation").                  *)
OneHolderPerKey ==
  \A t, u \in Tasks : \A r \in {memory[t], rows[t]} : \A q \in {memory[u], rows[u]} :
    IsActive(r) /\ IsActive(q) /\ r.key = q.key /\ r.key # NoProject => t = u

(* At most one scheduled worker writes a project, unless the ledger was    *)
(* reset under it.                                                         *)
WritersExclusive ==
  resets = 0 =>
    \A t, u \in Tasks :
      /\ job[t].phase \in Live
      /\ job[u].phase \in Live
      /\ job[t].project = job[u].project
      => t = u

(* A caller's idempotency key is never bound to two tasks.                 *)
OperationBoundOnce ==
  \A t, u \in Tasks : \A r \in {memory[t], rows[t]} : \A q \in {memory[u], rows[u]} :
    r.op = q.op /\ r.op # NoOp => t = u

(* "Only active work needs an in-memory mirror": every active row has one, *)
(* so nothing the database still calls active escapes the live view.       *)
ActiveRowsMirrored == \A t \in Tasks : IsActive(rows[t]) => Known(t)

(* update_task accepts any status, yet no task that ended is ever active   *)
(* again while the process remembers it: a freed key is not taken back.    *)
NoResurrection ==
  [][\A t \in Tasks : IsTerminal(memory[t]) /\ restarts' = restarts => ~IsActive(memory'[t])]_vars

(* A repair that was asked for ends, whatever restarts and failed saves    *)
(* come between.                                                           *)
RepairEventuallyEnds ==
  \A t \in Tasks :
    IsActive(memory[t]) /\ memory[t].kind = "agent_workshop" ~> ~IsActive(memory[t])
=============================================================================
