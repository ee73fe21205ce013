----------------------------- MODULE WorkshopRun ----------------------------
(***************************************************************************)
(* Format repair: runs that repair the issues of a project in batches, and *)
(* the direct repairs and scans beside them.  Two threads work on the same *)
(* files: a run has a thread and an event loop of its own, the HTTP        *)
(* handlers share the API's.  Within a loop a task runs until it awaits,   *)
(* and writing a batch back never awaits; the two threads interleave at    *)
(* every step.  A run holds the project's write key of the ledger, so      *)
(* there is one at a time; a direct repair holds nothing.                  *)
(*                                                                         *)
(* A repair snapshots its file, reads it, writes it whole (truncate, then  *)
(* fill), reads its entry back, restores the snapshot unless confirmed,    *)
(* and then rewrites the whole issue log, .remis_errors.json.              *)
(***************************************************************************)
EXTENDS Naturals, FiniteSetsExt

CONSTANTS
  Issues,      \* a set of numbers: the order of a request
  FileOf,      \* issue -> its translation file
  Workers,     \* tasks of the run's loop
  Handlers,    \* tasks of the API's loop
  BatchSize,
  Overlap,     \* whether a direct repair may write while a run is on
  MaxRuns,     \* bound: runs
  MaxRequests, \* bound: direct repairs and scans
  MaxErrors,   \* bound: I/O errors
  MaxRestarts  \* bound: restarts of the process

ASSUME WorkshopAssumption ==
  /\ Issues \subseteq Nat /\ IsFiniteSet(Issues) /\ Issues # {}
  /\ DOMAIN FileOf = Issues
  /\ Workers # {} /\ Workers \cap Handlers = {}
  /\ BatchSize \in Nat \ {0} /\ Overlap \in BOOLEAN
  /\ MaxRuns \in Nat /\ MaxRequests \in Nat /\ MaxErrors \in Nat /\ MaxRestarts \in Nat

VARIABLES
  (* On disk. *)
  text,     \* issue -> its entry: old, new (a valid repair), garbled, gone
  log,      \* issue -> absent, detected, failed, fixed: .remis_errors.json
  sidecar,  \* issues of the translation's own sidecar
  (* In the ledger. *)
  parent,   \* status of the run's task
  child,    \* batch -> status of its task
  (* In the process. *)
  run,      \* issues of the run
  next,     \* batch at the head of the queue
  stats,    \* completed, success and failed counts
  actor,    \* task of a loop -> where it is and what it holds
  runs, requests, errors, restarts

disk   == <<text, log, sidecar>>
ledger == <<parent, child>>
plan   == <<run, next, stats>>
bounds == <<runs, requests, errors, restarts>>
repairVars   == <<disk, ledger, plan, actor, bounds>>

Actors   == Workers \cup Handlers
Texts    == {"old", "new", "garbled", "gone"}
Marks    == {"absent", "detected", "failed", "fixed"}
Ended    == {"completed", "partial_failed", "failed", "interrupted"}
Active   == parent = "processing"
Numbers  == 1..Cardinality(Issues)
NoStats  == [completed |-> 0, success |-> 0, failed |-> 0]

NoText   == [i \in Issues |-> "old"]
NoLog    == [i \in Issues |-> "absent"]

(* `todo` and `good` are the issues left of the batch and those with a     *)
(* candidate, `won` those repaired; `snap` and `buf` are contents of the   *)
(* file, `book` of the log, `verdict` what becomes of the current issue.   *)
AtRest == [at |-> "idle", number |-> 0, todo |-> {}, good |-> {}, won |-> {},
         snap |-> NoText, buf |-> NoText, book |-> NoLog, verdict |-> "none"]

Go(a, r) == actor' = [actor EXCEPT ![a] = r]

(* A task inside the stretch without an await, and whether another one of  *)
(* the same loop leaves `a` waiting for its turn.                          *)
Stretch   == {"next", "read", "open", "fill", "verify", "mark", "save", "fill_log", "report"}
Writing(a) == actor[a].at \in Stretch
Peers(a)  == (IF a \in Workers THEN Workers ELSE Handlers) \ {a}
LoopFree(a) == \A b \in Peers(a) : ~Writing(b)

Current(a) == Min(actor[a].todo)
SameFile(i) == {j \in Issues : FileOf[j] = FileOf[i]}
Rewriting(a, i) == actor[a].todo # {} /\ Current(a) = i
(* What the file of issue i holds, and the text once it holds `content`.   *)
Content(i) == [j \in Issues |-> IF j \in SameFile(i) THEN text[j] ELSE "old"]
Stored(i, content) == [j \in Issues |-> IF j \in SameFile(i) THEN content[j] ELSE text[j]]

(* The batches of a run: its issues in order, BatchSize at a time.         *)
BatchOf(s, i) == Cardinality({j \in s : j < i}) \div BatchSize + 1
Batch(n)      == {i \in run : BatchOf(run, i) = n}
Last          == (Cardinality(run) + BatchSize - 1) \div BatchSize

RepairInit ==
  /\ text = NoText /\ log = [i \in Issues |-> "detected"] /\ sidecar = Issues
  /\ parent = "none" /\ child = [n \in Numbers |-> "none"]
  /\ run = {} /\ next = 1 /\ stats = NoStats
  /\ actor = [a \in Workers \cup Handlers |-> AtRest]
  /\ runs = 0 /\ requests = 0 /\ errors = 0 /\ restarts = 0

-----------------------------------------------------------------------------
(* The run and its workers.                                                *)

(* start_fix_run, for issues the log lists; the ledger's key refuses a     *)
(* second run.  The children are queued and the parent started at once.    *)
StartRun(s) ==
  /\ ~Active /\ runs < MaxRuns
  /\ Overlap \/ \A h \in Handlers : ~Writing(h) \/ actor[h].todo = {}
  /\ \A i \in s : log[i] \in {"detected", "failed"}
  /\ runs' = runs + 1
  /\ run' = s /\ next' = 1 /\ stats' = NoStats
  /\ parent' = "processing"
  /\ child' = [n \in Numbers |-> IF n \in {BatchOf(s, i) : i \in s} THEN "queued" ELSE "none"]
  /\ UNCHANGED <<disk, actor, requests, errors, restarts>>

(* A worker takes the head of the queue, then waits for the rate limit.    *)
TakeBatch(w) ==
  /\ Active /\ actor[w].at = "idle" /\ LoopFree(w)
  /\ next <= Last
  /\ next' = next + 1
  /\ Go(w, [AtRest EXCEPT !.at = "wait", !.number = next])
  /\ UNCHANGED <<disk, ledger, run, stats, bounds>>

StartChild(w) ==
  /\ actor[w].at = "wait" /\ LoopFree(w)
  /\ child' = [child EXCEPT ![actor[w].number] = "processing"]
  /\ Go(w, [AtRest EXCEPT !.at = "asked", !.number = actor[w].number,
                        !.todo = Batch(actor[w].number)])
  /\ UNCHANGED <<disk, parent, plan, bounds>>

(* _execute_batch, after the batch's write-back: a repair that could not   *)
(* be confirmed was turned into a failure.                                 *)
CompleteBatch(w) ==
  /\ w \in Workers /\ actor[w].at = "next" /\ actor[w].todo = {}
  /\ LET n == actor[w].number
         size == Cardinality(Batch(n))
         won == Cardinality(actor[w].won) IN
     /\ stats' = [completed |-> stats.completed + size,
                  success   |-> stats.success + won,
                  failed    |-> stats.failed + size - won]
     /\ child' = [child EXCEPT ![n] = IF won = size THEN "completed" ELSE "partial_failed"]
  /\ Go(w, AtRest)
  /\ UNCHANGED <<disk, parent, run, next, bounds>>

(* _record_batch_failure: an exception anywhere in the batch fails all of  *)
(* it, whatever was written.                                               *)
FailBatch(w) ==
  LET n == actor[w].number
      size == Cardinality(Batch(n)) IN
  /\ stats' = [stats EXCEPT !.completed = @ + size, !.failed = @ + size]
  /\ child' = [child EXCEPT ![n] = "failed"]
  /\ Go(w, AtRest)
  /\ UNCHANGED <<disk, parent, run, next>>

(* The queue is empty and every worker has returned.                       *)
CompleteParent ==
  /\ Active /\ next > Last
  /\ \A w \in Workers : actor[w].at = "idle"
  /\ parent' = IF stats.failed = 0 THEN "completed" ELSE "partial_failed"
  /\ UNCHANGED <<disk, child, plan, actor, bounds>>

-----------------------------------------------------------------------------
(* The HTTP handlers.                                                      *)

(* fix and fix-batch: no task, no key.                                     *)
Request(h, s) ==
  /\ actor[h].at = "idle" /\ LoopFree(h)
  /\ requests < MaxRequests /\ requests' = requests + 1
  /\ Go(h, [AtRest EXCEPT !.at = "asked", !.todo = s])
  /\ UNCHANGED <<disk, ledger, plan, runs, errors, restarts>>

EndRequest(h) ==
  /\ h \in Handlers /\ actor[h].at = "next" /\ actor[h].todo = {}
  /\ Go(h, AtRest)
  /\ UNCHANGED <<disk, ledger, plan, bounds>>

(* A forced scan validates every entry of every file.                      *)
ScanFiles(h) ==
  /\ actor[h].at = "idle" /\ LoopFree(h)
  /\ requests < MaxRequests /\ requests' = requests + 1
  /\ Go(h, [AtRest EXCEPT !.at = "save", !.verdict = "scan",
       !.book = [i \in Issues |-> IF text[i] \in {"new", "gone"} THEN "absent" ELSE "detected"]])
  /\ UNCHANGED <<disk, ledger, plan, runs, errors, restarts>>

(* load-cached, or a scan that is not forced: the sidecar wins.            *)
LoadCached(h) ==
  /\ actor[h].at = "idle" /\ LoopFree(h) /\ sidecar # {}
  /\ requests < MaxRequests /\ requests' = requests + 1
  /\ Go(h, [AtRest EXCEPT !.at = "save", !.verdict = "cached",
       !.book = [i \in Issues |-> IF i \in sidecar THEN "detected" ELSE "absent"]])
  /\ UNCHANGED <<disk, ledger, plan, runs, errors, restarts>>

-----------------------------------------------------------------------------
(* A batch of repairs, in either loop.                                     *)

(* fix_batch_loop: after its attempts some issues have a valid candidate.  *)
Answer(a, good) ==
  /\ actor[a].at = "asked" /\ LoopFree(a)
  /\ Overlap \/ a \in Workers \/ ~Active
  /\ Go(a, [actor[a] EXCEPT !.at = "next", !.good = good])
  /\ UNCHANGED <<disk, ledger, plan, bounds>>

(* The project is no longer repairable, or has no provider.                *)
Refused(a) ==
  /\ actor[a].at = "asked" /\ LoopFree(a)
  /\ errors < MaxErrors /\ errors' = errors + 1
  /\ IF a \in Workers
       THEN FailBatch(a)
       ELSE Go(a, AtRest) /\ UNCHANGED <<disk, ledger, plan>>
  /\ UNCHANGED <<runs, requests, restarts>>

(* The task as it goes on to its next issue.                               *)
Onward(a) == [actor[a] EXCEPT !.at = "next", !.todo = @ \ {Current(a)}, !.good = @ \ {Current(a)},
                              !.snap = NoText, !.buf = NoText, !.book = NoLog,
                              !.verdict = "none"]

\* mutant: an issue without a candidate is asked about again, without limit
PassOverAskAgain(a) ==
  /\ actor[a].at = "next" /\ actor[a].todo # {}
  /\ Current(a) \notin actor[a].good
  /\ Go(a, [actor[a] EXCEPT !.at = "asked", !.good = {}])
  /\ UNCHANGED <<disk, ledger, plan, bounds>>

(* No candidate: the issue failed, and the log is left alone.              *)
PassOver(a) ==
  /\ actor[a].at = "next" /\ actor[a].todo # {}
  /\ Current(a) \notin actor[a].good
  /\ Go(a, Onward(a))
  /\ UNCHANGED <<disk, ledger, plan, bounds>>

(* No target, an invalid candidate, or no snapshot: nothing is written.    *)
Reject(a) ==
  /\ actor[a].at = "next" /\ actor[a].todo # {}
  /\ Current(a) \in actor[a].good
  /\ Go(a, [actor[a] EXCEPT !.at = "mark", !.verdict = "failed"])
  /\ UNCHANGED <<disk, ledger, plan, bounds>>

Snapshot(a) ==
  /\ actor[a].at = "next" /\ actor[a].todo # {}
  /\ Current(a) \in actor[a].good
  /\ Go(a, [actor[a] EXCEPT !.at = "read", !.snap = Content(Current(a)), !.verdict = "fixed"])
  /\ UNCHANGED <<disk, ledger, plan, bounds>>

\* mutant: back to the file as the scan saw it
RestoringScanned(a) == [actor[a] EXCEPT !.at = "open", !.buf = NoText, !.verdict = "failed"]

(* Back to the snapshot; the issue will be marked failed.                  *)
Restoring(a) == [actor[a] EXCEPT !.at = "open", !.buf = actor[a].snap, !.verdict = "failed"]

(* apply_translation_fix_to_file reads; an entry may read back otherwise.  *)
ReadLines(a) ==
  /\ actor[a].at = "read"
  /\ IF text[Current(a)] = "gone"
       THEN Go(a, Restoring(a))
       ELSE \E v \in {"new", "garbled"} :
              Go(a, [actor[a] EXCEPT !.at = "open", !.buf = [Content(Current(a)) EXCEPT ![Current(a)] = v]])
  /\ UNCHANGED <<disk, ledger, plan, bounds>>

OpenFile(a) ==
  /\ actor[a].at = "open"
  /\ text' = Stored(Current(a), [i \in Issues |-> "gone"])
  /\ Go(a, [actor[a] EXCEPT !.at = "fill"])
  /\ UNCHANGED <<log, sidecar, ledger, plan, bounds>>

FillFile(a) ==
  /\ actor[a].at = "fill"
  /\ text' = Stored(Current(a), actor[a].buf)
  /\ Go(a, [actor[a] EXCEPT !.at = IF actor[a].verdict = "fixed" THEN "verify" ELSE "mark",
                            !.buf = NoText])
  /\ UNCHANGED <<log, sidecar, ledger, plan, bounds>>

(* Opening or writing raises: the snapshot is restored, and should that    *)
(* fail too the file stays as it is and the issue is marked failed.        *)
WriteRaises(a) ==
  /\ actor[a].at \in {"open", "fill"}
  /\ errors < MaxErrors /\ errors' = errors + 1
  /\ Go(a, IF actor[a].verdict = "fixed" THEN Restoring(a)
                                         ELSE [actor[a] EXCEPT !.at = "mark"])
  /\ UNCHANGED <<disk, ledger, plan, runs, requests, restarts>>

(* The entry is read back.                                                 *)
Verify(a) ==
  /\ actor[a].at = "verify"
  /\ Go(a, IF text[Current(a)] = "new" THEN [actor[a] EXCEPT !.at = "mark", !.snap = NoText]
                                       ELSE Restoring(a))
  /\ UNCHANGED <<disk, ledger, plan, bounds>>

\* mutant: a repair that failed in the file keeps the agent's SUCCESS
MarkedSuccess(a) == CASE actor[a].verdict = "fixed"  -> [actor[a] EXCEPT !.at = "report", !.book = NoLog]
                      [] actor[a].verdict = "failed" -> [Onward(a) EXCEPT !.won = @ \cup {Current(a)}]
                      [] OTHER                       -> AtRest

(* What follows the mark of an issue.                                      *)
Marked(a) == CASE actor[a].verdict = "fixed"  -> [actor[a] EXCEPT !.at = "report", !.book = NoLog]
               [] actor[a].verdict = "failed" -> Onward(a)
               [] OTHER                       -> AtRest

(* mark_attempt_result: the log is read whole, and written back whole only *)
(* if it lists the issue.                                                  *)
LoadLog(a) ==
  /\ actor[a].at = "mark"
  /\ Go(a, IF log[Current(a)] = "absent" THEN Marked(a)
           ELSE [actor[a] EXCEPT !.at = "save", !.snap = NoText, !.buf = NoText,
                                 !.book = [log EXCEPT ![Current(a)] = actor[a].verdict]])
  /\ UNCHANGED <<disk, ledger, plan, bounds>>

(* save_errors; an empty or torn log loads as one that lists nothing.      *)
OpenLog(a) ==
  /\ actor[a].at = "save"
  /\ log' = NoLog
  /\ Go(a, [actor[a] EXCEPT !.at = "fill_log"])
  /\ UNCHANGED <<text, sidecar, ledger, plan, bounds>>

FillLog(a) ==
  /\ actor[a].at = "fill_log"
  /\ log' = actor[a].book
  /\ sidecar' = IF actor[a].verdict = "scan"
                  THEN {i \in Issues : actor[a].book[i] = "detected"} ELSE sidecar
  /\ Go(a, Marked(a))
  /\ UNCHANGED <<text, ledger, plan, bounds>>

(* save_errors keeps an error of the write to itself.                      *)
LogRaises(a) ==
  /\ actor[a].at \in {"save", "fill_log"}
  /\ errors < MaxErrors /\ errors' = errors + 1
  /\ Go(a, Marked(a))
  /\ UNCHANGED <<disk, ledger, plan, runs, requests, restarts>>

Report(a) ==
  /\ actor[a].at = "report"
  /\ Go(a, [Onward(a) EXCEPT !.won = @ \cup {Current(a)}])
  /\ UNCHANGED <<disk, ledger, plan, bounds>>

(* The report cannot be written: the exception leaves the batch.           *)
ReportRaises(a) ==
  /\ actor[a].at = "report"
  /\ errors < MaxErrors /\ errors' = errors + 1
  /\ IF a \in Workers
       THEN FailBatch(a)
       ELSE Go(a, AtRest) /\ UNCHANGED <<disk, ledger, plan>>
  /\ UNCHANGED <<runs, requests, restarts>>

-----------------------------------------------------------------------------
(* A restart loses both loops; the ledger interrupts their open tasks.     *)
Restart ==
  /\ restarts < MaxRestarts /\ restarts' = restarts + 1
  /\ actor' = [a \in Actors |-> AtRest]
  /\ run' = {} /\ next' = 1 /\ stats' = NoStats
  /\ parent' = IF Active THEN "interrupted" ELSE parent
  /\ child' = [n \in Numbers |-> IF child[n] \in {"queued", "processing"}
                                   THEN "interrupted" ELSE child[n]]
  /\ UNCHANGED <<disk, runs, requests, errors>>

Repair(a) ==
  \/ \E good \in SUBSET actor[a].todo : Answer(a, good)
  \/ Refused(a) \/ PassOver(a) \/ Reject(a) \/ Snapshot(a) \/ ReadLines(a)
  \/ OpenFile(a) \/ FillFile(a) \/ WriteRaises(a) \/ Verify(a)
  \/ LoadLog(a) \/ OpenLog(a) \/ FillLog(a) \/ LogRaises(a)
  \/ Report(a) \/ ReportRaises(a)

Worker(w) == TakeBatch(w) \/ StartChild(w) \/ CompleteBatch(w) \/ Repair(w)

Handler(h) ==
  \/ \E s \in SUBSET Issues \ {{}} : Request(h, s)
  \/ ScanFiles(h) \/ LoadCached(h) \/ EndRequest(h) \/ Repair(h)

RepairNext ==
  \/ \E s \in SUBSET Issues \ {{}} : StartRun(s)
  \/ CompleteParent \/ Restart
  \/ \E w \in Workers : Worker(w)
  \/ \E h \in Handlers : Handler(h)

RepairSpec == RepairInit /\ [][RepairNext]_repairVars

(* The run's loop keeps serving its tasks, and each of them in turn.  A    *)
(* direct request need not come, nor end.                                  *)
Fairness ==
  /\ \A w \in Workers : WF_repairVars(Worker(w))
  /\ WF_repairVars(CompleteParent)

FairRepairSpec == RepairSpec /\ Fairness

-----------------------------------------------------------------------------
Records == [at : Stretch \cup {"idle", "wait", "asked"}, number : Numbers \cup {0},
            todo : SUBSET Issues, good : SUBSET Issues, won : SUBSET Issues,
            snap : [Issues -> Texts], buf : [Issues -> Texts], book : [Issues -> Marks],
            verdict : {"none", "fixed", "failed", "scan", "cached"}]

(* Every variable has its type.                                            *)
RepairTypeOK ==
  /\ text \in [Issues -> Texts] /\ log \in [Issues -> Marks] /\ sidecar \subseteq Issues
  /\ parent \in {"none", "processing"} \cup Ended
  /\ child \in [Numbers -> {"none", "queued", "processing"} \cup Ended]
  /\ run \subseteq Issues /\ next \in Nat \ {0}
  /\ stats \in [completed : Nat, success : Nat, failed : Nat]
  /\ actor \in [Actors -> Records]
  /\ runs \in 0..MaxRuns /\ requests \in 0..MaxRequests
  /\ errors \in 0..MaxErrors /\ restarts \in 0..MaxRestarts

(* An issue the log calls fixed has its repair in the file, through the    *)
(* failures and restored snapshots of the issues after it; only the file   *)
(* may be lost, or a second repair of the issue be left half done, by a    *)
(* restart or an error in the middle of a write                            *)
(* (apply_validated_workshop_fix_to_path, mark_attempt_result).            *)
FixedIsInFile ==
  \A i \in Issues : log[i] = "fixed" =>
    \/ text[i] \in {"new", "gone"}
    \/ /\ text[i] = "garbled"
       /\ (errors + restarts > 0 \/ \E a \in Actors : Rewriting(a, i))

(* A run completes, rather than needs review, only when every issue it was *)
(* given is repaired in its file.                                          *)
CompletedRepairedAll ==
  [][parent # "completed" /\ parent' = "completed"
       => \A i \in run : text[i] = "new"]_repairVars

(* A run ends, whatever its batches meet.                                  *)
RunEnds == Active ~> ~Active

=============================================================================
