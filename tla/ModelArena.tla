----------------------------- MODULE ModelArena -----------------------------
(***************************************************************************)
(* One run of the model arena: a blind comparison of contestants (models)  *)
(* over samples of a project.  Its row is shared by the HTTP handlers,     *)
(* which run in threads of their own, and by the background worker that    *)
(* calls the models.  A handler reads the run, decides, and writes in      *)
(* another transaction: each is a step here.  Moves of the status that     *)
(* must happen once go through claim_run_transition, a compare-and-set on  *)
(* the status alone; the settings (idempotency keys, frozen subsets) are   *)
(* one JSON value, written whole.                                          *)
(*                                                                         *)
(* A worker's task holds the ledger's key model_arena:<run> (TaskLedger)   *)
(* until it is reported ended.  A call of a model costs money: `charged`.  *)
(***************************************************************************)
EXTENDS Naturals, FiniteSets

CONSTANTS
  Procs,        \* threads: handlers, and the workers they schedule
  Contestants,  \* a set of numbers: execution_order
  Samples,
  Keys,         \* idempotency keys of clients
  NoKey, NoProc,
  MaxAccepted,  \* bound: accepted confirmations
  MaxFaults,    \* bound: writes and reports that raise
  MaxRestarts   \* bound: restarts of the process

ASSUME ArenaAssumption ==
  /\ Contestants \subseteq Nat /\ IsFiniteSet(Contestants) /\ Contestants # {}
  /\ Samples # {} /\ NoKey \notin Keys /\ NoProc \notin Procs
  /\ MaxAccepted \in Nat /\ MaxFaults \in Nat /\ MaxRestarts \in Nat

VARIABLES
  (* In the database. *)
  status,      \* of the run; "deleted" when its row is gone
  settings,    \* start key, retry key -> frozen contestants, active retry
  contestant,  \* contestant -> draft, completed, failed
  outputs,     \* contestants with stored outputs (output ids are stable)
  votes,       \* samples that have a vote
  task,        \* whose task holds the ledger's key
  (* In the process. *)
  proc,        \* thread -> where it is and what it read
  (* History. *)
  approved,    \* contestant -> accepted confirmations that cover it
  charged,     \* contestant -> calls made
  cut,         \* a worker was lost, or never came to be
  accepted, faults, restarts

stored  == <<status, settings, contestant, outputs, votes>>
history == <<approved, charged, cut>>
bounds  == <<accepted, faults, restarts>>
vars    == <<stored, task, proc, history, bounds>>

Open      == {"voting", "partial_failed"}
Retriable == {"failed", "partial_failed"}
Statuses  == {"draft", "queued", "running", "voting", "partial_failed", "failed",
              "completed", "deleted"}

(* An absent retry key has an empty subset: a frozen one never is.         *)
Settings   == [start: Keys \cup {NoKey}, retries: [Keys -> SUBSET Contestants],
               active: Keys \cup {NoKey}]
NoSettings == [start |-> NoKey, retries |-> [k \in Keys |-> {}], active |-> NoKey]

(* What a thread knows: `seen`, `ids` from its read; `todo`, `good` of the  *)
(* contestants `ran` in its bundle.                                        *)
Free == [at |-> "free", key |-> NoKey, seen |-> NoSettings, ids |-> {},
         ran |-> {}, todo |-> {}, good |-> {}]

(* A thread keeps only what it will still use.                             *)
Go(p, r)    == proc' = [proc EXCEPT ![p] = r]
Goto(p, at) == Go(p, [Free EXCEPT !.at = at])

Init ==
  /\ status = "draft" /\ settings = NoSettings
  /\ contestant = [c \in Contestants |-> "draft"]
  /\ outputs = {} /\ votes = {}
  /\ task = NoProc
  /\ proc = [p \in Procs |-> Free]
  /\ approved = [c \in Contestants |-> 0] /\ charged = approved /\ cut = FALSE
  /\ accepted = 0 /\ faults = 0 /\ restarts = 0

-----------------------------------------------------------------------------
(* prepare_start: a replay of the stored key and a second key return or    *)
(* raise without a write; otherwise the claim follows the read.            *)
BeginStart(p, k) ==
  /\ proc[p].at = "free"
  /\ status = "draft" /\ settings.start = NoKey
  /\ Go(p, [Free EXCEPT !.at = "start", !.key = k, !.seen = settings])
  /\ UNCHANGED <<stored, task, history, bounds>>

(* claim_run_transition, and what its caller does with the outcome.        *)
Claim(p, from, new, ids) ==
  IF status \in from
    THEN /\ accepted < MaxAccepted /\ accepted' = accepted + 1
         /\ status' = "queued" /\ settings' = new
         /\ approved' = [c \in Contestants |-> approved[c] + IF c \in ids THEN 1 ELSE 0]
         /\ Go(p, [Free EXCEPT !.at = "claimed", !.ids = proc[p].ids])
    ELSE /\ Go(p, Free)
         /\ UNCHANGED <<status, settings, approved, accepted>>

ClaimStart(p) ==
  /\ proc[p].at = "start"
  /\ Claim(p, {"draft"}, [proc[p].seen EXCEPT !.start = proc[p].key],
           Contestants)
  /\ UNCHANGED <<contestant, outputs, votes, task, charged, cut, faults, restarts>>

(* prepare_retry: the failed contestants are frozen at the read.           *)
BeginRetry(p, k) ==
  /\ proc[p].at = "free"
  /\ status \in Retriable /\ settings.retries[k] = {}
  /\ \E c \in Contestants : contestant[c] = "failed"
  /\ Go(p, [Free EXCEPT !.at = "retry", !.key = k, !.seen = settings,
                        !.ids = {c \in Contestants : contestant[c] = "failed"}])
  /\ UNCHANGED <<stored, task, history, bounds>>

ClaimRetry(p) ==
  /\ proc[p].at = "retry"
  /\ Claim(p, Retriable, [proc[p].seen EXCEPT !.retries[proc[p].key] = proc[p].ids,
                                              !.active = proc[p].key],
           proc[p].ids)
  /\ UNCHANGED <<contestant, outputs, votes, task, charged, cut, faults, restarts>>

CreateSecondTask(p) == \* mutant: reject_duplicate=True dropped
  /\ proc[p].at = "claimed"
  /\ task' = p /\ Go(p, [proc[p] EXCEPT !.at = "worker"]) /\ cut' = cut
  /\ UNCHANGED <<stored, approved, charged, bounds>>

(* The router's create_task after the claim, then the worker in the        *)
(* background.  While an earlier task of the run is active it raises, and  *)
(* the run stays queued.                                                   *)
CreateTask(p) ==
  /\ proc[p].at = "claimed"
  /\ IF task = NoProc
       THEN task' = p /\ Go(p, [proc[p] EXCEPT !.at = "worker"]) /\ cut' = cut
       ELSE task' = task /\ Go(p, Free) /\ cut' = TRUE
  /\ UNCHANGED <<stored, approved, charged, bounds>>

-----------------------------------------------------------------------------
(* Whom a worker runs: everybody at a start (which froze nobody), at a     *)
(* retry the subset frozen under the key that is active by now.            *)
Bundle(p) ==
  IF proc[p].ids = {} THEN Contestants
  ELSE IF settings.active = NoKey THEN {} ELSE settings.retries[settings.active]

(* execute_run, execute_retry: queued -> running, or the claim error; a    *)
(* retry that finds no frozen subset raises.                               *)
Execute(p) ==
  /\ proc[p].at = "worker"
  /\ IF status = "queued"
       THEN /\ status' = "running"
            /\ Go(p, [Free EXCEPT !.at = IF Bundle(p) = {} THEN "crash" ELSE "call",
                                  !.ran = Bundle(p), !.todo = Bundle(p)])
       ELSE /\ status' = status
            /\ Goto(p, IF status = "deleted" THEN "crash" ELSE "report")
  /\ UNCHANGED <<settings, contestant, outputs, votes, task, history, bounds>>

First(S) == CHOOSE c \in S : \A d \in S : c <= d

CallUntilGood(p, good) == \* mutant: the retries of translate_batch
  /\ proc[p].at = "call"
  /\ LET c == First(proc[p].todo)
         over == IF good THEN {c} ELSE {}
     IN /\ charged[c] < 2 * MaxAccepted
        /\ charged' = [charged EXCEPT ![c] = @ + 1]
        /\ Go(p, [proc[p] EXCEPT !.todo = @ \ over, !.good = @ \cup over,
                                 !.at = IF proc[p].todo = over THEN "save" ELSE "call"])
  /\ UNCHANGED <<stored, task, approved, cut, bounds>>

(* _execute_contestant, serially, one request each: it is answered with    *)
(* translations, or fails somewhere between the handler and validation.    *)
CallContestant(p, good) ==
  /\ proc[p].at = "call"
  /\ LET c == First(proc[p].todo) IN
       /\ charged' = [charged EXCEPT ![c] = @ + 1]
       /\ Go(p, [proc[p] EXCEPT !.todo = @ \ {c},
                                !.good = IF good THEN @ \cup {c} ELSE @,
                                !.at = IF proc[p].todo = {c} THEN "save" ELSE "call"])
  /\ UNCHANGED <<stored, task, approved, cut, bounds>>

(* insert_requests, insert_outputs: an output replaces the one of the same *)
(* sample and contestant and keeps its id.  Without the run the foreign    *)
(* key raises.                                                             *)
SaveOutputs(p) ==
  /\ proc[p].at = "save"
  /\ IF status = "deleted"
       THEN outputs' = outputs /\ Goto(p, "crash")
       ELSE /\ outputs' = outputs \cup proc[p].ran
            /\ Go(p, [proc[p] EXCEPT !.at = "update", !.todo = proc[p].ran])
  /\ UNCHANGED <<status, settings, contestant, votes, task, history, bounds>>

(* update_contestant, one after another.                                   *)
UpdateContestant(p) ==
  /\ proc[p].at = "update"
  /\ IF status = "deleted"
       THEN contestant' = contestant /\ Goto(p, "crash")
       ELSE LET c == First(proc[p].todo) IN
            /\ contestant' = [contestant EXCEPT ![c] =
                                IF c \in proc[p].good THEN "completed" ELSE "failed"]
            /\ Go(p, [proc[p] EXCEPT !.todo = @ \ {c},
                                     !.at = IF proc[p].todo = {c} THEN "close" ELSE "update"])
  /\ UNCHANGED <<status, settings, outputs, votes, task, history, bounds>>

Completed == {c \in Contestants : contestant[c] = "completed"}

Aggregate(ok, all) ==
  IF ok = all THEN "voting" ELSE IF ok # {} THEN "partial_failed" ELSE "failed"

CloseBySubset(p) == \* mutant: the executor's aggregate of its own subset
  /\ proc[p].at = "close"
  /\ IF status = "deleted"
       THEN status' = status /\ Goto(p, "crash")
       ELSE status' = Aggregate(proc[p].good, proc[p].ran) /\ Goto(p, "event")
  /\ UNCHANGED <<settings, contestant, outputs, votes, task, history, bounds>>

(* The aggregate is taken over all contestants, read again; update_run     *)
(* sets it whatever the status is by now.                                  *)
CloseBundle(p) ==
  /\ proc[p].at = "close"
  /\ IF status = "deleted"
       THEN status' = status /\ Goto(p, "crash")
       ELSE status' = Aggregate(Completed, Contestants) /\ Goto(p, "event")
  /\ UNCHANGED <<settings, contestant, outputs, votes, task, history, bounds>>

(* append_event and the read for the answer.                               *)
AppendEvent(p) ==
  /\ proc[p].at = "event"
  /\ Goto(p, IF status = "deleted" THEN "crash" ELSE "report")
  /\ UNCHANGED <<stored, task, history, bounds>>

(* Anything in the bundle may raise: the prompt, a write, the event.       *)
Raise(p) ==
  /\ proc[p].at \in {"call", "save", "update", "close", "event"}
  /\ faults < MaxFaults /\ faults' = faults + 1
  /\ Goto(p, "crash")
  /\ UNCHANGED <<stored, task, history, accepted, restarts>>

CrashUnsaved(p) == \* mutant: the except branch reports the task only
  /\ proc[p].at = "crash"
  /\ Goto(p, "report")
  /\ UNCHANGED <<stored, task, history, bounds>>

(* The except branch of _run_arena_task: "failed", unconditionally; if     *)
(* that write raises too it is logged.                                     *)
HandleCrash(p) ==
  /\ proc[p].at = "crash"
  /\ Goto(p, "report")
  /\ \/ /\ status' = IF status = "deleted" THEN status ELSE "failed"
        /\ UNCHANGED <<cut, faults>>
     \/ /\ faults < MaxFaults /\ faults' = faults + 1
        /\ cut' = TRUE /\ status' = status
  /\ UNCHANGED <<settings, contestant, outputs, votes, task, approved, charged,
                 accepted, restarts>>

(* The task's terminal update: the key is free.                            *)
ReportTask(p) ==
  /\ proc[p].at = "report"
  /\ task' = NoProc /\ Go(p, Free)
  /\ UNCHANGED <<stored, history, bounds>>

-----------------------------------------------------------------------------
(* resample: after the awaits it writes the settings it read, whole, then  *)
(* replaces the samples if the run is still a draft.                       *)
BeginResample(p) ==
  /\ proc[p].at = "free" /\ status = "draft"
  /\ Go(p, [Free EXCEPT !.at = "resample", !.seen = settings])
  /\ UNCHANGED <<stored, task, history, bounds>>

WriteSettings(p) ==
  /\ proc[p].at = "resample"
  /\ IF status = "deleted"
       THEN settings' = settings /\ Go(p, Free)
       ELSE settings' = proc[p].seen /\ Goto(p, "replace")
  /\ UNCHANGED <<status, contestant, outputs, votes, task, history, bounds>>

ReplaceAnySamples(p) == \* mutant: the draft is not checked in the transaction
  /\ proc[p].at = "replace"
  /\ outputs' = {} /\ votes' = {}
  /\ Go(p, Free)
  /\ UNCHANGED <<status, settings, contestant, task, history, bounds>>

(* Outputs and votes go with the samples they belong to.                   *)
ReplaceSamples(p) ==
  /\ proc[p].at = "replace"
  /\ IF status = "draft"
       THEN outputs' = {} /\ votes' = {}
       ELSE UNCHANGED <<outputs, votes>>
  /\ Go(p, Free)
  /\ UNCHANGED <<status, settings, contestant, task, history, bounds>>

(* save_vote: the status is read, the vote written in another transaction. *)
BeginVote(p) ==
  /\ proc[p].at = "free" /\ status \in Open
  /\ Goto(p, "vote")
  /\ UNCHANGED <<stored, task, history, bounds>>

WriteVote(p, s) ==
  /\ proc[p].at = "vote"
  /\ votes' = IF status = "deleted" THEN votes ELSE votes \cup {s}
  /\ Go(p, Free)
  /\ UNCHANGED <<status, settings, contestant, outputs, task, history, bounds>>

(* complete_run.                                                           *)
BeginComplete(p) ==
  /\ proc[p].at = "free" /\ status \in Open
  /\ votes = Samples
  /\ Goto(p, "complete")
  /\ UNCHANGED <<stored, task, history, bounds>>

CompleteRun(p) ==
  /\ proc[p].at = "complete"
  /\ status' = IF status \in Open THEN "completed" ELSE status
  /\ Go(p, Free)
  /\ UNCHANGED <<settings, contestant, outputs, votes, task, history, bounds>>

(* delete_run, with everything that hangs on the run.                      *)
DeleteRun ==
  /\ status' = "deleted" /\ settings' = NoSettings
  /\ contestant' = [c \in Contestants |-> "draft"]
  /\ outputs' = {} /\ votes' = {}
  /\ UNCHANGED <<task, proc, history, bounds>>

(* The process restarts: its threads are gone; the run's row, and the      *)
(* task's, which start-up loads as active, are not.                        *)
Restart ==
  /\ restarts < MaxRestarts /\ restarts' = restarts + 1
  /\ proc' = [p \in Procs |-> Free]
  /\ cut' = TRUE
  /\ UNCHANGED <<stored, task, approved, charged, accepted, faults>>

-----------------------------------------------------------------------------
Worker(p) ==
  \/ Execute(p) \/ (\E good \in BOOLEAN : CallContestant(p, good))
  \/ SaveOutputs(p) \/ UpdateContestant(p) \/ CloseBundle(p) \/ AppendEvent(p)
  \/ Raise(p) \/ HandleCrash(p) \/ ReportTask(p)

Handler(p) ==
  \/ ClaimStart(p) \/ ClaimRetry(p) \/ CreateTask(p)
  \/ WriteSettings(p) \/ ReplaceSamples(p)
  \/ (\E s \in Samples : WriteVote(p, s)) \/ CompleteRun(p)

Request(p) ==
  \/ \E k \in Keys : BeginStart(p, k) \/ BeginRetry(p, k)
  \/ BeginResample(p) \/ BeginVote(p) \/ BeginComplete(p)

Next ==
  \/ \E p \in Procs : Worker(p) \/ Handler(p) \/ Request(p)
  \/ DeleteRun \/ Restart

Spec == Init /\ [][Next]_vars

(* A thread that has begun goes on; nobody need ask for anything.          *)
FairSpec == Spec /\ \A p \in Procs : WF_vars(Worker(p) \/ Handler(p))

-----------------------------------------------------------------------------
(* Types of the variables.                                                 *)
Places == {"free", "start", "retry", "claimed", "worker", "call", "save", "update",
           "close", "event", "crash", "report", "resample", "replace", "vote", "complete"}

(* A bundle is somebody's, to its last contestant.                         *)
Loaded(r) == /\ r.at \in {"call", "update"} => r.todo # {}
             /\ r.at \in {"call", "save"} => r.ran # {}

TypeOK ==
  /\ status \in Statuses /\ settings \in Settings
  /\ contestant \in [Contestants -> {"draft", "completed", "failed"}]
  /\ outputs \subseteq Contestants /\ votes \subseteq Samples
  /\ task \in Procs \cup {NoProc}
  /\ proc \in [Procs -> [at: Places, key: Keys \cup {NoKey}, seen: Settings,
                         ids: SUBSET Contestants, ran: SUBSET Contestants,
                         todo: SUBSET Contestants, good: SUBSET Contestants]]
  /\ \A p \in Procs : Loaded(proc[p])
  /\ approved \in [Contestants -> Nat] /\ charged \in [Contestants -> Nat]
  /\ cut \in BOOLEAN
  /\ accepted \in Nat /\ faults \in Nat /\ restarts \in Nat

(* Contestants are served one by one by one worker: the task's key keeps a *)
(* retry from running beside a worker that has closed the run and not yet  *)
(* reported, whose except branch would set the retry's run to "failed".    *)
Executing(p)   == proc[p].at \in {"call", "save", "update", "close"}
SingleExecutor == \A p, q \in Procs : Executing(p) /\ Executing(q) => p = q

(* No model is called more often than the user confirmed a call of it,     *)
(* however many clients send a confirmation and whichever worker serves    *)
(* it.                                                                     *)
CalledOncePerApproval == \A c \in Contestants : charged[c] <= approved[c]

(* Voting is on only while every contestant has answered and its outputs   *)
(* are there to be judged: the status agrees with the contestants and with *)
(* what is stored, also after a retry of some of them, and beside a        *)
(* resampling that began in the draft and would sweep outputs away.        *)
VotingMeansAllAnswered ==
  status = "voting" => Completed = Contestants /\ outputs = Contestants

(* A completed run has a vote on each of its samples, though the votes     *)
(* were counted in one transaction and the status set in another.          *)
CompletedIsJudged == status = "completed" => votes = Samples

(* A run somebody paid for comes to an end anyone can act on, unless its   *)
(* worker was lost.                                                        *)
ArenaEnds == status \in {"queued", "running"} ~> status \notin {"queued", "running"} \/ cut
=============================================================================
