-------------------------- MODULE ModelArenaProofs --------------------------
(***************************************************************************)
(* What ModelArena guarantees for any number of threads, contestants,      *)
(* samples, keys and faults.  The properties are not inductive: that one   *)
(* worker executes at a time rests on the key of the ledger, which every   *)
(* worker holds; that a call was approved rests on what waits to be        *)
(* called having been approved once more than it was called, wherever it   *)
(* waits: in the start's thread, in the frozen subset, in the worker.      *)
(***************************************************************************)
EXTENDS ModelArena, WellFoundedInduction, TLAPS

Thread == [at: Places, key: Keys \cup {NoKey}, seen: Settings,
           ids: SUBSET Contestants, ran: SUBSET Contestants,
           todo: SUBSET Contestants, good: SUBSET Contestants]

AtWork     == {"worker", "call", "save", "update", "close", "event", "crash", "report"}
AtBundle   == {"call", "save", "update", "close"}
BeforeRun  == {"claimed", "worker"}
InDraft    == {"free", "start", "resample", "replace"}
Stopped    == {"queued", "deleted"}
Occupied   == {"running", "deleted"}
Working(p) == proc[p].at \in AtWork

(* A call of the contestant may be made.                                   *)
Paid(c) == charged[c] < approved[c]

(* A worker's task holds the key of the run.                               *)
WorkerHoldsTask == \A p \in Procs : Working(p) => task = p

(* A bundle is executed under the status running.                          *)
ExecutingIsRunning == \A p \in Procs : Executing(p) => status \in Occupied

(* Nothing but starts and resamplings goes on in a draft.                  *)
DraftIsQuiet ==
  status = "draft" => /\ settings.active = NoKey
                      /\ \A p \in Procs : proc[p].at \in InDraft

(* What threads read of a draft has no retry; a retry has somebody to run. *)
ReadsAreSound ==
  \A p \in Procs : /\ proc[p].at \in {"start", "resample"} => proc[p].seen.active = NoKey
                   /\ proc[p].at = "retry" => proc[p].ids # {}

(* A start that has not begun its bundle is the only one at work, and all  *)
(* of it is paid.                                                          *)
Scheduled(p) == proc[p].at \in AtWork \cup {"claimed"}
Unstarted(p) == proc[p].at \in BeforeRun /\ proc[p].ids = {}
StartIsAlone ==
  \A p \in Procs : Unstarted(p) =>
    /\ status \in Stopped
    /\ \A c \in Contestants : Paid(c)
    /\ \A q \in Procs : Scheduled(q) => q = p

(* A subset frozen for a queued retry is paid, and so is what a worker has *)
(* still to call.                                                          *)
RetryIsPaid ==
  status = "queued" /\ settings.active # NoKey =>
    \A c \in settings.retries[settings.active] : Paid(c)
CallsArePaid ==
  \A p \in Procs : proc[p].at = "call" => \A c \in proc[p].todo : Paid(c)

(* A completion that has passed its check finds the votes still there.     *)
JudgedBeforeCompletion ==
  \A p \in Procs : proc[p].at = "complete" =>
    (votes = Samples /\ status # "draft") \/ status = "deleted"

(* Voting is on only while every contestant has answered.                  *)
AnswersAreIn == status = "voting" => Completed = Contestants

IInv ==
  /\ TypeOK
  /\ WorkerHoldsTask
  /\ ExecutingIsRunning
  /\ DraftIsQuiet
  /\ ReadsAreSound
  /\ StartIsAlone
  /\ RetryIsPaid
  /\ CallsArePaid
  /\ CalledOncePerApproval
  /\ JudgedBeforeCompletion
  /\ AnswersAreIn
  /\ CompletedIsJudged

-----------------------------------------------------------------------------
(* A nonempty set of numbers has a least one.                              *)
Below == {ss \in Nat \X Nat : ss[1] < ss[2]}

LEMMA BelowWellFounded == IsWellFoundedOn(Below, Nat)
<1>1. OpToRel(<, Nat) = Below
  BY Zenon DEF OpToRel, Below
<1> QED BY <1>1, NatLessThanWellFounded, Zenon

(* The contestant that is called next is one of those to call.             *)
LEMMA FirstIsIn ==
  ASSUME NEW S, S \subseteq Nat, S # {}
  PROVE  First(S) \in S
<1>1. PICK x \in S : \A y \in S : ~(<<y, x>> \in Below)
  BY BelowWellFounded, WFMin, Zenon
<1>2. \A a, b \in Nat : a < b => <<a, b>> \in Below
  BY DEF Below
<1>3. \A d \in S : x <= d
  <2> SUFFICES ASSUME NEW d \in S PROVE x <= d
    OBVIOUS
  <2>1. ~(d < x)
    BY <1>1, <1>2
  <2> QED BY <2>1
<1> QED BY <1>3 DEF First

-----------------------------------------------------------------------------
(* Types.                                                                  *)
LEMMA FreeType == Free \in Thread
BY DEF Free, Thread, Places, Settings, NoSettings

(* A thread that moves keeps the types.                                    *)
LEMMA GoType ==
  ASSUME TypeOK, NEW p \in Procs, NEW r \in Thread, Go(p, r),
         Loaded(r)
  PROVE  /\ proc' \in [Procs -> Thread]
         /\ \A q \in Procs : Loaded(proc'[q])
BY DEF TypeOK, Thread, Loaded, Go

LEMMA GotoType ==
  ASSUME TypeOK, NEW p \in Procs, NEW at \in Places \ {"call", "save", "update"}, Goto(p, at)
  PROVE  /\ proc' \in [Procs -> Thread]
         /\ \A q \in Procs : Loaded(proc'[q])
         /\ [Free EXCEPT !.at = at] \in Thread
         /\ Go(p, [Free EXCEPT !.at = at])
<1>1. [Free EXCEPT !.at = at] \in Thread /\ [Free EXCEPT !.at = at].at = at
  BY FreeType DEF Thread
<1>2. Go(p, [Free EXCEPT !.at = at])
  BY DEF Goto
<1> QED BY <1>1, <1>2, GoType DEF Loaded

LEMMA SeenType ==
  ASSUME NEW s \in Settings, NEW k \in Keys, NEW S \in SUBSET Contestants
  PROVE  /\ [s EXCEPT !.start = k] \in Settings
         /\ [s EXCEPT !.retries[k] = S, !.active = k] \in Settings
         /\ [s EXCEPT !.retries[k] = S, !.active = k].active = k
         /\ [s EXCEPT !.retries[k] = S, !.active = k].retries[k] = S
         /\ [s EXCEPT !.start = k].active = s.active
BY DEF Settings

(* The types of a claim, whatever it finds.                                *)
LEMMA ClaimType ==
  ASSUME TypeOK, NEW p \in Procs, NEW from, NEW new \in Settings,
         NEW ids \in SUBSET Contestants, Claim(p, from, new, ids),
         UNCHANGED <<contestant, outputs, votes, task, charged, cut, faults, restarts>>
  PROVE  TypeOK'
<1>1. CASE status \in from
  <2>1. [Free EXCEPT !.at = "claimed", !.ids = proc[p].ids] \in Thread
    BY FreeType DEF TypeOK, Thread, Loaded, Places
  <2>2. [Free EXCEPT !.at = "claimed", !.ids = proc[p].ids].at = "claimed"
    BY DEF Free
  <2>3. approved' \in [Contestants -> Nat]
    BY <1>1 DEF Claim, TypeOK
  <2>4. /\ proc' \in [Procs -> Thread]
        /\ \A q \in Procs : Loaded(proc'[q])
    BY <1>1, <2>1, <2>2, GoType DEF Claim, Loaded
  <2>5. accepted' \in Nat /\ status' \in Statuses /\ settings' \in Settings
    BY <1>1 DEF Claim, TypeOK, Statuses
  <2> QED BY <2>3, <2>4, <2>5 DEF TypeOK, Thread, Loaded
<1>2. CASE status \notin from
  <2>1. /\ proc' \in [Procs -> Thread]
        /\ \A q \in Procs : Loaded(proc'[q])
    BY <1>2, FreeType, GoType DEF Claim, Free, Loaded
  <2> QED BY <1>2, <2>1 DEF Claim, TypeOK, Thread, Loaded
<1> QED BY <1>1, <1>2

LEMMA RequestType ==
  ASSUME TypeOK, NEW p \in Procs, Request(p)
  PROVE  TypeOK'
<1>1. ASSUME NEW k \in Keys, BeginStart(p, k) PROVE TypeOK'
  <2> DEFINE r == [Free EXCEPT !.at = "start", !.key = k, !.seen = settings]
  <2>1. r \in Thread /\ r.at = "start"
    BY FreeType DEF TypeOK, Thread, Loaded, Places
  <2> QED BY <1>1, <2>1, GoType DEF BeginStart, TypeOK, Thread, Loaded, stored, history, bounds
<1>2. ASSUME NEW k \in Keys, BeginRetry(p, k) PROVE TypeOK'
  <2> DEFINE r == [Free EXCEPT !.at = "retry", !.key = k, !.seen = settings,
                               !.ids = {c \in Contestants : contestant[c] = "failed"}]
  <2>1. r \in Thread /\ r.at = "retry"
    BY FreeType DEF TypeOK, Thread, Loaded, Places
  <2> QED BY <1>2, <2>1, GoType DEF BeginRetry, TypeOK, Thread, Loaded, stored, history, bounds
<1>3. CASE BeginResample(p)
  <2> DEFINE r == [Free EXCEPT !.at = "resample", !.seen = settings]
  <2>1. r \in Thread /\ r.at = "resample"
    BY FreeType DEF TypeOK, Thread, Loaded, Places
  <2> QED BY <1>3, <2>1, GoType DEF BeginResample, TypeOK, Thread, Loaded, stored, history, bounds
<1>4. CASE BeginVote(p) \/ BeginComplete(p)
  <2>1. "vote" \in Places \ {"call", "save", "update"} /\ "complete" \in Places \ {"call", "save", "update"}
    BY DEF Places
  <2> QED BY <1>4, <2>1, GotoType
          DEF BeginVote, BeginComplete, TypeOK, Thread, Loaded, stored, history, bounds
<1> QED BY <1>1, <1>2, <1>3, <1>4 DEF Request

LEMMA HandlerType ==
  ASSUME TypeOK, NEW p \in Procs, Handler(p)
  PROVE  TypeOK'
<1>1. proc[p] \in Thread /\ settings \in Settings
  BY DEF TypeOK, Thread, Loaded
<1>2. CASE ClaimStart(p)
  <2>1. [proc[p].seen EXCEPT !.start = proc[p].key] \in Settings
    BY <1>1 DEF Thread, Settings
  <2> QED BY <1>2, <2>1, ClaimType DEF ClaimStart
<1>3. CASE ClaimRetry(p)
  <2>1. [proc[p].seen EXCEPT !.retries[proc[p].key] = proc[p].ids,
                             !.active = proc[p].key] \in Settings
    BY <1>1 DEF Thread, Settings
  <2>2. proc[p].ids \in SUBSET Contestants
    BY <1>1 DEF Thread
  <2> QED BY <1>3, <2>1, <2>2, ClaimType DEF ClaimRetry
<1>4. CASE CreateTask(p)
  <2>1. [proc[p] EXCEPT !.at = "worker"] \in Thread /\ [proc[p] EXCEPT !.at = "worker"].at = "worker"
    BY <1>1 DEF Thread, Places
  <2> QED BY <1>4, <2>1, FreeType, GoType
          DEF CreateTask, TypeOK, Thread, Loaded, Free, stored, history, bounds
<1>5. CASE WriteSettings(p)
  <2>1. "replace" \in Places \ {"call", "save", "update"} /\ proc[p].seen \in Settings
    BY <1>1 DEF Places, Thread
  <2> QED BY <1>5, <2>1, FreeType, GoType, GotoType
          DEF WriteSettings, TypeOK, Thread, Loaded, Free, history, bounds
<1>6. CASE ReplaceSamples(p)
  BY <1>6, FreeType, GoType DEF ReplaceSamples, TypeOK, Thread, Loaded, Free, history, bounds
<1>7. ASSUME NEW s \in Samples, WriteVote(p, s) PROVE TypeOK'
  BY <1>7, FreeType, GoType DEF WriteVote, TypeOK, Thread, Loaded, Free, history, bounds
<1>8. CASE CompleteRun(p)
  BY <1>8, FreeType, GoType
  DEF CompleteRun, TypeOK, Thread, Loaded, Free, Statuses, history, bounds
<1> QED BY <1>2, <1>3, <1>4, <1>5, <1>6, <1>7, <1>8 DEF Handler

LEMMA WorkerType ==
  ASSUME TypeOK, NEW p \in Procs, Worker(p)
  PROVE  TypeOK'
<1>1. proc[p] \in Thread /\ settings \in Settings
  BY DEF TypeOK, Thread, Loaded
<1>2. /\ "crash" \in Places \ {"call", "save", "update"} /\ "report" \in Places \ {"call", "save", "update"}
      /\ "event" \in Places \ {"call", "save", "update"}
  BY DEF Places
<1>3. CASE Execute(p)
  <2>1. Bundle(p) \in SUBSET Contestants
    BY <1>1 DEF Bundle, Settings
  <2> DEFINE r == [Free EXCEPT !.at = IF Bundle(p) = {} THEN "crash" ELSE "call",
                               !.ran = Bundle(p), !.todo = Bundle(p)]
  <2>2. r \in Thread /\ Loaded(r)
    BY <2>1, FreeType DEF Thread, Places, Loaded
  <2>3. CASE status = "queued"
    BY <1>3, <2>2, <2>3, GoType DEF Execute, TypeOK, Thread, Loaded, Statuses, history, bounds
  <2>4. CASE status # "queued"
    BY <1>2, <1>3, <2>4, GotoType DEF Execute, TypeOK, Thread, Loaded, history, bounds
  <2> QED BY <2>3, <2>4
<1>4. ASSUME NEW good \in BOOLEAN, CallContestant(p, good) PROVE TypeOK'
  <2> DEFINE c == First(proc[p].todo)
             r == [proc[p] EXCEPT !.todo = @ \ {c},
                                  !.good = IF good THEN @ \cup {c} ELSE @,
                                  !.at = IF proc[p].todo = {c} THEN "save" ELSE "call"]
  <2>1. c \in proc[p].todo /\ c \in Contestants
    BY <1>1, <1>4, FirstIsIn, ArenaAssumption DEF CallContestant, TypeOK, Thread, Loaded
  <2>2. r \in Thread /\ Loaded(r)
    <3>1. proc[p].ran # {}
      BY <1>4 DEF CallContestant, TypeOK, Loaded
    <3>2. r \in Thread
      BY <1>1, <2>1 DEF Thread, Places
    <3>3. r.ran = proc[p].ran /\ r.todo = proc[p].todo \ {c}
          /\ r.at = IF proc[p].todo = {c} THEN "save" ELSE "call"
      BY <1>1 DEF Thread
    <3> QED BY <2>1, <3>1, <3>2, <3>3 DEF Loaded
  <2>3. charged' \in [Contestants -> Nat]
    BY <1>4, <2>1 DEF CallContestant, TypeOK
  <2>4. Go(p, r)
    BY <1>4 DEF CallContestant
  <2> QED BY <1>4, <2>2, <2>3, <2>4, GoType DEF CallContestant, TypeOK, Thread, Loaded, stored, bounds
<1>5. CASE SaveOutputs(p)
  <2> DEFINE r == [proc[p] EXCEPT !.at = "update", !.todo = proc[p].ran]
  <2>1. r \in Thread /\ r.todo = proc[p].ran /\ proc[p].ran \in SUBSET Contestants
    BY <1>1 DEF Thread, Places
  <2>2. CASE status = "deleted"
    BY <1>2, <1>5, <2>2, GotoType DEF SaveOutputs, TypeOK, Thread, Loaded, history, bounds
  <2>3. CASE status # "deleted"
    <3>1. Go(p, r) /\ outputs' = outputs \cup proc[p].ran
      BY <1>5, <2>3 DEF SaveOutputs
    <3>2. proc[p].ran # {}
      BY <1>5 DEF SaveOutputs, TypeOK, Loaded
    <3> QED BY <1>5, <2>1, <3>1, <3>2, GoType DEF SaveOutputs, TypeOK, Thread, Loaded, history, bounds
  <2> QED BY <2>2, <2>3
<1>6. CASE UpdateContestant(p)
  <2> DEFINE c == First(proc[p].todo)
             r == [proc[p] EXCEPT !.todo = @ \ {c},
                                  !.at = IF proc[p].todo = {c} THEN "close" ELSE "update"]
  <2>1. c \in proc[p].todo /\ c \in Contestants
    BY <1>1, <1>6, FirstIsIn, ArenaAssumption DEF UpdateContestant, TypeOK, Thread, Loaded
  <2>2. r \in Thread /\ Loaded(r)
    BY <1>1, <2>1 DEF Thread, Places, Loaded
  <2>3. CASE status = "deleted"
    BY <1>2, <1>6, <2>3, GotoType DEF UpdateContestant, TypeOK, Thread, Loaded, history, bounds
  <2>4. CASE status # "deleted"
    <3>1. Go(p, r)
      BY <1>6, <2>4 DEF UpdateContestant
    <3>2. contestant' \in [Contestants -> {"draft", "completed", "failed"}]
      BY <1>6, <2>1, <2>4 DEF UpdateContestant, TypeOK
    <3> QED BY <1>6, <2>2, <3>1, <3>2, GoType
            DEF UpdateContestant, TypeOK, Thread, Loaded, history, bounds
  <2> QED BY <2>3, <2>4
<1>7. CASE CloseBundle(p)
  <2>1. status' \in Statuses
    BY <1>7 DEF CloseBundle, Aggregate, TypeOK, Statuses
  <2> QED BY <1>2, <1>7, <2>1, GotoType DEF CloseBundle, TypeOK, Thread, Loaded, history, bounds
<1>8. CASE AppendEvent(p)
  BY <1>2, <1>8, GotoType DEF AppendEvent, TypeOK, Thread, Loaded, stored, history, bounds
<1>9. CASE Raise(p)
  <2>1. Goto(p, "crash") /\ faults' \in Nat
        /\ UNCHANGED <<stored, task, history, accepted, restarts>>
    BY <1>9 DEF Raise, TypeOK
  <2> QED BY <1>2, <2>1, GotoType DEF TypeOK, Thread, Loaded, stored, history
<1>10. CASE HandleCrash(p)
  <2>1. status' \in Statuses
    BY <1>10 DEF HandleCrash, TypeOK, Statuses
  <2>2. Goto(p, "report")
    BY <1>10 DEF HandleCrash
  <2>3. faults' \in Nat
    BY <1>10 DEF HandleCrash, TypeOK
  <2>4. cut \in BOOLEAN
    BY DEF TypeOK
  <2>5. cut' = cut \/ cut' = TRUE
    BY <1>10, Zenon DEF HandleCrash
  <2>6. cut' \in BOOLEAN
    BY <2>4, <2>5, Zenon
  <2>7. UNCHANGED <<settings, contestant, outputs, votes, task, approved, charged,
                    accepted, restarts>>
    BY <1>10 DEF HandleCrash
  <2>8. proc' \in [Procs -> Thread] /\ \A q \in Procs : Loaded(proc'[q])
    BY <1>2, <2>2, GotoType
  <2>9. /\ settings' \in Settings /\ outputs' \subseteq Contestants /\ votes' \subseteq Samples
        /\ contestant' \in [Contestants -> {"draft", "completed", "failed"}]
        /\ task' \in Procs \cup {NoProc}
        /\ approved' \in [Contestants -> Nat] /\ charged' \in [Contestants -> Nat]
        /\ accepted' \in Nat /\ restarts' \in Nat
    BY <2>7 DEF TypeOK
  <2> QED BY <2>1, <2>3, <2>6, <2>8, <2>9, Zenon DEF TypeOK, Thread
<1>11. CASE ReportTask(p)
  BY <1>11, FreeType, GoType DEF ReportTask, TypeOK, Thread, Loaded, Free, stored, history, bounds
<1> QED BY <1>3, <1>4, <1>5, <1>6, <1>7, <1>8, <1>9, <1>10, <1>11 DEF Worker

LEMMA EnvironmentType ==
  ASSUME TypeOK, DeleteRun \/ Restart
  PROVE  TypeOK'
<1>2. CASE DeleteRun
  <2>1. NoSettings \in Settings
    BY DEF NoSettings, Settings
  <2> QED BY <1>2, <2>1 DEF DeleteRun, TypeOK, Statuses, history, bounds
<1>3. CASE Restart
  <2>1. proc' \in [Procs -> Thread] /\ \A p \in Procs : proc'[p].at = "free"
    BY <1>3, FreeType DEF Restart, Free
  <2> QED BY <1>3, <2>1 DEF Restart, TypeOK, Thread, Loaded, stored
<1> QED BY <1>2, <1>3

-----------------------------------------------------------------------------
(* A step of one thread keeps the invariant if what it makes of the thread *)
(* and of the run fits together.                                           *)
LEMMA Step ==
  ASSUME IInv, TypeOK', NEW p \in Procs, NEW r \in Thread, Go(p, r),
         charged' = charged,
         \A c \in Contestants : Paid(c) => charged[c] < approved'[c],
         \A c \in Contestants : charged[c] <= approved'[c],
         r.at \in AtWork => task' = p,
         task' = task \/ task = NoProc \/ Working(p),
         r.at \in AtBundle => status' \in Occupied,
         status' = status \/ status \notin Occupied \/ Working(p),
         status' = "draft" =>
           status = "draft" /\ settings'.active = NoKey /\ r.at \in InDraft,
         r.at \in {"start", "resample"} => r.seen.active = NoKey,
         r.at = "retry" => r.ids # {},
         r.at \in BeforeRun /\ r.ids = {} =>
           /\ status' \in Stopped
           /\ \A c \in Contestants : charged[c] < approved'[c]
           /\ \A q \in Procs : Scheduled(q) => q = p,
         r.at \in AtWork \cup {"claimed"} => Scheduled(p) \/ status \notin Stopped,
         status \in Stopped => status' \in Stopped \/ Scheduled(p),
         status' = "queued" /\ settings'.active # NoKey =>
           \A c \in settings'.retries[settings'.active] : charged[c] < approved'[c],
         r.at = "call" => \A c \in r.todo : charged[c] < approved'[c],
         r.at = "complete" => (votes' = Samples /\ status' # "draft") \/ status' = "deleted",
         status = "deleted" => status' = "deleted",
         votes = Samples /\ status # "draft" => votes' = Samples /\ status' # "draft",
         status' = "voting" => Completed' = Contestants,
         status' = "completed" => votes' = Samples
  PROVE  IInv'
<1>1. \A q \in Procs : proc'[q] = IF q = p THEN r ELSE proc[q]
  BY DEF IInv, TypeOK, Go
<1>2. \A c \in Contestants : Paid(c) => Paid(c)'
  BY DEF Paid
<1>3. \A q \in Procs : q # NoProc
  BY ArenaAssumption
<1>4. WorkerHoldsTask'
  BY <1>1, <1>3 DEF IInv, WorkerHoldsTask, Working
<1>5. ExecutingIsRunning'
  <2> SUFFICES ASSUME NEW q \in Procs, Executing(q)' PROVE status' \in Occupied
    BY DEF ExecutingIsRunning
  <2>1. CASE q = p
    BY <1>1, <2>1 DEF Executing, AtBundle
  <2>2. CASE q # p
    <3>1. Executing(q) /\ Working(q)
      BY <1>1, <2>2 DEF Executing, Working, AtWork
    <3>2. ~Working(p)
      BY <2>2, <3>1 DEF IInv, WorkerHoldsTask
    <3>3. status \in Occupied
      BY <3>1 DEF IInv, ExecutingIsRunning
    <3> QED BY <3>2, <3>3
  <2> QED BY <2>1, <2>2
<1>6. DraftIsQuiet'
  BY <1>1 DEF IInv, DraftIsQuiet
<1>7. ReadsAreSound'
  BY <1>1 DEF IInv, ReadsAreSound
<1>8. StartIsAlone'
  <2> SUFFICES ASSUME NEW q \in Procs, Unstarted(q)'
               PROVE  /\ status' \in Stopped
                      /\ \A c \in Contestants : Paid(c)'
                      /\ \A o \in Procs : Scheduled(o)' => o = q
    BY DEF StartIsAlone
  <2>1. CASE q = p
    <3>1. r.at \in BeforeRun /\ r.ids = {}
      BY <1>1, <2>1 DEF Unstarted
    <3>2. \A o \in Procs : o # p => (Scheduled(o)' <=> Scheduled(o))
      BY <1>1 DEF Scheduled
    <3> QED BY <2>1, <3>1, <3>2 DEF Paid
  <2>2. CASE q # p
    <3>1. Unstarted(q)
      BY <1>1, <2>2 DEF Unstarted
    <3>2. /\ status \in Stopped
          /\ \A c \in Contestants : Paid(c)
          /\ \A o \in Procs : Scheduled(o) => o = q
      BY <3>1 DEF IInv, StartIsAlone
    <3>3. ~Scheduled(p)
      BY <2>2, <3>2
    <3>4. \A o \in Procs : Scheduled(o)' => o = q
      BY <1>1, <3>2, <3>3 DEF Scheduled
    <3> QED BY <1>2, <3>2, <3>3, <3>4
  <2> QED BY <2>1, <2>2
<1>9. RetryIsPaid'
  BY DEF RetryIsPaid, Paid
<1>10. CallsArePaid'
  <2> SUFFICES ASSUME NEW q \in Procs, proc'[q].at = "call", NEW c \in proc'[q].todo
               PROVE  Paid(c)'
    BY DEF CallsArePaid
  <2>1. CASE q = p
    BY <1>1, <2>1 DEF Paid
  <2>2. CASE q # p
    <3>1. proc[q].at = "call" /\ c \in proc[q].todo
      BY <1>1, <2>2
    <3>2. c \in Contestants
      BY <3>1 DEF IInv, TypeOK
    <3> QED BY <1>2, <3>1, <3>2 DEF IInv, CallsArePaid
  <2> QED BY <2>1, <2>2
<1>11. CalledOncePerApproval'
  BY DEF CalledOncePerApproval
<1>12. JudgedBeforeCompletion'
  BY <1>1 DEF IInv, JudgedBeforeCompletion
<1>13. AnswersAreIn' /\ CompletedIsJudged'
  BY DEF AnswersAreIn, CompletedIsJudged
<1> QED BY <1>4, <1>5, <1>6, <1>7, <1>8, <1>9, <1>10, <1>11, <1>12, <1>13 DEF IInv

(* A thread that reads or goes on, and leaves the run as it is.            *)
LEMMA Moves ==
  ASSUME IInv, TypeOK', NEW p \in Procs, NEW r \in Thread, Go(p, r),
         UNCHANGED <<status, settings, contestant, votes, task, approved, charged>>,
         r.at \notin BeforeRun \cup {"call"},
         r.at \in AtWork => Working(p),
         r.at \in AtBundle => Executing(p),
         status = "draft" => r.at \in InDraft,
         r.at \in {"start", "resample"} => r.seen.active = NoKey,
         r.at = "retry" => r.ids # {},
         r.at = "complete" => votes = Samples /\ status # "draft"
  PROVE  IInv'
<1>1. /\ task = p \/ r.at \notin AtWork
      /\ status \in Occupied \/ r.at \notin AtBundle
  BY DEF IInv, WorkerHoldsTask, ExecutingIsRunning
<1>2. r.at \in AtWork \cup {"claimed"} => Scheduled(p)
  BY DEF Working, Scheduled, BeforeRun
<1>3. /\ \A c \in Contestants : charged[c] <= approved[c]
      /\ status = "voting" => Completed' = Contestants
      /\ status = "completed" => votes = Samples
  BY DEF IInv, CalledOncePerApproval, AnswersAreIn, CompletedIsJudged, Completed
<1>4. status = "queued" /\ settings.active # NoKey =>
        \A c \in settings.retries[settings.active] : charged[c] < approved[c]
  BY DEF IInv, RetryIsPaid, Paid
<1>5. status = "draft" => settings.active = NoKey
  BY DEF IInv, DraftIsQuiet
<1> QED BY <1>1, <1>2, <1>3, <1>4, <1>5, Step DEF Paid

-----------------------------------------------------------------------------
(* Requests and handlers.                                                  *)
LEMMA RequestKeepsIInv ==
  ASSUME IInv, NEW p \in Procs, Request(p)
  PROVE  IInv'
<1>1. TypeOK /\ settings \in Settings
  BY DEF IInv, TypeOK
<1>2. TypeOK'
  BY <1>1, RequestType
<1>3. ASSUME NEW k \in Keys, BeginStart(p, k) PROVE IInv'
  <2> DEFINE r == [Free EXCEPT !.at = "start", !.key = k, !.seen = settings]
  <2>1. r \in Thread /\ r.at = "start" /\ r.seen = settings
    BY <1>1, FreeType DEF Thread, Places
  <2>2. Go(p, r) /\ status = "draft"
    BY <1>3 DEF BeginStart
  <2>3. settings.active = NoKey
    BY <2>2 DEF IInv, DraftIsQuiet
  <2> QED BY <1>2, <1>3, <2>1, <2>2, <2>3, Moves
          DEF BeginStart, stored, history, AtWork, AtBundle, BeforeRun, InDraft
<1>4. ASSUME NEW k \in Keys, BeginRetry(p, k) PROVE IInv'
  <2> DEFINE ids == {c \in Contestants : contestant[c] = "failed"}
             r == [Free EXCEPT !.at = "retry", !.key = k, !.seen = settings, !.ids = ids]
  <2>1. r \in Thread /\ r.at = "retry" /\ r.ids = ids
    BY <1>1, FreeType DEF Thread, Places
  <2>2. Go(p, r) /\ status # "draft" /\ ids # {}
    BY <1>4 DEF BeginRetry, Retriable
  <2> QED BY <1>2, <1>4, <2>1, <2>2, Moves
          DEF BeginRetry, stored, history, AtWork, AtBundle, BeforeRun
<1>5. CASE BeginResample(p)
  <2> DEFINE r == [Free EXCEPT !.at = "resample", !.seen = settings]
  <2>1. r \in Thread /\ r.at = "resample" /\ r.seen = settings
    BY <1>1, FreeType DEF Thread, Places
  <2>2. Go(p, r) /\ status = "draft"
    BY <1>5 DEF BeginResample
  <2>3. settings.active = NoKey
    BY <2>2 DEF IInv, DraftIsQuiet
  <2> QED BY <1>2, <1>5, <2>1, <2>2, <2>3, Moves
          DEF BeginResample, stored, history, AtWork, AtBundle, BeforeRun, InDraft
<1>6. CASE BeginVote(p)
  <2> DEFINE r == [Free EXCEPT !.at = "vote"]
  <2>1. r \in Thread /\ r.at = "vote"
    BY FreeType DEF Thread, Places
  <2>2. Go(p, r) /\ status # "draft"
    BY <1>6 DEF BeginVote, Open, Goto
  <2> QED BY <1>2, <1>6, <2>1, <2>2, Moves
          DEF BeginVote, stored, history, AtWork, AtBundle, BeforeRun
<1>7. CASE BeginComplete(p)
  <2> DEFINE r == [Free EXCEPT !.at = "complete"]
  <2>1. r \in Thread /\ r.at = "complete"
    BY FreeType DEF Thread, Places
  <2>2. Go(p, r) /\ status # "draft" /\ votes = Samples
    BY <1>7 DEF BeginComplete, Open, Goto
  <2> QED BY <1>2, <1>7, <2>1, <2>2, Moves
          DEF BeginComplete, stored, history, AtWork, AtBundle, BeforeRun
<1> QED BY <1>3, <1>4, <1>5, <1>6, <1>7 DEF Request

(* A thread that gives up or has nothing more to do.                       *)
LEMMA GoFree ==
  ASSUME IInv, TypeOK', NEW p \in Procs, Go(p, Free),
         UNCHANGED <<status, settings, contestant, votes, task, approved, charged>>
  PROVE  IInv'
<1>1. Free.at = "free" /\ Free \in Thread
  BY FreeType DEF Free
<1> QED BY <1>1, Moves DEF AtWork, AtBundle, BeforeRun, InDraft

(* A worker that goes on, or stops, without a write of its own.            *)
LEMMA WorkerGoes ==
  ASSUME IInv, TypeOK', NEW p \in Procs, Working(p),
         NEW at \in {"event", "crash", "report"}, Goto(p, at),
         UNCHANGED <<status, settings, contestant, votes, task, approved, charged>>
  PROVE  IInv'
<1> DEFINE r == [Free EXCEPT !.at = at]
<1>1. r \in Thread /\ r.at = at /\ Go(p, r)
  BY FreeType DEF Thread, Places, Goto
<1>2. status # "draft"
  BY DEF IInv, DraftIsQuiet, Working, AtWork, InDraft
<1> QED BY <1>1, <1>2, Moves DEF AtWork, AtBundle, BeforeRun

(* A start is accepted in a draft, where nobody else is at work: every     *)
(* contestant is approved once more than it was called.                    *)
LEMMA ClaimStartKeepsIInv ==
  ASSUME IInv, NEW p \in Procs, ClaimStart(p)
  PROVE  IInv'
<1>1. TypeOK /\ TypeOK' /\ proc[p] \in Thread
  BY HandlerType DEF IInv, Handler, TypeOK, Thread
<1>2. CASE status # "draft"
  BY <1>1, <1>2, GoFree DEF ClaimStart, Claim
<1>3. CASE status = "draft"
  <2> DEFINE r   == [Free EXCEPT !.at = "claimed", !.ids = proc[p].ids]
             new == [proc[p].seen EXCEPT !.start = proc[p].key]
  <2>1. r \in Thread /\ r.at = "claimed" /\ r.ids = proc[p].ids
    BY <1>1, FreeType DEF Thread, Places
  <2>2. /\ Go(p, r) /\ status' = "queued" /\ settings' = new
        /\ \A c \in Contestants : approved'[c] = approved[c] + 1
    BY <1>3 DEF ClaimStart, Claim
  <2>3. new.active = NoKey
    BY <1>1 DEF ClaimStart, IInv, ReadsAreSound, Thread, Settings
  <2>4. \A c \in Contestants : charged[c] < approved'[c] /\ charged[c] <= approved'[c]
    BY <1>1, <2>2 DEF IInv, CalledOncePerApproval, TypeOK
  <2>5. \A q \in Procs : ~Scheduled(q)
    BY <1>3 DEF IInv, DraftIsQuiet, InDraft, Scheduled, AtWork
  <2> QED BY <1>1, <1>3, <2>1, <2>2, <2>3, <2>4, <2>5, Step
          DEF ClaimStart, AtWork, AtBundle, BeforeRun, Stopped, Occupied
<1> QED BY <1>2, <1>3

(* A retry is accepted for the subset its thread froze.                    *)
LEMMA ClaimRetryKeepsIInv ==
  ASSUME IInv, NEW p \in Procs, ClaimRetry(p)
  PROVE  IInv'
<1>1. TypeOK /\ TypeOK' /\ proc[p] \in Thread
  BY HandlerType DEF IInv, Handler, TypeOK, Thread
<1>2. CASE status \notin Retriable
  BY <1>1, <1>2, GoFree DEF ClaimRetry, Claim
<1>3. CASE status \in Retriable
  <2> DEFINE ids == proc[p].ids
             k   == proc[p].key
             r   == [Free EXCEPT !.at = "claimed", !.ids = ids]
             new == [proc[p].seen EXCEPT !.retries[k] = ids, !.active = k]
  <2>1. r \in Thread /\ r.at = "claimed" /\ r.ids = ids
    BY <1>1, FreeType DEF Thread, Places
  <2>2. /\ Go(p, r) /\ status' = "queued" /\ settings' = new
        /\ \A c \in Contestants : approved'[c] = approved[c] + IF c \in ids THEN 1 ELSE 0
    BY <1>3 DEF ClaimRetry, Claim
  <2>3. ids # {} /\ ids \in SUBSET Contestants
    BY <1>1 DEF ClaimRetry, IInv, ReadsAreSound, Thread
  <2>4. \A c \in Contestants : /\ charged[c] <= approved'[c]
                               /\ Paid(c) => charged[c] < approved'[c]
                               /\ c \in ids => charged[c] < approved'[c]
    BY <1>1, <2>2 DEF IInv, CalledOncePerApproval, TypeOK, Paid
  <2>5. new.active = k /\ (k \in Keys => new.retries[k] = ids)
    BY <1>1 DEF Thread, Settings
  <2>6. k \in Keys \/ k = NoKey
    BY <1>1 DEF Thread
  <2> QED BY <1>1, <1>3, <2>1, <2>2, <2>3, <2>4, <2>5, <2>6, Step
          DEF ClaimRetry, AtWork, AtBundle, BeforeRun, Stopped, Occupied, Retriable
<1> QED BY <1>2, <1>3

(* The key goes to a thread only while nobody has it.                      *)
LEMMA CreateTaskKeepsIInv ==
  ASSUME IInv, NEW p \in Procs, CreateTask(p)
  PROVE  IInv'
<1>1. TypeOK /\ TypeOK' /\ proc[p] \in Thread
  BY HandlerType DEF IInv, Handler, TypeOK, Thread
<1>2. CASE task # NoProc
  BY <1>1, <1>2, GoFree DEF CreateTask, stored, history
<1>3. CASE task = NoProc
  <2> DEFINE r == [proc[p] EXCEPT !.at = "worker"]
  <2>1. r \in Thread /\ r.at = "worker" /\ r.ids = proc[p].ids
    BY <1>1 DEF Thread, Places
  <2>2. /\ Go(p, r) /\ task' = p
        /\ UNCHANGED <<status, settings, contestant, votes, approved, charged>>
    BY <1>3 DEF CreateTask, stored
  <2>3. Scheduled(p) /\ (proc[p].ids = {} => Unstarted(p)) /\ status # "draft"
    BY DEF CreateTask, Scheduled, Unstarted, BeforeRun, IInv, DraftIsQuiet, InDraft
  <2>4. Unstarted(p) => /\ status \in Stopped
                        /\ \A c \in Contestants : Paid(c)
                        /\ \A q \in Procs : Scheduled(q) => q = p
    BY DEF IInv, StartIsAlone
  <2>5. /\ \A c \in Contestants : charged[c] <= approved[c]
        /\ status = "voting" => Completed' = Contestants
        /\ status = "completed" => votes = Samples
        /\ status = "queued" /\ settings.active # NoKey =>
             \A c \in settings.retries[settings.active] : charged[c] < approved[c]
    BY <2>2 DEF IInv, CalledOncePerApproval, AnswersAreIn, CompletedIsJudged,
                Completed, RetryIsPaid, Paid
  <2> QED BY <1>1, <1>3, <2>1, <2>2, <2>3, <2>4, <2>5, Step DEF AtBundle, Paid
<1> QED BY <1>2, <1>3

(* What stands while a step leaves the run as it is.                       *)
LEMMA Standing ==
  ASSUME IInv
  PROVE  /\ \A c \in Contestants : charged[c] <= approved[c]
         /\ status = "voting" => Completed = Contestants
         /\ status = "completed" => votes = Samples
         /\ status = "queued" /\ settings.active # NoKey =>
              \A c \in settings.retries[settings.active] : charged[c] < approved[c]
         /\ status = "draft" => settings.active = NoKey
BY DEF IInv, CalledOncePerApproval, AnswersAreIn, CompletedIsJudged,
       RetryIsPaid, DraftIsQuiet, Paid

LEMMA FreeAt == Free \in Thread /\ Free.at = "free"
BY FreeType DEF Free

(* The settings a resampling writes back are those of a draft.             *)
LEMMA WriteSettingsKeepsIInv ==
  ASSUME IInv, NEW p \in Procs, WriteSettings(p)
  PROVE  IInv'
<1>1. TypeOK'
  BY HandlerType DEF IInv, Handler
<1>2. CASE status = "deleted"
  BY <1>1, <1>2, GoFree DEF WriteSettings, history
<1>3. CASE status # "deleted"
  <2> DEFINE r == [Free EXCEPT !.at = "replace"]
  <2>1. r \in Thread /\ r.at = "replace"
    BY FreeType DEF Thread, Places
  <2>2. /\ Go(p, r) /\ settings' = proc[p].seen
        /\ UNCHANGED <<status, contestant, votes, task, approved, charged>>
    BY <1>3 DEF WriteSettings, Goto, history
  <2>3. settings'.active = NoKey
    BY <2>2 DEF WriteSettings, IInv, ReadsAreSound
  <2>4. Completed' = Completed
    BY <2>2 DEF Completed
  <2> QED BY <1>1, <2>1, <2>2, <2>3, <2>4, Standing, Step
          DEF AtWork, AtBundle, BeforeRun, InDraft, Paid
<1> QED BY <1>2, <1>3

LEMMA ReplaceSamplesKeepsIInv ==
  ASSUME IInv, NEW p \in Procs, ReplaceSamples(p)
  PROVE  IInv'
<1>1. TypeOK'
  BY HandlerType DEF IInv, Handler
<1>2. CASE status # "draft"
  BY <1>1, <1>2, GoFree DEF ReplaceSamples, history
<1>3. CASE status = "draft"
  <2>1. /\ Go(p, Free)
        /\ UNCHANGED <<status, settings, contestant, task, approved, charged>>
    BY <1>3 DEF ReplaceSamples, history
  <2> QED BY <1>1, <1>3, <2>1, FreeAt, Standing, Step
          DEF AtWork, AtBundle, BeforeRun, InDraft, Paid
<1> QED BY <1>2, <1>3

(* A vote that is written late adds to the votes, if at all.               *)
LEMMA WriteVoteKeepsIInv ==
  ASSUME IInv, NEW p \in Procs, NEW s \in Samples, WriteVote(p, s)
  PROVE  IInv'
<1>1. TypeOK'
  BY HandlerType DEF IInv, Handler
<1>2. /\ Go(p, Free)
      /\ UNCHANGED <<status, settings, contestant, task, approved, charged>>
      /\ votes = Samples => votes' = Samples
  BY DEF WriteVote, history
<1>3. Completed' = Completed
  BY <1>2 DEF Completed
<1> QED BY <1>1, <1>2, <1>3, FreeAt, Standing, Step
        DEF AtWork, AtBundle, BeforeRun, InDraft, Paid

(* The votes that the completion counted are still there when it sets the  *)
(* status.                                                                 *)
LEMMA CompleteRunKeepsIInv ==
  ASSUME IInv, NEW p \in Procs, CompleteRun(p)
  PROVE  IInv'
<1>1. TypeOK'
  BY HandlerType DEF IInv, Handler
<1>2. CASE status \notin Open
  BY <1>1, <1>2, GoFree DEF CompleteRun, history
<1>3. CASE status \in Open
  <2>1. /\ Go(p, Free) /\ status' = "completed"
        /\ UNCHANGED <<settings, contestant, votes, task, approved, charged>>
    BY <1>3 DEF CompleteRun, history
  <2>2. votes = Samples
    BY <1>3 DEF CompleteRun, Open, IInv, JudgedBeforeCompletion
  <2> QED BY <1>1, <1>3, <2>1, <2>2, FreeAt, Standing, Step
          DEF AtWork, AtBundle, BeforeRun, Stopped, Occupied, Open, Paid
<1> QED BY <1>2, <1>3

LEMMA HandlerKeepsIInv ==
  ASSUME IInv, NEW p \in Procs, Handler(p)
  PROVE  IInv'
BY ClaimStartKeepsIInv, ClaimRetryKeepsIInv, CreateTaskKeepsIInv, WriteSettingsKeepsIInv,
   ReplaceSamplesKeepsIInv, WriteVoteKeepsIInv, CompleteRunKeepsIInv DEF Handler

-----------------------------------------------------------------------------
(* The worker.                                                             *)
LEMMA ExecuteKeepsIInv ==
  ASSUME IInv, NEW p \in Procs, Execute(p)
  PROVE  IInv'
<1>1. TypeOK /\ TypeOK' /\ settings \in Settings /\ proc[p].ids \in SUBSET Contestants
  BY WorkerType DEF IInv, Worker, TypeOK
<1>2. Working(p) /\ Scheduled(p)
  BY DEF Execute, Working, Scheduled, AtWork
<1>3. CASE status # "queued"
  <2> DEFINE at == IF status = "deleted" THEN "crash" ELSE "report"
  <2>1. at \in {"event", "crash", "report"}
    OBVIOUS
  <2>2. /\ Goto(p, at)
        /\ UNCHANGED <<status, settings, contestant, votes, task, approved, charged>>
    BY <1>3 DEF Execute, history
  <2> QED BY <1>1, <1>2, <2>1, <2>2, WorkerGoes
<1>4. CASE status = "queued"
  <2> DEFINE B == Bundle(p)
             r == [Free EXCEPT !.at = IF B = {} THEN "crash" ELSE "call",
                               !.ran = B, !.todo = B]
  <2>1. B \in SUBSET Contestants
    BY <1>1 DEF Bundle, Settings
  <2>2. r \in Thread /\ r.at \in {"crash", "call"} /\ r.todo = B
    BY <2>1, FreeType DEF Thread, Places
  <2>3. /\ Go(p, r) /\ status' = "running"
        /\ UNCHANGED <<settings, contestant, votes, task, approved, charged>>
    BY <1>4 DEF Execute, history
  <2>4. \A c \in B : charged[c] < approved[c]
    <3>1. CASE proc[p].ids = {}
      <4>1. Unstarted(p)
        BY <3>1 DEF Execute, Unstarted, BeforeRun
      <4> QED BY <2>1, <4>1 DEF IInv, StartIsAlone, Paid
    <3>2. CASE proc[p].ids # {}
      BY <1>4, <3>2, Standing DEF Bundle
    <3> QED BY <3>1, <3>2
  <2>5. task = p
    BY <1>2 DEF IInv, WorkerHoldsTask
  <2> QED BY <1>1, <1>2, <1>4, <2>2, <2>3, <2>4, <2>5, Standing, Step
          DEF AtBundle, BeforeRun, Stopped, Occupied, Paid
<1> QED BY <1>3, <1>4

(* The contestant that is called was paid, and nobody else calls.          *)
LEMMA CallContestantKeepsIInv ==
  ASSUME IInv, NEW p \in Procs, NEW good \in BOOLEAN, CallContestant(p, good)
  PROVE  IInv'
<1> DEFINE c == First(proc[p].todo)
           r == [proc[p] EXCEPT !.todo = @ \ {c},
                                !.good = IF good THEN @ \cup {c} ELSE @,
                                !.at = IF proc[p].todo = {c} THEN "save" ELSE "call"]
<1>1. TypeOK /\ TypeOK' /\ proc[p] \in Thread
  BY WorkerType DEF IInv, Worker, TypeOK, Thread
<1>2. c \in proc[p].todo /\ c \in Contestants
  BY <1>1, FirstIsIn, ArenaAssumption DEF CallContestant, TypeOK, Thread, Loaded
<1>3. /\ r.at \in {"save", "call"} /\ r.todo = proc[p].todo \ {c}
      /\ \A q \in Procs : proc'[q] = IF q = p THEN r ELSE proc[q]
  BY <1>1 DEF CallContestant, Go, TypeOK, Thread
<1>4. /\ \A d \in Contestants : charged'[d] = IF d = c THEN charged[d] + 1 ELSE charged[d]
      /\ UNCHANGED <<status, settings, contestant, votes, task, approved>>
  BY <1>1, <1>2 DEF CallContestant, TypeOK, stored
<1>5. task = p /\ status \in Occupied
  BY DEF CallContestant, IInv, WorkerHoldsTask, Working, AtWork, ExecutingIsRunning, Executing
<1>6. \A q \in Procs : Unstarted(q) => FALSE
  BY <1>5 DEF IInv, StartIsAlone, Scheduled, AtWork, CallContestant, Unstarted, BeforeRun
<1>7. charged[c] < approved[c]
  BY <1>2 DEF CallContestant, IInv, CallsArePaid, Paid
<1>8. WorkerHoldsTask' /\ ExecutingIsRunning'
  BY <1>3, <1>4, <1>5
  DEF IInv, WorkerHoldsTask, Working, ExecutingIsRunning, Executing, AtWork
<1>9. DraftIsQuiet'
  BY <1>4, <1>5 DEF DraftIsQuiet, Occupied
<1>10. ReadsAreSound'
  BY <1>3 DEF IInv, ReadsAreSound
<1>11. StartIsAlone'
  BY <1>3, <1>6 DEF StartIsAlone, Unstarted, BeforeRun
<1>12. RetryIsPaid'
  BY <1>4, <1>5 DEF RetryIsPaid, Occupied
<1>13. CallsArePaid'
  <2> SUFFICES ASSUME NEW q \in Procs, proc'[q].at = "call", NEW d \in proc'[q].todo
               PROVE  Paid(d)'
    BY DEF CallsArePaid
  <2>1. q = p
    BY <1>3, <1>5 DEF IInv, WorkerHoldsTask, Working, AtWork
  <2>2. d \in proc[p].todo /\ d # c /\ d \in Contestants
    BY <1>1, <1>3, <2>1 DEF Thread
  <2> QED BY <1>4, <2>2 DEF CallContestant, IInv, CallsArePaid, Paid
<1>14. CalledOncePerApproval'
  BY <1>1, <1>4, <1>7 DEF IInv, CalledOncePerApproval, TypeOK
<1>15. JudgedBeforeCompletion'
  BY <1>3, <1>4 DEF IInv, JudgedBeforeCompletion
<1>16. AnswersAreIn' /\ CompletedIsJudged'
  BY <1>4 DEF IInv, AnswersAreIn, CompletedIsJudged, Completed
<1> QED BY <1>1, <1>8, <1>9, <1>10, <1>11, <1>12, <1>13, <1>14, <1>15, <1>16 DEF IInv

LEMMA SaveOutputsKeepsIInv ==
  ASSUME IInv, NEW p \in Procs, SaveOutputs(p)
  PROVE  IInv'
<1>1. TypeOK' /\ proc[p] \in Thread /\ Working(p) /\ Executing(p)
  BY WorkerType DEF SaveOutputs, IInv, Worker, TypeOK, Thread, Working, Executing, AtWork
<1>2. CASE status = "deleted"
  BY <1>1, <1>2, WorkerGoes DEF SaveOutputs, history
<1>3. CASE status # "deleted"
  <2> DEFINE r == [proc[p] EXCEPT !.at = "update", !.todo = proc[p].ran]
  <2>1. r \in Thread /\ r.at = "update"
    BY <1>1 DEF Thread, Places
  <2>2. /\ Go(p, r)
        /\ UNCHANGED <<status, settings, contestant, votes, task, approved, charged>>
    BY <1>3 DEF SaveOutputs, history
  <2>3. status # "draft"
    BY <1>1 DEF IInv, DraftIsQuiet, InDraft, Working, AtWork
  <2> QED BY <1>1, <2>1, <2>2, <2>3, Moves DEF BeforeRun
<1> QED BY <1>2, <1>3

(* The contestants change only while the run is running.                   *)
LEMMA UpdateContestantKeepsIInv ==
  ASSUME IInv, NEW p \in Procs, UpdateContestant(p)
  PROVE  IInv'
<1>1. TypeOK' /\ proc[p] \in Thread /\ Working(p) /\ Executing(p)
  BY WorkerType DEF UpdateContestant, IInv, Worker, TypeOK, Thread, Working, Executing, AtWork
<1>2. CASE status = "deleted"
  BY <1>1, <1>2, WorkerGoes DEF UpdateContestant, history
<1>3. CASE status # "deleted"
  <2> DEFINE c == First(proc[p].todo)
             r == [proc[p] EXCEPT !.todo = @ \ {c},
                                  !.at = IF proc[p].todo = {c} THEN "close" ELSE "update"]
  <2>1. r \in Thread /\ r.at \in {"close", "update"}
    BY <1>1 DEF Thread, Places
  <2>2. /\ Go(p, r)
        /\ UNCHANGED <<status, settings, votes, task, approved, charged>>
    BY <1>3 DEF UpdateContestant, history
  <2>3. status = "running" /\ task = p
    BY <1>1, <1>3 DEF IInv, ExecutingIsRunning, Occupied, WorkerHoldsTask
  <2> QED BY <1>1, <2>1, <2>2, <2>3, Standing, Step
          DEF AtBundle, BeforeRun, Stopped, Occupied, Paid
<1> QED BY <1>2, <1>3

(* The run is closed as all its contestants say.                           *)
LEMMA CloseBundleKeepsIInv ==
  ASSUME IInv, NEW p \in Procs, CloseBundle(p)
  PROVE  IInv'
<1>1. TypeOK' /\ Working(p) /\ Executing(p)
  BY WorkerType DEF CloseBundle, IInv, Worker, Working, Executing, AtWork
<1>2. CASE status = "deleted"
  BY <1>1, <1>2, WorkerGoes DEF CloseBundle, history
<1>3. CASE status # "deleted"
  <2> DEFINE r == [Free EXCEPT !.at = "event"]
  <2>1. r \in Thread /\ r.at = "event"
    BY FreeType DEF Thread, Places
  <2>2. /\ Go(p, r) /\ status' = Aggregate(Completed, Contestants)
        /\ UNCHANGED <<settings, contestant, votes, task, approved, charged>>
    BY <1>3 DEF CloseBundle, Goto, history
  <2>3. status = "running" /\ task = p
    BY <1>1, <1>3 DEF IInv, ExecutingIsRunning, Occupied, WorkerHoldsTask
  <2>4. /\ status' \in {"voting", "partial_failed", "failed"}
        /\ status' = "voting" => Completed = Contestants
    BY <2>2 DEF Aggregate
  <2>5. Completed' = Completed
    BY <2>2 DEF Completed
  <2> QED BY <1>1, <2>1, <2>2, <2>3, <2>4, <2>5, Standing, Step
          DEF AtBundle, BeforeRun, Stopped, Occupied, Paid
<1> QED BY <1>2, <1>3

(* A worker that stops before its end leaves the run failed, and nobody    *)
(* else is at work on it.                                                  *)
LEMMA HandleCrashKeepsIInv ==
  ASSUME IInv, NEW p \in Procs, HandleCrash(p)
  PROVE  IInv'
<1>1. TypeOK' /\ Working(p)
  BY WorkerType DEF HandleCrash, IInv, Worker, Working, AtWork
<1>2. /\ Goto(p, "report")
      /\ UNCHANGED <<settings, contestant, votes, task, approved, charged>>
      /\ status' = status \/ (status # "deleted" /\ status' = "failed")
  BY DEF HandleCrash
<1>3. CASE status' = status
  BY <1>1, <1>2, <1>3, WorkerGoes
<1>4. CASE status # "deleted" /\ status' = "failed"
  <2> DEFINE r == [Free EXCEPT !.at = "report"]
  <2>1. r \in Thread /\ r.at = "report" /\ Go(p, r)
    BY <1>2, FreeType DEF Thread, Places, Goto
  <2>2. task = p /\ Scheduled(p)
    BY <1>1 DEF IInv, WorkerHoldsTask, Working, Scheduled
  <2> QED BY <1>1, <1>2, <1>4, <2>1, <2>2, Standing, Step
          DEF AtBundle, BeforeRun, Stopped, Occupied, Paid
<1> QED BY <1>2, <1>3, <1>4

(* A worker that reports gives the key back last.                          *)
LEMMA ReportTaskKeepsIInv ==
  ASSUME IInv, NEW p \in Procs, ReportTask(p)
  PROVE  IInv'
<1>1. TypeOK' /\ Working(p)
  BY WorkerType DEF ReportTask, IInv, Worker, Working, AtWork
<1>2. /\ Go(p, Free)
      /\ UNCHANGED <<status, settings, contestant, votes, approved, charged>>
  BY DEF ReportTask, stored, history
<1>3. Completed' = Completed
  BY <1>2 DEF Completed
<1> QED BY <1>1, <1>2, <1>3, FreeAt, Standing, Step
        DEF AtWork, AtBundle, BeforeRun, InDraft, Paid

LEMMA WorkerKeepsIInv ==
  ASSUME IInv, NEW p \in Procs, Worker(p)
  PROVE  IInv'
<1>1. TypeOK'
  BY WorkerType DEF IInv
<1>2. CASE AppendEvent(p)
  <2>1. Working(p) /\ (IF status = "deleted" THEN "crash" ELSE "report") \in {"event", "crash", "report"}
    BY <1>2 DEF AppendEvent, Working, AtWork
  <2> QED BY <1>1, <1>2, <2>1, WorkerGoes DEF AppendEvent, stored, history
<1>3. CASE Raise(p)
  <2>1. Working(p) /\ "crash" \in {"event", "crash", "report"}
    BY <1>3 DEF Raise, Working, AtWork
  <2> QED BY <1>1, <1>3, <2>1, WorkerGoes DEF Raise, stored, history
<1> QED BY <1>2, <1>3, ExecuteKeepsIInv, CallContestantKeepsIInv, SaveOutputsKeepsIInv,
           UpdateContestantKeepsIInv, CloseBundleKeepsIInv, HandleCrashKeepsIInv,
           ReportTaskKeepsIInv DEF Worker

(* A deletion leaves nothing to judge or to pay; a restart leaves nobody   *)
(* at work.                                                                *)
LEMMA EnvironmentKeepsIInv ==
  ASSUME IInv, DeleteRun \/ Restart
  PROVE  IInv'
<1>1. TypeOK /\ TypeOK'
  BY EnvironmentType DEF IInv
<1>3. CASE DeleteRun
  <2>1. /\ status' = "deleted" /\ UNCHANGED <<task, proc, approved, charged>>
    BY <1>3 DEF DeleteRun, history
  <2>2. WorkerHoldsTask' /\ ReadsAreSound' /\ CalledOncePerApproval'
    BY <2>1 DEF IInv, WorkerHoldsTask, Working, ReadsAreSound, CalledOncePerApproval
  <2>3. ExecutingIsRunning' /\ DraftIsQuiet' /\ RetryIsPaid' /\ JudgedBeforeCompletion'
    BY <2>1 DEF ExecutingIsRunning, Occupied, DraftIsQuiet, RetryIsPaid, JudgedBeforeCompletion
  <2>4. StartIsAlone' /\ CallsArePaid'
    BY <2>1 DEF IInv, StartIsAlone, Stopped, Scheduled, Unstarted, CallsArePaid, Paid
  <2>5. AnswersAreIn' /\ CompletedIsJudged'
    BY <2>1 DEF AnswersAreIn, CompletedIsJudged
  <2> QED BY <1>1, <2>2, <2>3, <2>4, <2>5 DEF IInv
<1>4. CASE Restart
  <2>1. /\ \A p \in Procs : proc'[p].at = "free"
        /\ UNCHANGED <<status, settings, contestant, votes, task, approved, charged>>
    BY <1>4, FreeAt DEF Restart, stored
  <2>2. /\ WorkerHoldsTask' /\ ExecutingIsRunning' /\ ReadsAreSound'
        /\ StartIsAlone' /\ CallsArePaid' /\ JudgedBeforeCompletion'
    BY <2>1 DEF WorkerHoldsTask, Working, AtWork, ExecutingIsRunning, Executing, ReadsAreSound,
                StartIsAlone, Unstarted, BeforeRun, CallsArePaid, JudgedBeforeCompletion
  <2>3. DraftIsQuiet' /\ RetryIsPaid' /\ CalledOncePerApproval'
    BY <2>1 DEF IInv, DraftIsQuiet, InDraft, RetryIsPaid, Paid, CalledOncePerApproval
  <2>4. AnswersAreIn' /\ CompletedIsJudged'
    BY <2>1 DEF IInv, AnswersAreIn, CompletedIsJudged, Completed
  <2> QED BY <1>1, <2>2, <2>3, <2>4 DEF IInv
<1> QED BY <1>3, <1>4

-----------------------------------------------------------------------------
LEMMA InitIInv == Init => IInv
<1> SUFFICES ASSUME Init PROVE IInv
  OBVIOUS
<1>1. \A p \in Procs : proc[p] = Free
  BY DEF Init
<1>2. NoSettings \in Settings /\ NoSettings.active = NoKey
  BY DEF NoSettings, Settings
<1>3. \A c \in Contestants : approved[c] = 0 /\ charged[c] = 0
  BY DEF Init
<1>4. TypeOK
  <2>1. proc \in [Procs -> Thread] /\ \A p \in Procs : Loaded(proc[p])
    BY <1>1, FreeAt DEF Init, Loaded
  <2> QED BY <1>2, <2>1 DEF Init, TypeOK, Thread, Statuses
<1>5. /\ WorkerHoldsTask /\ ExecutingIsRunning /\ ReadsAreSound
      /\ StartIsAlone /\ CallsArePaid /\ JudgedBeforeCompletion
  BY <1>1, FreeAt DEF WorkerHoldsTask, Working, AtWork, ExecutingIsRunning, Executing,
     ReadsAreSound, StartIsAlone, Unstarted, BeforeRun, CallsArePaid, JudgedBeforeCompletion
<1>6. DraftIsQuiet /\ RetryIsPaid /\ CalledOncePerApproval
  BY <1>1, <1>2, <1>3, FreeAt DEF Init, DraftIsQuiet, InDraft, RetryIsPaid, CalledOncePerApproval
<1>7. AnswersAreIn /\ CompletedIsJudged
  BY DEF Init, AnswersAreIn, CompletedIsJudged
<1> QED BY <1>4, <1>5, <1>6, <1>7 DEF IInv

LEMMA NextKeepsIInv == IInv /\ [Next]_vars => IInv'
<1> SUFFICES ASSUME IInv, [Next]_vars PROVE IInv'
  OBVIOUS
<1>1. CASE Next
  BY <1>1, WorkerKeepsIInv, HandlerKeepsIInv, RequestKeepsIInv, EnvironmentKeepsIInv DEF Next
<1>2. CASE UNCHANGED vars
  BY <1>2 DEF vars, stored, history, bounds, IInv, TypeOK, Loaded, WorkerHoldsTask, Working,
     ExecutingIsRunning, Executing, DraftIsQuiet, ReadsAreSound, StartIsAlone, Scheduled,
     Unstarted, RetryIsPaid, CallsArePaid, Paid, CalledOncePerApproval,
     JudgedBeforeCompletion, AnswersAreIn, CompletedIsJudged, Completed
<1> QED BY <1>1, <1>2

(* The inductive invariant holds of every behaviour.                       *)
THEOREM InductiveInvariant == Spec => []IInv
<1>1. Init => IInv
  BY InitIInv
<1>2. IInv /\ [Next]_vars => IInv'
  BY NextKeepsIInv
<1> QED BY <1>1, <1>2, PTL DEF Spec

(* The rows and the threads keep the shapes the code gives them.           *)
THEOREM TypeCorrect == Spec => []TypeOK
<1>1. IInv => TypeOK
  BY DEF IInv
<1> QED BY <1>1, InductiveInvariant, PTL

(* No two workers execute a run at once, however many confirmations are    *)
(* sent, workers crash and clients delete.                                 *)
THEOREM ExecutorIsAlone == Spec => []SingleExecutor
<1>1. IInv => SingleExecutor
  BY DEF IInv, WorkerHoldsTask, Working, AtWork, SingleExecutor, Executing
<1> QED BY <1>1, InductiveInvariant, PTL

(* Nobody pays for a call of a model without having confirmed it.          *)
THEOREM CallsAreApproved == Spec => []CalledOncePerApproval
<1>1. IInv => CalledOncePerApproval
  BY DEF IInv
<1> QED BY <1>1, InductiveInvariant, PTL

(* A run is completed with all its votes.                                  *)
THEOREM CompletionIsSound == Spec => []CompletedIsJudged
<1>1. IInv => CompletedIsJudged
  BY DEF IInv
<1> QED BY <1>1, InductiveInvariant, PTL


-----------------------------------------------------------------------------
(* Outputs.  What a contestant answered stays stored: a resampling sweeps  *)
(* outputs only in a draft, where nobody has answered yet.                 *)
OutputsKept ==
  /\ Completed \subseteq outputs
  /\ status = "draft" => Completed = {}
  /\ \A p \in Procs : proc[p].at = "update" =>
       status = "deleted" \/ proc[p].todo \subseteq outputs

(* A thread that is not about to write contestants, and leaves the answers *)
(* and the outputs alone, keeps it.                                        *)
LEMMA OutputsStand ==
  ASSUME IInv, OutputsKept, NEW p \in Procs, NEW r \in Thread, Go(p, r),
         r.at # "update", UNCHANGED <<contestant, outputs>>,
         status' = "draft" => status = "draft",
         status = "deleted" => status' = "deleted"
  PROVE  OutputsKept'
<1>1. \A q \in Procs : proc'[q] = IF q = p THEN r ELSE proc[q]
  BY DEF IInv, TypeOK, Go
<1>2. Completed' = Completed
  BY DEF Completed
<1> QED BY <1>1, <1>2 DEF OutputsKept

(* Where a thread goes that keeps nothing of what it read.                 *)
LEMMA GoesOn ==
  ASSUME NEW p \in Procs, NEW at \in Places \ {"update"}, Goto(p, at)
  PROVE  \E r \in Thread : Go(p, r) /\ r.at # "update"
<1> DEFINE r == [Free EXCEPT !.at = at]
<1>1. r \in Thread /\ r.at = at
  BY FreeType DEF Thread
<1> QED BY <1>1 DEF Goto

LEMMA GoesFree ==
  ASSUME NEW p \in Procs, Go(p, Free)
  PROVE  \E r \in Thread : Go(p, r) /\ r.at # "update"
BY FreeAt

LEMMA NextKeepsOutputs == IInv /\ OutputsKept /\ [Next]_vars => OutputsKept'
<1> SUFFICES ASSUME IInv, OutputsKept, [Next]_vars PROVE OutputsKept'
  OBVIOUS
<1>1. TypeOK
  BY DEF IInv
<1>2. ASSUME NEW p \in Procs, Request(p) PROVE OutputsKept'
  <2>1. PICK r \in Thread : Go(p, r) /\ r.at # "update"
    <3>1. ASSUME NEW k \in Keys, BeginStart(p, k)
          PROVE  \E r \in Thread : Go(p, r) /\ r.at # "update"
      <4> DEFINE t == [Free EXCEPT !.at = "start", !.key = k, !.seen = settings]
      <4>1. t \in Thread /\ t.at = "start"
        BY <1>1, FreeType DEF TypeOK, Thread, Places
      <4> QED BY <3>1, <4>1 DEF BeginStart
    <3>2. ASSUME NEW k \in Keys, BeginRetry(p, k)
          PROVE  \E r \in Thread : Go(p, r) /\ r.at # "update"
      <4> DEFINE t == [Free EXCEPT !.at = "retry", !.key = k, !.seen = settings,
                                   !.ids = {c \in Contestants : contestant[c] = "failed"}]
      <4>1. t \in Thread /\ t.at = "retry"
        BY <1>1, FreeType DEF TypeOK, Thread, Places
      <4> QED BY <3>2, <4>1 DEF BeginRetry
    <3>3. CASE BeginResample(p)
      <4> DEFINE t == [Free EXCEPT !.at = "resample", !.seen = settings]
      <4>1. t \in Thread /\ t.at = "resample"
        BY <1>1, FreeType DEF TypeOK, Thread, Places
      <4> QED BY <3>3, <4>1 DEF BeginResample
    <3>4. CASE BeginVote(p) \/ BeginComplete(p)
      BY <3>4, GoesOn DEF BeginVote, BeginComplete, Places
    <3> QED BY <1>2, <3>1, <3>2, <3>3, <3>4 DEF Request
  <2>2. UNCHANGED <<status, contestant, outputs>>
    BY <1>2 DEF Request, BeginStart, BeginRetry, BeginResample, BeginVote, BeginComplete, stored
  <2> QED BY <2>1, <2>2, OutputsStand
<1>3. ASSUME NEW p \in Procs, Handler(p) PROVE OutputsKept'
  <2>1. PICK r \in Thread : Go(p, r) /\ r.at # "update"
    <3>1. proc[p] \in Thread
      BY <1>1 DEF TypeOK, Thread
    <3>2. CASE ClaimStart(p) \/ ClaimRetry(p)
      <4> DEFINE t == [Free EXCEPT !.at = "claimed", !.ids = proc[p].ids]
      <4>1. t \in Thread /\ t.at = "claimed"
        BY <3>1, FreeType DEF Thread, Places
      <4>2. Go(p, t) \/ Go(p, Free)
        BY <3>2 DEF ClaimStart, ClaimRetry, Claim
      <4> QED BY <4>1, <4>2, FreeAt
    <3>3. CASE CreateTask(p)
      <4> DEFINE t == [proc[p] EXCEPT !.at = "worker"]
      <4>1. t \in Thread /\ t.at = "worker"
        BY <3>1 DEF Thread, Places
      <4>2. Go(p, t) \/ Go(p, Free)
        BY <3>3 DEF CreateTask
      <4> QED BY <4>1, <4>2, FreeAt
    <3>4. CASE WriteSettings(p)
      <4>1. Go(p, Free) \/ Goto(p, "replace")
        BY <3>4 DEF WriteSettings
      <4> QED BY <4>1, GoesFree, GoesOn DEF Places
    <3>5. CASE ReplaceSamples(p) \/ (\E v \in Samples : WriteVote(p, v)) \/ CompleteRun(p)
      BY <3>5, FreeAt DEF ReplaceSamples, WriteVote, CompleteRun
    <3> QED BY <1>3, <3>2, <3>3, <3>4, <3>5 DEF Handler
  <2>2. /\ contestant' = contestant
        /\ status' = "draft" => status = "draft"
        /\ status = "deleted" => status' = "deleted"
    BY <1>3 DEF Handler, ClaimStart, ClaimRetry, Claim, CreateTask, WriteSettings,
                ReplaceSamples, WriteVote, CompleteRun, Retriable, Open, stored
  <2>3. CASE outputs' = outputs
    BY <2>1, <2>2, <2>3, OutputsStand
  <2>4. CASE outputs' # outputs
    <3>1. status = "draft" /\ status' = "draft"
      BY <1>3, <2>4 DEF Handler, ClaimStart, ClaimRetry, Claim, CreateTask, WriteSettings,
                        ReplaceSamples, WriteVote, CompleteRun, stored
    <3>2. \A q \in Procs : proc[q].at # "update"
      BY <3>1 DEF IInv, DraftIsQuiet, InDraft
    <3>3. \A q \in Procs : proc'[q].at # "update"
      BY <1>1, <2>1, <3>2 DEF TypeOK, Go
    <3> QED BY <2>2, <3>1, <3>3 DEF OutputsKept, Completed
  <2> QED BY <2>3, <2>4
<1>4. ASSUME NEW p \in Procs, Worker(p) PROVE OutputsKept'
  <2>1. proc[p] \in Thread /\ status # "draft"
    BY <1>1, <1>4
    DEF Worker, Execute, CallContestant, SaveOutputs, UpdateContestant, CloseBundle,
        AppendEvent, Raise, HandleCrash, ReportTask, TypeOK, Thread, IInv, DraftIsQuiet, InDraft
  <2>2. CASE SaveOutputs(p) /\ status # "deleted"
    <3> DEFINE r == [proc[p] EXCEPT !.at = "update", !.todo = proc[p].ran]
    <3>1. \A q \in Procs : proc'[q] = IF q = p THEN r ELSE proc[q]
      BY <1>1, <2>2 DEF SaveOutputs, Go, TypeOK
    <3>2. r.todo = proc[p].ran
      BY <2>1 DEF Thread
    <3>3. outputs' = outputs \cup proc[p].ran /\ UNCHANGED <<status, contestant>>
      BY <2>2 DEF SaveOutputs
    <3> QED BY <3>1, <3>2, <3>3 DEF OutputsKept, Completed
  <2>3. CASE UpdateContestant(p) /\ status # "deleted"
    <3> DEFINE c == First(proc[p].todo)
               r == [proc[p] EXCEPT !.todo = @ \ {c},
                                    !.at = IF proc[p].todo = {c} THEN "close" ELSE "update"]
    <3>1. c \in proc[p].todo
      BY <1>1, <2>3, FirstIsIn, ArenaAssumption DEF UpdateContestant, TypeOK, Loaded
    <3>2. \A q \in Procs : proc'[q] = IF q = p THEN r ELSE proc[q]
      BY <1>1, <2>3 DEF UpdateContestant, Go, TypeOK
    <3>3. r.todo \subseteq proc[p].todo
      BY <2>1 DEF Thread
    <3>4. UNCHANGED <<status, outputs>> /\ Completed' \subseteq Completed \cup {c}
      BY <1>1, <2>3 DEF UpdateContestant, Completed, TypeOK
    <3>5. proc[p].todo \subseteq outputs
      BY <2>3 DEF UpdateContestant, OutputsKept
    <3>6. \A q \in Procs : proc'[q].at = "update" => proc'[q].todo \subseteq outputs
      BY <2>3, <3>2, <3>3, <3>5 DEF OutputsKept
    <3> QED BY <2>1, <3>1, <3>4, <3>5, <3>6 DEF OutputsKept
  <2>4. CASE /\ ~(SaveOutputs(p) /\ status # "deleted")
             /\ ~(UpdateContestant(p) /\ status # "deleted")
    <3>1. PICK r \in Thread : Go(p, r) /\ r.at # "update"
      <4>1. CASE Execute(p)
        <5> DEFINE B == Bundle(p)
               t == [Free EXCEPT !.at = IF B = {} THEN "crash" ELSE "call", !.ran = B, !.todo = B]
        <5>1. B \in SUBSET Contestants
          BY <1>1 DEF Bundle, TypeOK, Settings
        <5>2. t \in Thread /\ t.at # "update"
          BY <5>1, FreeType DEF Thread, Places
        <5>3. Go(p, t) \/ Goto(p, "crash") \/ Goto(p, "report")
          BY <4>1 DEF Execute
        <5> QED BY <5>2, <5>3, GoesOn DEF Places
      <4>2. CASE \E good \in BOOLEAN : CallContestant(p, good)
        <5>1. PICK good \in BOOLEAN : CallContestant(p, good)
          BY <4>2
        <5> DEFINE c == First(proc[p].todo)
                   t == [proc[p] EXCEPT !.todo = @ \ {c},
                                        !.good = IF good THEN @ \cup {c} ELSE @,
                                        !.at = IF proc[p].todo = {c} THEN "save" ELSE "call"]
        <5>2. c \in Contestants
          BY <1>1, <5>1, FirstIsIn, ArenaAssumption DEF CallContestant, TypeOK, Loaded
        <5>3. t \in Thread /\ t.at \in {"save", "call"}
          BY <2>1, <5>2 DEF Thread, Places
        <5> QED BY <5>1, <5>3 DEF CallContestant
      <4>3. CASE ~Execute(p) /\ ~(\E good \in BOOLEAN : CallContestant(p, good))
        <5>1. Go(p, Free) \/ Goto(p, "crash") \/ Goto(p, "event") \/ Goto(p, "report")
          BY <1>4, <2>4, <4>3
          DEF Worker, SaveOutputs, UpdateContestant, CloseBundle, AppendEvent, Raise,
              HandleCrash, ReportTask
        <5> QED BY <5>1, GoesFree, GoesOn DEF Places
      <4> QED BY <4>1, <4>2, <4>3
    <3>2. UNCHANGED <<contestant, outputs>>
      BY <1>4, <2>4
      DEF Worker, Execute, CallContestant, SaveOutputs, UpdateContestant, CloseBundle,
          AppendEvent, Raise, HandleCrash, ReportTask, stored
    <3>3. /\ status' # "draft"
          /\ status = "deleted" => status' = "deleted"
      BY <1>4, <2>1
      DEF Worker, Execute, CallContestant, SaveOutputs, UpdateContestant, CloseBundle,
          AppendEvent, Raise, HandleCrash, ReportTask, Aggregate, stored
    <3> QED BY <3>1, <3>2, <3>3, OutputsStand
  <2> QED BY <2>2, <2>3, <2>4
<1>5. CASE DeleteRun
  <2>1. Completed' = {}
    BY <1>5 DEF DeleteRun, Completed
  <2> QED BY <1>5, <2>1 DEF DeleteRun, OutputsKept
<1>6. CASE Restart
  <2>1. \A p \in Procs : proc'[p].at # "update"
    BY <1>6, FreeAt DEF Restart
  <2> QED BY <1>6, <2>1 DEF Restart, stored, OutputsKept, Completed
<1>7. CASE UNCHANGED vars
  BY <1>7 DEF vars, stored, OutputsKept, Completed
<1> QED BY <1>2, <1>3, <1>4, <1>5, <1>6, <1>7 DEF Next

LEMMA OutputsAreKept == Spec => []OutputsKept
<1>1. Init => OutputsKept
  <2>1. Init => Completed = {} /\ \A p \in Procs : proc[p].at # "update"
    BY FreeAt DEF Init, Completed
  <2> QED BY <2>1 DEF OutputsKept
<1> QED BY <1>1, NextKeepsOutputs, InductiveInvariant, PTL DEF Spec

(* A run is put to the vote with all its contestants' answers and their    *)
(* outputs.                                                                *)
THEOREM VotingIsSound == Spec => []VotingMeansAllAnswered
<1>1. IInv /\ OutputsKept => VotingMeansAllAnswered
  BY DEF IInv, TypeOK, AnswersAreIn, OutputsKept, VotingMeansAllAnswered
<1> QED BY <1>1, InductiveInvariant, OutputsAreKept, PTL
=============================================================================
