--------------------------- MODULE ProgressReports --------------------------
(***************************************************************************)
(* What runs of translation share in the process while they are under way: *)
(* the ledger and its lock, the rate limiter and its lock, and the root    *)
(* logger.  Each run of a language attaches a handler to the root logger   *)
(* that records every line anybody logs as progress of the run's task: it  *)
(* takes the ledger's lock under the handler's own.  Where a line is       *)
(* logged under a lock, locks are nested the other way round.              *)
(*                                                                         *)
(* A thread is what it still has to do: a sequence of steps, each of which *)
(* is one action.  Of the ledger only its lock is here (TaskLedger has the *)
(* rest); its later takes for the listeners and for the payload of the     *)
(* push are like its first.                                                *)
(***************************************************************************)
EXTENDS Naturals, Sequences, SequencesExt, FiniteSets

CONSTANTS
  Runs,         \* runs of a language; each stands for its main thread too
  Workers,      \* threads of their pools
  RunOf,        \* worker -> its run
  Others,       \* threads of HTTP handlers
  RpmOf,        \* run -> its requests per minute, 0 if none were asked for
  Rpms,         \* what a user may set
  FirstRpm,     \* the setting at start-up
  MaxRounds,    \* bound: runs begun
  MaxMessages,  \* bound: lines, batches and updates outside runs
  MaxSettings,  \* bound: changes of the setting
  MaxSaveFaults     \* bound: saves that fail

ASSUME ReportsAssumption ==
  /\ RunOf \in [Workers -> Runs] /\ RpmOf \in [Runs -> Nat]
  /\ Rpms \subseteq Nat \ {0} /\ FirstRpm \in Nat \ {0}
  /\ MaxRounds \in Nat /\ MaxMessages \in Nat /\ MaxSettings \in Nat /\ MaxSaveFaults \in Nat

VARIABLES
  todo,        \* thread -> the steps it has before it
  held,        \* lock -> who has it, and how often
  bridges,     \* the runs whose handlers the root logger has, in order
  within,      \* runs inside their `with` blocks
  before,      \* run -> the limit it found
  limit,       \* the rate limiter's
  configured,  \* the user's setting
  (* History. *)
  crossed,     \* a run or a setting began while another was under way
  rounds, messages, sets, saveFaults

bounds == <<rounds, messages, sets, saveFaults>>
reportVars   == <<todo, held, bridges, within, before, limit, configured, crossed, bounds>>

Threads == Runs \cup Workers \cup Others

Ledger      == <<"ledger">>        \* _LOCK, an RLock
Limiter     == <<"limiter">>       \* RateLimiter._lock, a Lock
Progress(r) == <<"progress", r>>   \* progress_lock, a Lock
Bridge(r)   == <<"bridge", r>>     \* of the handler, an RLock
Locks == {Ledger, Limiter} \cup {Progress(r) : r \in Runs} \cup {Bridge(r) : r \in Runs}
Reentrant == {Ledger} \cup {Bridge(r) : r \in Runs}

Nobody == [by |-> {}, depth |-> 0]

(* What a thread does under a lock.                                        *)
Under(lock, steps) == <<<<"take", lock>>>> \o steps \o <<<<"give", lock>>>>

(* A line is given to the handlers of the root logger one after another,   *)
(* the first one first.                                                    *)
LogLine == <<"log", 1>>

UpdateAndLog == \* mutant: a line is logged before the lock is given back
  Under(Ledger, <<<<"save">>, LogLine>>)

(* update_task: the record is saved under the lock.                        *)
Update == Under(Ledger, <<<<"save">>>>)

(* The handler in the place given, if there still is one: CallbackHandler  *)
(* under its lock, down to update_task.  Then the next.                    *)
Emission(i) ==
  IF i \in DOMAIN bridges THEN Under(Bridge(bridges[i]), Update) \o <<<<"log", i + 1>>>> ELSE << >>

(* update_rpm logs under its lock; wait reserves a slot under it.          *)
UpdateRpm(n) == Under(Limiter, <<<<"set", n>>, LogLine>>)
Reserve      == Under(Limiter, <<>>)

(* translation_wrapper: a request, then the progress of its batch.         *)
Translate(r) == Reserve \o Under(Progress(r), Update)

ReportsInit ==
  /\ todo = [t \in Threads |-> << >>]
  /\ held = [l \in Locks |-> Nobody]
  /\ bridges = << >> /\ within = {}
  /\ limit = FirstRpm /\ configured = FirstRpm
  /\ before = [r \in Runs |-> FirstRpm]
  /\ crossed = FALSE
  /\ rounds = 0 /\ messages = 0 /\ sets = 0 /\ saveFaults = 0

Idle(t) == todo[t] = << >>
Quiet   == within = {} /\ \A t \in Threads : Idle(t)

-----------------------------------------------------------------------------
(* The run's main thread.  temporary_rpm_limit reads the limit and sets    *)
(* the run's, then progress_log_bridge attaches the handler.               *)
BeginRun(r) ==
  /\ r \notin within /\ Idle(r)
  /\ rounds < MaxRounds /\ rounds' = rounds + 1
  /\ within' = within \cup {r}
  /\ before' = [before EXCEPT ![r] = limit]
  /\ todo' = [todo EXCEPT ![r] = (IF RpmOf[r] = 0 THEN << >> ELSE UpdateRpm(RpmOf[r]))
                                   \o <<<<"attach", r>>>>]
  /\ crossed' = (crossed \/ ~Quiet)
  /\ UNCHANGED <<held, bridges, limit, configured, messages, sets, saveFaults>>

(* The stream is over: its pool is shut down, the blocks are left.         *)
EndRun(r) ==
  /\ r \in ToSet(bridges) /\ Idle(r)
  /\ \A w \in Workers : RunOf[w] = r => Idle(w)
  /\ todo' = [todo EXCEPT ![r] = <<<<"detach", r>>, <<"restore", r>>>>]
  /\ UNCHANGED <<held, bridges, within, before, limit, configured, crossed, bounds>>

(* A batch of a run, and anything anybody logs or reports.                 *)
Say(t, steps) ==
  /\ Idle(t)
  /\ messages < MaxMessages /\ messages' = messages + 1
  /\ todo' = [todo EXCEPT ![t] = steps]
  /\ UNCHANGED <<held, bridges, within, before, limit, configured, crossed,
                 rounds, sets, saveFaults>>

TranslateBatch(w) == RunOf[w] \in ToSet(bridges) /\ Idle(RunOf[w]) /\ Say(w, Translate(RunOf[w]))
ReportFile(r)     == r \in ToSet(bridges) /\ Say(r, Update \o <<LogLine>>)
ServeRequest(o)   == Say(o, Update) \/ Say(o, <<LogLine>>)

(* update_rpm_limit: the setting is stored and the limiter told.           *)
ChangeSetting(o, n) ==
  /\ Idle(o)
  /\ sets < MaxSettings /\ sets' = sets + 1
  /\ configured' = n
  /\ todo' = [todo EXCEPT ![o] = UpdateRpm(n)]
  /\ crossed' = (crossed \/ ~Quiet)
  /\ UNCHANGED <<held, bridges, within, before, limit, rounds, messages, saveFaults>>

-----------------------------------------------------------------------------
(* The steps.                                                              *)
Next1(t, op) == ~Idle(t) /\ Head(todo[t])[1] = op
Arg(t)       == Head(todo[t])[2]
Then(t, steps) == todo' = [todo EXCEPT ![t] = steps \o Tail(@)]

Take(t) ==
  /\ Next1(t, "take")
  /\ LET l == Arg(t) IN
       /\ held[l] = Nobody \/ (l \in Reentrant /\ held[l].by = {t})
       /\ held' = [held EXCEPT ![l] = [by |-> {t}, depth |-> @.depth + 1]]
  /\ Then(t, << >>)
  /\ UNCHANGED <<bridges, within, before, limit, configured, crossed, bounds>>

Give(t) ==
  /\ Next1(t, "give")
  /\ held' = [held EXCEPT ![Arg(t)] = IF @.depth = 1 THEN Nobody
                                      ELSE [by |-> @.by, depth |-> @.depth - 1]]
  /\ Then(t, << >>)
  /\ UNCHANGED <<bridges, within, before, limit, configured, crossed, bounds>>

(* _persist_task: a save that fails is logged, the lock still held.        *)
Save(t) ==
  /\ Next1(t, "save")
  /\ \/ Then(t, << >>) /\ saveFaults' = saveFaults
     \/ /\ saveFaults < MaxSaveFaults /\ saveFaults' = saveFaults + 1
        /\ Then(t, <<LogLine>>)
  /\ UNCHANGED <<held, bridges, within, before, limit, configured, crossed,
                 rounds, messages, sets>>

Log(t) ==
  /\ Next1(t, "log") /\ Then(t, Emission(Arg(t)))
  /\ UNCHANGED <<held, bridges, within, before, limit, configured, crossed, bounds>>

SetLimit(t) ==
  /\ Next1(t, "set") /\ limit' = Arg(t) /\ Then(t, << >>)
  /\ UNCHANGED <<held, bridges, within, before, configured, crossed, bounds>>

Attach(t) ==
  /\ Next1(t, "attach") /\ bridges' = Append(bridges, Arg(t)) /\ Then(t, << >>)
  /\ UNCHANGED <<held, within, before, limit, configured, crossed, bounds>>

Detach(t) ==
  /\ Next1(t, "detach")
  /\ bridges' = RemoveFirst(bridges, Arg(t)) /\ Then(t, << >>)
  /\ UNCHANGED <<held, within, before, limit, configured, crossed, bounds>>

RestoreOwn(t) == \* mutant: skipped while the limit is still the run's
  /\ Next1(t, "restore")
  /\ LET r == Arg(t) IN
       /\ Then(t, IF RpmOf[r] # 0 /\ limit # RpmOf[r]
                    THEN UpdateRpm(before[r]) ELSE << >>)
       /\ within' = within \ {r}
  /\ UNCHANGED <<held, bridges, before, limit, configured, crossed, bounds>>

(* The end of temporary_rpm_limit.                                         *)
Restore(t) ==
  /\ Next1(t, "restore")
  /\ LET r == Arg(t) IN
       /\ Then(t, IF RpmOf[r] # 0 /\ before[r] # limit
                    THEN UpdateRpm(before[r]) ELSE << >>)
       /\ within' = within \ {r}
  /\ UNCHANGED <<held, bridges, before, limit, configured, crossed, bounds>>

Step(t) == Take(t) \/ Give(t) \/ Save(t) \/ Log(t) \/ SetLimit(t) \/ Attach(t) \/ Detach(t) \/ Restore(t)

ReportsNext ==
  \/ \E r \in Runs : BeginRun(r) \/ EndRun(r) \/ ReportFile(r)
  \/ \E w \in Workers : TranslateBatch(w)
  \/ \E o \in Others : ServeRequest(o) \/ \E n \in Rpms : ChangeSetting(o, n)
  \/ \E t \in Threads : Step(t)

ReportsSpec == ReportsInit /\ [][ReportsNext]_reportVars

(* Threads run on.  (That they do not overtake each other for ever needs   *)
(* no strong fairness here: what they do is bounded.)                      *)
FairReports == ReportsSpec /\ \A t \in Threads : WF_reportVars(Step(t))

-----------------------------------------------------------------------------
Ops == {"take", "give", "save", "log", "set", "attach", "detach", "restore"}

(* Types of the variables; a lock is held by one thread, as often as it    *)
(* has taken it.                                                           *)
ReportsTypeOK ==
  /\ \A t \in Threads : \A i \in DOMAIN todo[t] : todo[t][i][1] \in Ops
  /\ \A l \in Locks :
       \/ held[l] = Nobody
       \/ /\ held[l].depth \in Nat \ {0} /\ l \notin Reentrant => held[l].depth = 1
          /\ \E t \in Threads : held[l].by = {t}
  /\ bridges \in Seq(Runs) /\ IsInjective(bridges)
  /\ within \subseteq Runs /\ before \in [Runs -> Nat]
  /\ limit \in Nat /\ configured \in Nat /\ crossed \in BOOLEAN
  /\ rounds \in 0..MaxRounds /\ messages \in 0..MaxMessages
  /\ sets \in 0..MaxSettings /\ saveFaults \in 0..MaxSaveFaults

(* Whoever reports, logs or waits for its turn returns: threads that nest  *)
(* the ledger's lock in a handler's do not wait for each other, as long as *)
(* no save fails.  (A line logged under the ledger's lock closes a circle: *)
(* the thread that logs it waits for a handler, whose owner waits for the  *)
(* ledger.)                                                                *)
ReportsReturn == []<>(saveFaults > 0 \/ \A t \in Threads : Idle(t))

(* A run that is alone gives the limit back as the user set it             *)
(* (temporary_rpm_limit).  Two runs that overlap may not: the one that     *)
(* ends last restores what it found, the other's limit.                    *)
LimitRestored == Quiet /\ ~crossed => limit = configured
=============================================================================
