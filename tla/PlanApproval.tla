---------------------------- MODULE PlanApproval -----------------------------
(***************************************************************************)
(* Plans that are made for the user and executed when approved: Copilot's, *)
(* which live in the process, and those of the agent API, whose registry   *)
(* keeps them in a file.  A plan makes a project, which Copilot's guided   *)
(* way translates at once, or translates a project, or checks whether it   *)
(* could.  A handler reserves the plan before it awaits anything, releases *)
(* it if it fails, and hands a task to a worker that begins once the       *)
(* request is answered, and not at all if the request ends with an error.  *)
(*                                                                         *)
(* A plan that could not be saved is shown to nobody and left out.  The    *)
(* plan made inside a guided execution is a part of it: nobody knows its   *)
(* id before the task runs, so its release changes nothing.                *)
(***************************************************************************)
EXTENDS Naturals, FiniteSets

CONSTANTS
  Plans, Requests,
  MaxRequests,  \* bound: approvals sent
  MaxFaults,    \* bound: file and registry operations that fail
  MaxLocks,     \* bound: times another process locks the database
  MaxCrashes    \* bound: restarts

ASSUME PlanAssumption ==
  /\ IsFiniteSet(Requests)
  /\ MaxRequests \in Nat /\ MaxFaults \in Nat /\ MaxLocks \in Nat /\ MaxCrashes \in Nat

VARIABLES
  (* In the process. *)
  plan,      \* plan -> what _plans or the registry says of it
  known,     \* plans whose task is in the ledger's memory
  req,       \* request -> where its handler stands
  (* On disk. *)
  saved,     \* the registry's file
  rows,      \* plans whose task has a row
  locked,    \* another process has locked the database
  (* History. *)
  made,      \* plan -> projects made for it
  ran,       \* plan -> its tasks that were begun
  reopened,  \* plan -> releases of it after it had been used for a project
  lost,      \* plans an approval of which ended with a crash or a failed operation
  requests, faults, locks, crashes

process == <<plan, known, req>>
disk    == <<saved, rows, locked>>
history == <<made, ran, reopened, lost>>
bounds  == <<requests, faults, locks, crashes>>
vars    == <<process, disk, history, bounds>>

Unmade == [home |-> "none", kind |-> "none", used |-> FALSE, fresh |-> FALSE]
Gone   == [Unmade EXCEPT !.home = "gone"]
New(home, kind) == [home |-> home, kind |-> kind, used |-> FALSE, fresh |-> TRUE]

Free == [pc |-> "free"]
Ids  == [p \in Plans |-> 0]

Init ==
  /\ plan = [p \in Plans |-> Unmade] /\ known = {} /\ req = [r \in Requests |-> Free]
  /\ saved = [p \in Plans |-> Unmade] /\ rows = {} /\ locked = FALSE
  /\ made = Ids /\ ran = Ids /\ reopened = Ids /\ lost = {}
  /\ requests = 0 /\ faults = 0 /\ locks = 0 /\ crashes = 0

-----------------------------------------------------------------------------
(* Faults, and the two stores.                                             *)
Fault(n) == faults + n <= MaxFaults /\ faults' = faults + n

(* _save writes the registry whole.                                        *)
Written(plans) == [p \in Plans |-> IF plans[p].home = "agent" THEN plans[p] ELSE saved[p]]

(* A save of the task of p, whose failure the ledger only logs.            *)
SaveTask(p) == rows' = IF locked THEN rows ELSE rows \cup {p}

At(r, pc) == req[r].pc = pc
Go(r, pc) == req' = [req EXCEPT ![r].pc = pc]
Answer(r) == req' = [req EXCEPT ![r] = Free]

Marked(p, used) == [plan EXCEPT ![p].used = used]
Approvable(p, home, kind) ==
  plan[p].home = home /\ plan[p].kind = kind /\ plan[p].fresh /\ ~plan[p].used

(* A fault that ends an approval of p without its release.                 *)
Lose(p) == lost' = lost \cup {p}

(* release_plan_reservation, or release_plan, which saves; after it the    *)
(* handler raises.  n faults led to it.                                    *)
Release(r, n) ==
  LET p == req[r].plan IN
  /\ plan' = IF plan[p].home = "gone" THEN plan ELSE Marked(p, FALSE)
  /\ Answer(r)
  /\ \/ Fault(n) /\ UNCHANGED lost
        /\ saved' = IF plan[p].home = "agent" THEN Written(plan') ELSE saved
     \/ plan[p].home = "agent" /\ Fault(n + 1) /\ Lose(p) /\ UNCHANGED saved

-----------------------------------------------------------------------------
(* Plans.  retry_agent_job makes one like plan_agent_job.                  *)
MakePlan(p, home, kind) ==
  /\ plan[p] = Unmade /\ (kind = "dry_run" => home = "agent")
  /\ plan' = [plan EXCEPT ![p] = New(home, kind)] /\ saved' = Written(plan')
  /\ UNCHANGED <<known, req, rows, locked, history, bounds>>

Expire(p) ==
  /\ plan[p].fresh
  /\ plan' = [plan EXCEPT ![p].fresh = FALSE] /\ saved' = [saved EXCEPT ![p].fresh = FALSE]
  /\ UNCHANGED <<known, req, rows, locked, history, bounds>>

-----------------------------------------------------------------------------
(* Approvals.  One the plan does not allow is refused and changes nothing, *)
(* but for the two below.                                                  *)
Send == requests < MaxRequests /\ requests' = requests + 1
        /\ UNCHANGED <<known, rows, locked, made, ran, locks, crashes>>

Enter(r, p, door, pc) ==
  req' = [req EXCEPT ![r] = [pc |-> pc, plan |-> p, door |-> door]]

(* approve_and_execute_plan for execute_workflow ("execute") and for       *)
(* execute_guided_localization ("guided").                                 *)
ReserveLater(r, p, door) == \* mutant: the plan is not marked before the await
  /\ Send /\ At(r, "free") /\ Approvable(p, "copilot", "project")
  /\ Enter(r, p, door, "import")
  /\ UNCHANGED <<plan, saved, reopened, lost, faults>>

Reserve(r, p, door) ==
  /\ Send /\ At(r, "free") /\ Approvable(p, "copilot", "project")
  /\ plan' = Marked(p, TRUE) /\ Enter(r, p, door, "import")
  /\ UNCHANGED <<saved, reopened, lost, faults>>

ReserveTranslation(r, p) ==
  /\ Send /\ At(r, "free") /\ Approvable(p, "copilot", "translation")
  /\ plan' = Marked(p, TRUE) /\ Enter(r, p, "translate", "start")
  /\ UNCHANGED <<saved, reopened, lost, faults>>

(* execute_initial_translation of a plan to make a project: it is refused  *)
(* for its type before anything asks whether it was executed, and the      *)
(* handler releases what it has not reserved.                              *)
ReleaseUnreserved(p) ==
  /\ Send /\ plan[p].home = "copilot" /\ plan[p].kind = "project" /\ plan[p].fresh
  /\ plan' = Marked(p, FALSE)
  /\ reopened' = [reopened EXCEPT ![p] = @ + (IF plan[p].used THEN 1 ELSE 0)]
  /\ UNCHANGED <<req, saved, lost, faults>>

DropExpired(p) ==
  /\ Send /\ plan[p].home = "copilot" /\ ~plan[p].fresh
  /\ plan' = [plan EXCEPT ![p] = Gone]
  /\ UNCHANGED <<req, saved, reopened, lost, faults>>

(* consume_plan, saved before the plan is acted on.                        *)
ConsumeIf(allowed, r, p, kind, pc) ==
  /\ Send /\ At(r, "free") /\ allowed
  /\ plan' = Marked(p, TRUE)
  /\ \/ Fault(0) /\ saved' = Written(plan') /\ UNCHANGED lost
        /\ Enter(r, p, IF kind = "project" THEN "projects" ELSE "jobs", pc)
     \/ Fault(1) /\ Lose(p) /\ UNCHANGED <<saved, req>>
  /\ UNCHANGED reopened

ConsumeAgain(r, p, kind, pc) == \* mutant: consumed_at is not looked at
  ConsumeIf([plan[p] EXCEPT !.used = FALSE] = New("agent", kind), r, p, kind, pc)
Consume(r, p, kind, pc) ==
  ConsumeIf(Approvable(p, "agent", kind), r, p, kind, pc)

(* create_agent_project of another kind of plan, or start_agent_job of a   *)
(* plan to make a project: consumed and released, with a save each.        *)
ConsumeInVain(p) ==
  /\ Send /\ plan[p].home = "agent" /\ plan[p].fresh /\ ~plan[p].used
  /\ \/ Fault(0) /\ saved' = Written(plan) /\ UNCHANGED <<plan, lost>>
     \/ Fault(1) /\ Lose(p) /\ plan' = Marked(p, TRUE) /\ UNCHANGED saved
     \/ Fault(1) /\ Lose(p) /\ saved' = Written(Marked(p, TRUE)) /\ UNCHANGED plan
  /\ UNCHANGED <<req, reopened>>

-----------------------------------------------------------------------------
(* create_project: the folder is copied and the row inserted, then come    *)
(* the sidecar, the first scan and the history.                            *)
Import(r) ==
  LET p == req[r].plan IN
  /\ At(r, "import")
  /\ \/ /\ ~locked /\ Fault(0)
        /\ made' = [made EXCEPT ![p] = @ + 1] /\ Go(r, "scan")
        /\ UNCHANGED <<plan, saved, lost>>
     \/ /\ (locked /\ Release(r, 0)) \/ Release(r, 1)
        /\ UNCHANGED made
  /\ UNCHANGED <<known, rows, locked, ran, reopened, requests, locks, crashes>>

ScanFails(r) ==
  LET p == req[r].plan IN
  /\ At(r, "scan") /\ ((locked /\ Release(r, 0)) \/ Release(r, 1))
  /\ reopened' = [reopened EXCEPT ![p] = @ + 1]
  /\ UNCHANGED <<known, rows, locked, made, ran, requests, locks, crashes>>

(* The rest of the handler: the agent's records the event, the guided one  *)
(* asks for the plan again, which may have been dropped by now.            *)
ProjectMade(r) ==
  LET p == req[r].plan IN
  /\ At(r, "scan") /\ ~locked
  /\ IF req[r].door = "guided" /\ plan[p].home # "gone" THEN Go(r, "start") ELSE Answer(r)
  /\ \/ Fault(0) /\ saved' = IF req[r].door = "projects" THEN Written(plan) ELSE saved
     \/ req[r].door = "projects" /\ Fault(1) /\ UNCHANGED saved
  /\ UNCHANGED <<plan, known, rows, locked, history, requests, locks, crashes>>

-----------------------------------------------------------------------------
(* start_translation_project.  The plan's id is the task's idempotency     *)
(* key; a guided execution has a new one each time.                        *)
HasTask(p) == p \in known \cup rows

RefuseStartUsed(r) == \* mutant: the plan is not released
  /\ At(r, "start") /\ Answer(r)
  /\ UNCHANGED <<plan, known, disk, history, bounds>>

(* No project, another task of it, a task with the key, or any error: only *)
(* the guided handler's plan stays used, its project is made.              *)
RefuseStart(r) ==
  /\ At(r, "start")
  /\ IF req[r].door = "guided" THEN Answer(r) /\ UNCHANGED <<plan, saved, lost, faults>>
                               ELSE Release(r, 0)
  /\ UNCHANGED <<known, rows, locked, made, ran, reopened, requests, locks, crashes>>

(* The project's folder is missing: the task exists by then, and stays.    *)
StartWithoutFolder(r) ==
  LET p == req[r].plan IN
  /\ At(r, "start") /\ req[r].door # "guided" /\ ~HasTask(p)
  /\ known' = known \cup {p} /\ SaveTask(p) /\ Release(r, 0)
  /\ UNCHANGED <<locked, made, ran, reopened, requests, locks, crashes>>

Start(r) ==
  LET p == req[r].plan IN
  /\ At(r, "start") /\ Go(r, "tail")
  /\ IF req[r].door = "guided" THEN UNCHANGED <<known, rows>>
     ELSE ~HasTask(p) /\ known' = known \cup {p} /\ SaveTask(p)
  /\ UNCHANGED <<plan, saved, locked, history, bounds>>

(* The task is signed; the agent API records the job, and once more when   *)
(* it builds its answer.                                                   *)
Sign(r) ==
  LET p == req[r].plan IN
  /\ At(r, "tail")
  /\ IF req[r].door = "guided" THEN UNCHANGED rows ELSE SaveTask(p)
  /\ \/ /\ req[r].door # "jobs" /\ Go(r, "work")
        /\ UNCHANGED <<saved, lost, faults>>
     \/ /\ req[r].door = "jobs" /\ Fault(0) /\ Go(r, "reply")
        /\ saved' = Written(plan) /\ UNCHANGED lost
     \/ /\ req[r].door = "jobs" /\ Fault(1) /\ Answer(r) /\ Lose(p)
        /\ UNCHANGED saved
  /\ UNCHANGED <<plan, known, locked, made, ran, reopened, requests, locks, crashes>>

Reply(r) ==
  /\ At(r, "reply")
  /\ \/ Fault(0) /\ Go(r, "work") /\ saved' = Written(plan) /\ UNCHANGED lost
     \/ Fault(1) /\ Answer(r) /\ Lose(req[r].plan) /\ UNCHANGED saved
  /\ UNCHANGED <<plan, known, rows, locked, made, ran, reopened, requests, locks, crashes>>

(* The request is answered and its background task begins.                 *)
BeginWork(r) ==
  LET p == req[r].plan IN
  /\ At(r, "work") /\ Answer(r)
  /\ ran' = [ran EXCEPT ![p] = @ + 1]
  /\ IF req[r].door = "guided" THEN UNCHANGED rows ELSE SaveTask(p)
  /\ UNCHANGED <<plan, known, saved, locked, made, reopened, lost, bounds>>

(* start_agent_job of a dry run.  Whatever fails in it, nothing releases.  *)
DryRun(r) ==
  LET p == req[r].plan IN
  /\ At(r, "check") /\ Answer(r)
  /\ \/ /\ ~HasTask(p) /\ Fault(0)
        /\ known' = known \cup {p} /\ SaveTask(p) /\ ran' = [ran EXCEPT ![p] = @ + 1]
        /\ saved' = Written(plan) /\ UNCHANGED lost
     \/ /\ ~HasTask(p) /\ Fault(1) /\ Lose(p)  \* record_job raises
        /\ known' = known \cup {p} /\ SaveTask(p) /\ ran' = [ran EXCEPT ![p] = @ + 1]
        /\ UNCHANGED saved
     \/ /\ (Fault(1) \/ (HasTask(p) /\ Fault(0))) /\ Lose(p)
        /\ UNCHANGED <<known, rows, saved, ran>>
  /\ UNCHANGED <<plan, locked, made, reopened, requests, locks, crashes>>

-----------------------------------------------------------------------------
(* A job's snapshot is saved when it is looked at and when its task ends.  *)
SaveSnapshot(p) ==
  /\ plan[p].home = "agent" /\ ran[p] > 0
  /\ saved' = Written(plan)
  /\ UNCHANGED <<process, rows, locked, history, bounds>>

Lock ==
  /\ ~locked /\ locks < MaxLocks
  /\ locked' = TRUE /\ locks' = locks + 1
  /\ UNCHANGED <<process, saved, rows, history, requests, faults, crashes>>

Unlock ==
  /\ locked /\ locked' = FALSE
  /\ UNCHANGED <<process, saved, rows, history, bounds>>

Crash ==
  /\ crashes < MaxCrashes /\ crashes' = crashes + 1
  /\ plan' = [p \in Plans |-> CASE plan[p].home = "copilot" -> Gone
                                [] plan[p].home = "agent"   -> saved[p]
                                [] OTHER                    -> plan[p]]
  /\ known' = {} /\ req' = [r \in Requests |-> Free]
  /\ lost' = lost \cup {p \in Plans : \E r \in Requests : req[r] # Free /\ req[r].plan = p}
  /\ UNCHANGED <<disk, made, ran, reopened, requests, faults, locks>>

-----------------------------------------------------------------------------
Approve(r, p) ==
  \/ \E door \in {"execute", "guided"} : Reserve(r, p, door)
  \/ ReserveTranslation(r, p)
  \/ Consume(r, p, "project", "import") \/ Consume(r, p, "translation", "start")
  \/ Consume(r, p, "dry_run", "check")

Handler(r) ==
  \/ Import(r) \/ ScanFails(r) \/ ProjectMade(r)
  \/ RefuseStart(r) \/ StartWithoutFolder(r) \/ Start(r) \/ Sign(r) \/ Reply(r)
  \/ BeginWork(r) \/ DryRun(r)

Next ==
  \/ \E p \in Plans :
       \/ \E home \in {"copilot", "agent"}, kind \in {"project", "translation", "dry_run"} :
            MakePlan(p, home, kind)
       \/ Expire(p) \/ ReleaseUnreserved(p) \/ DropExpired(p) \/ ConsumeInVain(p)
       \/ SaveSnapshot(p)
       \/ \E r \in Requests : Approve(r, p)
  \/ \E r \in Requests : Handler(r)
  \/ Lock \/ Unlock \/ Crash

Spec == Init /\ [][Next]_vars

-----------------------------------------------------------------------------
Plan == [home : {"none", "gone", "copilot", "agent"},
         kind : {"none", "project", "translation", "dry_run"},
         used : BOOLEAN, fresh : BOOLEAN]
Handling == [pc : {"import", "scan", "start", "tail", "reply", "work", "check"},
             plan : Plans, door : {"execute", "guided", "translate", "projects", "jobs"}]

(* Types of the variables; whoever executes a plan came in by a door for   *)
(* it.                                                                     *)
TypeOK ==
  /\ plan \in [Plans -> Plan] /\ saved \in [Plans -> Plan]
  /\ known \subseteq Plans /\ rows \subseteq Plans /\ locked \in BOOLEAN
  /\ req \in [Requests -> {Free} \cup Handling]
  /\ \A r \in Requests : req[r] # Free =>
       req[r].door \in IF req[r].pc \in {"import", "scan"} THEN {"execute", "guided", "projects"}
                                                         ELSE {"guided", "translate", "jobs"}
  /\ made \in [Plans -> Nat] /\ ran \in [Plans -> Nat] /\ reopened \in [Plans -> Nat]
  /\ lost \subseteq Plans

(* An approved plan makes one project.  There is a second only where the   *)
(* plan was released after the first: create_project failed behind its     *)
(* insertion, or the plan was sent to the handler of another kind          *)
(* (approve_and_execute_plan, consume_plan).                               *)
OneProjectPerPlan == \A p \in Plans : made[p] <= 1 + reopened[p]

(* And it runs once: neither a double click, a lost answer, a retry after  *)
(* an error, a restart nor a locked database has paid work done again.     *)
OneRunPerPlan == \A p \in Plans : ran[p] <= 1 + reopened[p]

(* A plan stays used only if it did something, or the process or its files *)
(* failed: whatever else ends a handler gives it back, and the user may    *)
(* approve it again.                                                       *)
UsedMeansDone ==
  \A p \in Plans :
    plan[p].used /\ (\A r \in Requests : req[r] # Free => req[r].plan # p)
      => made[p] > 0 \/ ran[p] > 0 \/ p \in lost
=============================================================================
