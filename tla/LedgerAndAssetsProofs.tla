------------------------ MODULE LedgerAndAssetsProofs ------------------------
(***************************************************************************)
(* What TaskLedger guarantees for any number of tasks, projects and        *)
(* failed saves.  OneHolderPerKey is not inductive: a report on a task     *)
(* whose record had left its key would take the key back.  IInv adds what  *)
(* rules that out: a live worker's record still holds its key, unless a    *)
(* reset emptied the ledger, and then the record never has a key again.    *)
(*                                                                         *)
(* And what WorkshopAssets guarantees for any number of workspaces,        *)
(* versions, requests, failures and ends of the process.  AssetsInv adds   *)
(* to the properties what every request may count on between two of its    *)
(* transactions, and who sees to every picture and every task.             *)
(***************************************************************************)
EXTENDS TaskLedger, WorkshopAssets, FiniteSetTheorems, FunctionTheorems, TLAPS

(* A task nobody asked for has no record.                                  *)
UnbornUnrecorded ==
  \A t \in Tasks : job[t].phase = "unborn" => memory[t] = Absent /\ rows[t] = Absent

(* A live worker's record holds the project's key; only a reset takes it.  *)
LiveHoldsKey ==
  \A t \in Tasks : job[t].phase \in Live =>
    \/ IsActive(memory[t]) /\ memory[t].key = job[t].project
    \/ /\ resets > 0
       /\ memory[t].key = NoProject
       /\ ~IsTerminal(memory[t])
       /\ ~Known(t) => rows[t].status = "absent"

(* The worker of an incremental run in its tail has given the key up.      *)
TailHasEnded ==
  \A t \in Tasks : job[t].phase = "tail" =>
    IsTerminal(memory[t]) \/ memory[t].key = NoProject

(* Every worker knows the project it writes.                               *)
LiveHasProject == \A t \in Tasks : job[t].phase \in Live => job[t].project # NoProject

IInv ==
  /\ TypeOK
  /\ UnbornUnrecorded
  /\ LiveHoldsKey
  /\ LiveHasProject
  /\ TailHasEnded
  /\ ActiveRowsMirrored
  /\ OneHolderPerKey

-----------------------------------------------------------------------------
(* Saving a record of the right type keeps the types.                      *)
LEMMA PutType ==
  ASSUME TypeOK, NEW t \in Tasks, NEW rec \in Record, Put(t, rec)
  PROVE  /\ memory' \in [Tasks -> Record] /\ rows' \in [Tasks -> Record]
         /\ clock' \in Nat /\ faults' \in Nat
<1>1. memory' \in [Tasks -> Record]
  BY DEF TypeOK, Put
<1>2. rows' \in [Tasks -> Record] /\ faults' \in Nat
  BY DEF TypeOK, Put, Save
<1>3. rec.finished \in Nat
  BY DEF Record
<1>4. clock' \in Nat
  BY <1>3 DEF TypeOK, Put
<1> QED BY <1>1, <1>2, <1>4

(* A record that is saved takes no key: it had the key already, in one of  *)
(* its two copies, or nobody had it.                                       *)
LEMMA PutKeepsOneHolder ==
  ASSUME TypeOK, OneHolderPerKey,
         NEW t \in Tasks, NEW rec \in Record, Put(t, rec),
         IsActive(rec) /\ rec.key # NoProject =>
           \/ \E r \in {memory[t], rows[t]} : IsActive(r) /\ r.key = rec.key
           \/ ~KeyHeld(rec.key)
  PROVE  OneHolderPerKey'
<1> SUFFICES ASSUME NEW u \in Tasks, NEW v \in Tasks,
                    NEW r \in {memory'[u], rows'[u]}, NEW q \in {memory'[v], rows'[v]},
                    IsActive(r), IsActive(q), r.key = q.key, r.key # NoProject
             PROVE  u = v
  BY DEF OneHolderPerKey, IsActive
<1>1. \A w \in Tasks : memory'[w] = IF w = t THEN rec ELSE memory[w]
  BY DEF TypeOK, Put
<1>2. \A w \in Tasks : rows'[w] = rows[w] \/ (w = t /\ rows'[w] = rec)
  BY DEF TypeOK, Put, Save
<1>3. r \in {memory[u], rows[u]} \/ (u = t /\ r = rec)
  BY <1>1, <1>2
<1>4. q \in {memory[v], rows[v]} \/ (v = t /\ q = rec)
  BY <1>1, <1>2
<1>5. CASE r \in {memory[u], rows[u]} /\ q \in {memory[v], rows[v]}
  BY <1>5 DEF OneHolderPerKey
<1>6. CASE u = t /\ r = rec /\ q \in {memory[v], rows[v]}
  <2>1. KeyHeld(rec.key)
    BY <1>6 DEF KeyHeld
  <2>2. PICK x \in {memory[t], rows[t]} : IsActive(x) /\ x.key = rec.key
    BY <1>6, <2>1
  <2> QED BY <1>6, <2>2 DEF OneHolderPerKey
<1>7. CASE v = t /\ q = rec /\ r \in {memory[u], rows[u]}
  <2>1. KeyHeld(rec.key)
    BY <1>7 DEF KeyHeld
  <2>2. PICK x \in {memory[t], rows[t]} : IsActive(x) /\ x.key = rec.key
    BY <1>7, <2>1
  <2> QED BY <1>7, <2>2 DEF OneHolderPerKey
<1> QED BY <1>3, <1>4, <1>5, <1>6, <1>7

(* The shape of every action but the loads and the two that replace the    *)
(* ledger: one record is saved, one worker moves.                          *)
LEMMA PutStep ==
  ASSUME IInv, UNCHANGED_Process,
         NEW t \in Tasks, NEW rec \in Record, NEW j \in Job,
         Put(t, rec), job' = [job EXCEPT ![t] = j],
         rec.status # "absent", j.phase # "unborn",
         IsActive(rec) /\ rec.key # NoProject =>
           \/ \E r \in {memory[t], rows[t]} : IsActive(r) /\ r.key = rec.key
           \/ ~KeyHeld(rec.key),
         j.phase \in Live => j.project # NoProject,
         j.phase \in Live =>
           \/ IsActive(rec) /\ rec.key = j.project
           \/ resets > 0 /\ rec.key = NoProject /\ ~IsTerminal(rec),
         j.phase = "tail" => IsTerminal(rec) \/ rec.key = NoProject
  PROVE  IInv'
<1> TypeOK
  BY DEF IInv
<1>1. \A w \in Tasks : memory'[w] = IF w = t THEN rec ELSE memory[w]
  BY DEF TypeOK, Put
<1>2. \A w \in Tasks : rows'[w] = rows[w] \/ (w = t /\ rows'[w] = rec)
  BY DEF TypeOK, Put, Save
<1>3. \A w \in Tasks : job'[w] = IF w = t THEN j ELSE job[w]
  BY DEF TypeOK
<1>4. resets' = resets /\ restarts' = restarts
  BY DEF UNCHANGED_Process
<1>5. TypeOK'
  <2>1. job' \in [Tasks -> Job]
    BY DEF TypeOK
  <2> QED BY <2>1, <1>4, PutType DEF TypeOK
<1>6. UnbornUnrecorded'
  BY <1>1, <1>2, <1>3 DEF IInv, UnbornUnrecorded
<1>7. LiveHoldsKey'
  BY <1>1, <1>2, <1>3, <1>4 DEF IInv, LiveHoldsKey, IsActive, IsTerminal, Known
<1>8. LiveHasProject'
  BY <1>3 DEF IInv, LiveHasProject
<1>9. TailHasEnded'
  BY <1>1, <1>3 DEF IInv, TailHasEnded, IsTerminal
<1>10. ActiveRowsMirrored'
  BY <1>1, <1>2 DEF IInv, ActiveRowsMirrored, IsActive, Known
<1>11. OneHolderPerKey'
  BY PutKeepsOneHolder DEF IInv
<1> QED BY <1>5, <1>6, <1>7, <1>8, <1>9, <1>10, <1>11 DEF IInv

-----------------------------------------------------------------------------
LEMMA AbsentType == Absent \in Record
BY DEF Absent, Record, Kind

(* What a status report saves: the old record, or a bare one, under the    *)
(* new status and with its own key.                                        *)
LEMMA ReportedRecord ==
  ASSUME TypeOK, NEW t \in Tasks, NEW s \in Active \cup Terminal,
         NEW rec, rec = WithStatus(Ensured(t), s)
  PROVE  /\ rec \in Record
         /\ rec.status = s
         /\ Known(t) => rec.key = memory[t].key
         /\ ~Known(t) => rec.key = NoProject
<1> DEFINE base == Ensured(t)
<1>1. base \in Record
  BY AbsentType DEF Ensured, TypeOK, Record, Absent, Active
<1>2. /\ Known(t) => base.key = memory[t].key
      /\ ~Known(t) => base.key = NoProject
  BY DEF Ensured, Absent
<1> HIDE DEF base
<1>3. /\ WithStatus(base, s).status = s
      /\ WithStatus(base, s).key = base.key
  BY <1>1 DEF WithStatus, Record
<1>4. WithStatus(base, s) \in Record
  <2>1. clock + 1 \in Nat
    BY DEF TypeOK
  <2>2. base.finished \in Nat
    BY <1>1 DEF Record
  <2> QED BY <1>1, <2>1, <2>2 DEF WithStatus, Record
<1>5. rec = WithStatus(base, s)
  BY DEF base
<1> QED BY <1>2, <1>3, <1>4, <1>5

(* A report on a live worker's task: the record is active, or a reset has  *)
(* taken its key.                                                          *)
LEMMA ReportKeepsIInv ==
  ASSUME IInv, UNCHANGED_Process,
         NEW t \in Tasks, NEW s \in Active \cup Terminal, NEW j \in Job,
         UpdateStatus(t, s), job' = [job EXCEPT ![t] = j],
         job[t].phase \in Live, j.phase # "unborn",
         j.phase \in Live => s \in Active /\ j.project = job[t].project,
         j.phase = "tail" => s \in Terminal
  PROVE  IInv'
<1> DEFINE rec == WithStatus(Ensured(t), s)
<1>1. TypeOK
  BY DEF IInv
<1>2. /\ rec \in Record
      /\ rec.status = s
      /\ Known(t) => rec.key = memory[t].key
      /\ ~Known(t) => rec.key = NoProject
  BY <1>1, ReportedRecord
<1>3. Put(t, rec)
  BY DEF UpdateStatus
<1>4. IsActive(memory[t]) => Known(t)
  BY DEF IsActive, Active, Known
<1>5. \/ IsActive(memory[t]) /\ rec.key = memory[t].key /\ rec.key = job[t].project
      \/ resets > 0 /\ rec.key = NoProject
  BY <1>2, <1>4 DEF IInv, LiveHoldsKey
<1>6. rec.key # NoProject =>
        \E r \in {memory[t], rows[t]} : IsActive(r) /\ r.key = rec.key
  BY <1>5
<1>7. j.phase \in Live => j.project # NoProject
  BY DEF IInv, LiveHasProject
<1>8. s \in Active => IsActive(rec) /\ ~IsTerminal(rec)
  BY <1>2 DEF IsActive, IsTerminal, Active, Terminal
<1>9. j.phase \in Live =>
        \/ IsActive(rec) /\ rec.key = j.project
        \/ resets > 0 /\ rec.key = NoProject /\ ~IsTerminal(rec)
  BY <1>5, <1>8
<1>10. j.phase = "tail" => IsTerminal(rec) \/ rec.key = NoProject
  BY <1>2 DEF IsTerminal
<1>11. rec.status # "absent"
  BY <1>2 DEF Active, Terminal
<1> HIDE DEF rec
<1> QED BY <1>2, <1>3, <1>6, <1>7, <1>9, <1>10, <1>11, PutStep

-----------------------------------------------------------------------------
(* One lemma per action.                                                   *)
LEMMA CreateTaskKeepsIInv ==
  ASSUME IInv, NEW t \in Tasks, NEW k \in Kind, NEW p \in Projects,
         NEW o \in Ops \cup {NoOp}, CreateTask(t, k, p, o)
  PROVE  IInv'
<1> DEFINE scan == k = "project_watch_scan"
           rec == [Absent EXCEPT !.status = IF scan THEN "processing" ELSE "pending",
                                 !.kind = k, !.key = p, !.op = o]
           j == [phase |-> IF scan THEN "running" ELSE "requested",
                 kind |-> k, project |-> p]
<1>1. /\ Put(t, rec) /\ job' = [job EXCEPT ![t] = j]
      /\ UNCHANGED_Process /\ ~KeyHeld(p)
  BY DEF CreateTask
<1>2. rec \in Record /\ j \in Job
  BY DEF Absent, Record, Job, Phase, Active, Kind
<1>3. rec.key = p /\ IsActive(rec) /\ rec.status # "absent"
  BY DEF Absent, IsActive, Active
<1>4. j.project = p /\ j.phase \in {"running", "requested"}
  OBVIOUS
<1>5. p # NoProject
  BY SentinelAssumption
<1> HIDE DEF rec, j
<1> QED BY <1>1, <1>2, <1>3, <1>4, <1>5, PutStep

LEMMA RecordBlockedScanKeepsIInv ==
  ASSUME IInv, NEW t \in Tasks, NEW p \in Projects, RecordBlockedScan(t, p)
  PROVE  IInv'
<1> DEFINE rec == [Absent EXCEPT !.status = "failed", !.kind = "project_watch_scan",
                                 !.finished = clock + 1]
           j == [job[t] EXCEPT !.phase = "gone"]
<1>1. job[t] \in Job /\ clock \in Nat
  BY DEF IInv, TypeOK
<1>2. /\ Put(t, rec) /\ job' = [job EXCEPT ![t] = j] /\ UNCHANGED_Process
  BY DEF RecordBlockedScan
<1>3. rec \in Record
  <2>1. clock + 1 \in Nat
    BY <1>1
  <2> QED BY <2>1 DEF Absent, Record, Terminal, Kind
<1>5. j \in Job
  BY <1>1 DEF Job, Phase
<1>4. rec.key = NoProject /\ rec.status # "absent" /\ j.phase = "gone"
  BY <1>1 DEF Absent, Job
<1> HIDE DEF rec, j
<1> QED BY <1>2, <1>3, <1>4, <1>5, PutStep DEF Live

LEMMA AcceptRequestKeepsIInv ==
  ASSUME IInv, NEW t \in Tasks, AcceptRequest(t)
  PROVE  IInv'
<1> DEFINE j == [job[t] EXCEPT !.phase = "queued"]
<1>1. job[t] \in Job /\ TypeOK
  BY DEF IInv, TypeOK
<1>2. /\ j \in Job /\ j.phase = "queued" /\ j.project = job[t].project
      /\ job' = [job EXCEPT ![t] = j] /\ UNCHANGED_Process
      /\ job[t].phase \in Live
  BY <1>1 DEF AcceptRequest, Job, Phase, Live
<1>3. CASE job[t].kind = "initial_translation"
  <2>1. UpdateStatus(t, "processing")
    BY <1>3 DEF AcceptRequest
  <2> HIDE DEF j
  <2> QED BY <1>2, <2>1, ReportKeepsIInv DEF Active
<1>4. CASE job[t].kind # "initial_translation"
  <2>1. UNCHANGED <<memory, rows, clock, faults>>
    BY <1>4 DEF AcceptRequest
  <2>2. \A w \in Tasks : job'[w] = IF w = t THEN j ELSE job[w]
    BY <1>1, <1>2 DEF TypeOK
  <2>3. job' \in [Tasks -> Job]
    BY <1>1, <1>2 DEF TypeOK
  <2> HIDE DEF j
  <2>4. TypeOK'
    BY <1>1, <1>2, <2>1, <2>3 DEF TypeOK, UNCHANGED_Process
  <2>5. UnbornUnrecorded' /\ LiveHasProject' /\ TailHasEnded'
    BY <1>2, <2>1, <2>2 DEF IInv, UnbornUnrecorded, LiveHasProject, TailHasEnded, IsTerminal
  <2>6. LiveHoldsKey'
    BY <1>2, <2>1, <2>2
       DEF IInv, LiveHoldsKey, IsActive, IsTerminal, Known, UNCHANGED_Process
  <2>7. ActiveRowsMirrored' /\ OneHolderPerKey'
    BY <2>1 DEF IInv, ActiveRowsMirrored, OneHolderPerKey, IsActive, Known
  <2> QED BY <2>4, <2>5, <2>6, <2>7 DEF IInv
<1> QED BY <1>3, <1>4

(* A worker that ends leaves the record to the other facts.                *)
LEMMA AbandonRequestKeepsIInv ==
  ASSUME IInv, NEW t \in Tasks, AbandonRequest(t)
  PROVE  IInv'
<1>1. job[t] \in Job /\ TypeOK
  BY DEF IInv, TypeOK
<1>2. UNCHANGED <<memory, rows, clock, faults, resets, restarts>>
  BY DEF AbandonRequest, UNCHANGED_Process
<1>3. /\ job' \in [Tasks -> Job]
      /\ \A w \in Tasks : job'[w].phase = (IF w = t THEN "gone" ELSE job[w].phase)
      /\ \A w \in Tasks : job'[w].project = job[w].project
  BY <1>1 DEF AbandonRequest, TypeOK, Job, Phase
<1>4. TypeOK'
  BY <1>1, <1>2, <1>3 DEF TypeOK
<1>5. UnbornUnrecorded' /\ LiveHasProject' /\ TailHasEnded'
  BY <1>2, <1>3
     DEF IInv, UnbornUnrecorded, LiveHasProject, TailHasEnded, IsTerminal, Live
<1>6. LiveHoldsKey'
  BY <1>2, <1>3 DEF IInv, LiveHoldsKey, IsActive, IsTerminal, Known, Live
<1>7. ActiveRowsMirrored' /\ OneHolderPerKey'
  BY <1>2 DEF IInv, ActiveRowsMirrored, OneHolderPerKey, IsActive, Known
<1> QED BY <1>4, <1>5, <1>6, <1>7 DEF IInv

LEMMA BeginWorkKeepsIInv ==
  ASSUME IInv, NEW t \in Tasks, BeginWork(t)
  PROVE  IInv'
<1> DEFINE j == [job[t] EXCEPT !.phase = "running"]
<1>1. job[t] \in Job
  BY DEF IInv, TypeOK
<1>2. /\ j \in Job /\ j.phase = "running" /\ j.project = job[t].project
      /\ job' = [job EXCEPT ![t] = j] /\ UNCHANGED_Process
      /\ job[t].phase \in Live /\ UpdateStatus(t, "processing")
  BY <1>1 DEF BeginWork, Job, Phase, Live
<1> HIDE DEF j
<1> QED BY <1>2, ReportKeepsIInv DEF Active

(* The worker is not touched: it moves to where it is.                     *)
LEMMA JobStays ==
  ASSUME TypeOK, NEW t \in Tasks, UNCHANGED job
  PROVE  job[t] \in Job /\ job' = [job EXCEPT ![t] = job[t]]
BY DEF TypeOK

LEMMA ReportProgressKeepsIInv ==
  ASSUME IInv, NEW t \in Tasks, ReportProgress(t)
  PROVE  IInv'
<1>1. TypeOK
  BY DEF IInv
<1>2. /\ job[t] \in Job /\ job' = [job EXCEPT ![t] = job[t]]
      /\ job[t].phase = "running" /\ UNCHANGED_Process
      /\ UpdateStatus(t, Ensured(t).status)
  BY <1>1, JobStays DEF ReportProgress
<1>3. Ensured(t).status \in Active
  <2>1. memory[t].status \in Active \cup Terminal \cup {"absent"}
    BY <1>1 DEF TypeOK, Record
  <2>2. ~IsTerminal(memory[t])
    BY <1>2 DEF IInv, LiveHoldsKey, Live, IsActive, IsTerminal, Active, Terminal
  <2> QED BY <2>1, <2>2 DEF Ensured, Known, IsTerminal, Active, Absent
<1> QED BY <1>2, <1>3, ReportKeepsIInv DEF Live

LEMMA FinishWorkKeepsIInv ==
  ASSUME IInv, NEW t \in Tasks, NEW s \in Terminal, FinishWork(t, s)
  PROVE  IInv'
<1> DEFINE ends == IF s = "completed" /\ job[t].kind = "incremental_translation"
                   THEN "tail" ELSE "gone"
           j == [job[t] EXCEPT !.phase = ends]
<1>1. job[t] \in Job
  BY DEF IInv, TypeOK
<1>2. /\ j \in Job /\ j.phase \in {"tail", "gone"}
      /\ job' = [job EXCEPT ![t] = j] /\ UNCHANGED_Process
      /\ job[t].phase \in Live /\ UpdateStatus(t, s)
  BY <1>1 DEF FinishWork, Job, Phase, Live
<1> HIDE DEF j
<1> QED BY <1>2, ReportKeepsIInv DEF Live

LEMMA FinishTailKeepsIInv ==
  ASSUME IInv, NEW t \in Tasks, NEW s \in Active \cup Terminal, FinishTail(t, s)
  PROVE  IInv'
<1> DEFINE rec == WithStatus(Ensured(t), s)
           j == [job[t] EXCEPT !.phase = "gone"]
<1>1. job[t] \in Job /\ TypeOK
  BY DEF IInv, TypeOK
<1>2. /\ j \in Job /\ j.phase = "gone"
      /\ job' = [job EXCEPT ![t] = j] /\ UNCHANGED_Process
      /\ Put(t, rec)
      /\ job[t].phase = "tail" /\ s \in {Ensured(t).status, "failed"}
  BY <1>1 DEF FinishTail, UpdateStatus, Job, Phase
<1>3. /\ rec \in Record
      /\ rec.status = s
      /\ Known(t) => rec.key = memory[t].key
      /\ ~Known(t) => rec.key = NoProject
  BY <1>1, ReportedRecord
<1>4. IsTerminal(memory[t]) \/ memory[t].key = NoProject
  BY <1>2 DEF IInv, TailHasEnded
<1>5. IsTerminal(memory[t]) => s \in Terminal
  BY <1>2 DEF IsTerminal, Ensured, Known, Terminal
<1>6. ~(IsActive(rec) /\ rec.key # NoProject)
  <2>1. CASE IsTerminal(memory[t])
    BY <1>3, <1>5, <2>1 DEF IsActive, Active, Terminal
  <2>2. CASE memory[t].key = NoProject
    BY <1>3, <2>2
  <2> QED BY <1>4, <2>1, <2>2
<1>7. rec.status # "absent"
  BY <1>3 DEF Active, Terminal
<1> HIDE DEF rec, j
<1> QED BY <1>2, <1>3, <1>6, <1>7, PutStep DEF Live

(* Loading a row gives memory nothing that the row did not hold, and an    *)
(* active row was never missing from it.                                   *)
LEMMA ViewTaskKeepsIInv ==
  ASSUME IInv, NEW t \in Tasks, ViewTask(t)
  PROVE  IInv'
<1>1. TypeOK
  BY DEF IInv
<1>2. /\ UNCHANGED <<rows, job, clock, faults, resets, restarts>>
      /\ ~Known(t) /\ rows[t].status # "absent"
      /\ memory' \in [Tasks -> Record]
      /\ \A w \in Tasks : memory'[w] = IF w = t THEN rows[t] ELSE memory[w]
  BY <1>1 DEF ViewTask, UNCHANGED_Process, TypeOK
<1>3. ~IsActive(rows[t])
  BY <1>2 DEF IInv, ActiveRowsMirrored
<1>4. job[t].phase \notin Live
  BY <1>2 DEF IInv, LiveHoldsKey, IsActive, Active, Known
<1>5. rows[t] # Absent /\ IsTerminal(rows[t])
  <2>1. rows[t].status \in Active \cup Terminal \cup {"absent"}
    BY <1>1 DEF TypeOK, Record
  <2> QED BY <1>2, <1>3, <2>1 DEF Absent, IsActive, IsTerminal
<1>6. TypeOK'
  BY <1>1, <1>2 DEF TypeOK
<1>7. UnbornUnrecorded'
  BY <1>2, <1>5 DEF IInv, UnbornUnrecorded
<1>8. LiveHoldsKey' /\ LiveHasProject'
  BY <1>2, <1>4 DEF IInv, LiveHoldsKey, LiveHasProject, IsActive, IsTerminal, Known
<1>9. TailHasEnded'
  BY <1>2, <1>5 DEF IInv, TailHasEnded, IsTerminal
<1>10. ActiveRowsMirrored'
  BY <1>2 DEF IInv, ActiveRowsMirrored, IsActive, Known
<1>11. OneHolderPerKey'
  BY <1>2, <1>3 DEF IInv, OneHolderPerKey, IsActive
<1> QED BY <1>6, <1>7, <1>8, <1>9, <1>10, <1>11 DEF IInv

LEMMA ArchiveTaskKeepsIInv ==
  ASSUME IInv, NEW t \in Tasks, NEW a \in BOOLEAN, ArchiveTask(t, a)
  PROVE  IInv'
<1> DEFINE old == IF Known(t) THEN memory[t] ELSE rows[t]
           rec == [old EXCEPT !.archived = a]
<1>1. TypeOK
  BY DEF IInv
<1>2. old \in Record
  BY <1>1 DEF TypeOK
<1>3. old.status # "absent" /\ Put(t, rec) /\ UNCHANGED_Process /\ UNCHANGED job
  BY DEF ArchiveTask
<1>4. job[t] \in Job /\ job' = [job EXCEPT ![t] = job[t]]
  BY <1>1, <1>3, JobStays
<1>5. old \in {memory[t], rows[t]}
  OBVIOUS
<1>6. job[t].phase # "unborn"
  BY <1>3, <1>5 DEF IInv, UnbornUnrecorded, Absent
<1>7. job[t].phase \in Live => old = memory[t]
  BY <1>3 DEF IInv, LiveHoldsKey, IsActive, Active, Known
<1>8. job[t].phase = "tail" => IsTerminal(old) \/ old.key = NoProject
  <2>1. CASE Known(t)
    BY <2>1 DEF IInv, TailHasEnded
  <2>2. CASE ~Known(t)
    <3>1. ~IsActive(rows[t])
      BY <2>2 DEF IInv, ActiveRowsMirrored
    <3>2. rows[t].status \in Active \cup Terminal \cup {"absent"}
      BY <1>1 DEF TypeOK, Record
    <3> QED BY <1>3, <2>2, <3>1, <3>2 DEF IsActive, IsTerminal
  <2> QED BY <2>1, <2>2
<1> HIDE DEF old
<1>9. rec \in Record /\ rec.status = old.status /\ rec.key = old.key
  BY <1>2 DEF Record
<1> HIDE DEF rec
<1>10. (IsActive(rec) <=> IsActive(old)) /\ (IsTerminal(rec) <=> IsTerminal(old))
  BY <1>9 DEF IsActive, IsTerminal
<1>11. IsActive(rec) /\ rec.key # NoProject =>
         \E r \in {memory[t], rows[t]} : IsActive(r) /\ r.key = rec.key
  BY <1>5, <1>9, <1>10
<1>12. job[t].phase \in Live =>
         \/ IsActive(rec) /\ rec.key = job[t].project
         \/ resets > 0 /\ rec.key = NoProject /\ ~IsTerminal(rec)
  BY <1>7, <1>9, <1>10 DEF IInv, LiveHoldsKey
<1>13. job[t].phase \in Live => job[t].project # NoProject
  BY DEF IInv, LiveHasProject
<1>14. job[t].phase = "tail" => IsTerminal(rec) \/ rec.key = NoProject
  BY <1>8, <1>9, <1>10
<1>15. rec.status # "absent"
  BY <1>3, <1>9 DEF old
<1> QED BY <1>3, <1>4, <1>6, <1>9, <1>11, <1>12, <1>13, <1>14, <1>15, PutStep

(* After a restart every active record is a row that was active before.    *)
LEMMA HydrateFromRows ==
  ASSUME TypeOK, NEW pruned \in SUBSET Tasks, Hydrate(pruned)
  PROVE  /\ memory' \in [Tasks -> Record] /\ rows' \in [Tasks -> Record]
         /\ clock' \in Nat /\ faults' \in Nat
         /\ \A t \in Tasks : \A r \in {memory'[t], rows'[t]} :
              IsActive(r) => r = rows[t]
         /\ \A t \in Tasks : IsActive(rows'[t]) => Known(t)'
         /\ \A t \in Tasks : rows[t] = Absent => memory'[t] = Absent /\ rows'[t] = Absent
<1> DEFINE stopped == {t \in Tasks \ pruned : rows[t].status \in Loaded /\ Interrupts(rows[t])}
<1>1. PICK lost \in SUBSET stopped :
        /\ faults' = faults + Cardinality(lost)
        /\ rows' = [t \in Tasks |->
                      IF t \in pruned THEN Absent
                      ELSE IF t \in stopped \ lost THEN AsInterrupted(rows[t])
                      ELSE rows[t]]
        /\ memory' = [t \in Tasks |->
                      IF rows[t].status \notin Loaded THEN Absent
                      ELSE IF t \in stopped THEN AsInterrupted(rows[t])
                      ELSE rows[t]]
        /\ clock' = IF stopped = {} THEN clock ELSE clock + 1
  BY DEF Hydrate
<1>2. Cardinality(lost) \in Nat
  <2>1. IsFiniteSet(lost)
    BY TasksAssumption, FS_Subset
  <2> QED BY <2>1, FS_CardinalityType
<1>3. faults' \in Nat /\ clock' \in Nat
  BY <1>1, <1>2 DEF TypeOK
<1>4. \A t \in Tasks : /\ AsInterrupted(rows[t]) \in Record
                       /\ AsInterrupted(rows[t]).status = "interrupted"
  <2>1. clock + 1 \in Nat
    BY DEF TypeOK
  <2> TAKE t \in Tasks
  <2>2. rows[t] \in Record
    BY DEF TypeOK
  <2> QED BY <2>1, <2>2 DEF AsInterrupted, Record, Terminal
<1> HIDE DEF stopped
<1>5. \A t \in Tasks : rows[t] \in Record
  BY DEF TypeOK
<1>6. memory' \in [Tasks -> Record] /\ rows' \in [Tasks -> Record]
  BY <1>1, <1>4, <1>5, AbsentType
<1>7. \A t \in Tasks : rows'[t] \in {Absent, rows[t], AsInterrupted(rows[t])}
  BY <1>1
<1>8. \A t \in Tasks : memory'[t] \in {Absent, rows[t], AsInterrupted(rows[t])}
  BY <1>1
<1>9. Absent.status = "absent"
  BY DEF Absent
<1>10. \A t \in Tasks : \A r \in {memory'[t], rows'[t]} : IsActive(r) => r = rows[t]
  BY <1>4, <1>7, <1>8, <1>9 DEF IsActive, Active
<1>11. \A t \in Tasks : IsActive(rows'[t]) => Known(t)'
  <2> SUFFICES ASSUME NEW t \in Tasks, IsActive(rows'[t]) PROVE memory'[t].status # "absent"
    BY DEF Known
  <2>1. rows[t].status \in Loaded
    BY <1>10 DEF IsActive, Loaded
  <2>2. memory'[t] \in {rows[t], AsInterrupted(rows[t])}
    BY <1>1, <2>1
  <2> QED BY <1>4, <2>1, <2>2 DEF Loaded, Active
<1>12. \A t \in Tasks : rows[t] = Absent => memory'[t] = Absent /\ rows'[t] = Absent
  <2> SUFFICES ASSUME NEW t \in Tasks, rows[t] = Absent
               PROVE  memory'[t] = Absent /\ rows'[t] = Absent
    OBVIOUS
  <2>1. rows[t].status \notin Loaded
    BY <1>9 DEF Loaded, Active
  <2>2. t \notin stopped
    BY <2>1 DEF stopped
  <2> QED BY <1>1, <2>1, <2>2
<1> QED BY <1>3, <1>6, <1>10, <1>11, <1>12

LEMMA RestartKeepsIInv ==
  ASSUME IInv, Restart
  PROVE  IInv'
<1>1. TypeOK
  BY DEF IInv
<1>2. PICK pruned \in SUBSET Tasks : Hydrate(pruned)
  BY DEF Restart, Prunable, TerminalRows
<1>3. /\ memory' \in [Tasks -> Record] /\ rows' \in [Tasks -> Record]
      /\ clock' \in Nat /\ faults' \in Nat
      /\ \A t \in Tasks : \A r \in {memory'[t], rows'[t]} :
           IsActive(r) => r = rows[t]
      /\ \A t \in Tasks : IsActive(rows'[t]) => Known(t)'
      /\ \A t \in Tasks : rows[t] = Absent => memory'[t] = Absent /\ rows'[t] = Absent
  BY <1>1, <1>2, HydrateFromRows
<1>4. /\ job' \in [Tasks -> Job]
      /\ \A t \in Tasks : job'[t].phase = IF job[t].phase = "unborn" THEN "unborn" ELSE "gone"
  <2>1. \A t \in Tasks : job[t] \in Job
    BY <1>1 DEF TypeOK
  <2>2. \A t \in Tasks : /\ [job[t] EXCEPT !.phase = "gone"] \in Job
                         /\ [job[t] EXCEPT !.phase = "gone"].phase = "gone"
    BY <2>1 DEF Job, Phase
  <2> QED BY <2>1, <2>2 DEF Restart
<1>5. TypeOK'
  BY <1>1, <1>3, <1>4 DEF TypeOK, Restart
<1>6. UnbornUnrecorded'
  BY <1>3, <1>4 DEF IInv, UnbornUnrecorded
<1>7. LiveHoldsKey' /\ LiveHasProject' /\ TailHasEnded'
  BY <1>4 DEF LiveHoldsKey, LiveHasProject, TailHasEnded, Live
<1>8. ActiveRowsMirrored'
  BY <1>3 DEF ActiveRowsMirrored, IsActive
<1>9. OneHolderPerKey'
  <2> SUFFICES ASSUME NEW t \in Tasks, NEW u \in Tasks,
                      NEW r \in {memory'[t], rows'[t]}, NEW q \in {memory'[u], rows'[u]},
                      IsActive(r), IsActive(q), r.key = q.key, r.key # NoProject
               PROVE  t = u
    BY DEF OneHolderPerKey, IsActive
  <2>1. r = rows[t] /\ q = rows[u]
    BY <1>3
  <2> QED BY <2>1 DEF IInv, OneHolderPerKey
<1> QED BY <1>5, <1>6, <1>7, <1>8, <1>9 DEF IInv

LEMMA ResetDatabaseKeepsIInv ==
  ASSUME IInv, ResetDatabase
  PROVE  IInv'
<1>1. /\ \A t \in Tasks : memory'[t] = Absent /\ rows'[t] = Absent
      /\ memory' \in [Tasks -> Record] /\ rows' \in [Tasks -> Record]
  BY AbsentType DEF ResetDatabase
<1>2. /\ UNCHANGED <<job, clock, faults, restarts>> /\ resets' = resets + 1
      /\ resets' \in Nat /\ resets' > 0
  BY DEF ResetDatabase, IInv, TypeOK
<1>3. Absent.status = "absent" /\ Absent.key = NoProject
  BY DEF Absent
<1>4. TypeOK'
  BY <1>1, <1>2 DEF IInv, TypeOK
<1>5. UnbornUnrecorded' /\ LiveHasProject' /\ TailHasEnded'
  BY <1>1, <1>2, <1>3 DEF IInv, UnbornUnrecorded, LiveHasProject, TailHasEnded
<1>6. LiveHoldsKey'
  BY <1>1, <1>2, <1>3 DEF LiveHoldsKey, IsTerminal, Terminal
<1>7. ActiveRowsMirrored' /\ OneHolderPerKey'
  BY <1>1, <1>3 DEF ActiveRowsMirrored, OneHolderPerKey, IsActive, Active
<1> QED BY <1>4, <1>5, <1>6, <1>7 DEF IInv

-----------------------------------------------------------------------------
LEMMA InitIInv == Init => IInv
<1> SUFFICES ASSUME Init PROVE IInv
  OBVIOUS
<1>1. TypeOK
  BY AbsentType DEF Init, TypeOK, NoJob, Job, Phase
<1>2. \A t \in Tasks : /\ memory[t] = Absent /\ rows[t] = Absent
                       /\ job[t].phase = "unborn"
  BY DEF Init, NoJob
<1>3. ~IsActive(Absent)
  BY DEF IsActive, Active, Absent
<1> QED BY <1>1, <1>2, <1>3
        DEF IInv, UnbornUnrecorded, LiveHoldsKey, LiveHasProject, TailHasEnded,
            ActiveRowsMirrored, OneHolderPerKey, Live

LEMMA NextKeepsIInv == IInv /\ [Next]_vars => IInv'
<1> SUFFICES ASSUME IInv, [Next]_vars PROVE IInv'
  OBVIOUS
<1>1. ASSUME NEW t \in Tasks, TaskStep(t) PROVE IInv'
  <2>1. ASSUME NEW k \in Kind, NEW p \in Projects, NEW o \in Ops \cup {NoOp},
               CreateTask(t, k, p, o)
        PROVE  IInv'
    BY <2>1, CreateTaskKeepsIInv
  <2>2. ASSUME NEW p \in Projects, RecordBlockedScan(t, p) PROVE IInv'
    BY <2>2, RecordBlockedScanKeepsIInv
  <2>3. CASE AbandonRequest(t)
    BY <2>3, AbandonRequestKeepsIInv
  <2>4. CASE WorkerStep(t)
    BY <2>4, AcceptRequestKeepsIInv, BeginWorkKeepsIInv, FinishWorkKeepsIInv,
       FinishTailKeepsIInv DEF WorkerStep
  <2>5. CASE ReportProgress(t)
    BY <2>5, ReportProgressKeepsIInv
  <2>6. CASE ViewTask(t)
    BY <2>6, ViewTaskKeepsIInv
  <2>7. ASSUME NEW a \in BOOLEAN, ArchiveTask(t, a) PROVE IInv'
    BY <2>7, ArchiveTaskKeepsIInv
  <2> QED BY <1>1, <2>1, <2>2, <2>3, <2>4, <2>5, <2>6, <2>7 DEF TaskStep
<1>2. CASE Restart
  BY <1>2, RestartKeepsIInv
<1>3. CASE ResetDatabase
  BY <1>3, ResetDatabaseKeepsIInv
<1>4. CASE UNCHANGED vars
  BY <1>4 DEF vars, IInv, TypeOK, UnbornUnrecorded, LiveHoldsKey, LiveHasProject,
     TailHasEnded, ActiveRowsMirrored, OneHolderPerKey, IsActive, IsTerminal, Known
<1> QED BY <1>1, <1>2, <1>3, <1>4 DEF Next

(* The strengthened invariant holds of every run of the ledger, whatever   *)
(* fails to be saved, and across restarts and resets.                      *)
THEOREM InductiveInvariant == Spec => []IInv
<1>1. Init => IInv
  BY InitIInv
<1>2. IInv /\ [Next]_vars => IInv'
  BY NextKeepsIInv
<1> QED BY <1>1, <1>2, PTL DEF Spec

(* Every record keeps the shape that task_state and the table expect.      *)
THEOREM TypeCorrect == Spec => []TypeOK
<1>1. IInv => TypeOK
  BY DEF IInv
<1> QED BY <1>1, InductiveInvariant, PTL

(* create_task's promise, over both copies of the ledger: a project's      *)
(* write key never has two holders.                                        *)
THEOREM KeyIsExclusive == Spec => []OneHolderPerKey
<1>1. IInv => OneHolderPerKey
  BY DEF IInv
<1> QED BY <1>1, InductiveInvariant, PTL

(* Nothing the database calls active is missing from the live view.        *)
THEOREM MirrorIsComplete == Spec => []ActiveRowsMirrored
<1>1. IInv => ActiveRowsMirrored
  BY DEF IInv
<1> QED BY <1>1, InductiveInvariant, PTL

(* While nobody resets the ledger, no two workers are scheduled to write   *)
(* one project.                                                            *)
THEOREM ProjectHasOneWriter == Spec => []WritersExclusive
<1>1. IInv => WritersExclusive
  <2> SUFFICES ASSUME IInv, resets = 0,
                      NEW t \in Tasks, NEW u \in Tasks,
                      job[t].phase \in Live, job[u].phase \in Live,
                      job[t].project = job[u].project
               PROVE  t = u
    BY DEF WritersExclusive
  <2>1. /\ IsActive(memory[t]) /\ memory[t].key = job[t].project
        /\ IsActive(memory[u]) /\ memory[u].key = job[u].project
    BY DEF IInv, LiveHoldsKey
  <2>2. job[t].project # NoProject
    BY DEF IInv, LiveHasProject
  <2> QED BY <2>1, <2>2 DEF IInv, OneHolderPerKey
<1> QED BY <1>1, InductiveInvariant, PTL

(* A task that ended is not active again while the process remembers it,   *)
(* though update_task would let any caller do it.                          *)
THEOREM EndedStaysEnded == Spec => NoResurrection
<1> DEFINE Stays == \A t \in Tasks :
             IsTerminal(memory[t]) /\ restarts' = restarts => ~IsActive(memory'[t])
<1>1. IInv /\ [Next]_vars => [Stays]_vars
  <2> SUFFICES ASSUME IInv, Next, NEW u \in Tasks,
                      IsTerminal(memory[u]), restarts' = restarts
               PROVE  ~IsActive(memory'[u])
    BY DEF vars
  <2> TypeOK
    BY DEF IInv
  <2>1. Known(u) /\ ~IsActive(memory[u]) /\ job[u].phase \notin Live
    BY DEF IInv, LiveHoldsKey, Known, IsTerminal, IsActive, Active, Terminal
  <2>2. ASSUME NEW t \in Tasks, NEW rec, Put(t, rec), t # u PROVE memory'[u] = memory[u]
    BY <2>2 DEF Put, TypeOK
  <2>3. ASSUME NEW rec, Put(u, rec) PROVE memory'[u] = rec
    BY <2>3 DEF Put, TypeOK
  <2>4. ASSUME NEW t \in Tasks, TaskStep(t) PROVE ~IsActive(memory'[u])
    <3>1. ASSUME NEW k \in Kind, NEW p \in Projects, NEW o \in Ops \cup {NoOp},
                 CreateTask(t, k, p, o)
          PROVE  ~IsActive(memory'[u])
      <4>1. t # u
        BY <2>1, <3>1 DEF CreateTask, IInv, UnbornUnrecorded, Known, Absent
      <4> QED BY <2>1, <2>2, <3>1, <4>1 DEF CreateTask
    <3>2. ASSUME NEW p \in Projects, RecordBlockedScan(t, p)
          PROVE  ~IsActive(memory'[u])
      <4>1. t # u
        BY <2>1, <3>2 DEF RecordBlockedScan, IInv, UnbornUnrecorded, Known, Absent
      <4> QED BY <2>1, <2>2, <3>2, <4>1 DEF RecordBlockedScan
    <3>3. CASE AbandonRequest(t)
      BY <2>1, <3>3 DEF AbandonRequest
    <3>4. CASE AcceptRequest(t)
      BY <2>1, <2>2, <3>4 DEF AcceptRequest, UpdateStatus, Live
    <3>5. CASE BeginWork(t)
      BY <2>1, <2>2, <3>5 DEF BeginWork, UpdateStatus, Live
    <3>6. ASSUME NEW s \in Terminal, FinishWork(t, s) PROVE ~IsActive(memory'[u])
      BY <2>1, <2>2, <3>6 DEF FinishWork, UpdateStatus, Live
    <3>7. ASSUME NEW s \in Active \cup Terminal, FinishTail(t, s)
          PROVE  ~IsActive(memory'[u])
      <4>1. UpdateStatus(t, s) /\ s \in {Ensured(t).status, "failed"}
        BY <3>7 DEF FinishTail
      <4>2. CASE t # u
        BY <2>1, <2>2, <4>1, <4>2 DEF UpdateStatus
      <4>3. CASE t = u
        <5>1. s \in Terminal
          BY <2>1, <4>1, <4>3 DEF Ensured, IsTerminal, Terminal
        <5>2. WithStatus(Ensured(t), s).status = s
          BY ReportedRecord
        <5> QED BY <2>3, <4>1, <4>3, <5>1, <5>2 DEF UpdateStatus, IsActive, Active, Terminal
      <4> QED BY <4>2, <4>3
    <3>8. CASE ReportProgress(t)
      BY <2>1, <2>2, <3>8 DEF ReportProgress, UpdateStatus, Live
    <3>9. CASE ViewTask(t)
      BY <2>1, <3>9 DEF ViewTask, TypeOK
    <3>10. ASSUME NEW a \in BOOLEAN, ArchiveTask(t, a) PROVE ~IsActive(memory'[u])
      <4>1. CASE t # u
        BY <2>1, <2>2, <3>10, <4>1 DEF ArchiveTask
      <4>2. CASE t = u
        <5>1. Put(u, [memory[u] EXCEPT !.archived = a])
          BY <2>1, <3>10, <4>2 DEF ArchiveTask
        <5>2. memory[u] \in Record
          BY DEF TypeOK
        <5>3. [memory[u] EXCEPT !.archived = a].status = memory[u].status
          BY <5>2 DEF Record
        <5> QED BY <2>1, <2>3, <5>1, <5>3 DEF IsActive
      <4> QED BY <4>1, <4>2
    <3> QED BY <2>4, <3>1, <3>2, <3>3, <3>4, <3>5, <3>6, <3>7, <3>8, <3>9, <3>10
            DEF TaskStep, WorkerStep
  <2>5. CASE Restart
    BY <2>5 DEF Restart, IInv, TypeOK
  <2>6. CASE ResetDatabase
    BY <2>6 DEF ResetDatabase, Absent, IsActive, Active
  <2> QED BY <2>4, <2>5, <2>6 DEF Next
<1>2. NoResurrection <=> [][Stays]_vars
  BY DEF NoResurrection
<1> QED BY <1>1, <1>2, InductiveInvariant, PTL DEF Spec
-----------------------------------------------------------------------------
(* The idempotency keys the two copies of a record carry.                  *)
OpsOf(t) == {memory[t].op, rows[t].op}

(* A step that gives no record a key it did not have binds none twice.     *)
LEMMA OpsStay ==
  ASSUME OperationBoundOnce, \A t \in Tasks : OpsOf(t)' \subseteq OpsOf(t) \cup {NoOp}
  PROVE  OperationBoundOnce'
<1> SUFFICES ASSUME NEW t \in Tasks, NEW u \in Tasks, NEW o \in OpsOf(t)', o \in OpsOf(u)', o # NoOp
             PROVE  t = u
  BY DEF OperationBoundOnce, OpsOf
<1>1. o \in OpsOf(t) /\ o \in OpsOf(u)
  OBVIOUS
<1> QED BY <1>1 DEF OperationBoundOnce, OpsOf

(* A record that is saved: both copies of it have its key or the old one.  *)
LEMMA PutOps ==
  ASSUME TypeOK, NEW t \in Tasks, NEW rec, Put(t, rec)
  PROVE  /\ OpsOf(t)' \subseteq OpsOf(t) \cup {rec.op}
         /\ \A u \in Tasks \ {t} : OpsOf(u)' = OpsOf(u)
BY DEF TypeOK, Put, Save, OpsOf

LEMMA PutKeepsOps ==
  ASSUME TypeOK, OperationBoundOnce, NEW t \in Tasks, NEW rec, Put(t, rec),
         rec.op \in OpsOf(t) \cup {NoOp}
  PROVE  OperationBoundOnce'
<1>1. \A u \in Tasks : OpsOf(u)' \subseteq OpsOf(u) \cup {NoOp}
  BY PutOps
<1> QED BY <1>1, OpsStay

LEMMA ReportKeepsOps ==
  ASSUME TypeOK, OperationBoundOnce, NEW t \in Tasks, NEW s, UpdateStatus(t, s)
  PROVE  OperationBoundOnce'
<1> DEFINE base == Ensured(t)
           rec == WithStatus(base, s)
<1>1. base \in Record /\ base.op \in OpsOf(t) \cup {NoOp}
  BY AbsentType DEF Ensured, TypeOK, Absent, OpsOf, Record, Active
<1> HIDE DEF base
<1>2. rec.op = base.op
  BY <1>1 DEF WithStatus, Record
<1>3. Put(t, rec)
  BY DEF UpdateStatus, base
<1> HIDE DEF rec
<1> QED BY <1>1, <1>2, <1>3, PutKeepsOps

LEMMA CreateKeepsOps ==
  ASSUME TypeOK, OperationBoundOnce, NEW t \in Tasks, NEW k, NEW p, NEW o, CreateTask(t, k, p, o)
  PROVE  OperationBoundOnce'
<1> DEFINE rec == [Absent EXCEPT
                     !.status = IF k = "project_watch_scan" THEN "processing" ELSE "pending",
                     !.kind = k, !.key = p, !.op = o]
<1>1. Put(t, rec) /\ ~OpBound(o)
  BY DEF CreateTask
<1>2. rec.op = o
  BY DEF Absent
<1> HIDE DEF rec
<1>3. /\ OpsOf(t)' \subseteq OpsOf(t) \cup {o}
      /\ \A u \in Tasks \ {t} : OpsOf(u)' = OpsOf(u)
  BY <1>1, <1>2, PutOps
<1>4. o # NoOp => \A u \in Tasks : o \notin OpsOf(u)
  BY <1>1 DEF OpBound, OpsOf
<1> SUFFICES ASSUME NEW v \in Tasks, NEW u \in Tasks, NEW q \in OpsOf(v)', q \in OpsOf(u)', q # NoOp
             PROVE  v = u
  BY DEF OperationBoundOnce, OpsOf
<1>5. CASE q = o
  BY <1>3, <1>4, <1>5
<1>6. CASE q # o
  <2>1. q \in OpsOf(v) /\ q \in OpsOf(u)
    BY <1>3, <1>6
  <2> QED BY <2>1 DEF OperationBoundOnce, OpsOf
<1> QED BY <1>5, <1>6

LEMMA BlockedScanKeepsOps ==
  ASSUME TypeOK, OperationBoundOnce, NEW t \in Tasks, NEW p, RecordBlockedScan(t, p)
  PROVE  OperationBoundOnce'
<1> DEFINE rec == [Absent EXCEPT !.status = "failed", !.kind = "project_watch_scan",
                                 !.finished = clock + 1]
<1>1. Put(t, rec) /\ rec.op = NoOp
  BY DEF RecordBlockedScan, Absent
<1> HIDE DEF rec
<1> QED BY <1>1, PutKeepsOps

LEMMA ArchiveKeepsOps ==
  ASSUME TypeOK, OperationBoundOnce, NEW t \in Tasks, NEW a \in BOOLEAN, ArchiveTask(t, a)
  PROVE  OperationBoundOnce'
<1> DEFINE base == IF Known(t) THEN memory[t] ELSE rows[t]
           rec == [base EXCEPT !.archived = a]
<1>1. base \in Record /\ base.op \in OpsOf(t)
  BY DEF TypeOK, OpsOf
<1>2. Put(t, rec)
  BY DEF ArchiveTask
<1> HIDE DEF base
<1>3. rec.op = base.op
  BY <1>1 DEF Record
<1> HIDE DEF rec
<1> QED BY <1>1, <1>2, <1>3, PutKeepsOps

LEMMA RestartKeepsOps ==
  ASSUME TypeOK, OperationBoundOnce, Restart
  PROVE  OperationBoundOnce'
<1>1. PICK pruned : Hydrate(pruned)
  BY DEF Restart
<1>2. \A t \in Tasks : rows[t] \in Record /\ AsInterrupted(rows[t]).op = rows[t].op
  BY DEF TypeOK, AsInterrupted, Record
<1>3. \A t \in Tasks : /\ rows'[t] \in {Absent, AsInterrupted(rows[t]), rows[t]}
                       /\ memory'[t] \in {Absent, AsInterrupted(rows[t]), rows[t]}
  BY <1>1 DEF Hydrate
<1>4. Absent.op = NoOp
  BY DEF Absent
<1>5. \A t \in Tasks : OpsOf(t)' \subseteq OpsOf(t) \cup {NoOp}
  BY <1>2, <1>3, <1>4 DEF OpsOf
<1> QED BY <1>5, OpsStay

LEMMA NextKeepsOps ==
  ASSUME TypeOK, OperationBoundOnce, [Next]_vars
  PROVE  OperationBoundOnce'
<1>1. ASSUME UNCHANGED <<memory, rows>> PROVE OperationBoundOnce'
  BY <1>1 DEF OperationBoundOnce
<1>2. ASSUME NEW t \in Tasks, TaskStep(t) PROVE OperationBoundOnce'
  <2>1. CASE AcceptRequest(t)
    BY <1>1, <2>1, ReportKeepsOps DEF AcceptRequest
  <2>2. CASE BeginWork(t) \/ ReportProgress(t)
    BY <2>2, ReportKeepsOps DEF BeginWork, ReportProgress
  <2>3. ASSUME NEW s, FinishWork(t, s) \/ FinishTail(t, s) PROVE OperationBoundOnce'
    BY <2>3, ReportKeepsOps DEF FinishWork, FinishTail
  <2>4. CASE AbandonRequest(t)
    BY <1>1, <2>4 DEF AbandonRequest
  <2>5. CASE ViewTask(t)
    <3>1. \A u \in Tasks : OpsOf(u)' \subseteq OpsOf(u)
      BY <2>5 DEF ViewTask, TypeOK, OpsOf
    <3> QED BY <3>1, OpsStay
  <2> QED BY <1>2, <2>1, <2>2, <2>3, <2>4, <2>5, CreateKeepsOps, BlockedScanKeepsOps, ArchiveKeepsOps
          DEF TaskStep, WorkerStep
<1>3. CASE ResetDatabase
  BY <1>3 DEF ResetDatabase, OperationBoundOnce, Absent
<1> QED BY <1>1, <1>2, <1>3, RestartKeepsOps DEF Next, vars

(* Of every behaviour: no idempotency key is bound to two tasks, in either *)
(* copy of the ledger, whatever saves fail between them (create_task).     *)
THEOREM OperationHasOneTask == Spec => []OperationBoundOnce
<1>1. Init => OperationBoundOnce
  BY DEF Init, OperationBoundOnce, Absent
<1>2. TypeOK /\ OperationBoundOnce /\ [Next]_vars => OperationBoundOnce'
  BY NextKeepsOps
<1> QED BY <1>1, <1>2, TypeCorrect, PTL DEF Spec

-----------------------------------------------------------------------------
(* Requests: what stands in a request at each point of its handler.        *)
Asked(q) == q.op \in {"manual", "cover", "model"}
Legal(q) ==
  \/ q.op = "none" /\ q.pc = "idle"
  \/ q.op = "erase" /\ q.pc = "erase" /\ q.space \in Spaces
  \/ q.op = "delete" /\ q.pc = "unlink" /\ q.version \in Versions
  \/ /\ q.op = "manual" /\ q.pc \in {"validate", "insert", "readback"} /\ q.type = "description"
     /\ q.version \in Versions /\ q.space \in Spaces
  \/ /\ q.op = "cover" /\ q.type = "cover"
     /\ q.pc \in {"validate", "write", "insert", "readback", "undo", "fail", "complete"}
     /\ q.version \in Versions /\ q.space \in Spaces
  \/ /\ q.op = "model" /\ q.type = "description"
     /\ q.pc \in {"answer", "validate", "insert", "readback", "fail", "complete"}
     /\ q.version \in Versions /\ q.space \in Spaces

Points == {"idle", "erase", "answer", "validate", "write", "insert", "readback", "undo",
           "complete", "fail", "unlink"}
RequestRecords ==
  [op : {"none", "erase", "manual", "cover", "model", "delete"}, pc : Points,
   space : Spaces \cup {None}, type : Types, parent : Versions \cup {None},
   version : Versions \cup {None}]

AssetsTyped ==
  /\ space \in [Spaces -> {None, Gone} \cup Selections]
  /\ version \in [Versions -> {None, Gone} \cup VersionRows]
  /\ png \subseteq Versions
  /\ task \in [Versions -> {None, "running", "completed", "failed"}]
  /\ req \in [Requests -> RequestRecords]
  /\ given \in 0..MaxVersions /\ mishaps \in 0..MaxMishaps
  /\ unread \subseteq Versions /\ leaked \subseteq Versions /\ cut \subseteq Versions

(* What a request that holds a version may count on: the row is not there  *)
(* before it is inserted, a failed one is gone or was not read back; its   *)
(* parent is or was there, and is of its workspace and kind while it is    *)
(* there; a picture is written before its row; and its task runs.          *)
Unsaved == {"answer", "validate", "write", "insert"}
Fits(q) ==
  /\ Legal(q)
  /\ q.op = "delete" => version[q.version] = Gone
  /\ Asked(q) =>
       /\ q.version <= given
       /\ q.pc \in Unsaved => version[q.version] = None
       /\ q.parent # None =>
            /\ version[q.parent] # None
            /\ q.pc \in {"write", "insert"} /\ q.parent \in Kept => q.parent \in Of(q.space, q.type)
       /\ q.pc \in {"undo", "fail"} => q.version \notin Kept \/ q.version \in unread
       /\ q.pc = "complete" => version[q.version] # None
       /\ q.op = "cover" /\ q.pc = "insert" => q.version \in png
       /\ q.op # "cover" => q.version \notin png
       /\ task[q.version] = IF q.op = "manual" THEN None ELSE "running"
RequestsFit == \A r \in Requests : Fits(req[r])

(* A number is given to one request, and nothing has it before.            *)
NumbersApart ==
  /\ \A q, r \in Requests :
       Asked(req[q]) /\ Asked(req[r]) /\ req[q].version = req[r].version => q = r
  /\ \A v \in Versions : v > given => version[v] = None /\ task[v] = None /\ v \notin png

(* Somebody sees to every picture without a row, and to every task.        *)
Sees(q, v) ==
  /\ q.version = v
  /\ \/ q.op = "cover" /\ q.pc = "insert"
     \/ q.pc \in {"undo", "unlink"}
PicturesAccounted ==
  /\ \A v \in png : v \in Kept \cup leaked \/ \E r \in Requests : Sees(req[r], v)
  /\ \A v \in Kept : version[v].type = "description" => v \notin png
TasksAccounted == \A v \in Versions : task[v] = "running" =>
  v \in cut \/ \E r \in Requests : Asked(req[r]) /\ req[r].version = v

(* The first parts of FilesFollowRows and TasksTellTruth.                  *)
CoversHavePictures ==
  \A v \in Kept : version[v].type = "cover" => v \in png \cup unread
TasksEndTrue == \A v \in Versions :
  /\ task[v] = "completed" => version[v] # None
  /\ task[v] = "failed" => v \notin Kept \/ v \in unread

RowsStand ==
  /\ space \in [Spaces -> {None, Gone} \cup Selections]
  /\ SelectionStands
  /\ LineageStands

AssetsInv ==
  /\ AssetsTyped
  /\ RequestsFit
  /\ NumbersApart
  /\ PicturesAccounted
  /\ TasksAccounted
  /\ SelectionStands
  /\ LineageStands
  /\ CoversHavePictures
  /\ TasksEndTrue

-----------------------------------------------------------------------------
(* Versions and their rows.                                                *)
LEMMA VersionsAreNumbers == Versions \subseteq Nat /\ IsFiniteSet(Versions) /\ None \notin Versions
<1>1. MaxVersions \in Nat /\ None \notin Nat
  BY AssetsAssumption
<1>2. 1 \in Int /\ MaxVersions \in Int /\ Versions \subseteq Nat
  BY <1>1 DEF Versions
<1>3. IsFiniteSet(1..MaxVersions)
  BY <1>2, FS_Interval
<1> QED BY <1>1, <1>2, <1>3 DEF Versions

LEMMA KeptIsRow ==
  ASSUME AssetsTyped, NEW v \in Versions
  PROVE  /\ v \in Kept <=> version[v] \in VersionRows
         /\ version[v] = None \/ version[v] = Gone \/ version[v] \in VersionRows
         /\ None \notin VersionRows /\ Gone \notin VersionRows /\ None # Gone
BY AssetsAssumption DEF AssetsTyped, Kept

LEMMA ThereIsSelection ==
  ASSUME AssetsTyped, NEW s \in Spaces
  PROVE  /\ s \in There <=> space[s] \in Selections
         /\ None \notin Selections /\ Gone \notin Selections /\ None # Gone
BY AssetsAssumption DEF AssetsTyped, There

(* A finite set of numbers has a greatest one: there are as many places    *)
(* among its members as members.                                           *)
LEMMA MaxIsIn ==
  ASSUME NEW S, S \subseteq Nat, IsFiniteSet(S), S # {}
  PROVE  Max(S) \in S /\ \A x \in S : x <= Max(S)
<1> DEFINE below(e) == {d \in S : d <= e}
           m == Cardinality(S)
           g == [e \in S |-> Cardinality(below(e))]
<1>1. m \in Nat /\ m # 0
  BY FS_CardinalityType, FS_EmptySet
<1>2. ASSUME NEW e \in S
      PROVE  /\ IsFiniteSet(below(e)) /\ below(e) \subseteq S /\ e \in below(e)
             /\ Cardinality(below(e)) \in 1..m
  <2>1. below(e) \in SUBSET S /\ e \in below(e)
    OBVIOUS
  <2> HIDE DEF below
  <2>2. IsFiniteSet(below(e)) /\ Cardinality(below(e)) <= m
    BY <2>1, FS_Subset
  <2>3. Cardinality(below(e)) \in Nat /\ Cardinality(below(e)) # 0
    BY <2>1, <2>2, FS_CardinalityType, FS_EmptySet
  <2> QED BY <1>1, <2>1, <2>2, <2>3
<1>3. ASSUME NEW d \in S, NEW e \in S, d < e
      PROVE  Cardinality(below(d)) < Cardinality(below(e))
  <2>1. \A x \in S : x <= d => x <= e
    BY <1>3
  <2>2. e \notin below(d)
    BY <1>3
  <2>3. below(d) \in SUBSET below(e)
    BY <2>1
  <2> HIDE DEF below
  <2>4. Cardinality(below(d)) <= Cardinality(below(e)) /\ Cardinality(below(d)) # Cardinality(below(e))
    BY <1>2, <2>2, <2>3, FS_Subset
  <2>5. Cardinality(below(d)) \in Nat /\ Cardinality(below(e)) \in Nat
    BY <1>2
  <2> QED BY <2>4, <2>5
<1>4. g \in Injection(S, 1..m)
  <2>1. g \in [S -> 1..m]
    BY <1>2
  <2>2. \A d, e \in S : g[d] = g[e] => d = e
    <3> SUFFICES ASSUME NEW d \in S, NEW e \in S, g[d] = g[e]
                 PROVE  d = e
      OBVIOUS
    <3> DEFINE x == Cardinality(below(d))
               y == Cardinality(below(e))
    <3>1. x \in Nat /\ x = y
      <4>1. x \in 1..m
        BY <1>2
      <4>2. x = y
        OBVIOUS
      <4>3. \A n \in 1..m : n \in Nat
        OBVIOUS
      <4> HIDE DEF g, x, y, m
      <4> QED BY <4>1, <4>2, <4>3
    <3>2. d < e => x < y
      BY <1>3
    <3>3. e < d => y < x
      BY <1>3
    <3>4. d \in Nat /\ e \in Nat
      OBVIOUS
    <3> HIDE DEF x, y
    <3> QED BY <3>1, <3>2, <3>3, <3>4
  <2> QED BY <2>1, <2>2 DEF Injection, IsInjective
<1>5. g \in Surjection(S, 1..m)
  <2>1. IsFiniteSet(1..m) /\ Cardinality(1..m) = m
    BY <1>1, FS_Interval
  <2> HIDE DEF g, m
  <2> QED BY <1>4, <2>1, FS_Injection DEF m
<1>6. PICK e \in S : g[e] = m
  <2>1. m \in 1..m
    BY <1>1
  <2> HIDE DEF m
  <2> QED BY <1>5, <2>1 DEF Surjection
<1>7. below(e) = S
  <2>1. Cardinality(below(e)) = Cardinality(S) /\ below(e) \in SUBSET S
    BY <1>6
  <2> HIDE DEF below
  <2> QED BY <2>1, FS_Subset
<1>8. \A d \in S : d <= e /\ e >= d
  BY <1>7
<1>9. Max(S) \in S /\ \A x \in S : Max(S) >= x
  BY <1>8 DEF Max
<1> QED BY <1>9

(* create_version numbers a version above all others of its kind.          *)
LEMMA NextIsGreater ==
  ASSUME AssetsTyped, NEW s, NEW t
  PROVE  /\ NextSequence(s, t) \in Nat
         /\ \A v \in Of(s, t) : version[v].sequence < NextSequence(s, t)
<1> DEFINE of == Of(s, t)
           g == [v \in of |-> version[v].sequence]
           S == {version[v].sequence : v \in of}
<1>1. of \subseteq Versions /\ \A v \in of : version[v].sequence \in Nat
  BY KeptIsRow DEF Of, Kept, VersionRows
<1>2. IsFiniteSet(of)
  BY <1>1, VersionsAreNumbers, FS_Subset
<1>3. g \in Surjection(of, S)
  <2> HIDE DEF of
  <2> QED BY DEF Surjection
<1>4. IsFiniteSet(S)
  <2> HIDE DEF g, S, of
  <2> QED BY <1>2, <1>3, FS_Surjection
<1>5. IsFiniteSet({0} \cup S) /\ {0} \cup S \subseteq Nat /\ {0} \cup S # {}
  <2>1. S \subseteq Nat
    BY <1>1
  <2> HIDE DEF S
  <2>2. IsFiniteSet(S \cup {0})
    BY <1>4, FS_AddElement
  <2>3. S \cup {0} = {0} \cup S
    OBVIOUS
  <2> QED BY <2>1, <2>2, <2>3
<1>6. Max({0} \cup S) \in Nat /\ \A x \in {0} \cup S : x <= Max({0} \cup S)
  <2> HIDE DEF S
  <2> QED BY <1>5, MaxIsIn
<1>7. NextSequence(s, t) = Max({0} \cup S) + 1
  BY DEF NextSequence
<1>8. \A v \in of : version[v].sequence \in {0} \cup S /\ version[v].sequence \in Nat
  BY <1>1
<1> DEFINE M == Max({0} \cup S)
<1>9. M \in Nat /\ NextSequence(s, t) = M + 1
  BY <1>6, <1>7
<1>10. \A v \in of : version[v].sequence \in Nat /\ version[v].sequence <= M
  <2> HIDE DEF S, of
  <2> QED BY <1>6, <1>8
<1> HIDE DEF M, of
<1>11. \A v \in of : version[v].sequence < M + 1
  BY <1>9, <1>10
<1> QED BY <1>9, <1>11 DEF of

-----------------------------------------------------------------------------
(* A step of one request that changes no row and no task.  What it may do  *)
(* to the pictures: add the one it writes, remove one that nothing needs.  *)
LEMMA MoveKeepsInv ==
  ASSUME AssetsInv, NEW r \in Requests, NEW q \in RequestRecords,
         req' = [req EXCEPT ![r] = q], UNCHANGED <<version, task, given, cut>>, RowsStand',
         mishaps' \in 0..MaxMishaps,
         unread \subseteq unread', unread' \subseteq Versions,
         leaked \subseteq leaked', leaked' \subseteq Versions,
         \A v \in png' \ png : /\ v = req[r].version /\ Asked(req[r]) /\ v \in Versions
                               /\ req[r].op = "cover" /\ version[v] = None
                               /\ Sees(q, v) \/ v \in leaked',
         \A v \in png \ png' : /\ v \notin Kept \/ v \in unread'
                               /\ \A p \in Requests \ {r} :
                                    ~(req[p].op = "cover" /\ req[p].pc = "insert" /\ req[p].version = v),
         \A v \in png' : Sees(req[r], v) => Sees(q, v) \/ v \in Kept \cup leaked',
         Fits(q)',
         Asked(q) => Asked(req[r]) /\ q.version = req[r].version,
         Asked(req[r]) => Asked(q) \/ req[r].op = "manual"
  PROVE  AssetsInv'
<1>1. AssetsTyped' /\ png' \subseteq Versions
  <2>1. png' \subseteq Versions
    BY DEF AssetsInv, AssetsTyped
  <2>2. req' \in [Requests -> RequestRecords]
    BY DEF AssetsInv, AssetsTyped
  <2> QED BY <2>1, <2>2 DEF AssetsInv, AssetsTyped, RowsStand
<1>2. req'[r] = q /\ \A p \in Requests \ {r} : req'[p] = req[p]
  BY DEF AssetsInv, AssetsTyped
<1>3. Kept' = Kept /\ version' = version /\ task' = task /\ given' = given
  BY DEF Kept
<1>4. ASSUME NEW p \in Requests, Asked(req[p]), p # r PROVE req[p].version \notin png' \ png
  BY <1>4 DEF AssetsInv, NumbersApart
<1>5. \A s, t : Of(s, t)' = Of(s, t)
  BY <1>3 DEF Of
<1>6. RequestsFit'
  <2> SUFFICES ASSUME NEW p \in Requests PROVE Fits(req[p])'
    BY DEF RequestsFit
  <2>1. CASE p = r
    BY <1>2, <2>1 DEF Fits, Legal, Asked
  <2>2. CASE p # r
    <3>1. Fits(req[p]) /\ req'[p] = req[p]
      BY <1>2, <2>2 DEF AssetsInv, RequestsFit
    <3> DEFINE k == req[p]
    <3>2. k.op = "cover" /\ k.pc = "insert" /\ k.version \in png => k.version \in png'
      BY <2>2
    <3>3. Asked(k) /\ k.version \notin png => k.version \notin png'
      BY <1>4, <2>2
    <3>4. Asked(k) /\ k.parent # None /\ k.pc \in {"write", "insert"} /\ k.parent \in Kept'
             => k.parent \in Of(k.space, k.type)'
      BY <1>3, <1>5, <3>1 DEF Fits
    <3> HIDE DEF k
    <3>5. req'[p] = k /\ Fits(k)
      BY <3>1 DEF k
    <3>6. Fits(k)'
      BY <3>1, <3>2, <3>3, <3>4, <1>3, <3>5 DEF Fits, Legal, Asked, k
    <3> QED BY <3>5, <3>6 DEF Fits, Legal, Asked, k
  <2> QED BY <2>1, <2>2
<1>7. NumbersApart'
  <2>1. ASSUME NEW p \in Requests, NEW u \in Requests, Asked(req[p])', Asked(req[u])',
               req'[p].version = req'[u].version
        PROVE p = u
    <3>1. Asked(req[p]) /\ req'[p].version = req[p].version
      BY <1>2, <2>1 DEF Asked
    <3>2. Asked(req[u]) /\ req'[u].version = req[u].version
      BY <1>2, <2>1 DEF Asked
    <3> QED BY <2>1, <3>1, <3>2 DEF AssetsInv, NumbersApart
  <2>2. ASSUME NEW v \in Versions, v > given'
        PROVE version'[v] = None /\ task'[v] = None /\ v \notin png'
    <3>1. version[v] = None /\ task[v] = None /\ v \notin png
      BY <1>3, <2>2 DEF AssetsInv, NumbersApart
    <3>2. v \notin png' \ png
      <4> SUFFICES ASSUME v = req[r].version, Asked(req[r]) PROVE FALSE
        OBVIOUS
      <4>1. req[r].version <= given
        BY DEF AssetsInv, RequestsFit, Fits
      <4>2. given \in Nat /\ v \in Nat
        BY VersionsAreNumbers DEF AssetsInv, AssetsTyped
      <4> QED BY <1>3, <2>2, <4>1, <4>2
    <3> QED BY <1>3, <3>1, <3>2
  <2> QED BY <2>1, <2>2 DEF NumbersApart
<1>8. PicturesAccounted'
  <2>1. ASSUME NEW v \in png' PROVE v \in Kept' \cup leaked' \/ \E p \in Requests : Sees(req[p], v)'
    <3>1. CASE v \in png
      <4>1. CASE v \in Kept \cup leaked
        BY <4>1, <1>3
      <4>2. CASE \E p \in Requests : Sees(req[p], v)
        <5> PICK p \in Requests : Sees(req[p], v)
          BY <4>2
        <5>1. CASE p = r
          BY <5>1, <1>2, <1>3 DEF Sees
        <5>2. CASE p # r
          BY <5>2, <1>2 DEF Sees
        <5> QED BY <5>1, <5>2
      <4> QED BY <3>1, <4>1, <4>2 DEF AssetsInv, PicturesAccounted
    <3>2. CASE v \notin png
      BY <3>2, <1>2 DEF Sees
    <3> QED BY <3>1, <3>2
  <2>2. ASSUME NEW v \in Kept', version'[v].type = "description" PROVE v \notin png'
    <3>1. v \notin png /\ v \in Versions
      BY <1>3, <2>2 DEF AssetsInv, PicturesAccounted, Kept
    <3>2. version[v] # None
      BY <1>3, <2>2 DEF Kept
    <3> QED BY <3>1, <3>2
  <2> QED BY <2>1, <2>2 DEF PicturesAccounted
<1>9. TasksAccounted'
  <2> SUFFICES ASSUME NEW v \in Versions, task'[v] = "running"
               PROVE v \in cut' \/ \E p \in Requests : Asked(req[p])' /\ req'[p].version = v
    BY DEF TasksAccounted
  <2>1. CASE v \in cut
    BY <2>1
  <2>2. CASE \E p \in Requests : Asked(req[p]) /\ req[p].version = v
    <3> PICK p \in Requests : Asked(req[p]) /\ req[p].version = v
      BY <2>2
    <3>1. CASE p # r
      BY <3>1, <1>2 DEF Asked
    <3>2. CASE p = r
      <4>1. task[v] = IF req[r].op = "manual" THEN None ELSE "running"
        BY <3>2 DEF AssetsInv, RequestsFit, Fits
      <4>2. None # "running" \/ Asked(q)
        BY AssetsAssumption
      <4>3. req[r].version = v /\ Asked(req[r]) /\ task[v] = "running"
        BY <3>2, <1>3
      <4>4. Asked(q) /\ q.version = v
        BY <4>1, <4>2, <4>3
      <4>5. Asked(req[r])' /\ req'[r].version = v
        BY <4>4, <1>2 DEF Asked
      <4> QED BY <4>5
    <3> QED BY <3>1, <3>2
  <2> QED BY <2>1, <2>2, <1>3 DEF AssetsInv, TasksAccounted
<1>10. SelectionStands' /\ LineageStands'
  BY DEF RowsStand
<1>11. CoversHavePictures'
  BY <1>3 DEF AssetsInv, CoversHavePictures
<1>12. TasksEndTrue'
  BY <1>3 DEF AssetsInv, TasksEndTrue
<1> QED BY <1>1, <1>6, <1>7, <1>8, <1>9, <1>10, <1>11, <1>12 DEF AssetsInv

(* A request goes on to another point, or is done.                         *)
LEMMA RequestOf ==
  ASSUME AssetsInv, NEW r \in Requests
  PROVE  req[r] \in RequestRecords /\ Fits(req[r]) /\ Legal(req[r])
BY DEF AssetsInv, AssetsTyped, RequestsFit, Fits

LEMMA AdvancedRequest ==
  ASSUME NEW k \in RequestRecords, NEW pc \in Points
  PROVE  \E q \in RequestRecords :
           /\ q = [k EXCEPT !.pc = pc] /\ q.pc = pc /\ q.op = k.op /\ q.space = k.space
           /\ q.type = k.type /\ q.parent = k.parent /\ q.version = k.version
<1> DEFINE q == [op |-> k.op, pc |-> pc, space |-> k.space, type |-> k.type, parent |-> k.parent,
                 version |-> k.version]
<1>1. q \in RequestRecords
  BY DEF RequestRecords
<1>2. [k EXCEPT !.pc = pc] = q
  BY DEF RequestRecords
<1>3. /\ q.pc = pc /\ q.op = k.op /\ q.space = k.space
      /\ q.type = k.type /\ q.parent = k.parent /\ q.version = k.version
  OBVIOUS
<1> HIDE DEF q
<1> QED BY <1>1, <1>2, <1>3

LEMMA RowsUnchanged ==
  ASSUME AssetsInv, UNCHANGED assetRows
  PROVE  RowsStand' /\ UNCHANGED version
BY DEF AssetsInv, AssetsTyped, RowsStand, SelectionStands, LineageStands, Selected, Of, Kept, There, assetRows

LEMMA AdvanceKeepsInv ==
  ASSUME AssetsInv, NEW r \in Requests, NEW pc \in Points, Go(r, pc),
         UNCHANGED <<assetRows, task, given, cut>>, mishaps' \in 0..MaxMishaps,
         unread \subseteq unread', unread' \subseteq Versions,
         leaked \subseteq leaked', leaked' \subseteq Versions,
         \/ req[r].op = "manual" /\ pc \in {"validate", "insert", "readback"}
         \/ req[r].op = "cover" /\ pc \in {"write", "insert", "undo", "fail", "complete"}
         \/ req[r].op = "model" /\ pc \in {"validate", "insert", "fail", "complete"},
         \A v \in png' \ png : /\ v = req[r].version /\ req[r].op = "cover" /\ req[r].pc = "write"
                               /\ pc = "insert" \/ v \in leaked',
         \A v \in png \ png' : v = req[r].version /\ (v \notin Kept \/ v \in unread'),
         \A v \in png' : Sees(req[r], v) => pc = "undo" \/ v \in Kept \cup leaked',
         pc \in Unsaved => req[r].pc \in Unsaved,
         pc \in {"write", "insert"} /\ req[r].parent \in Kept => req[r].parent \in Of(req[r].space, req[r].type),
         pc \in {"undo", "fail"} => req[r].version \notin Kept \/ req[r].version \in unread',
         pc = "complete" => version[req[r].version] # None,
         req[r].op = "cover" /\ pc = "insert" => req[r].version \in png'
  PROVE  AssetsInv'
<1>1. PICK q \in RequestRecords :
           /\ q = [req[r] EXCEPT !.pc = pc] /\ q.pc = pc /\ q.op = req[r].op /\ q.space = req[r].space
           /\ q.type = req[r].type /\ q.parent = req[r].parent /\ q.version = req[r].version
  BY AdvancedRequest, RequestOf
<1>2. req' = [req EXCEPT ![r] = q]
  BY <1>1 DEF Go, AssetsInv, AssetsTyped
<1>3. Fits(req[r]) /\ Legal(req[r]) /\ Asked(req[r]) /\ Asked(q) /\ req[r].version \in Versions
  BY <1>1, RequestOf DEF Asked, Legal
<1>4. Legal(q)
  BY <1>1, <1>3 DEF Legal
<1>5. Kept' = Kept /\ version' = version /\ task' = task /\ given' = given /\ \A s, t : Of(s, t)' = Of(s, t)
  BY DEF assetRows, Kept, Of
<1>6. Fits(q)'
  <2>1. q.op # "delete" /\ q.version <= given /\ (q.pc \in Unsaved => version[q.version] = None)
    BY <1>1, <1>3 DEF Fits, Asked
  <2>2. q.parent # None =>
            /\ version[q.parent] # None
            /\ q.pc \in {"write", "insert"} /\ q.parent \in Kept => q.parent \in Of(q.space, q.type)
    BY <1>1, <1>3 DEF Fits
  <2>3. /\ q.pc \in {"undo", "fail"} => q.version \notin Kept \/ q.version \in unread'
        /\ q.pc = "complete" => version[q.version] # None
        /\ q.op = "cover" /\ q.pc = "insert" => q.version \in png'
        /\ q.op # "cover" => q.version \notin png'
        /\ task[q.version] = IF q.op = "manual" THEN None ELSE "running"
    <3>1. q.op # "cover" => q.version \notin png
      BY <1>1, <1>3 DEF Fits
    <3>2. task[q.version] = IF q.op = "manual" THEN None ELSE "running"
      BY <1>1, <1>3 DEF Fits
    <3> QED BY <1>1, <3>1, <3>2
  <2> QED BY <1>4, <1>5, <2>1, <2>2, <2>3 DEF Fits, Legal, Asked
<1>7. \A v \in png' \ png : /\ v = req[r].version /\ Asked(req[r]) /\ v \in Versions
                            /\ req[r].op = "cover" /\ version[v] = None
                            /\ Sees(q, v) \/ v \in leaked'
  BY <1>1, <1>3 DEF Sees, Fits, Unsaved
<1>8. \A v \in png \ png' : /\ v \notin Kept \/ v \in unread'
                            /\ \A p \in Requests \ {r} :
                                 ~(req[p].op = "cover" /\ req[p].pc = "insert" /\ req[p].version = v)
  BY <1>3 DEF AssetsInv, NumbersApart, Asked
<1>9. \A v \in png' : Sees(req[r], v) => Sees(q, v) \/ v \in Kept \cup leaked'
  BY <1>1 DEF Sees
<1>10. Asked(q) => Asked(req[r]) /\ q.version = req[r].version
  BY <1>1, <1>3
<1>11. RowsStand' /\ UNCHANGED version
  BY RowsUnchanged
<1> HIDE DEF AssetsInv, Asked, Sees, Fits
<1> QED BY <1>2, <1>3, <1>6, <1>7, <1>8, <1>9, <1>10, <1>11, MoveKeepsInv

LEMMA IdleIsLegal ==
  ASSUME AssetsAssumption
  PROVE  Idle \in RequestRecords /\ Legal(Idle) /\ ~Asked(Idle) /\ Idle.op = "none" /\ \A v : ~Sees(Idle, v)
BY DEF Idle, RequestRecords, Legal, Asked, Sees, Types, Points

LEMMA EndKeepsInv ==
  ASSUME AssetsInv, NEW r \in Requests, Done(r),
         UNCHANGED <<version, task, given, cut>>, RowsStand', mishaps' \in 0..MaxMishaps,
         unread \subseteq unread', unread' \subseteq Versions,
         leaked \subseteq leaked', leaked' \subseteq Versions,
         req[r].op \in {"manual", "delete", "none", "erase"}, png' \subseteq png,
         \A v \in png \ png' : v = req[r].version /\ req[r].op = "delete",
         \A v \in png' : Sees(req[r], v) => v \in leaked'
  PROVE  AssetsInv'
<1>1. PICK q \in RequestRecords : q = Idle
  BY IdleIsLegal, AssetsAssumption
<1>2. Legal(q) /\ ~Asked(q) /\ q.op = "none" /\ (\A v : ~Sees(q, v)) /\ req' = [req EXCEPT ![r] = q]
  BY <1>1, IdleIsLegal, AssetsAssumption DEF Done
<1>3. Fits(q)'
  BY <1>2 DEF Fits, Legal, Asked
<1>4. \A v \in png \ png' : /\ v \notin Kept \/ v \in unread'
                            /\ \A p \in Requests \ {r} :
                                 ~(req[p].op = "cover" /\ req[p].pc = "insert" /\ req[p].version = v)
  <2> SUFFICES ASSUME NEW v \in png \ png', v = req[r].version, req[r].op = "delete"
               PROVE  /\ v \notin Kept
                      /\ \A p \in Requests \ {r} :
                                 ~(req[p].op = "cover" /\ req[p].pc = "insert" /\ req[p].version = v)
    OBVIOUS
  <2>1. version[v] = Gone /\ None # Gone
    BY RequestOf, AssetsAssumption DEF Fits
  <2>2. \A p \in Requests \ {r} :
                                 ~(req[p].op = "cover" /\ req[p].pc = "insert" /\ req[p].version = v)
    BY <2>1, RequestOf DEF Fits, Asked, Unsaved
  <2> QED BY <2>1, <2>2 DEF Kept
<1>5. Asked(req[r]) => req[r].op = "manual"
  BY DEF Asked
<1> HIDE DEF AssetsInv, Asked, Sees, Fits, Done
<1> QED BY <1>2, <1>3, <1>4, <1>5, MoveKeepsInv

LEMMA MishapCounted ==
  ASSUME AssetsInv
  PROVE  mishaps \in 0..MaxMishaps /\ (Mishap => mishaps' \in 0..MaxMishaps)
BY AssetsAssumption DEF AssetsInv, AssetsTyped, Mishap

LEMMA SetsOfVersions ==
  ASSUME AssetsInv
  PROVE  png \subseteq Versions /\ unread \subseteq Versions /\ leaked \subseteq Versions /\ cut \subseteq Versions
BY DEF AssetsInv, AssetsTyped

(* What a request may be at each point of its handler.                     *)
LEMMA AtPoint ==
  ASSUME AssetsInv, NEW r \in Requests, NEW k, k = req[r]
  PROVE  /\ Asked(k) => k.version \in Versions /\ k.space \in Spaces
         /\ k.pc = "erase" => k.op = "erase" /\ k.space \in Spaces
         /\ k.pc = "unlink" => k.op = "delete" /\ k.version \in Versions
         /\ k.pc = "answer" => k.op = "model"
         /\ k.pc = "write" => k.op = "cover"
         /\ k.pc = "undo" => k.op = "cover"
         /\ k.pc \in {"complete", "fail"} => k.op \in {"cover", "model"}
         /\ k.pc \in {"validate", "insert", "readback"} => Asked(k)
         /\ k.pc = "idle" => k.op = "none"
BY RequestOf DEF Legal, Asked

(* Answer.                                                                 *)
LEMMA AnswerKeepsInv ==
  ASSUME AssetsInv, NEW r \in Requests, Answer(r)
  PROVE  AssetsInv'
<1>1. PICK pc \in {"validate", "fail"} : Go(r, pc)
  BY DEF Answer
<1>2. UNCHANGED <<assetRows, png, task, given, mishaps, unread, leaked, cut>> /\ req[r].pc = "answer"
  BY DEF Answer, bounds, history
<1>3. req[r].op = "model" /\ req[r].version \notin Kept
  BY <1>2, AtPoint, RequestOf DEF Fits, Asked, Unsaved, Kept
<1>4. \A v : ~Sees(req[r], v)
  BY <1>2 DEF Sees
<1> QED BY <1>1, <1>2, <1>3, <1>4, MishapCounted, SetsOfVersions, AdvanceKeepsInv DEF Points, Unsaved

(* Raised, where no picture and no row is to be undone.                    *)
LEMMA RaisedKeepsInv ==
  ASSUME AssetsInv, NEW r \in Requests, Raised(r), Asked(req[r]),
         UNCHANGED <<assetRows, task, given, cut>>, mishaps' \in 0..MaxMishaps,
         unread \subseteq unread', unread' \subseteq Versions,
         leaked \subseteq leaked', leaked' \subseteq Versions,
         \/ png' = png
         \/ png' = png \cup {req[r].version} /\ req[r].pc = "write" /\ req[r].version \in leaked',
         req[r].version \notin Kept \/ req[r].version \in unread',
         \A v : ~Sees(req[r], v)
  PROVE  AssetsInv'
<1>1. CASE req[r].op = "manual"
  <2>1. Done(r) /\ req[r].pc # "write"
    BY <1>1, AtPoint DEF Raised
  <2> QED BY <1>1, <2>1, EndKeepsInv, RowsUnchanged
<1>2. CASE req[r].op # "manual"
  <2>1. Go(r, "fail") /\ req[r].op \in {"cover", "model"} /\ (req[r].pc = "write" => req[r].op = "cover")
    BY <1>2, AtPoint DEF Raised, Asked
  <2>2. \A v \in png' \ png : /\ v = req[r].version /\ req[r].op = "cover" /\ req[r].pc = "write" /\ v \in leaked'
    BY <2>1
  <2> QED BY <2>1, <2>2, AdvanceKeepsInv DEF Points, Unsaved
<1> QED BY <1>1, <1>2

(* Undone, after a cover was written or saved.                             *)
LEMMA UndoneKeepsInv ==
  ASSUME AssetsInv, NEW r \in Requests, Undone(r), req[r].pc \in {"insert", "readback"},
         UNCHANGED <<assetRows, png, task, given, leaked, cut>>, mishaps' \in 0..MaxMishaps,
         unread \subseteq unread', unread' \subseteq Versions,
         req[r].version \notin Kept \/ req[r].version \in unread'
  PROVE  AssetsInv'
<1>1. CASE req[r].op = "cover"
  <2>1. Go(r, "undo")
    BY <1>1 DEF Undone
  <2> QED BY <1>1, <2>1, SetsOfVersions, AdvanceKeepsInv DEF Points, Unsaved
<1>2. CASE req[r].op # "cover"
  <2>1. Raised(r) /\ Asked(req[r]) /\ \A v : ~Sees(req[r], v)
    BY <1>2, AtPoint DEF Undone, Sees
  <2> QED BY <2>1, SetsOfVersions, RaisedKeepsInv
<1> QED BY <1>1, <1>2

(* Validate.                                                               *)
LEMMA ValidateKeepsInv ==
  ASSUME AssetsInv, NEW r \in Requests, Validate(r)
  PROVE  AssetsInv'
<1>1. UNCHANGED <<assetRows, png, task, given, mishaps, unread, leaked, cut>> /\ req[r].pc = "validate"
  BY DEF Validate, bounds, history
<1>2. Asked(req[r]) /\ req[r].version \notin Kept /\ \A v : ~Sees(req[r], v)
  BY <1>1, AtPoint, RequestOf DEF Fits, Unsaved, Kept, Sees
<1>3. CASE Raised(r)
  BY <1>1, <1>2, <1>3, MishapCounted, SetsOfVersions, RaisedKeepsInv
<1>4. CASE Valid(req[r]) /\ Go(r, IF req[r].op = "cover" THEN "write" ELSE "insert")
  <2>1. req[r].parent \in Kept => req[r].parent \in Of(req[r].space, req[r].type)
    BY <1>4, VersionsAreNumbers DEF Valid, Kept
  <2>2. CASE req[r].op = "cover"
    BY <1>1, <1>2, <1>4, <2>1, <2>2, MishapCounted, SetsOfVersions, AdvanceKeepsInv DEF Points, Unsaved
  <2>3. CASE req[r].op # "cover"
    BY <1>1, <1>2, <1>4, <2>1, <2>3, MishapCounted, SetsOfVersions, AdvanceKeepsInv DEF Points, Unsaved, Asked
  <2> QED BY <2>2, <2>3
<1> QED BY <1>3, <1>4 DEF Validate

(* The picture of a cover is written, or its writing fails.                *)
LEMMA WriteKeepsInv ==
  ASSUME AssetsInv, NEW r \in Requests, WritePng(r) \/ WriteFails(r)
  PROVE  AssetsInv'
<1>1. UNCHANGED <<assetRows, task, given, unread, cut>> /\ req[r].pc = "write"
  BY DEF WritePng, WriteFails, bounds, history
<1>2. /\ req[r].op = "cover" /\ req[r].version \in Versions /\ req[r].version \notin Kept
      /\ Asked(req[r]) /\ \A v : ~Sees(req[r], v)
  BY <1>1, AtPoint, RequestOf DEF Asked, Fits, Unsaved, Kept, Sees
<1>3. req[r].parent \in Kept => req[r].parent \in Of(req[r].space, req[r].type)
  BY <1>1, <1>2, RequestOf, VersionsAreNumbers DEF Fits, Kept
<1>4. CASE WritePng(r)
  <2>1. png' = png \cup {req[r].version} /\ Go(r, "insert") /\ UNCHANGED <<mishaps, leaked>>
    BY <1>4 DEF WritePng, bounds, history
  <2>2. \A v \in png' \ png : v = req[r].version
    BY <2>1
  <2> QED BY <1>1, <1>2, <1>3, <2>1, <2>2, MishapCounted, SetsOfVersions, AdvanceKeepsInv DEF Points, Unsaved
<1>5. CASE WriteFails(r)
  <2>1. png' \in {png, png \cup {req[r].version}} /\ Raised(r) /\ Mishap /\ leaked' = leaked \cup {req[r].version}
    BY <1>5 DEF WriteFails
  <2>2. leaked \subseteq leaked' /\ leaked' \subseteq Versions /\ req[r].version \in leaked'
    BY <1>2, <2>1, SetsOfVersions
  <2> QED BY <1>1, <1>2, <2>1, <2>2, MishapCounted, SetsOfVersions, RaisedKeepsInv
<1> QED BY <1>4, <1>5

(* Reading back, and undoing.                                              *)
LEMMA ReadBackKeepsInv ==
  ASSUME AssetsInv, NEW r \in Requests, ReadBack(r)
  PROVE  AssetsInv'
<1>1. UNCHANGED <<assetRows, png, task, given, mishaps, unread, leaked, cut>> /\ req[r].pc = "readback"
  BY DEF ReadBack, bounds, history
<1>2. Asked(req[r]) /\ \A v : ~Sees(req[r], v)
  BY <1>1, AtPoint DEF Sees
<1>3. CASE req[r].op = "manual"
  BY <1>1, <1>2, <1>3, MishapCounted, SetsOfVersions, EndKeepsInv, RowsUnchanged DEF ReadBack
<1>4. CASE req[r].op # "manual" /\ req[r].version \in Kept
  <2>1. Go(r, "complete") /\ version[req[r].version] # None /\ req[r].op \in {"cover", "model"}
    BY <1>2, <1>4 DEF ReadBack, Kept, Asked
  <2> QED BY <1>1, <1>2, <2>1, MishapCounted, SetsOfVersions, AdvanceKeepsInv DEF Points, Unsaved
<1>5. CASE req[r].op # "manual" /\ req[r].version \notin Kept
  <2>1. Go(r, "fail") /\ req[r].op \in {"cover", "model"}
    BY <1>2, <1>5 DEF ReadBack, Asked
  <2> QED BY <1>1, <1>2, <1>5, <2>1, MishapCounted, SetsOfVersions, AdvanceKeepsInv DEF Points, Unsaved
<1> QED BY <1>3, <1>4, <1>5

LEMMA FailedSaveKeepsInv ==
  ASSUME AssetsInv, NEW r \in Requests, InsertFails(r) \/ ReadBackFails(r)
  PROVE  AssetsInv'
<1>1. CASE InsertFails(r)
  <2>1. UNCHANGED <<assetRows, png, task, given, unread, leaked, cut>> /\ req[r].pc = "insert" /\ Mishap /\ Undone(r)
    BY <1>1 DEF InsertFails, history
  <2>2. req[r].version \notin Kept
    BY <2>1, AtPoint, RequestOf DEF Fits, Unsaved, Kept
  <2> QED BY <2>1, <2>2, MishapCounted, SetsOfVersions, UndoneKeepsInv
<1>2. CASE ReadBackFails(r)
  <2>1. /\ UNCHANGED <<assetRows, png, task, given, leaked, cut>> /\ req[r].pc = "readback" /\ Mishap /\ Undone(r)
        /\ unread' = unread \cup {req[r].version}
    BY <1>2 DEF ReadBackFails
  <2>2. unread \subseteq unread' /\ unread' \subseteq Versions /\ req[r].version \in unread'
    BY <2>1, AtPoint, SetsOfVersions
  <2> QED BY <2>1, <2>2, MishapCounted, SetsOfVersions, UndoneKeepsInv
<1> QED BY <1>1, <1>2

LEMMA UndoKeepsInv ==
  ASSUME AssetsInv, NEW r \in Requests, Undo(r) \/ UndoFails(r)
  PROVE  AssetsInv'
<1>1. UNCHANGED <<assetRows, task, given, unread, cut>> /\ req[r].pc = "undo" /\ Go(r, "fail")
  BY DEF Undo, UndoFails, bounds, history
<1>2. /\ req[r].op = "cover" /\ req[r].version \in Versions
      /\ req[r].version \notin Kept \/ req[r].version \in unread
  BY <1>1, AtPoint, RequestOf DEF Asked, Fits
<1>3. CASE Undo(r)
  <2>1. png' = png \ {req[r].version} /\ UNCHANGED <<mishaps, leaked>>
    BY <1>3 DEF Undo, bounds, history
  <2>2. /\ \A v \in png \ png' : v = req[r].version
        /\ png' \ png = {}
        /\ \A v \in png' : ~Sees(req[r], v)
    BY <2>1 DEF Sees
  <2> QED BY <1>1, <1>2, <2>1, <2>2, MishapCounted, SetsOfVersions, AdvanceKeepsInv DEF Points, Unsaved
<1>4. CASE UndoFails(r)
  <2>1. png' = png /\ Mishap /\ leaked' = leaked \cup {req[r].version}
    BY <1>4 DEF UndoFails
  <2>2. leaked \subseteq leaked' /\ leaked' \subseteq Versions /\ req[r].version \in leaked'
    BY <1>2, <2>1, SetsOfVersions
  <2>3. \A v : Sees(req[r], v) => v \in leaked'
    BY <2>2 DEF Sees
  <2> QED BY <1>1, <1>2, <2>1, <2>2, <2>3, MishapCounted, SetsOfVersions, AdvanceKeepsInv DEF Points, Unsaved
<1> QED BY <1>3, <1>4

LEMMA UnlinkKeepsInv ==
  ASSUME AssetsInv, NEW r \in Requests, Unlink(r) \/ UnlinkFails(r)
  PROVE  AssetsInv'
<1>1. UNCHANGED <<assetRows, task, given, unread, cut>> /\ req[r].pc = "unlink" /\ Done(r)
  BY DEF Unlink, UnlinkFails, bounds, history
<1>2. req[r].op = "delete" /\ req[r].version \in Versions
  BY <1>1, AtPoint
<1>3. CASE Unlink(r)
  <2>1. png' = png \ {req[r].version} /\ UNCHANGED <<mishaps, leaked>>
    BY <1>3 DEF Unlink, bounds, history
  <2>2. \A v \in png' : ~Sees(req[r], v)
    BY <2>1 DEF Sees
  <2> QED BY <1>1, <1>2, <2>1, <2>2, MishapCounted, SetsOfVersions, EndKeepsInv, RowsUnchanged
<1>4. CASE UnlinkFails(r)
  <2>1. png' = png /\ Mishap /\ leaked' = leaked \cup {req[r].version}
    BY <1>4 DEF UnlinkFails
  <2>2. leaked \subseteq leaked' /\ leaked' \subseteq Versions /\ \A v : Sees(req[r], v) => v \in leaked'
    BY <1>2, <2>1, SetsOfVersions DEF Sees
  <2> QED BY <1>1, <1>2, <2>1, <2>2, MishapCounted, SetsOfVersions, EndKeepsInv, RowsUnchanged
<1> QED BY <1>3, <1>4

(* Workspaces are created, looked at, and erased.                          *)
LEMMA CreateSpaceKeepsInv ==
  ASSUME AssetsInv, CreateSpace
  PROVE  AssetsInv'
<1>1. PICK s \in Spaces : space[s] = None /\ space' = [space EXCEPT ![s] = [t \in Types |-> None]]
  BY DEF CreateSpace
<1>2. UNCHANGED <<version, png, task, req, given, mishaps, unread, leaked, cut>>
  BY DEF CreateSpace, bounds, history
<1>3. AssetsTyped /\ SelectionStands /\ LineageStands
  BY DEF AssetsInv
<1>4. PICK n \in Selections : n = [t \in Types |-> None]
  BY DEF Selections
<1>5. space' \in [Spaces -> {None, Gone} \cup Selections] /\ AssetsTyped'
  BY <1>1, <1>2, <1>3, <1>4 DEF AssetsTyped
<1>6. There' = There \cup {s} /\ s \notin There /\ Kept' = Kept /\ space'[s] = n /\ n \notin {None, Gone}
  BY <1>1, <1>2, <1>3, <1>4, AssetsAssumption DEF There, Kept, AssetsTyped
<1>7. \A u, t : Of(u, t)' = Of(u, t) /\ Selected(u, t)' = Selected(u, t)
  BY <1>2, <1>6 DEF Of, Selected
<1>8. LineageStands'
  BY <1>2, <1>3, <1>6, <1>7 DEF LineageStands
<1>9. SelectionStands'
  <2> SUFFICES ASSUME NEW u \in There', NEW t \in Types
               PROVE  Selected(u, t)' = {space'[u][t]} \ {None}
    BY DEF SelectionStands
  <2>1. CASE u = s
    <3>1. Of(s, t) = {}
      BY <1>3, <1>6 DEF Of, LineageStands
    <3> QED BY <2>1, <3>1, <1>4, <1>6, <1>7 DEF Selected
  <2>2. CASE u # s
    <3>1. u \in There /\ u \in Spaces /\ space'[u] = space[u]
      BY <2>2, <1>1, <1>3, <1>6 DEF There, AssetsTyped
    <3> QED BY <3>1, <1>3, <1>7 DEF SelectionStands
  <2> QED BY <2>1, <2>2
<1>10. RequestsFit' /\ NumbersApart' /\ PicturesAccounted' /\ TasksAccounted' /\ CoversHavePictures' /\ TasksEndTrue'
  <2>1. RequestsFit'
    BY <1>2, <1>6, <1>7 DEF AssetsInv, RequestsFit, Fits, Legal, Asked
  <2>2. NumbersApart' /\ TasksAccounted' /\ CoversHavePictures' /\ TasksEndTrue'
    BY <1>2, <1>6 DEF AssetsInv, NumbersApart, TasksAccounted, CoversHavePictures, TasksEndTrue, Asked
  <2>3. PicturesAccounted'
    BY <1>2, <1>6 DEF AssetsInv, PicturesAccounted, Sees
  <2> QED BY <2>1, <2>2, <2>3
<1> QED BY <1>5, <1>8, <1>9, <1>10 DEF AssetsInv

LEMMA CheckEmptyKeepsInv ==
  ASSUME AssetsInv, NEW r \in Requests, CheckEmpty(r)
  PROVE  AssetsInv'
<1>1. PICK s \in There : req' = [req EXCEPT ![r] = [Idle EXCEPT !.op = "erase", !.pc = "erase", !.space = s]]
  BY DEF CheckEmpty
<1>2. UNCHANGED <<assetRows, png, task, given, mishaps, unread, leaked, cut>> /\ req[r].pc = "idle"
  BY DEF CheckEmpty, bounds, history
<1>3. PICK q \in RequestRecords : /\ q = [Idle EXCEPT !.op = "erase", !.pc = "erase", !.space = s]
                                  /\ q.op = "erase" /\ q.pc = "erase" /\ q.space = s
  <2> DEFINE q == [Idle EXCEPT !.op = "erase", !.pc = "erase", !.space = s]
  <2>1. q \in RequestRecords
    BY DEF RequestRecords, Points, Types, There, Idle
  <2>2. q.op = "erase" /\ q.pc = "erase" /\ q.space = s
    BY DEF Idle
  <2> HIDE DEF q
  <2> QED BY <2>1, <2>2 DEF q
<1>4. s \in Spaces
  BY DEF There
<1>5. Fits(q)' /\ ~Asked(q)
  BY <1>3, <1>4 DEF Fits, Legal, Asked
<1>6. ~Asked(req[r]) /\ \A v : ~Sees(req[r], v)
  BY <1>2, AtPoint DEF Asked, Sees
<1> QED BY <1>1, <1>2, <1>3, <1>5, <1>6, MishapCounted, SetsOfVersions, RowsUnchanged, MoveKeepsInv

LEMMA EraseSpaceKeepsInv ==
  ASSUME AssetsInv, NEW r \in Requests, EraseSpace(r)
  PROVE  AssetsInv'
<1> DEFINE s == req[r].space
<1>1. UNCHANGED <<version, png, task, given, mishaps, unread, leaked, cut>> /\ req[r].pc = "erase" /\ Done(r)
  BY DEF EraseSpace, bounds, history
<1>2. req[r].op = "erase" /\ \A v : ~Sees(req[r], v)
  BY <1>1, AtPoint DEF Sees
<1>3. AssetsTyped /\ SelectionStands /\ LineageStands
  BY DEF AssetsInv
<1>4. CASE space' = space
  BY <1>1, <1>2, <1>4, MishapCounted, SetsOfVersions, RowsUnchanged, EndKeepsInv DEF assetRows
<1>5. CASE space' # space
  <2>1. s \in There /\ (\A t \in Types : Of(s, t) = {}) /\ space' = [space EXCEPT ![s] = Gone]
    BY <1>5 DEF EraseSpace
  <2>2. space' \in [Spaces -> {None, Gone} \cup Selections]
    BY <1>3, <2>1 DEF AssetsTyped
  <2>3. There' = There \ {s} /\ Kept' = Kept /\ \A u \in There' : space'[u] = space[u]
    BY <1>1, <1>3, <2>1 DEF There, Kept, AssetsTyped
  <2>4. \A u, t : Of(u, t)' = Of(u, t) /\ Selected(u, t)' = Selected(u, t)
    BY <1>1, <2>3 DEF Of, Selected
  <2>5. SelectionStands'
    BY <1>3, <2>3, <2>4 DEF SelectionStands
  <2>6. \A v \in Kept : version[v].space # s
    <3> SUFFICES ASSUME NEW v \in Kept, version[v].space = s PROVE FALSE
      OBVIOUS
    <3>1. version[v].type \in Types
      BY <1>3, KeptIsRow DEF Kept, VersionRows
    <3>2. v \in Of(s, version[v].type)
      BY DEF Of
    <3> QED BY <2>1, <3>1, <3>2
  <2>7. LineageStands'
    BY <1>1, <1>3, <2>3, <2>4, <2>6 DEF LineageStands
  <2>8. RowsStand'
    BY <2>2, <2>5, <2>7 DEF RowsStand
  <2> QED BY <1>1, <1>2, <2>8, MishapCounted, SetsOfVersions, EndKeepsInv
<1> QED BY <1>4, <1>5

-----------------------------------------------------------------------------
(* What a request counts on outlives the rows of others: one may be new    *)
(* (x), the others keep their workspace and kind while they are there.     *)
LEMMA FitsStays ==
  ASSUME AssetsTyped, NEW q \in RequestRecords, Fits(q), UNCHANGED <<png, task, given, unread>>, NEW x,
         x \in Versions => version[x] = None /\ (Asked(q) => q.version # x),
         \A v \in Versions \ {x} : /\ version'[v] = None <=> version[v] = None
                                   /\ version[v] = Gone => version'[v] = Gone
                                   /\ v \in Kept' => /\ v \in Kept
                                                     /\ version'[v].space = version[v].space
                                                     /\ version'[v].type = version[v].type
  PROVE  Fits(q)'
<1>1. Legal(q) /\ None # Gone
  BY AssetsAssumption DEF Fits
<1>2. q.op = "delete" => version'[q.version] = Gone
  BY <1>1 DEF Fits, Legal
<1>3. ASSUME Asked(q) PROVE q.version \in Versions /\ q.version # x
  BY <1>1, <1>3 DEF Asked, Legal
<1>4. ASSUME Asked(q), q.parent # None
      PROVE  /\ version'[q.parent] # None
             /\ q.pc \in {"write", "insert"} /\ q.parent \in Kept' => q.parent \in Of(q.space, q.type)'
  <2>1. q.parent \in Versions /\ version[q.parent] # None
    BY <1>4 DEF RequestRecords, Fits
  <2>2. q.parent # x
    BY <2>1
  <2>3. q.pc \in {"write", "insert"} /\ q.parent \in Kept => q.parent \in Of(q.space, q.type)
    BY <1>4 DEF Fits
  <2> QED BY <2>1, <2>2, <2>3 DEF Of
<1>5. ASSUME Asked(q)
      PROVE  /\ q.version <= given
             /\ q.pc \in Unsaved => version'[q.version] = None
             /\ q.pc \in {"undo", "fail"} => q.version \notin Kept' \/ q.version \in unread
             /\ q.pc = "complete" => version'[q.version] # None
             /\ q.op = "cover" /\ q.pc = "insert" => q.version \in png
             /\ q.op # "cover" => q.version \notin png
             /\ task[q.version] = IF q.op = "manual" THEN None ELSE "running"
  BY <1>3, <1>5 DEF Fits
<1> QED BY <1>1, <1>2, <1>4, <1>5 DEF Fits, Legal, Asked

(* A version is selected.                                                  *)
LEMMA SelectKeepsInv ==
  ASSUME AssetsInv, Select
  PROVE  AssetsInv'
<1>1. PICK s \in There, t \in Types, v \in Versions : Chosen(s, t, v)
  BY DEF Select
<1>2. UNCHANGED <<png, task, req, given, mishaps, unread, leaked, cut>>
  BY DEF Select, bounds, history
<1>3. AssetsTyped /\ SelectionStands /\ LineageStands /\ s \in Spaces /\ v \in Of(s, t)
  BY <1>1 DEF AssetsInv, There, Chosen
<1>4. Of(s, t) \subseteq Kept /\ Kept \subseteq Versions
  BY DEF Of, Kept
<1>5. ASSUME NEW w \in Versions, w \notin Of(s, t) PROVE version'[w] = version[w]
  BY <1>1, <1>5 DEF Chosen
<1>6. ASSUME NEW w \in Of(s, t)
      PROVE  /\ version'[w] \in VersionRows
             /\ version'[w].space = version[w].space /\ version'[w].type = version[w].type
             /\ version'[w].sequence = version[w].sequence /\ version'[w].parent = version[w].parent
             /\ version'[w].status = IF w = v THEN "selected" ELSE "candidate"
  <2>1. version[w] \in VersionRows /\ w \in Versions
    BY <1>3, <1>4, KeptIsRow
  <2> DEFINE c == IF w = v THEN "selected" ELSE "candidate"
  <2>2. version'[w] = [version[w] EXCEPT !.status = c]
    BY <1>1, <2>1 DEF Chosen
  <2>3. c \in {"candidate", "selected"}
    OBVIOUS
  <2> HIDE DEF c
  <2>4. version'[w] = [space |-> version[w].space, type |-> version[w].type, sequence |-> version[w].sequence,
                       status |-> c, parent |-> version[w].parent]
    BY <2>1, <2>2 DEF VersionRows
  <2>5. version'[w] \in VersionRows
    BY <2>1, <2>3, <2>4 DEF VersionRows
  <2> QED BY <2>4, <2>5 DEF c
<1>7. version' \in [Versions -> {None, Gone} \cup VersionRows]
  <2>1. \A w \in Versions : version'[w] \in {None, Gone} \cup VersionRows
    BY <1>3, <1>5, <1>6 DEF AssetsTyped
  <2>2. version' = [w \in Versions |-> version'[w]]
    BY <1>1 DEF Chosen
  <2> QED BY <2>1, <2>2
<1>8. PICK n \in Selections : n = [space[s] EXCEPT ![t] = v] /\ space' = [space EXCEPT ![s] = n]
  <2>1. space[s] \in Selections /\ space' = [space EXCEPT ![s] = [space[s] EXCEPT ![t] = v]]
    BY <1>1, <1>3, ThereIsSelection DEF Chosen, AssetsTyped
  <2>2. [space[s] EXCEPT ![t] = v] \in Selections
    BY <2>1 DEF Selections
  <2> QED BY <2>1, <2>2
<1>9. /\ space' \in [Spaces -> {None, Gone} \cup Selections]
      /\ space'[s] = n /\ n[t] = v /\ \A u \in Types \ {t} : n[u] = space[s][u]
      /\ \A u \in Spaces \ {s} : space'[u] = space[u]
  <2>1. space[s] \in Selections
    BY <1>3, ThereIsSelection
  <2> QED BY <1>3, <1>8, <2>1 DEF AssetsTyped, Selections
<1>10. AssetsTyped'
  BY <1>2, <1>3, <1>7, <1>9 DEF AssetsTyped
<1>11. Kept' = Kept
  BY <1>3, <1>4, <1>5, <1>6, KeptIsRow DEF Kept
<1>12. There' = There
  BY <1>3, <1>9, ThereIsSelection DEF There
<1>13. \A w \in Kept : /\ version'[w].space = version[w].space /\ version'[w].type = version[w].type
                       /\ version'[w].sequence = version[w].sequence /\ version'[w].parent = version[w].parent
  BY <1>4, <1>5, <1>6
<1>14. \A u, k : Of(u, k)' = Of(u, k)
  BY <1>11, <1>13 DEF Of
<1>15. LineageStands'
  <2> SUFFICES ASSUME NEW w \in Kept
               PROVE  /\ version'[w].space \in There
                      /\ \A o \in Of(version'[w].space, version'[w].type) :
                           version'[o].sequence = version'[w].sequence => o = w
                      /\ version'[w].parent # None =>
                           /\ version'[w].parent \in Of(version'[w].space, version'[w].type)
                           /\ version'[version'[w].parent].sequence < version'[w].sequence
    BY <1>11, <1>12, <1>14 DEF LineageStands
  <2>1. \A u, k : Of(u, k) \subseteq Kept
    BY DEF Of
  <2> QED BY <1>3, <1>13, <2>1 DEF LineageStands
<1>16. SelectionStands'
  <2> SUFFICES ASSUME NEW u \in There, NEW k \in Types
               PROVE  {w \in Of(u, k) : version'[w].status = "selected"} = {space'[u][k]} \ {None}
    BY <1>12, <1>14 DEF SelectionStands, Selected
  <2>1. CASE u = s /\ k = t
    <3>1. v # None
      BY VersionsAreNumbers
    <3> QED BY <1>3, <1>6, <1>9, <2>1, <3>1
  <2>2. CASE ~(u = s /\ k = t)
    <3>1. \A w \in Of(u, k) : w \in Versions /\ w \notin Of(s, t)
      BY <2>2 DEF Of, Kept
    <3>2. {w \in Of(u, k) : version'[w].status = "selected"} = Selected(u, k)
      BY <1>5, <3>1 DEF Selected
    <3>3. space'[u][k] = space[u][k]
      BY <1>9, <2>2 DEF There
    <3> QED BY <1>3, <3>2, <3>3 DEF SelectionStands
  <2> QED BY <2>1, <2>2
<1>17. RequestsFit'
  <2> SUFFICES ASSUME NEW p \in Requests PROVE Fits(req[p])'
    BY DEF RequestsFit
  <2>1. PICK q \in RequestRecords : q = req[p] /\ Fits(q)
    BY RequestOf
  <2>2. \A w \in Versions : /\ version'[w] = None <=> version[w] = None
                            /\ version[w] = Gone => version'[w] = Gone
    BY <1>3, <1>4, <1>5, <1>6, KeptIsRow
  <2>3. None \notin Versions
    BY VersionsAreNumbers
  <2>4. Fits(q)'
    BY <1>2, <1>3, <1>11, <1>13, <2>1, <2>2, <2>3, FitsStays
  <2> QED BY <1>2, <2>1, <2>4 DEF Fits, Legal, Asked
<1>18. \A w \in Versions : version'[w] = None <=> version[w] = None
  BY <1>3, <1>4, <1>5, <1>6, KeptIsRow
<1>19. NumbersApart' /\ TasksAccounted' /\ CoversHavePictures' /\ TasksEndTrue'
  BY <1>2, <1>11, <1>13, <1>18 DEF AssetsInv, NumbersApart, TasksAccounted, CoversHavePictures, TasksEndTrue, Asked
<1>20. PicturesAccounted'
  BY <1>2, <1>11, <1>13 DEF AssetsInv, PicturesAccounted, Sees
<1> QED BY <1>10, <1>15, <1>16, <1>17, <1>19, <1>20 DEF AssetsInv

(* A lineage, version by version, after a step.                            *)
LEMMA LineageAfter ==
  ASSUME There' = There,
         \A v \in Kept' : \A z : z = version'[v] =>
           /\ z.space \in There
           /\ \A w \in Of(z.space, z.type)' : version'[w].sequence = z.sequence => w = v
           /\ z.parent # None => /\ z.parent \in Of(z.space, z.type)'
                                 /\ version'[z.parent].sequence < z.sequence
  PROVE  LineageStands'
BY DEF LineageStands

(* A version is saved.                                                     *)
LEMMA InsertRows ==
  ASSUME AssetsInv, NEW q \in RequestRecords, Fits(q), Asked(q), q.pc = "insert", q.space \in There,
         q.parent = None \/ q.parent \in Kept, UNCHANGED space,
         version' = [version EXCEPT ![q.version] =
               [space |-> q.space, type |-> q.type, sequence |-> NextSequence(q.space, q.type),
                status |-> "candidate", parent |-> q.parent]]
  PROVE  /\ version' \in [Versions -> {None, Gone} \cup VersionRows]
         /\ q.version \in Versions \ Kept /\ Kept' = Kept \cup {q.version}
         /\ version'[q.version].type = q.type
         /\ \A v \in Versions \ {q.version} : version'[v] = version[v]
         /\ SelectionStands' /\ LineageStands'
<1> DEFINE x == q.version
           n == NextSequence(q.space, q.type)
           row == [space |-> q.space, type |-> q.type, sequence |-> n,
                   status |-> "candidate", parent |-> q.parent]
<1>1. AssetsTyped /\ SelectionStands /\ LineageStands
  BY DEF AssetsInv
<1>2. x \in Versions /\ version[x] = None /\ x \notin Kept
  BY DEF Fits, Asked, Legal, Unsaved, Kept
<1>3. n \in Nat /\ \A v \in Of(q.space, q.type) : version[v].sequence < n
  BY <1>1, NextIsGreater
<1>4. row \in VersionRows
  <2>1. q.space \in Spaces /\ q.type \in Types /\ q.parent \in Versions \cup {None}
    BY DEF RequestRecords, There
  <2> HIDE DEF n
  <2> QED BY <1>3, <2>1 DEF VersionRows
<1>5. row.space = q.space /\ row.type = q.type /\ row.sequence = n /\ row.status = "candidate" /\ row.parent = q.parent
  OBVIOUS
<1>6. version' = [version EXCEPT ![x] = row]
  OBVIOUS
<1> HIDE DEF row, n
<1>7. /\ version' \in [Versions -> {None, Gone} \cup VersionRows]
      /\ version'[x] = row /\ \A v \in Versions \ {x} : version'[v] = version[v]
  BY <1>1, <1>2, <1>4, <1>6 DEF AssetsTyped
<1>8. Kept' = Kept \cup {x}
  BY <1>1, <1>2, <1>4, <1>7, KeptIsRow DEF Kept
<1>9. There' = There
  BY DEF There
<1>10. \A v \in Kept : v \in Versions /\ v # x /\ version'[v] = version[v]
  BY <1>2, <1>7 DEF Kept
<1>11. \A s, t : Of(s, t)' = IF s = q.space /\ t = q.type THEN Of(s, t) \cup {x} ELSE Of(s, t)
  BY <1>5, <1>7, <1>8, <1>10 DEF Of
<1>12. \A s, t : Of(s, t) \subseteq Kept
  BY DEF Of
<1>13. SelectionStands'
  <2> SUFFICES ASSUME NEW s \in There, NEW t \in Types
               PROVE  {v \in Of(s, t)' : version'[v].status = "selected"} = {space[s][t]} \ {None}
    BY <1>9 DEF SelectionStands, Selected
  <2>1. {v \in Of(s, t)' : version'[v].status = "selected"} = Selected(s, t)
    BY <1>5, <1>7, <1>10, <1>11, <1>12 DEF Selected
  <2> QED BY <1>1, <2>1 DEF SelectionStands
<1>14. LineageStands'
  <2> SUFFICES ASSUME NEW v \in Kept', NEW z, z = version'[v]
               PROVE  /\ z.space \in There
                      /\ \A w \in Of(z.space, z.type)' : version'[w].sequence = z.sequence => w = v
                      /\ z.parent # None => /\ z.parent \in Of(z.space, z.type)'
                                            /\ version'[z.parent].sequence < z.sequence
    BY <1>9, LineageAfter
  <2>1. CASE v = x
    <3>1. z.space = q.space /\ z.type = q.type /\ z.sequence = n /\ z.parent = q.parent
      BY <1>5, <1>7, <2>1
    <3>2. \A w \in Of(q.space, q.type) : version'[w].sequence = version[w].sequence /\ version[w].sequence \in Nat
      BY <1>1, <1>10, <1>12, KeptIsRow DEF VersionRows, Kept
    <3>3. \A w \in Of(q.space, q.type) : version'[w].sequence < n /\ version'[w].sequence # n
      BY <1>3, <3>2
    <3>4. q.parent # None => q.parent \in Of(q.space, q.type)
      BY DEF Fits
    <3>5. Of(z.space, z.type)' = Of(q.space, q.type) \cup {x}
      BY <1>11, <3>1
    <3> QED BY <2>1, <3>1, <3>3, <3>4, <3>5
  <2>2. CASE v # x
    <3>1. v \in Kept /\ z = version[v]
      BY <1>8, <1>10, <2>2
    <3>2. /\ z.space \in There
          /\ \A w \in Of(z.space, z.type) : version[w].sequence = z.sequence => w = v
          /\ z.parent # None => z.parent \in Of(z.space, z.type) /\ version[z.parent].sequence < z.sequence
      BY <1>1, <3>1 DEF LineageStands
    <3>3. v \in Of(z.space, z.type) /\ z.sequence \in Nat
      BY <1>1, <3>1, KeptIsRow DEF Of, Kept, VersionRows
    <3>4. z.space = q.space /\ z.type = q.type => n # z.sequence
      BY <1>3, <3>1, <3>3
    <3>5. ASSUME NEW w \in Of(z.space, z.type)', version'[w].sequence = z.sequence
          PROVE  w = v
      <4>1. CASE w = x
        <5>1. z.space = q.space /\ z.type = q.type
          BY <1>10, <1>11, <1>12, <3>5, <4>1
        <5> QED BY <1>5, <1>7, <3>4, <3>5, <4>1, <5>1
      <4>2. CASE w # x
        <5>1. w \in Of(z.space, z.type)
          BY <1>11, <3>5, <4>2
        <5> QED BY <1>10, <1>12, <3>2, <3>5, <5>1
      <4> QED BY <4>1, <4>2
    <3>6. z.parent # None => z.parent \in Of(z.space, z.type)' /\ version'[z.parent].sequence < z.sequence
      <4>1. Of(z.space, z.type) \subseteq Of(z.space, z.type)'
        BY <1>11
      <4> QED BY <1>10, <1>12, <3>2, <4>1
    <3> QED BY <3>2, <3>5, <3>6
  <2> QED BY <2>1, <2>2
<1> QED BY <1>2, <1>5, <1>7, <1>8, <1>13, <1>14

LEMMA InsertKeepsInv ==
  ASSUME AssetsInv, NEW r \in Requests, Insert(r)
  PROVE  AssetsInv'
<1>1. UNCHANGED <<space, png, task, given, mishaps, unread, leaked, cut>> /\ req[r].pc = "insert"
  BY DEF Insert, bounds, history
<1>2. PICK k \in RequestRecords : k = req[r] /\ Fits(k) /\ Asked(k) /\ k.pc = "insert"
  BY <1>1, RequestOf, AtPoint
<1>3. CASE version' = version /\ Undone(r)
  <2>1. req[r].version \notin Kept
    BY <1>2 DEF Fits, Unsaved, Kept
  <2> QED BY <1>1, <1>3, <2>1, MishapCounted, SetsOfVersions, UndoneKeepsInv DEF assetRows
<1>4. CASE /\ k.space \in There /\ (k.parent = None \/ k.parent \in Kept)
           /\ version' = [version EXCEPT ![k.version] =
               [space |-> k.space, type |-> k.type, sequence |-> NextSequence(k.space, k.type),
                status |-> "candidate", parent |-> k.parent]]
           /\ Go(r, "readback")
  <2> DEFINE x == k.version
  <2>1. /\ version' \in [Versions -> {None, Gone} \cup VersionRows]
        /\ x \in Versions \ Kept /\ Kept' = Kept \cup {x}
        /\ version'[x].type = k.type
        /\ \A v \in Versions \ {x} : version'[v] = version[v]
        /\ SelectionStands' /\ LineageStands'
    BY <1>1, <1>2, <1>4, InsertRows
  <2>2. PICK q \in RequestRecords :
           /\ q = [k EXCEPT !.pc = "readback"] /\ q.pc = "readback" /\ q.op = k.op /\ q.space = k.space
           /\ q.type = k.type /\ q.parent = k.parent /\ q.version = k.version
    BY AdvancedRequest DEF Points
  <2>3. /\ req' = [req EXCEPT ![r] = q] /\ req'[r] = q
        /\ \A p \in Requests \ {r} : req'[p] = req[p]
        /\ req' \in [Requests -> RequestRecords]
    BY <1>2, <1>4, <2>2 DEF Go, AssetsInv, AssetsTyped
  <2>4. AssetsTyped /\ AssetsTyped'
    BY <1>1, <2>1, <2>3 DEF AssetsInv, AssetsTyped
  <2>5. Asked(q) /\ Legal(q) /\ version[x] = None
    BY <1>2, <2>2 DEF Fits, Asked, Legal, Unsaved
  <2>6. version'[x] # None /\ \A v \in Versions : version'[v] = None => version[v] = None
    BY <2>1, <2>5 DEF Kept
  <2>7. \A p \in Requests \ {r} : Asked(req[p]) => req[p].version # x
    BY <1>2 DEF AssetsInv, NumbersApart
  <2>8. RequestsFit'
    <3> SUFFICES ASSUME NEW p \in Requests PROVE Fits(req[p])'
      BY DEF RequestsFit
    <3>1. CASE p = r
      <4>1. /\ q.version <= given
            /\ q.op # "cover" => q.version \notin png
            /\ task[q.version] = IF q.op = "manual" THEN None ELSE "running"
            /\ q.parent # None => version[q.parent] # None /\ q.parent \in Versions
        BY <1>2, <2>2 DEF Fits, RequestRecords
      <4>2. q.parent # None => version'[q.parent] # None
        BY <4>1, <2>6
      <4>3. Fits(q)'
        BY <1>1, <2>2, <2>5, <4>1, <4>2 DEF Fits, Legal, Asked, Unsaved
      <4> QED BY <2>3, <3>1, <4>3 DEF Fits, Legal, Asked
    <3>2. CASE p # r
      <4>1. PICK o \in RequestRecords : o = req[p] /\ Fits(o)
        BY RequestOf
      <4>2. Fits(o)'
        <5>1. Asked(o) => o.version # x
          BY <2>7, <3>2, <4>1
        <5>2. \A v \in Versions \ {x} : v \in Kept' => v \in Kept
          BY <2>1
        <5> QED BY <1>1, <2>1, <2>4, <2>5, <4>1, <5>1, <5>2, FitsStays
      <4> QED BY <2>3, <3>2, <4>1, <4>2 DEF Fits, Legal, Asked
    <3> QED BY <3>1, <3>2
  <2>9. NumbersApart'
    <3>1. ASSUME NEW p \in Requests, NEW u \in Requests, Asked(req[p])', Asked(req[u])',
               req'[p].version = req'[u].version
          PROVE p = u
      <4>1. Asked(req[p]) /\ req'[p].version = req[p].version
        BY <1>2, <2>2, <2>3, <3>1 DEF Asked
      <4>2. Asked(req[u]) /\ req'[u].version = req[u].version
        BY <1>2, <2>2, <2>3, <3>1 DEF Asked
      <4> QED BY <3>1, <4>1, <4>2 DEF AssetsInv, NumbersApart
    <3>2. ~(x > given)
      <4>1. x <= given
        BY <1>2 DEF Fits
      <4>2. x \in Nat
        BY <2>1, VersionsAreNumbers
      <4>3. given \in Nat
        BY DEF AssetsInv, AssetsTyped
      <4> HIDE DEF x
      <4> QED BY <4>1, <4>2, <4>3
    <3> QED BY <1>1, <2>1, <3>1, <3>2 DEF AssetsInv, NumbersApart
  <2>10. PicturesAccounted'
    <3>1. ASSUME NEW v \in png PROVE v \in Kept' \cup leaked \/ \E p \in Requests : Sees(req[p], v)'
      <4>1. CASE v \in Kept \cup leaked \/ v = x
        BY <4>1, <2>1
      <4>2. CASE v # x /\ \E p \in Requests : Sees(req[p], v)
        <5> PICK p \in Requests : Sees(req[p], v)
          BY <4>2
        <5>1. p # r
          BY <1>2, <4>2 DEF Sees
        <5> QED BY <5>1, <2>3 DEF Sees
      <4> QED BY <4>1, <4>2 DEF AssetsInv, PicturesAccounted
    <3>2. ASSUME NEW v \in Kept', version'[v].type = "description" PROVE v \notin png
      <4>1. CASE v = x
        <5>1. k.op # "cover"
          BY <1>2, <2>1, <3>2, <4>1 DEF Fits, Legal
        <5> QED BY <1>2, <4>1, <5>1 DEF Fits
      <4>2. CASE v # x
        <5>1. v \in Kept /\ version'[v] = version[v]
          BY <4>2, <2>1 DEF Kept
        <5> QED BY <3>2, <5>1 DEF AssetsInv, PicturesAccounted
      <4> QED BY <4>1, <4>2
    <3> QED BY <1>1, <3>1, <3>2 DEF PicturesAccounted
  <2>11. TasksAccounted'
    <3>1. \A p \in Requests : Asked(req[p]) => Asked(req[p])' /\ req'[p].version = req[p].version
      BY <1>2, <2>2, <2>3 DEF Asked
    <3> QED BY <1>1, <3>1 DEF AssetsInv, TasksAccounted
  <2>12. CoversHavePictures'
    <3> SUFFICES ASSUME NEW v \in Kept', version'[v].type = "cover" PROVE v \in png \cup unread
      BY <1>1 DEF CoversHavePictures
    <3>1. CASE v = x
      <4>1. k.op = "cover"
        BY <1>2, <2>1, <3>1 DEF Legal, Fits, Asked
      <4> QED BY <1>2, <3>1, <4>1 DEF Fits
    <3>2. CASE v # x
      <4>1. v \in Kept /\ version'[v] = version[v]
        BY <3>2, <2>1 DEF Kept
      <4> QED BY <4>1 DEF AssetsInv, CoversHavePictures
    <3> QED BY <3>1, <3>2
  <2>13. TasksEndTrue'
    <3>1. task[x] # "failed"
      BY <1>2, AssetsAssumption DEF Fits
    <3> QED BY <1>1, <2>1, <2>6, <3>1 DEF AssetsInv, TasksEndTrue
  <2> QED BY <2>1, <2>4, <2>8, <2>9, <2>10, <2>11, <2>12, <2>13 DEF AssetsInv
<1> QED BY <1>2, <1>3, <1>4 DEF Insert

(* The request for a version is over: its task ends with it.               *)
LEMMA FinishTaskKeepsInv ==
  ASSUME AssetsInv, NEW r \in Requests, FinishTask(r)
  PROVE  AssetsInv'
<1>1. UNCHANGED <<space, version, png, given, mishaps, unread, leaked, cut>> /\ req[r].pc \in {"complete", "fail"}
  BY DEF FinishTask, bounds, history, assetRows
<1>2. PICK k \in RequestRecords : /\ k = req[r] /\ Fits(k) /\ Asked(k)
                                  /\ k.pc \in {"complete", "fail"} /\ k.version \in Versions
  BY <1>1, RequestOf, AtPoint DEF Asked
<1> DEFINE x == k.version
<1>3. /\ task' \in [Versions -> {None, "running", "completed", "failed"}]
      /\ \A v \in Versions \ {x} : task'[v] = task[v]
      /\ task'[x] = IF k.pc = "complete" THEN "completed" ELSE "failed"
  BY <1>2 DEF FinishTask, AssetsInv, AssetsTyped
<1>4. PICK q \in RequestRecords : q = Idle
  BY IdleIsLegal, AssetsAssumption
<1>5. /\ Legal(q) /\ ~Asked(q) /\ q.op = "none" /\ (\A v : ~Sees(q, v))
      /\ req'[r] = q /\ req' \in [Requests -> RequestRecords]
      /\ \A p \in Requests \ {r} : req'[p] = req[p]
  BY <1>4, IdleIsLegal, AssetsAssumption DEF FinishTask, Done, AssetsInv, AssetsTyped
<1>6. Kept' = Kept /\ \A s, t : Of(s, t)' = Of(s, t)
  BY <1>1 DEF Kept, Of
<1>7. AssetsTyped'
  BY <1>1, <1>3, <1>5 DEF AssetsInv, AssetsTyped
<1>8. \A p \in Requests \ {r} : Asked(req[p]) => req[p].version # x
  BY <1>2 DEF AssetsInv, NumbersApart
<1>9. RequestsFit'
  <2> SUFFICES ASSUME NEW p \in Requests PROVE Fits(req[p])'
    BY DEF RequestsFit
  <2>1. CASE p = r
    BY <1>5, <2>1 DEF Fits, Legal, Asked
  <2>2. CASE p # r
    <3>1. PICK o \in RequestRecords : o = req[p] /\ Fits(o)
      BY RequestOf
    <3>2. Asked(o) => task'[o.version] = task[o.version]
      <4> SUFFICES ASSUME Asked(o) PROVE task'[o.version] = task[o.version]
        OBVIOUS
      <4>1. o.version \in Versions /\ o.version # x
        BY <1>8, <2>2, <3>1, AtPoint
      <4> QED BY <1>3, <4>1
    <3>3. Fits(o)'
      BY <1>1, <1>6, <3>1, <3>2 DEF Fits, Legal, Asked
    <3> QED BY <1>5, <2>2, <3>1, <3>3 DEF Fits, Legal, Asked
  <2> QED BY <2>1, <2>2
<1>10. \A p \in Requests : Asked(req[p])' => p # r /\ Asked(req[p]) /\ req'[p] = req[p]
  BY <1>5 DEF Asked
<1>11. NumbersApart'
  <2>1. ~(x > given)
    <3>1. x <= given
      BY <1>2 DEF Fits
    <3>2. x \in Nat
      BY <1>2, VersionsAreNumbers
    <3>3. given \in Nat
      BY DEF AssetsInv, AssetsTyped
    <3> HIDE DEF x
    <3> QED BY <3>1, <3>2, <3>3
  <2>2. \A v \in Versions : v > given => task'[v] = task[v]
    BY <1>3, <2>1
  <2> QED BY <1>1, <1>10, <2>2 DEF AssetsInv, NumbersApart
<1>12. PicturesAccounted'
  <2>1. \A v : ~Sees(req[r], v)
    BY <1>2 DEF Sees
  <2>2. ASSUME NEW v \in png PROVE v \in Kept \cup leaked \/ \E p \in Requests : Sees(req[p], v)'
    <3>1. CASE v \in Kept \cup leaked
      BY <3>1
    <3>2. CASE \E p \in Requests : Sees(req[p], v)
      <4> PICK p \in Requests : Sees(req[p], v)
        BY <3>2
      <4>1. p # r
        BY <2>1
      <4> QED BY <1>5, <4>1 DEF Sees
    <3> QED BY <3>1, <3>2 DEF AssetsInv, PicturesAccounted
  <2> QED BY <1>1, <1>6, <2>2 DEF AssetsInv, PicturesAccounted
<1>13. TasksAccounted'
  <2> SUFFICES ASSUME NEW v \in Versions, task'[v] = "running"
               PROVE v \in cut' \/ \E p \in Requests : Asked(req[p])' /\ req'[p].version = v
    BY DEF TasksAccounted
  <2>1. v # x /\ task[v] = "running"
    BY <1>3
  <2>2. CASE v \in cut
    BY <1>1, <2>2
  <2>3. CASE \E p \in Requests : Asked(req[p]) /\ req[p].version = v
    <3> PICK p \in Requests : Asked(req[p]) /\ req[p].version = v
      BY <2>3
    <3>1. p # r
      BY <1>2, <2>1
    <3> QED BY <1>5, <3>1 DEF Asked
  <2> QED BY <2>1, <2>2, <2>3 DEF AssetsInv, TasksAccounted
<1>14. TasksEndTrue'
  <2>1. k.pc = "complete" => version[x] # None
    BY <1>2 DEF Fits
  <2>2. k.pc = "fail" => x \notin Kept \/ x \in unread
    BY <1>2 DEF Fits
  <2> HIDE DEF x
  <2> QED BY <1>1, <1>2, <1>3, <1>6, <2>1, <2>2 DEF AssetsInv, TasksEndTrue
<1>15. SelectionStands' /\ LineageStands'
  BY <1>1, RowsUnchanged DEF RowsStand, assetRows
<1>16. CoversHavePictures'
  BY <1>1, <1>6 DEF AssetsInv, CoversHavePictures
<1> QED BY <1>7, <1>9, <1>11, <1>12, <1>13, <1>14, <1>15, <1>16 DEF AssetsInv

(* A version is asked for: its number is new to everything.                *)
LEMMA AskKeepsInv ==
  ASSUME AssetsInv, NEW r \in Requests, NEW q \in RequestRecords, req[r].pc = "idle", given < MaxVersions,
         given' = given + 1, req' = [req EXCEPT ![r] = q], Asked(q), Legal(q), q.version = given',
         q.pc \in {"validate", "answer"}, q.parent # None => version[q.parent] # None,
         task' = [task EXCEPT ![given'] = IF q.op = "manual" THEN None ELSE "running"],
         UNCHANGED <<space, version, png, mishaps, unread, leaked, cut>>
  PROVE  AssetsInv'
<1>1. PICK n : n = given'
  OBVIOUS
<1>2. /\ given \in Nat /\ given' \in Nat /\ n > given /\ n \in 0..MaxVersions /\ n \in Versions
      /\ \A v \in Versions : v > given' => v > given
      /\ \A v \in Versions : v <= given => v <= given' /\ v # n
      /\ n <= given' /\ ~(n > given')
  <2>1. given \in Nat /\ MaxVersions \in Nat
    BY AssetsAssumption DEF AssetsInv, AssetsTyped
  <2>2. Versions \subseteq Nat
    BY VersionsAreNumbers
  <2>3. n \in 1..MaxVersions
    BY <1>1, <2>1
  <2> QED BY <1>1, <2>1, <2>2, <2>3 DEF Versions
<1>3. version[n] = None /\ task[n] = None /\ n \notin png /\ n \notin Kept
  BY <1>2 DEF AssetsInv, NumbersApart, Kept
<1>4. PICK s : s = (IF q.op = "manual" THEN None ELSE "running") /\ s \in {None, "running"}
  OBVIOUS
<1>5. /\ task' \in [Versions -> {None, "running", "completed", "failed"}] /\ task'[n] = s
      /\ \A v \in Versions \ {n} : task'[v] = task[v]
  BY <1>1, <1>2, <1>4 DEF AssetsInv, AssetsTyped
<1>6. req' \in [Requests -> RequestRecords] /\ req'[r] = q /\ \A p \in Requests \ {r} : req'[p] = req[p]
  BY DEF AssetsInv, AssetsTyped
<1>7. Kept' = Kept /\ \A u, t : Of(u, t)' = Of(u, t)
  BY DEF Kept, Of
<1>8. AssetsTyped'
  BY <1>1, <1>2, <1>5, <1>6 DEF AssetsInv, AssetsTyped
<1>9. ASSUME NEW p \in Requests, p # r, Asked(req[p])
      PROVE  req[p].version \in Versions /\ req[p].version <= given /\ req[p].version # n
  BY <1>2, <1>9, RequestOf, AtPoint DEF Fits
<1>10. q.op # "delete"
  BY DEF Asked
<1>11. RequestsFit'
  <2> SUFFICES ASSUME NEW p \in Requests PROVE Fits(req[p])'
    BY DEF RequestsFit
  <2>1. CASE p = r
    <3>1. Fits(q)'
      BY <1>1, <1>2, <1>3, <1>4, <1>5, <1>7, <1>10 DEF Fits, Legal, Asked
    <3> QED BY <1>6, <2>1, <3>1 DEF Fits, Legal, Asked
  <2>2. CASE p # r
    <3>1. PICK o \in RequestRecords : o = req[p] /\ Fits(o)
      BY RequestOf
    <3>2. Asked(o) => o.version <= given' /\ task'[o.version] = task[o.version]
      BY <1>2, <1>5, <1>9, <2>2, <3>1
    <3>3. Fits(o)'
      BY <1>7, <3>1, <3>2 DEF Fits, Legal, Asked
    <3> QED BY <1>6, <2>2, <3>1, <3>3 DEF Fits, Legal, Asked
  <2> QED BY <2>1, <2>2
<1>12. NumbersApart'
  <2>1. ASSUME NEW p \in Requests, NEW u \in Requests, Asked(req[p])', Asked(req[u])',
               req'[p].version = req'[u].version
        PROVE p = u
    <3>1. p # r => Asked(req[p]) /\ req'[p].version = req[p].version /\ req[p].version # n
      BY <1>6, <1>9, <2>1 DEF Asked
    <3>2. u # r => Asked(req[u]) /\ req'[u].version = req[u].version /\ req[u].version # n
      BY <1>6, <1>9, <2>1 DEF Asked
    <3>3. req'[r].version = n
      BY <1>1, <1>6
    <3> QED BY <2>1, <3>1, <3>2, <3>3 DEF AssetsInv, NumbersApart
  <2>2. \A v \in Versions : v > given' => v > given /\ v # n
    BY <1>2
  <2> QED BY <1>5, <2>1, <2>2 DEF AssetsInv, NumbersApart
<1>13. PicturesAccounted'
  <2>1. \A v : ~Sees(req[r], v)
    BY AtPoint DEF Sees
  <2>2. ASSUME NEW v \in png PROVE v \in Kept \cup leaked \/ \E p \in Requests : Sees(req[p], v)'
    <3>1. CASE v \in Kept \cup leaked
      BY <3>1
    <3>2. CASE \E p \in Requests : Sees(req[p], v)
      <4> PICK p \in Requests : Sees(req[p], v)
        BY <3>2
      <4>1. p # r
        BY <2>1
      <4> QED BY <1>6, <4>1 DEF Sees
    <3> QED BY <3>1, <3>2 DEF AssetsInv, PicturesAccounted
  <2> QED BY <1>7, <2>2 DEF AssetsInv, PicturesAccounted
<1>14. TasksAccounted'
  <2> SUFFICES ASSUME NEW v \in Versions, task'[v] = "running"
               PROVE v \in cut' \/ \E p \in Requests : Asked(req[p])' /\ req'[p].version = v
    BY DEF TasksAccounted
  <2>1. CASE v = n
    BY <1>1, <1>6, <2>1 DEF Asked
  <2>2. CASE v # n /\ v \in cut
    BY <2>2
  <2>3. CASE v # n /\ \E p \in Requests : Asked(req[p]) /\ req[p].version = v
    <3> PICK p \in Requests : Asked(req[p]) /\ req[p].version = v
      BY <2>3
    <3>1. p # r
      BY AtPoint DEF Asked
    <3> QED BY <1>6, <3>1 DEF Asked
  <2> QED BY <1>5, <2>1, <2>2, <2>3 DEF AssetsInv, TasksAccounted
<1>15. TasksEndTrue'
  BY <1>4, <1>5, <1>7, AssetsAssumption DEF AssetsInv, TasksEndTrue
<1>16. SelectionStands' /\ LineageStands'
  BY RowsUnchanged DEF RowsStand, assetRows
<1>17. CoversHavePictures'
  BY <1>7 DEF AssetsInv, CoversHavePictures
<1> QED BY <1>8, <1>11, <1>12, <1>13, <1>14, <1>15, <1>16, <1>17 DEF AssetsInv

LEMMA AskedKeepsInv ==
  ASSUME AssetsInv, NEW r \in Requests, NEW op, NEW type, NEW s \in There, NEW parent, NEW pc,
         Ask(r, op, type, s, parent, pc),
         \/ op \in {"manual", "model"} /\ type = "description"
         \/ op = "cover" /\ type = "cover",
         pc = IF op = "model" THEN "answer" ELSE "validate",
         parent \in Kept \cup {None}
  PROVE  AssetsInv'
<1>1. PICK n : n = given'
  OBVIOUS
<1>2. given' = given + 1 /\ given < MaxVersions /\ req[r].pc = "idle"
  BY DEF Ask
<1>3. n \in Versions
  <2>1. given \in Nat /\ MaxVersions \in Nat
    BY AssetsAssumption DEF AssetsInv, AssetsTyped
  <2> QED BY <1>1, <1>2, <2>1 DEF Versions
<1>4. PICK q : q = [op |-> op, pc |-> pc, space |-> s, type |-> type, parent |-> parent, version |-> n]
  OBVIOUS
<1>5. q.op = op /\ q.pc = pc /\ q.space = s /\ q.type = type /\ q.parent = parent /\ q.version = n
  BY <1>4
<1>6. q \in RequestRecords /\ s \in Spaces
  BY <1>3, <1>4 DEF RequestRecords, Points, Types, There, Kept
<1>7. Asked(q) /\ Legal(q) /\ q.pc \in {"validate", "answer"}
  BY <1>3, <1>5, <1>6 DEF Asked, Legal
<1>8. q.parent # None => version[q.parent] # None
  BY <1>5 DEF Kept
<1>9. /\ req' = [req EXCEPT ![r] = q]
      /\ task' = [task EXCEPT ![given'] = IF q.op = "manual" THEN None ELSE "running"]
      /\ UNCHANGED <<space, version, png, mishaps, unread, leaked, cut>>
  BY <1>1, <1>4, <1>5 DEF Ask, assetRows, history
<1> QED BY <1>1, <1>2, <1>5, <1>6, <1>7, <1>8, <1>9, AskKeepsInv

LEMMA AsksKeepInv ==
  ASSUME AssetsInv, NEW r \in Requests, AskDescription(r) \/ AskCover(r) \/ AskModel(r)
  PROVE  AssetsInv'
<1>1. CASE AskDescription(r)
  BY <1>1, AskedKeepsInv DEF AskDescription
<1>2. CASE AskCover(r)
  BY <1>2, AskedKeepsInv DEF AskCover
<1>3. CASE AskModel(r)
  <2>1. PICK s \in There : Ask(r, "model", "description", s, space[s]["description"], "answer")
    BY <1>3 DEF AskModel
  <2>2. PICK parent : parent = space[s]["description"]
    OBVIOUS
  <2>3. parent \in Kept \cup {None}
    <3>1. Selected(s, "description") = {parent} \ {None}
      BY <2>2 DEF AssetsInv, SelectionStands, Types
    <3> QED BY <3>1 DEF Selected, Of
  <2>4. Ask(r, "model", "description", s, parent, "answer")
    BY <2>1, <2>2 DEF Ask
  <2> QED BY <2>3, <2>4, AskedKeepsInv
<1> QED BY <1>1, <1>2, <1>3

(* A version that is not selected is deleted, and its children lose their  *)
(* parent.                                                                 *)
LEMMA DeletedRows ==
  ASSUME AssetsInv, NEW x \in Kept, x \notin Current(version[x].space), UNCHANGED space,
         version' = [w \in Versions |->
                        IF w = x THEN Gone
                        ELSE IF w \in Kept /\ version[w].parent = x
                             THEN [version[w] EXCEPT !.parent = None] ELSE version[w]]
  PROVE  /\ version' \in [Versions -> {None, Gone} \cup VersionRows]
         /\ x \in Versions /\ version'[x] = Gone /\ Kept' = Kept \ {x}
         /\ \A w \in Kept \ {x} : /\ version'[w].space = version[w].space
                                  /\ version'[w].type = version[w].type
         /\ \A w \in Versions \ {x} : w \notin Kept => version'[w] = version[w]
         /\ SelectionStands' /\ LineageStands'
<1>1. AssetsTyped /\ SelectionStands /\ LineageStands
  BY DEF AssetsInv
<1>2. x \in Versions /\ version'[x] = Gone /\ Kept \subseteq Versions
  BY DEF Kept
<1>3. ASSUME NEW w \in Kept \ {x}
      PROVE  /\ version'[w] \in VersionRows
             /\ version'[w].space = version[w].space /\ version'[w].type = version[w].type
             /\ version'[w].sequence = version[w].sequence /\ version'[w].status = version[w].status
             /\ version'[w].parent = IF version[w].parent = x THEN None ELSE version[w].parent
  <2>1. version[w] \in VersionRows /\ w \in Versions
    BY <1>1, <1>2, KeptIsRow
  <2>2. CASE version[w].parent # x
    BY <2>1, <2>2
  <2>3. CASE version[w].parent = x
    <3>1. version'[w] = [version[w] EXCEPT !.parent = None]
      BY <2>1, <2>3
    <3>2. version'[w] \in VersionRows
      BY <2>1, <3>1 DEF VersionRows
    <3>3. /\ version'[w].space = version[w].space /\ version'[w].type = version[w].type
          /\ version'[w].sequence = version[w].sequence /\ version'[w].status = version[w].status
          /\ version'[w].parent = None
      BY <2>1, <3>1 DEF VersionRows
    <3> QED BY <2>3, <3>2, <3>3
  <2> QED BY <2>2, <2>3
<1>4. \A w \in Versions \ {x} : w \notin Kept => version'[w] = version[w]
  OBVIOUS
<1>5. version' \in [Versions -> {None, Gone} \cup VersionRows]
  <2>1. \A w \in Versions : version'[w] \in {None, Gone} \cup VersionRows
    BY <1>1, <1>2, <1>3, <1>4 DEF AssetsTyped
  <2>2. version' = [w \in Versions |-> version'[w]]
    OBVIOUS
  <2> QED BY <2>1, <2>2
<1>6. Kept' = Kept \ {x}
  BY <1>1, <1>2, <1>3, <1>4, KeptIsRow DEF Kept
<1>7. There' = There
  BY DEF There
<1>8. \A s, t : Of(s, t)' = Of(s, t) \ {x}
  BY <1>3, <1>6 DEF Of
<1>9. \A s, t : Of(s, t) \subseteq Kept
  BY DEF Of
<1>10. ASSUME NEW s \in There, NEW t \in Types PROVE x \notin Selected(s, t)
  <2> SUFFICES ASSUME x \in Selected(s, t) PROVE FALSE
    OBVIOUS
  <2>1. version[x].space = s /\ space[s][t] = x
    BY <1>1 DEF Selected, Of, SelectionStands
  <2> QED BY <2>1 DEF Current
<1>11. SelectionStands'
  <2> SUFFICES ASSUME NEW s \in There, NEW t \in Types
               PROVE  {v \in Of(s, t) \ {x} : version'[v].status = "selected"} = {space[s][t]} \ {None}
    BY <1>7, <1>8 DEF SelectionStands, Selected
  <2>1. \A v \in Of(s, t) \ {x} : version'[v].status = version[v].status
    BY <1>3, <1>9
  <2>2. {v \in Of(s, t) \ {x} : version'[v].status = "selected"} = Selected(s, t)
    BY <1>10, <2>1 DEF Selected
  <2> QED BY <1>1, <2>2 DEF SelectionStands
<1>12. LineageStands'
  <2> SUFFICES ASSUME NEW v \in Kept', NEW z, z = version'[v]
               PROVE  /\ z.space \in There
                      /\ \A w \in Of(z.space, z.type)' : version'[w].sequence = z.sequence => w = v
                      /\ z.parent # None => /\ z.parent \in Of(z.space, z.type)'
                                            /\ version'[z.parent].sequence < z.sequence
    BY <1>7, LineageAfter
  <2> v \in Kept \ {x}
    BY <1>6
  <2>1. PICK row : row = version[v]
    OBVIOUS
  <2>2. /\ row.space \in There
        /\ \A w \in Of(row.space, row.type) : version[w].sequence = row.sequence => w = v
        /\ row.parent # None => row.parent \in Of(row.space, row.type) /\ version[row.parent].sequence < row.sequence
    BY <1>1, <2>1 DEF LineageStands
  <2>3. /\ z.space = row.space /\ z.type = row.type /\ z.sequence = row.sequence
        /\ z.parent = IF row.parent = x THEN None ELSE row.parent
    BY <1>3, <2>1
  <2>4. \A w \in Of(row.space, row.type) \ {x} : version'[w].sequence = version[w].sequence
    BY <1>3, <1>9
  <2> QED BY <1>8, <2>2, <2>3, <2>4
<1> QED BY <1>2, <1>3, <1>4, <1>5, <1>6, <1>11, <1>12

LEMMA DeleteVersionKeepsInv ==
  ASSUME AssetsInv, NEW r \in Requests, DeleteVersion(r)
  PROVE  AssetsInv'
<1>1. UNCHANGED <<space, png, task, given, mishaps, unread, leaked, cut>> /\ req[r].pc = "idle"
  BY DEF DeleteVersion, bounds, history
<1>2. PICK x \in Kept :
        /\ x \notin Current(version[x].space)
        /\ version' = [w \in Versions |->
                        IF w = x THEN Gone
                        ELSE IF w \in Kept /\ version[w].parent = x
                             THEN [version[w] EXCEPT !.parent = None] ELSE version[w]]
        /\ req' = IF version[x].type = "description" THEN req
                  ELSE [req EXCEPT ![r] = [Idle EXCEPT !.op = "delete", !.pc = "unlink", !.version = x]]
  BY DEF DeleteVersion
<1>3. /\ version' \in [Versions -> {None, Gone} \cup VersionRows]
      /\ x \in Versions /\ version'[x] = Gone /\ Kept' = Kept \ {x}
      /\ \A w \in Kept \ {x} : /\ version'[w].space = version[w].space
                               /\ version'[w].type = version[w].type
      /\ \A w \in Versions \ {x} : w \notin Kept => version'[w] = version[w]
      /\ SelectionStands' /\ LineageStands'
  BY <1>1, <1>2, DeletedRows
<1>4. AssetsTyped /\ None # Gone /\ version[x] # None /\ version[x] # Gone
  BY AssetsAssumption DEF AssetsInv, Kept
<1>5. req' \in [Requests -> RequestRecords] /\ \A p \in Requests \ {r} : req'[p] = req[p]
  <2> DEFINE q == [Idle EXCEPT !.op = "delete", !.pc = "unlink", !.version = x]
  <2>1. q \in RequestRecords
    BY <1>3 DEF RequestRecords, Points, Types, Idle
  <2> HIDE DEF q
  <2>2. req' = req \/ req' = [req EXCEPT ![r] = q]
    BY <1>2 DEF q
  <2> QED BY <1>4, <2>1, <2>2 DEF AssetsTyped
<1>6. \/ req'[r].op = "delete" /\ req'[r].pc = "unlink" /\ req'[r].version = x
      \/ req'[r] = req[r] /\ version[x].type = "description"
  BY <1>2, <1>4 DEF Idle, AssetsTyped
<1>7. req[r].op = "none" /\ ~Asked(req[r]) /\ \A v : ~Sees(req[r], v)
  BY <1>1, AtPoint DEF Asked, Sees
<1>8. ~Asked(req[r])'
  BY <1>6, <1>7 DEF Asked
<1>9. AssetsTyped'
  BY <1>1, <1>3, <1>4, <1>5 DEF AssetsTyped
<1>10. \A v \in Versions : version'[v] = None <=> version[v] = None
  BY <1>3, <1>4, KeptIsRow, <1>9 DEF Kept
<1>11. RequestsFit'
  <2> SUFFICES ASSUME NEW p \in Requests PROVE Fits(req[p])'
    BY DEF RequestsFit
  <2>1. PICK o \in RequestRecords : o = req'[p]
    BY <1>5
  <2>2. CASE p = r /\ o # req[r]
    BY <1>3, <1>6, <2>1, <2>2 DEF Fits, Legal, Asked
  <2>3. CASE ~(p = r /\ o # req[r])
    <3>1. Fits(o)
      BY <1>5, <2>1, <2>3, RequestOf
    <3>2. \A w \in Versions : version[w] = Gone => version'[w] = Gone
      BY <1>3 DEF Kept
    <3>3. Fits(o)'
      BY <1>1, <1>3, <1>4, <1>10, <3>1, <3>2, FitsStays, VersionsAreNumbers
    <3> QED BY <2>1, <3>3 DEF Fits, Legal, Asked
  <2> QED BY <2>2, <2>3
<1>12. \A p \in Requests : Asked(req[p])' => Asked(req[p]) /\ req'[p] = req[p]
  BY <1>5, <1>8 DEF Asked
<1>13. NumbersApart'
  BY <1>1, <1>10, <1>12 DEF AssetsInv, NumbersApart
<1>14. PicturesAccounted'
  <2>1. ASSUME NEW v \in png PROVE v \in Kept' \cup leaked \/ \E p \in Requests : Sees(req[p], v)'
    <3>1. CASE v = x
      <4>1. version[x].type # "description"
        BY <2>1, <3>1 DEF AssetsInv, PicturesAccounted
      <4> QED BY <1>6, <3>1, <4>1 DEF Sees
    <3>2. CASE v # x /\ v \in Kept \cup leaked
      BY <1>3, <3>2
    <3>3. CASE \E p \in Requests : Sees(req[p], v)
      <4> PICK p \in Requests : Sees(req[p], v)
        BY <3>3
      <4>1. p # r
        BY <1>7
      <4> QED BY <1>5, <4>1 DEF Sees
    <3> QED BY <3>1, <3>2, <3>3 DEF AssetsInv, PicturesAccounted
  <2>2. \A v \in Kept' : version'[v].type = "description" => v \notin png
    BY <1>3 DEF AssetsInv, PicturesAccounted
  <2> QED BY <1>1, <2>1, <2>2 DEF PicturesAccounted
<1>15. TasksAccounted'
  <2> SUFFICES ASSUME NEW v \in Versions, task[v] = "running"
               PROVE v \in cut \/ \E p \in Requests : Asked(req[p])' /\ req'[p].version = v
    BY <1>1 DEF TasksAccounted
  <2>1. CASE v \in cut
    BY <2>1
  <2>2. CASE \E p \in Requests : Asked(req[p]) /\ req[p].version = v
    <3> PICK p \in Requests : Asked(req[p]) /\ req[p].version = v
      BY <2>2
    <3>1. p # r
      BY <1>7
    <3> QED BY <1>5, <3>1 DEF Asked
  <2> QED BY <2>1, <2>2 DEF AssetsInv, TasksAccounted
<1>16. CoversHavePictures' /\ TasksEndTrue'
  BY <1>1, <1>3, <1>10 DEF AssetsInv, CoversHavePictures, TasksEndTrue
<1> QED BY <1>3, <1>9, <1>11, <1>13, <1>14, <1>15, <1>16 DEF AssetsInv

(* The process ends: every request is lost, and its version remembered.    *)
LEMMA CrashKeepsInv ==
  ASSUME AssetsInv, Crash
  PROVE  AssetsInv'
<1>1. UNCHANGED <<space, version, task, given, unread>> /\ Mishap
  BY DEF Crash, assetRows
<1> DEFINE hit == {req[r].version : r \in Requests} \ {None}
<1>2. PICK W \in SUBSET {req[r].version : r \in {q \in Requests : req[q].pc = "write"}} :
        png' = png \cup W
  BY DEF Crash
<1>3. cut' = cut \cup hit /\ leaked' = leaked \cup hit
  BY DEF Crash
<1>4. AssetsTyped
  BY DEF AssetsInv
<1>5. hit \subseteq Versions /\ \A r \in Requests : req[r].version \in Versions => req[r].version \in hit
  <2>1. \A r \in Requests : req[r].version \in Versions \cup {None}
    BY <1>4 DEF AssetsTyped, RequestRecords
  <2> QED BY <2>1, VersionsAreNumbers
<1>6. ASSUME NEW v \in W
      PROVE  v \in Versions /\ v \in hit /\ v \notin Kept /\ v <= given
  <2>1. PICK r \in Requests : req[r].pc = "write" /\ req[r].version = v
    BY <1>2
  <2>2. Asked(req[r]) /\ req[r].version \in Versions
    BY <2>1, AtPoint DEF Asked
  <2>3. version[v] = None /\ v <= given
    BY <2>1, <2>2, RequestOf DEF Fits, Unsaved
  <2> QED BY <1>5, <2>1, <2>2, <2>3 DEF Kept
<1>7. PICK q \in RequestRecords : q = Idle
  BY IdleIsLegal, AssetsAssumption
<1>8. /\ Legal(q) /\ ~Asked(q) /\ q.op = "none" /\ (\A v : ~Sees(q, v))
      /\ req' = [r \in Requests |-> q]
  BY <1>7, IdleIsLegal, AssetsAssumption DEF Crash
<1>9. AssetsTyped'
  <2>1. mishaps' \in 0..MaxMishaps
    BY <1>1, MishapCounted
  <2>2. png' \subseteq Versions /\ leaked' \subseteq Versions /\ cut' \subseteq Versions
    BY <1>2, <1>3, <1>5, <1>6, SetsOfVersions
  <2> QED BY <1>1, <1>4, <1>8, <2>1, <2>2 DEF AssetsTyped
<1>10. Kept' = Kept
  BY <1>1 DEF Kept
<1>11. RequestsFit'
  BY <1>8 DEF RequestsFit, Fits, Legal, Asked
<1>12. NumbersApart'
  <2>1. \A p \in Requests : ~Asked(req[p])'
    BY <1>8 DEF Asked
  <2>2. ASSUME NEW v \in Versions, v > given PROVE version[v] = None /\ task[v] = None /\ v \notin png'
    <3>1. version[v] = None /\ task[v] = None /\ v \notin png
      BY <2>2 DEF AssetsInv, NumbersApart
    <3>2. ~(v <= given)
      <4>1. v \in Nat /\ given \in Nat
        BY <1>4, VersionsAreNumbers DEF AssetsTyped
      <4> QED BY <2>2, <4>1
    <3> QED BY <1>2, <1>6, <3>1, <3>2
  <2> QED BY <1>1, <2>1, <2>2 DEF NumbersApart
<1>13. PicturesAccounted'
  <2>1. ASSUME NEW v \in png' PROVE v \in Kept \cup leaked'
    <3>1. CASE v \in W
      BY <1>3, <1>6, <3>1
    <3>2. CASE v \in png
      <4>1. CASE \E r \in Requests : Sees(req[r], v)
        BY <1>3, <1>5, <3>2, <4>1, SetsOfVersions DEF Sees
      <4>2. CASE v \in Kept \cup leaked
        BY <1>3, <4>2
      <4> QED BY <3>2, <4>1, <4>2 DEF AssetsInv, PicturesAccounted
    <3> QED BY <1>2, <3>1, <3>2
  <2>2. \A v \in Kept : version[v].type = "description" => v \notin png'
    BY <1>2, <1>6 DEF AssetsInv, PicturesAccounted
  <2> QED BY <1>1, <1>10, <2>1, <2>2 DEF PicturesAccounted
<1>14. TasksAccounted'
  <2> SUFFICES ASSUME NEW v \in Versions, task[v] = "running" PROVE v \in cut'
    BY <1>1 DEF TasksAccounted
  <2> QED BY <1>3, <1>5 DEF AssetsInv, TasksAccounted
<1>15. SelectionStands' /\ LineageStands'
  BY <1>1, RowsUnchanged DEF RowsStand, assetRows
<1>16. CoversHavePictures' /\ TasksEndTrue'
  BY <1>1, <1>2, <1>10 DEF AssetsInv, CoversHavePictures, TasksEndTrue
<1> QED BY <1>9, <1>11, <1>12, <1>13, <1>14, <1>15, <1>16 DEF AssetsInv

-----------------------------------------------------------------------------
LEMMA InitGivesAssetsInv ==
  ASSUME AssetsInit
  PROVE  AssetsInv
<1> USE AssetsAssumption DEF AssetsInit
<1>1. AssetsTyped
  BY IdleIsLegal DEF AssetsTyped
<1>2. Kept = {} /\ There = {}
  BY DEF Kept, There
<1>3. \A r \in Requests : req[r] = Idle
  OBVIOUS
<1>4. RequestsFit
  BY <1>3, IdleIsLegal DEF RequestsFit, Fits, Legal, Asked
<1>5. NumbersApart
  BY <1>3, IdleIsLegal DEF NumbersApart
<1>6. PicturesAccounted /\ SelectionStands /\ LineageStands /\ CoversHavePictures
  BY <1>2 DEF PicturesAccounted, SelectionStands, LineageStands, CoversHavePictures
<1>7. TasksAccounted /\ TasksEndTrue
  BY DEF TasksAccounted, TasksEndTrue
<1> QED BY <1>1, <1>4, <1>5, <1>6, <1>7 DEF AssetsInv

LEMMA HandlerKeepsInv ==
  ASSUME AssetsInv, NEW r \in Requests, Handler(r)
  PROVE  AssetsInv'
BY CheckEmptyKeepsInv, EraseSpaceKeepsInv, AsksKeepInv, AnswerKeepsInv, ValidateKeepsInv, WriteKeepsInv,
   InsertKeepsInv, FailedSaveKeepsInv, ReadBackKeepsInv, UndoKeepsInv, FinishTaskKeepsInv,
   DeleteVersionKeepsInv, UnlinkKeepsInv DEF Handler

LEMMA IdleAssetsKeepInv ==
  ASSUME AssetsInv, UNCHANGED assetsVars
  PROVE  AssetsInv'
<1>1. UNCHANGED <<space, version, png, task, req, given, mishaps, unread, leaked, cut>>
  BY DEF assetsVars, assetRows, bounds, history
<1>2. Kept' = Kept /\ (\A s, t : Of(s, t)' = Of(s, t))
  BY <1>1 DEF Kept, Of
<1>3. AssetsTyped' /\ RequestsFit' /\ NumbersApart'
  BY <1>1, <1>2 DEF AssetsInv, AssetsTyped, RequestsFit, Fits, Legal, Asked, NumbersApart
<1>4. PicturesAccounted' /\ TasksAccounted' /\ CoversHavePictures' /\ TasksEndTrue'
  BY <1>1, <1>2 DEF AssetsInv, PicturesAccounted, Sees, TasksAccounted, Asked, CoversHavePictures, TasksEndTrue
<1>5. SelectionStands' /\ LineageStands'
  BY <1>1, RowsUnchanged DEF RowsStand, assetRows
<1> QED BY <1>3, <1>4, <1>5 DEF AssetsInv

(* The inductive invariant of the publishing workspaces holds, however     *)
(* saves, selections, deletions, failures and ends of the process follow   *)
(* and overtake each other.                                                *)
THEOREM AssetsInvariant == AssetsSpec => []AssetsInv
<1>1. AssetsInit => AssetsInv
  BY InitGivesAssetsInv
<1>2. AssetsInv /\ [AssetsNext]_assetsVars => AssetsInv'
  BY CreateSpaceKeepsInv, SelectKeepsInv, HandlerKeepsInv, CrashKeepsInv, IdleAssetsKeepInv DEF AssetsNext
<1> QED BY <1>1, <1>2, PTL DEF AssetsSpec

(* What a workspace has selected exists, is its own, and is the only one   *)
(* marked selected (select_version, delete_version, create_version).       *)
THEOREM SelectionAlwaysStands == AssetsSpec => []SelectionStands
<1>1. AssetsInv => SelectionStands
  BY DEF AssetsInv
<1> QED BY <1>1, AssetsInvariant, PTL

(* A version's workspace exists, its number is its own among its kind, and *)
(* its parent is an earlier version of the same kind and workspace, though *)
(* the parent is checked outside the transaction that saves the version.   *)
THEOREM LineageAlwaysStands == AssetsSpec => []LineageStands
<1>1. AssetsInv => LineageStands
  BY DEF AssetsInv
<1> QED BY <1>1, AssetsInvariant, PTL

(* A listed cover has its picture, and a picture without a version has a   *)
(* failed write, a failed removal or a crash to answer for it, once        *)
(* nothing is under way.                                                   *)
THEOREM FilesAlwaysFollowRows == AssetsSpec => []FilesFollowRows
<1>1. AssetsInv => FilesFollowRows
  <2> SUFFICES ASSUME AssetsInv, NEW v \in Versions
               PROVE  /\ v \in Kept /\ version[v].type = "cover" => v \in png \cup unread
                      /\ (\A r \in Requests : req[r].pc = "idle") /\ v \in png => v \in Kept \cup leaked
    BY DEF FilesFollowRows
  <2>1. ASSUME \A r \in Requests : req[r].pc = "idle", v \in png PROVE v \in Kept \cup leaked
    <3>1. \A r \in Requests : ~Sees(req[r], v)
      BY <2>1 DEF Sees
    <3> QED BY <2>1, <3>1 DEF AssetsInv, PicturesAccounted
  <2> QED BY <2>1 DEF AssetsInv, CoversHavePictures
<1> QED BY <1>1, AssetsInvariant, PTL

(* A completed task saved its version, a failed one left none that could   *)
(* be read back, and a running one is worked for or was cut off.           *)
THEOREM TasksAlwaysTellTruth == AssetsSpec => []TasksTellTruth
<1>1. AssetsInv => TasksTellTruth
  BY DEF AssetsInv, TasksEndTrue, TasksAccounted, TasksTellTruth
<1> QED BY <1>1, AssetsInvariant, PTL

=============================================================================
