----------------------------- MODULE BatchStream -----------------------------
(***************************************************************************)
(* ParallelProcessor.process_files_stream and the workers under it.  The   *)
(* main thread takes files from an iterator, cuts each into batches and    *)
(* submits them to a thread pool while fewer than MaxPending batches are   *)
(* outstanding; then it waits for results, gathers them in a buffer per    *)
(* file NAME, and yields a file once its buffer holds as many batches as   *)
(* the file has.  A worker runs translate_batch: up to MaxRetries calls of *)
(* the provider, then a fall-back to the source text.                      *)
(*                                                                         *)
(* A file name is a base name: two files of one mod may have the same.     *)
(***************************************************************************)
EXTENDS Naturals, Sequences, FiniteSets

CONSTANTS
  Size,        \* file -> number of its batches; the files are 1..Len(Size)
  Namings,     \* the ways the mod may name its files: file -> base name
  Workers,     \* max_workers
  MaxPending,  \* MAX_PENDING_BATCHES (max_workers * 4 in the code)
  MaxRetries   \* MAX_RETRIES

ASSUME SizeAssumption ==
  Size \in Seq(Nat) /\ \A n \in Namings : DOMAIN n = DOMAIN Size
ASSUME PoolAssumption ==
  Workers \in Nat \ {0} /\ MaxPending \in Nat \ {0} /\ MaxRetries \in Nat \ {0}

Files   == DOMAIN Size
Names   == UNION {{n[f] : f \in Files} : n \in Namings}
Batches == UNION {{<<f, i>> : i \in 1..Size[f]} : f \in Files}

VARIABLES
  name,      \* file -> its base name; it never changes
  pc,        \* the main thread: submit, wait, collect, end, raised
  next,      \* the file the iterator gives next
  pending,   \* pending_batches_count
  stage,     \* batch -> idle, queued, running, done (its future), taken
  attempt,   \* batch -> provider calls that failed
  result,    \* batch -> none, ok, fallback (to the source), raised
  ready,     \* the futures the last wait returned and the loop has not read
  buffer,    \* file_buffers and file_batch_counts: count 0, no entry
  out        \* the files yielded, in order

vars == <<name, pc, next, pending, stage, attempt, result, ready, buffer, out>>

NamesDistinct == \A f, g \in Files : name[f] = name[g] => f = g

Outstanding == {b \in Batches : stage[b] \in {"queued", "running", "done"}}
Running     == {b \in Batches : stage[b] = "running"}
NoBuffer    == [count |-> 0, got |-> {}]

Init ==
  /\ name \in Namings
  /\ pc = "submit" /\ next = 1 /\ pending = 0
  /\ stage = [b \in Batches |-> "idle"]
  /\ attempt = [b \in Batches |-> 0]
  /\ result = [b \in Batches |-> "none"]
  /\ ready = {}
  /\ buffer = [n \in Names |-> NoBuffer]
  /\ out = <<>>

-----------------------------------------------------------------------------
(* The main thread.                                                        *)

(* submit_file: the entries for the name are replaced, whatever they hold. *)
SubmitFile ==
  /\ pc = "submit" /\ next \in Files /\ pending < MaxPending
  /\ Size[next] > 0
  /\ buffer' = [buffer EXCEPT ![name[next]] = [count |-> Size[next], got |-> {}]]
  /\ stage' = [b \in Batches |-> IF b[1] = next THEN "queued" ELSE stage[b]]
  /\ pending' = pending + Size[next]
  /\ next' = next + 1
  /\ UNCHANGED <<name, pc, attempt, result, ready, out>>

(* A file without texts is yielded at once.                                *)
YieldEmptyFile ==
  /\ pc = "submit" /\ next \in Files /\ pending < MaxPending
  /\ Size[next] = 0
  /\ out' = Append(out, [file |-> next, parts |-> <<>>, failed |-> FALSE])
  /\ next' = next + 1
  /\ UNCHANGED <<name, pc, pending, stage, attempt, result, ready, buffer>>

(* Enough is pending, or the iterator is exhausted.                        *)
StopSubmitting ==
  /\ pc = "submit"
  /\ next \notin Files \/ pending >= MaxPending
  /\ pc' = IF Outstanding # {} THEN "wait" ELSE IF next \in Files THEN "submit" ELSE "end"
  /\ UNCHANGED <<name, next, pending, stage, attempt, result, ready, buffer, out>>

(* futures.wait(FIRST_COMPLETED) returns every future that is done.        *)
WaitForResults ==
  /\ pc = "wait"
  /\ ready' = {b \in Batches : stage[b] = "done"}
  /\ ready' # {}
  /\ pc' = "collect"
  /\ UNCHANGED <<name, next, pending, stage, attempt, result, buffer, out>>

(* Reading one future of the set; the loop over the set ends with it or    *)
(* goes on.                                                                *)
Read(b) ==
  /\ pc = "collect" /\ b \in ready
  /\ ready' = ready \ {b}
  /\ pending' = pending - 1
  /\ stage' = [stage EXCEPT ![b] = "taken"]
  /\ UNCHANGED <<name, next, attempt, result>>

Onwards(b) == pc' = IF ready = {b} THEN "submit" ELSE "collect"

Buffer(b)  == buffer[name[b[1]]]
Gathered(b) == {c \in Buffer(b).got : c[2] # b[2]} \cup {b}
Indexes(S) == {c[2] : c \in S}

(* The buffer of that name is gone: the result is dropped.                 *)
DropResult(b) ==
  /\ Read(b) /\ Onwards(b)
  /\ Buffer(b).count = 0
  /\ UNCHANGED <<buffer, out>>

KeepResult(b) ==
  /\ Read(b) /\ Onwards(b)
  /\ Buffer(b).count # 0
  /\ Cardinality(Gathered(b)) # Buffer(b).count
  /\ buffer' = [buffer EXCEPT ![name[b[1]]].got = Gathered(b)]
  /\ UNCHANGED out

YieldByFirstBatch(b) == \* mutant: only the first batch can fail the file
  LET got   == Gathered(b)
      parts == [i \in 1..Buffer(b).count |-> CHOOSE c \in got : c[2] = i]
  IN
  /\ Read(b) /\ Onwards(b)
  /\ Buffer(b).count # 0
  /\ Cardinality(got) = Buffer(b).count
  /\ Indexes(got) = 1..Buffer(b).count
  /\ out' = Append(out, [file   |-> parts[1][1],
                         parts  |-> parts,
                         failed |-> result[parts[1]] # "ok"])
  /\ buffer' = [buffer EXCEPT ![name[b[1]]] = NoBuffer]

(* The file's task is that of the first batch; one failed batch fails it.  *)
YieldFile(b) ==
  LET got   == Gathered(b)
      parts == [i \in 1..Buffer(b).count |-> CHOOSE c \in got : c[2] = i]
  IN
  /\ Read(b) /\ Onwards(b)
  /\ Buffer(b).count # 0
  /\ Cardinality(got) = Buffer(b).count
  /\ Indexes(got) = 1..Buffer(b).count
  /\ out' = Append(out, [file   |-> parts[1][1],
                         parts  |-> parts,
                         failed |-> \E c \in got : result[c] # "ok"])
  /\ buffer' = [buffer EXCEPT ![name[b[1]]] = NoBuffer]

(* As many batches as expected, but not those: file_buffers[name][i] is a  *)
(* KeyError, and the generator ends with it.                               *)
MissBatch(b) ==
  /\ Read(b)
  /\ Buffer(b).count # 0
  /\ Cardinality(Gathered(b)) = Buffer(b).count
  /\ Indexes(Gathered(b)) # 1..Buffer(b).count
  /\ buffer' = [buffer EXCEPT ![name[b[1]]].got = Gathered(b)]
  /\ pc' = "raised"
  /\ UNCHANGED out

-----------------------------------------------------------------------------
(* The workers: the pool starts any queued batch (the code's queue is in   *)
(* order of submission; nothing here depends on it).                       *)
StartBatch(b) ==
  /\ stage[b] = "queued"
  /\ Cardinality(Running) < Workers
  /\ stage' = [stage EXCEPT ![b] = "running"]
  /\ UNCHANGED <<name, pc, next, pending, attempt, result, ready, buffer, out>>

EndBatch(b, r) ==
  /\ stage[b] = "running"
  /\ stage' = [stage EXCEPT ![b] = "done"]
  /\ result' = [result EXCEPT ![b] = r]

(* The provider returned as many texts as it was given.                    *)
TranslateBatch(b) ==
  /\ EndBatch(b, "ok")
  /\ UNCHANGED <<name, pc, next, pending, attempt, ready, buffer, out>>

(* An error or a response of the wrong length: once more.                  *)
RetryBatch(b) ==
  /\ stage[b] = "running"
  /\ attempt[b] + 1 < MaxRetries
  /\ attempt' = [attempt EXCEPT ![b] = @ + 1]
  /\ UNCHANGED <<name, pc, next, pending, stage, result, ready, buffer, out>>

FallBackLost(b) == \* mutant: the exhausted batch never completes its future
  /\ stage[b] = "running" /\ attempt[b] + 1 = MaxRetries
  /\ stage' = [stage EXCEPT ![b] = "taken"]
  /\ attempt' = [attempt EXCEPT ![b] = @ + 1]
  /\ UNCHANGED <<name, pc, next, pending, result, ready, buffer, out>>

(* The last attempt failed: the batch gets its source texts.               *)
FallBack(b) ==
  /\ attempt[b] + 1 = MaxRetries
  /\ EndBatch(b, "fallback")
  /\ attempt' = [attempt EXCEPT ![b] = @ + 1]
  /\ UNCHANGED <<name, pc, next, pending, ready, buffer, out>>

(* Outside the retry loop (prompt, glossary check) an exception ends the   *)
(* future; the main thread then takes the batch as failed.                 *)
RaiseInBatch(b) ==
  /\ EndBatch(b, "raised")
  /\ UNCHANGED <<name, pc, next, pending, attempt, ready, buffer, out>>

Collect(b) == DropResult(b) \/ KeepResult(b) \/ YieldFile(b) \/ MissBatch(b)
Work(b)    == StartBatch(b) \/ TranslateBatch(b) \/ RetryBatch(b) \/ FallBack(b)
                \/ RaiseInBatch(b)

Main == SubmitFile \/ YieldEmptyFile \/ StopSubmitting \/ WaitForResults
          \/ \E b \in Batches : Collect(b)

Next == Main \/ \E b \in Batches : Work(b)

Spec == Init /\ [][Next]_vars

(* The main thread and the pool's threads keep running; a call of the      *)
(* provider ends (the clients have timeouts).                              *)
FairSpec == Spec /\ WF_vars(Main) /\ \A b \in Batches : WF_vars(Work(b))

-----------------------------------------------------------------------------
Delivery == [file: Files, parts: Seq(Batches), failed: BOOLEAN]

(* Types of the variables.                                                 *)
TypeOK ==
  /\ name \in Namings
  /\ pc \in {"submit", "wait", "collect", "end", "raised"}
  /\ next \in 1..Len(Size) + 1
  /\ pending \in Nat
  /\ stage \in [Batches -> {"idle", "queued", "running", "done", "taken"}]
  /\ attempt \in [Batches -> 0..MaxRetries]
  /\ result \in [Batches -> {"none", "ok", "fallback", "raised"}]
  /\ ready \subseteq Batches
  /\ buffer \in [Names -> [count: Nat, got: SUBSET Batches]]
  /\ out \in Seq(Delivery)

(* The counter that throttles submission counts the futures that are out,  *)
(* dropped and failed ones included: it can neither leak nor run dry.      *)
PendingIsOutstanding == pending = Cardinality(Outstanding)

(* A file whose batches all came back is marked failed exactly if one of   *)
(* them fell back or raised, so no source text passes for a translation.   *)
FailedMeansFallback ==
  \A k \in DOMAIN out :
    out[k].failed <=>
      \E i \in DOMAIN out[k].parts : result[out[k].parts[i]] \in {"fallback", "raised"}

WholeFiles ==
  \A k \in DOMAIN out :
    out[k].parts = [i \in 1..Size[out[k].file] |-> <<out[k].file, i>>]

(* What is yielded for a file is that file, whole and in order, provided   *)
(* that no two files of the mod share a base name.                         *)
YieldsWholeFile == NamesDistinct => WholeFiles

(* When the stream ends, each file was yielded: none is lost in a buffer.  *)
NothingLeftBehind ==
  NamesDistinct /\ pc = "end" => Files = {out[k].file : k \in DOMAIN out}

(* Whatever the names and the failures, the generator comes to an end:     *)
(* the loop never waits for a future that nobody will complete.            *)
StreamEnds == <>(pc \in {"end", "raised"})

(* Given names of their own, the stream hands over every file once, whole, *)
(* and in the end all of them: it implements its contract.                 *)
Contract == INSTANCE FileDelivery WITH
              owed <- IF NamesDistinct THEN Files ELSE {},
              out  <- IF NamesDistinct THEN out ELSE <<>>
Delivers == Contract!Spec
=============================================================================
