------------------------ MODULE StreamAndUpdateProofs -----------------------
(***************************************************************************)
(* What BatchStream guarantees for any files, names, workers and bounds,   *)
(* and what IncrementalUpdate does for any entries, texts and languages.   *)
(*                                                                         *)
(* The stream: that the counter is exact rests on knowing which futures    *)
(* are out; that a file is yielded whole, on its buffer holding just those *)
(* of its batches that were read, which is so while no other file has its  *)
(* name.                                                                   *)
(*                                                                         *)
(* The updates: that what is archived, written and asked for fits the      *)
(* source rests on a version being found by a hash that is its source's    *)
(* alone, and on an entry being found by a key and a name that are its own.*)
(***************************************************************************)
EXTENDS BatchStream, IncrementalUpdate, FiniteSetTheorems, FunctionTheorems,
        WellFoundedInduction, TLAPS

FileBatches(f) == {b \in Batches : b[1] = f}
Yielded        == {out[k].file : k \in DOMAIN out}

(* The batches of the files before `next` have been submitted.             *)
SubmittedInOrder == \A b \in Batches : stage[b] = "idle" <=> b[1] >= next

(* The futures a wait returned have their results.                         *)
ReadyIsDone == \A b \in ready : stage[b] = "done"
DoneHasResult ==
  \A b \in Batches : stage[b] \in {"done", "taken"} => result[b] # "none"

(* A buffer holds batches that were read, one for an index.                *)
GotIsTaken ==
  \A n \in Names : \A c \in buffer[n].got :
    /\ stage[c] = "taken"
    /\ \A d \in buffer[n].got : c[2] = d[2] => c = d

(* What was yielded was read, and failed as its batches did.               *)
Taken(d)  == \A i \in DOMAIN d.parts : stage[d.parts[i]] = "taken"
Sound(d)  == d.failed <=> \E i \in DOMAIN d.parts : result[d.parts[i]] \in {"fallback", "raised"}
Entire(d) == d.parts = [i \in 1..Size[d.file] |-> <<d.file, i>>]
PartsAreTaken == \A k \in DOMAIN out : Taken(out[k])

(* With names of their own, files are where the iterator left them: not    *)
(* begun, on their way with what was read of them, or over.                *)
Kept(f) ==
  /\ f \notin Yielded
  /\ buffer[name[f]] = [count |-> Size[f], got |-> {b \in FileBatches(f) : stage[b] = "taken"}]
  /\ \E b \in FileBatches(f) : stage[b] # "taken"
Over(f) == f \in Yielded /\ \A b \in FileBatches(f) : stage[b] = "taken"
AccountOfFiles ==
  NamesDistinct => \A f \in Files : IF f >= next THEN f \notin Yielded ELSE Kept(f) \/ Over(f)

(* The stream ends with the iterator, when nothing is out.                 *)
EndIsEmpty == pc = "end" => next \notin Files /\ Outstanding = {}

IInv ==
  /\ TypeOK
  /\ SubmittedInOrder
  /\ ReadyIsDone
  /\ DoneHasResult
  /\ GotIsTaken
  /\ PartsAreTaken
  /\ PendingIsOutstanding
  /\ FailedMeansFallback
  /\ AccountOfFiles
  /\ YieldsWholeFile
  /\ EndIsEmpty

-----------------------------------------------------------------------------
(* Files and batches.                                                      *)
LEMMA SizeType == Files = 1..Len(Size) /\ Len(Size) \in Nat /\ \A f \in Files : Size[f] \in Nat
BY SizeAssumption DEF Files

LEMMA BatchIsPair ==
  /\ \A b \in Batches : b[1] \in Files /\ b[2] \in 1..Size[b[1]] /\ b = <<b[1], b[2]>>
  /\ \A f \in Files, i \in Nat : i \in 1..Size[f] => <<f, i>> \in Batches
<1>1. \A b \in Batches : \E f \in Files, i \in Nat : i \in 1..Size[f] /\ b = <<f, i>>
  BY SizeType DEF Batches
<1> QED BY <1>1, SizeType DEF Batches

LEMMA BatchesOfFile ==
  ASSUME NEW f \in Files
  PROVE  IsFiniteSet(FileBatches(f)) /\ Cardinality(FileBatches(f)) = Size[f]
<1> DEFINE S == 1..Size[f]
           g == [i \in S |-> <<f, i>>]
<1>1. IsFiniteSet(S) /\ Cardinality(S) = Size[f]
  <2>1. Size[f] \in Int /\ 1 \in Int /\ Size[f] >= 0
    BY SizeType
  <2>2. IsFiniteSet(S) /\ Cardinality(S) = IF 1 > Size[f] THEN 0 ELSE Size[f] - 1 + 1
    BY <2>1, FS_Interval
  <2> QED BY <2>1, <2>2
<1>2. g \in Bijection(S, FileBatches(f))
  <2>1. \A i \in S : g[i] \in FileBatches(f)
    BY BatchIsPair, SizeType DEF FileBatches
  <2>2. \A i, j \in S : g[i] = g[j] => i = j
    OBVIOUS
  <2>3. \A b \in FileBatches(f) : \E i \in S : g[i] = b
    BY BatchIsPair DEF FileBatches
  <2> QED BY <2>1, <2>2, <2>3 DEF Bijection, Injection, Surjection, IsInjective
<1> HIDE DEF S, g
<1>3. ExistsBijection(S, FileBatches(f))
  BY <1>2 DEF ExistsBijection
<1> QED BY <1>1, <1>3, FS_Bijection

LEMMA BatchesFinite == IsFiniteSet(Batches)
<1> DEFINE g == [f \in Files |-> FileBatches(f)]
           T == {g[f] : f \in Files}
<1>1. IsFiniteSet(Files)
  BY SizeType, FS_Interval
<1>2. g \in Surjection(Files, T)
  BY DEF Surjection
<1>3. IsFiniteSet(T)
  <2> HIDE DEF g, T
  <2> QED BY <1>1, <1>2, FS_Surjection
<1>4. \A S \in T : IsFiniteSet(S)
  BY BatchesOfFile
<1>5. IsFiniteSet(UNION T)
  BY <1>3, <1>4, FS_UNION
<1>6. Batches \subseteq UNION T
  BY BatchIsPair DEF FileBatches
<1> QED BY <1>5, <1>6, FS_Subset

LEMMA OutstandingFinite == IsFiniteSet(Outstanding) /\ Cardinality(Outstanding) \in Nat
<1>1. Outstanding \in SUBSET Batches
  BY DEF Outstanding
<1>2. IsFiniteSet(Outstanding)
  BY <1>1, BatchesFinite, FS_Subset
<1> QED BY <1>2, FS_CardinalityType

(* A sequence with one more element.                                       *)
LEMMA Appended ==
  ASSUME NEW S, NEW s \in Seq(S), NEW e \in S, NEW t, t = Append(s, e)
  PROVE  /\ t \in Seq(S)
         /\ \A k \in DOMAIN s : k \in DOMAIN t /\ t[k] = s[k]
         /\ \A k \in DOMAIN t : k \in DOMAIN s \/ t[k] = e
         /\ \E k \in DOMAIN t : t[k] = e
<1>1. t \in Seq(S) /\ DOMAIN t = 1..Len(s) + 1 /\ t[Len(s) + 1] = e
  OBVIOUS
<1>2. DOMAIN s = 1..Len(s) /\ \A k \in DOMAIN s : t[k] = s[k]
  OBVIOUS
<1>3. Len(s) \in Nat
  OBVIOUS
<1> QED BY <1>1, <1>2, <1>3

-----------------------------------------------------------------------------
(* Reading a future.                                                       *)
LEMMA NameType == TypeOK => \A f \in Files : name[f] \in Names
BY DEF TypeOK, Names

LEMMA ReadFacts ==
  ASSUME IInv, NEW b \in Batches, Read(b)
  PROVE  /\ stage[b] = "done" /\ result[b] # "none"
         /\ b[1] \in Files /\ b[1] < next /\ name[b[1]] \in Names
         /\ stage' \in [Batches -> {"idle", "queued", "running", "done", "taken"}]
         /\ \A c \in Batches : stage'[c] = IF c = b THEN "taken" ELSE stage[c]
         /\ ready' \subseteq Batches
<1>1. stage[b] = "done" /\ result[b] # "none"
  BY DEF IInv, ReadyIsDone, DoneHasResult, Read
<1>2. b[1] \in Files /\ b[1] < next
  BY <1>1, BatchIsPair, SizeType DEF IInv, SubmittedInOrder, TypeOK
<1>3. name[b[1]] \in Names
  BY <1>2, NameType DEF IInv
<1> QED BY <1>1, <1>2, <1>3 DEF IInv, TypeOK, Read

LEMMA ReadKeeps ==
  ASSUME IInv, NEW b \in Batches, Read(b)
  PROVE  /\ SubmittedInOrder' /\ ReadyIsDone' /\ DoneHasResult'
         /\ PendingIsOutstanding' /\ pending' \in Nat
<1>1. SubmittedInOrder'
  BY ReadFacts DEF SubmittedInOrder, Read, IInv
<1>2. ReadyIsDone'
  BY ReadFacts DEF ReadyIsDone, Read, IInv, TypeOK
<1>3. DoneHasResult'
  BY ReadFacts DEF DoneHasResult, Read, IInv
<1>4. Outstanding' = Outstanding \ {b} /\ b \in Outstanding
  BY ReadFacts DEF Outstanding
<1>5. PendingIsOutstanding'
  <2>1. Cardinality(Outstanding \ {b}) = Cardinality(Outstanding) - 1
    BY <1>4, OutstandingFinite, FS_RemoveElement
  <2> QED BY <1>4, <2>1 DEF PendingIsOutstanding, Read, IInv
<1>6. pending' \in Nat
  <2>1. IsFiniteSet(Outstanding \ {b})
    BY OutstandingFinite, FS_RemoveElement
  <2> QED BY <1>4, <1>5, <2>1, FS_CardinalityType DEF PendingIsOutstanding
<1> QED BY <1>1, <1>2, <1>3, <1>5, <1>6

LEMMA GatheredFacts ==
  ASSUME IInv, NEW b \in Batches, Read(b)
  PROVE  /\ Gathered(b) \in SUBSET Batches /\ b \in Gathered(b)
         /\ \A c \in Gathered(b) : stage'[c] = "taken" /\ result[c] # "none"
         /\ \A c, d \in Gathered(b) : c[2] = d[2] => c = d
<1>1. name[b[1]] \in Names
  BY ReadFacts
<1>2. Buffer(b).got \in SUBSET Batches
  BY <1>1 DEF Buffer, IInv, TypeOK
<1>3. \A c \in Buffer(b).got : stage[c] = "taken" /\ result[c] # "none"
  BY <1>1, <1>2 DEF Buffer, IInv, GotIsTaken, DoneHasResult
<1>4. \A c, d \in Buffer(b).got : c[2] = d[2] => c = d
  BY <1>1 DEF Buffer, IInv, GotIsTaken
<1> QED BY <1>2, <1>3, <1>4, ReadFacts DEF Gathered

(* With a buffer of its own, what is gathered of a file is what was read.  *)
LEMMA OwnBuffer ==
  ASSUME IInv, NEW b \in Batches, Read(b), NamesDistinct
  PROVE  /\ Kept(b[1])
         /\ Buffer(b).count = Size[b[1]] /\ Size[b[1]] \in Nat \ {0}
         /\ Gathered(b) = {c \in FileBatches(b[1]) : stage'[c] = "taken"}
<1> DEFINE f == b[1]
<1>1. f \in Files /\ ~(f >= next) /\ b \in FileBatches(f) /\ stage[b] # "taken"
  BY ReadFacts, SizeType DEF FileBatches, IInv, TypeOK
<1>2. Kept(f)
  BY <1>1 DEF IInv, AccountOfFiles, Over
<1>3. Buffer(b).count = Size[f] /\ Buffer(b).got = {c \in FileBatches(f) : stage[c] = "taken"}
  BY <1>2 DEF Kept, Buffer
<1>4. Size[f] \in Nat \ {0}
  BY <1>1, BatchIsPair, SizeType
<1>5. \A c \in FileBatches(f) : c[2] = b[2] => c = b
  BY <1>1, BatchIsPair DEF FileBatches
<1>6. Gathered(b) = Buffer(b).got \cup {b}
  BY <1>1, <1>3, <1>5 DEF Gathered
<1>7. \A c \in FileBatches(f) : c \in Batches
  BY DEF FileBatches
<1> QED BY <1>1, <1>2, <1>3, <1>4, <1>6, <1>7, ReadFacts

-----------------------------------------------------------------------------
(* What was yielded.                                                       *)
LEMMA PartsAreBatches ==
  TypeOK => \A k \in DOMAIN out : /\ out[k] \in Delivery
                                  /\ \A i \in DOMAIN out[k].parts : out[k].parts[i] \in Batches
<1> SUFFICES ASSUME TypeOK, NEW k \in DOMAIN out
             PROVE  /\ out[k] \in Delivery
                    /\ \A i \in DOMAIN out[k].parts : out[k].parts[i] \in Batches
  OBVIOUS
<1>1. out[k] \in Delivery
  BY DEF TypeOK
<1>2. out[k].parts \in Seq(Batches)
  BY <1>1 DEF Delivery
<1> QED BY <1>1, <1>2

LEMMA SoundIsFailed == FailedMeansFallback <=> \A k \in DOMAIN out : Sound(out[k])
BY DEF FailedMeansFallback, Sound

LEMMA EntireIsWhole == WholeFiles <=> \A k \in DOMAIN out : Entire(out[k])
BY DEF WholeFiles, Entire

(* What was taken keeps its result, and so what was yielded its verdict.   *)
LEMMA DeliveriesStay ==
  ASSUME IInv, \A c \in Batches : stage[c] = "taken" => stage'[c] = "taken" /\ result'[c] = result[c],
         NEW k \in DOMAIN out
  PROVE  /\ Taken(out[k])' <=> \A i \in DOMAIN out'[k].parts : stage'[out'[k].parts[i]] = "taken"
         /\ \A i \in DOMAIN out[k].parts : stage'[out[k].parts[i]] = "taken"
         /\ out[k].failed <=> \E i \in DOMAIN out[k].parts :
                                result'[out[k].parts[i]] \in {"fallback", "raised"}
<1>1. \A i \in DOMAIN out[k].parts : out[k].parts[i] \in Batches
  BY PartsAreBatches DEF IInv
<1>2. \A i \in DOMAIN out[k].parts : stage[out[k].parts[i]] = "taken"
  BY DEF IInv, PartsAreTaken, Taken
<1>3. Sound(out[k])
  BY SoundIsFailed DEF IInv
<1> QED BY <1>1, <1>2, <1>3 DEF Taken, Sound

(* A step that yields nothing keeps what is said of the yielded.           *)
LEMMA OutStays ==
  ASSUME IInv, UNCHANGED <<name, out>>,
         \A c \in Batches : stage[c] = "taken" => stage'[c] = "taken" /\ result'[c] = result[c]
  PROVE  out' \in Seq(Delivery) /\ PartsAreTaken' /\ FailedMeansFallback' /\ YieldsWholeFile'
         /\ Yielded' = Yielded
<1>1. PartsAreTaken'
  BY DeliveriesStay DEF PartsAreTaken, Taken
<1>2. FailedMeansFallback'
  BY DeliveriesStay DEF FailedMeansFallback
<1>3. YieldsWholeFile'
  BY DEF YieldsWholeFile, NamesDistinct, WholeFiles, IInv
<1> QED BY <1>1, <1>2, <1>3 DEF Yielded, IInv, TypeOK

(* A step that yields one more.                                            *)
LEMMA OutGrows ==
  ASSUME IInv, name' = name,
         \A c \in Batches : stage[c] = "taken" => stage'[c] = "taken" /\ result'[c] = result[c],
         NEW d \in Delivery, out' = Append(out, d),
         \A i \in DOMAIN d.parts : stage'[d.parts[i]] = "taken",
         d.failed <=> \E i \in DOMAIN d.parts : result'[d.parts[i]] \in {"fallback", "raised"},
         NamesDistinct => Entire(d)
  PROVE  out' \in Seq(Delivery) /\ PartsAreTaken' /\ FailedMeansFallback' /\ YieldsWholeFile'
         /\ Yielded' = Yielded \cup {d.file}
<1>1. /\ out' \in Seq(Delivery)
      /\ \A k \in DOMAIN out : k \in DOMAIN out' /\ out'[k] = out[k]
      /\ \A k \in DOMAIN out' : k \in DOMAIN out \/ out'[k] = d
      /\ \E k \in DOMAIN out' : out'[k] = d
  <2>1. out \in Seq(Delivery)
    BY DEF IInv, TypeOK
  <2> QED BY <2>1, Appended
<1>2. PartsAreTaken'
  BY <1>1, DeliveriesStay DEF PartsAreTaken, Taken
<1>3. FailedMeansFallback'
  BY <1>1, DeliveriesStay DEF FailedMeansFallback
<1>4. YieldsWholeFile'
  <2> SUFFICES ASSUME NamesDistinct PROVE \A k \in DOMAIN out' : Entire(out'[k])
    BY DEF YieldsWholeFile, NamesDistinct, WholeFiles, Entire
  <2>1. \A k \in DOMAIN out : Entire(out[k])
    BY EntireIsWhole DEF YieldsWholeFile, IInv
  <2> QED BY <1>1, <2>1
<1>5. Yielded' = Yielded \cup {d.file}
  BY <1>1 DEF Yielded
<1> QED BY <1>1, <1>2, <1>3, <1>4, <1>5

(* A file whose buffer and batches are left alone is where it was.         *)
LEMMA OtherFile ==
  ASSUME NEW f \in Files, name' = name, f \in Yielded' <=> f \in Yielded,
         buffer'[name[f]] = buffer[name[f]],
         \A c \in FileBatches(f) : stage'[c] = "taken" <=> stage[c] = "taken"
  PROVE  (Kept(f)' <=> Kept(f)) /\ (Over(f)' <=> Over(f))
<1>1. \A g : FileBatches(g)' = FileBatches(g)
  BY DEF FileBatches
<1>2. {c \in FileBatches(f) : stage'[c] = "taken"} = {c \in FileBatches(f) : stage[c] = "taken"}
  OBVIOUS
<1> QED BY <1>1, <1>2 DEF Kept, Over

(* A step that takes nothing and touches no buffer.                        *)
LEMMA QuietStep ==
  ASSUME IInv, UNCHANGED <<name, next, buffer, out>>,
         \A c \in Batches : /\ stage'[c] = "taken" <=> stage[c] = "taken"
                            /\ stage'[c] = "idle" <=> stage[c] = "idle"
                            /\ stage[c] = "taken" => result'[c] = result[c]
  PROVE  /\ SubmittedInOrder' /\ GotIsTaken' /\ PartsAreTaken' /\ FailedMeansFallback'
         /\ AccountOfFiles' /\ YieldsWholeFile'
<1>1. SubmittedInOrder'
  BY DEF SubmittedInOrder, IInv
<1>2. GotIsTaken'
  BY DEF GotIsTaken, IInv, TypeOK
<1>3. PartsAreTaken' /\ FailedMeansFallback' /\ YieldsWholeFile' /\ Yielded' = Yielded
  BY OutStays
<1>4. AccountOfFiles'
  <2> SUFFICES ASSUME NamesDistinct, NEW f \in Files
               PROVE  IF f >= next THEN f \notin Yielded' ELSE Kept(f)' \/ Over(f)'
    BY DEF AccountOfFiles, NamesDistinct
  <2>1. (Kept(f)' <=> Kept(f)) /\ (Over(f)' <=> Over(f))
    BY <1>3, OtherFile DEF FileBatches
  <2> QED BY <1>3, <2>1 DEF AccountOfFiles, IInv
<1> QED BY <1>1, <1>2, <1>3, <1>4

-----------------------------------------------------------------------------
(* The actions.                                                            *)

(* The stream begins in the invariant.                                     *)
THEOREM InitIInv == Init => IInv
<1> SUFFICES ASSUME Init PROVE IInv
  OBVIOUS
<1>1. TypeOK
  <2>1. next \in 1..Len(Size) + 1
    BY SizeType DEF Init
  <2>2. attempt \in [Batches -> 0..MaxRetries]
    BY PoolAssumption DEF Init
  <2>3. out \in Seq(Delivery)
    BY DEF Init
  <2> QED BY <2>1, <2>2, <2>3 DEF Init, TypeOK, NoBuffer
<1>2. SubmittedInOrder
  BY BatchIsPair, SizeType DEF Init, SubmittedInOrder
<1>3. ReadyIsDone /\ DoneHasResult /\ GotIsTaken /\ EndIsEmpty
  BY DEF Init, ReadyIsDone, DoneHasResult, GotIsTaken, NoBuffer, EndIsEmpty
<1>4. DOMAIN out = {}
  BY DEF Init
<1>5. PartsAreTaken /\ FailedMeansFallback /\ YieldsWholeFile
  BY <1>4 DEF PartsAreTaken, FailedMeansFallback, YieldsWholeFile, WholeFiles
<1>6. PendingIsOutstanding
  <2>1. Outstanding = {}
    BY DEF Init, Outstanding
  <2> QED BY <2>1, FS_EmptySet DEF Init, PendingIsOutstanding
<1>7. AccountOfFiles
  BY <1>4, SizeType DEF Init, AccountOfFiles, Yielded
<1> QED BY <1>1, <1>2, <1>3, <1>5, <1>6, <1>7 DEF IInv

LEMMA SubmitFileKeeps == IInv /\ SubmitFile => IInv'
<1> SUFFICES ASSUME IInv, SubmitFile PROVE IInv'
  OBVIOUS
<1>1. /\ next \in Files /\ Size[next] \in Nat \ {0} /\ name[next] \in Names
      /\ name' = name /\ next' = next + 1 /\ next \in Nat /\ out' = out
      /\ pc = "submit" /\ pc' = pc /\ ready' = ready /\ result' = result
  BY SizeType, NameType DEF SubmitFile, IInv, TypeOK
<1>2. \A c \in Batches : stage'[c] = IF c[1] = next THEN "queued" ELSE stage[c]
  BY DEF SubmitFile
<1>3. \A c \in Batches : c[1] = next => stage[c] = "idle"
  BY <1>1 DEF IInv, SubmittedInOrder
<1>4. \A c \in Batches : stage'[c] = "taken" <=> stage[c] = "taken"
  BY <1>2, <1>3
<1>5. \A n \in Names : buffer'[n] = IF n = name[next] THEN [count |-> Size[next], got |-> {}]
                                                      ELSE buffer[n]
  BY <1>1 DEF SubmitFile, IInv, TypeOK
<1>6. SubmittedInOrder'
  BY <1>1, <1>2, <1>3, BatchIsPair, SizeType DEF SubmittedInOrder, IInv
<1>7. ReadyIsDone' /\ DoneHasResult'
  BY <1>1, <1>2, <1>3 DEF ReadyIsDone, DoneHasResult, IInv, TypeOK
<1>8. GotIsTaken'
  <2> SUFFICES ASSUME NEW n \in Names, NEW c \in buffer'[n].got
               PROVE  stage'[c] = "taken" /\ \A d \in buffer'[n].got : c[2] = d[2] => c = d
    BY DEF GotIsTaken, Names
  <2>1. buffer'[n] = buffer[n]
    BY <1>5
  <2>2. c \in Batches
    BY <2>1 DEF IInv, TypeOK
  <2> QED BY <1>4, <2>1, <2>2 DEF GotIsTaken, IInv
<1>9. PartsAreTaken' /\ FailedMeansFallback' /\ YieldsWholeFile' /\ Yielded' = Yielded
      /\ out' \in Seq(Delivery)
  BY <1>1, <1>4, OutStays
<1>10. PendingIsOutstanding' /\ pending' \in Nat
  <2>1. Outstanding' = Outstanding \cup FileBatches(next)
    BY <1>2, <1>3 DEF Outstanding, FileBatches
  <2>2. Outstanding \cap FileBatches(next) = {}
    BY <1>3 DEF Outstanding, FileBatches
  <2>3. Cardinality(Outstanding') = Cardinality(Outstanding) + Size[next]
    BY <1>1, <2>1, <2>2, OutstandingFinite, BatchesOfFile, FS_Union, FS_EmptySet
  <2> QED BY <1>1, <2>3, OutstandingFinite DEF SubmitFile, PendingIsOutstanding, IInv
<1>11. AccountOfFiles'
  <2> SUFFICES ASSUME NamesDistinct, NEW f \in Files
               PROVE  IF f >= next' THEN f \notin Yielded' ELSE Kept(f)' \/ Over(f)'
    BY <1>1 DEF AccountOfFiles, NamesDistinct
  <2>1. CASE f = next
    <3>1. f \notin Yielded
      BY <1>1, <2>1 DEF IInv, AccountOfFiles
    <3>2. <<f, 1>> \in FileBatches(f)
      BY <1>1, <2>1, BatchIsPair DEF FileBatches
    <3>3. \A c \in FileBatches(f) : stage'[c] = "queued"
      BY <1>2, <2>1 DEF FileBatches
    <3>4. {c \in FileBatches(f) : stage'[c] = "taken"} = {}
      BY <3>3
    <3>5. buffer'[name[f]] = [count |-> Size[f], got |-> {}]
      BY <1>1, <1>5, <2>1
    <3>6. FileBatches(f)' = FileBatches(f)
      BY DEF FileBatches
    <3>7. Kept(f)'
      BY <1>1, <1>9, <3>1, <3>2, <3>3, <3>4, <3>5, <3>6 DEF Kept
    <3> QED BY <1>1, <2>1, <3>7
  <2>2. CASE f # next
    <3>1. buffer'[name[f]] = buffer[name[f]]
      BY <1>1, <1>5, <2>2, NameType DEF NamesDistinct, IInv
    <3>2. (Kept(f)' <=> Kept(f)) /\ (Over(f)' <=> Over(f))
      BY <1>1, <1>4, <1>9, <3>1, OtherFile DEF FileBatches
    <3> QED BY <1>1, <1>9, <2>2, <3>2, SizeType DEF IInv, AccountOfFiles
  <2> QED BY <2>1, <2>2
<1>12. TypeOK'
  <2>1. next' \in 1..Len(Size) + 1
    BY <1>1, SizeType
  <2>2. stage' \in [Batches -> {"idle", "queued", "running", "done", "taken"}]
    BY DEF SubmitFile, IInv, TypeOK
  <2>3. buffer' \in [Names -> [count: Nat, got: SUBSET Batches]]
    BY <1>1 DEF SubmitFile, IInv, TypeOK
  <2> QED BY <1>9, <1>10, <2>1, <2>2, <2>3 DEF SubmitFile, IInv, TypeOK
<1>13. EndIsEmpty'
  BY <1>1 DEF EndIsEmpty
<1> QED BY <1>6, <1>7, <1>8, <1>9, <1>10, <1>11, <1>12, <1>13 DEF IInv

LEMMA YieldEmptyFileKeeps == IInv /\ YieldEmptyFile => IInv'
<1> SUFFICES ASSUME IInv, YieldEmptyFile PROVE IInv'
  OBVIOUS
<1> DEFINE d == [file |-> next, parts |-> <<>>, failed |-> FALSE]
<1>1. /\ next \in Files /\ Size[next] = 0 /\ next \in Nat /\ next' = next + 1
      /\ pc = "submit" /\ out' = Append(out, d)
      /\ UNCHANGED <<name, pc, pending, stage, attempt, result, ready, buffer>>
  BY SizeType DEF YieldEmptyFile
<1>2. d \in Delivery /\ DOMAIN d.parts = {} /\ d.file = next /\ d.failed = FALSE
  BY <1>1 DEF Delivery
<1>3. Entire(d)
  <2>1. d.parts = [i \in 1..0 |-> <<next, i>>]
    OBVIOUS
  <2> QED BY <1>1, <1>2, <2>1 DEF Entire
<1>4. FileBatches(next) = {}
  BY <1>1, BatchIsPair DEF FileBatches
<1>5. PartsAreTaken' /\ FailedMeansFallback' /\ YieldsWholeFile' /\ Yielded' = Yielded \cup {next}
      /\ out' \in Seq(Delivery)
  <2> HIDE DEF d
  <2> QED BY <1>1, <1>2, <1>3, OutGrows
<1>6. SubmittedInOrder'
  BY <1>1, <1>4, BatchIsPair, SizeType DEF SubmittedInOrder, FileBatches, IInv
<1>7. ReadyIsDone' /\ DoneHasResult' /\ GotIsTaken' /\ EndIsEmpty' /\ PendingIsOutstanding'
  BY <1>1 DEF ReadyIsDone, DoneHasResult, GotIsTaken, EndIsEmpty, PendingIsOutstanding,
              Outstanding, IInv
<1>8. AccountOfFiles'
  <2> SUFFICES ASSUME NamesDistinct, NEW f \in Files
               PROVE  IF f >= next' THEN f \notin Yielded' ELSE Kept(f)' \/ Over(f)'
    BY <1>1 DEF AccountOfFiles, NamesDistinct
  <2>1. CASE f = next
    <3>1. Over(f)'
      BY <1>4, <1>5, <2>1 DEF Over, FileBatches
    <3> QED BY <1>1, <2>1, <3>1
  <2>2. CASE f # next
    <3>1. (Kept(f)' <=> Kept(f)) /\ (Over(f)' <=> Over(f))
      BY <1>1, <1>5, <2>2, OtherFile DEF FileBatches
    <3> QED BY <1>1, <1>5, <2>2, <3>1, SizeType DEF IInv, AccountOfFiles
  <2> QED BY <2>1, <2>2
<1>9. TypeOK'
  <2>1. next' \in 1..Len(Size) + 1
    BY <1>1, SizeType
  <2> QED BY <1>1, <1>5, <2>1 DEF IInv, TypeOK
<1> QED BY <1>5, <1>6, <1>7, <1>8, <1>9 DEF IInv

LEMMA StopSubmittingKeeps == IInv /\ StopSubmitting => IInv'
<1> SUFFICES ASSUME IInv, StopSubmitting PROVE IInv'
  OBVIOUS
<1>1. UNCHANGED <<name, next, pending, stage, attempt, result, ready, buffer, out>>
  BY DEF StopSubmitting
<1>2. TypeOK'
  BY <1>1 DEF StopSubmitting, IInv, TypeOK
<1>3. EndIsEmpty'
  BY DEF StopSubmitting, EndIsEmpty, Outstanding
<1>4. ReadyIsDone' /\ DoneHasResult' /\ PendingIsOutstanding'
  BY <1>1 DEF ReadyIsDone, DoneHasResult, PendingIsOutstanding, Outstanding, IInv
<1> QED BY <1>1, <1>2, <1>3, <1>4, QuietStep DEF IInv

LEMMA WaitForResultsKeeps == IInv /\ WaitForResults => IInv'
<1> SUFFICES ASSUME IInv, WaitForResults PROVE IInv'
  OBVIOUS
<1>1. UNCHANGED <<name, next, pending, stage, attempt, result, buffer, out>>
  BY DEF WaitForResults
<1>2. TypeOK' /\ EndIsEmpty'
  BY <1>1 DEF WaitForResults, IInv, TypeOK, EndIsEmpty
<1>3. ReadyIsDone' /\ DoneHasResult' /\ PendingIsOutstanding'
  BY <1>1 DEF ReadyIsDone, DoneHasResult, PendingIsOutstanding, Outstanding, IInv, WaitForResults
<1> QED BY <1>1, <1>2, <1>3, QuietStep DEF IInv

(* A result that is kept or misses leaves the file on its way.             *)
LEMMA ReadTypes ==
  ASSUME IInv, NEW b \in Batches, Read(b),
         pc' \in {"submit", "collect", "raised"},
         buffer' \in [Names -> [count: Nat, got: SUBSET Batches]], out' \in Seq(Delivery)
  PROVE  TypeOK' /\ EndIsEmpty'
<1>1. TypeOK'
  BY ReadFacts, ReadKeeps DEF TypeOK, IInv, Read
<1> QED BY <1>1 DEF EndIsEmpty

LEMMA OnwardsType ==
  ASSUME NEW b, Onwards(b)
  PROVE  pc' \in {"submit", "collect", "raised"}
BY DEF Onwards

LEMMA TakenStays ==
  ASSUME IInv, NEW b \in Batches, Read(b)
  PROVE  /\ name' = name /\ next' = next
         /\ \A c \in Batches : stage[c] = "taken" => stage'[c] = "taken" /\ result'[c] = result[c]
BY ReadFacts DEF Read

LEMMA SetGot ==
  ASSUME NEW S, NEW r \in [count: Nat, got: S], NEW g
  PROVE  [r EXCEPT !.got = g] = [count |-> r.count, got |-> g]
OBVIOUS

LEMMA GotReplaced ==
  ASSUME IInv, NEW b \in Batches, Read(b),
         buffer' = [buffer EXCEPT ![name[b[1]]].got = Gathered(b)]
  PROVE  /\ name[b[1]] \in Names /\ Buffer(b).count \in Nat
         /\ buffer' = [buffer EXCEPT ![name[b[1]]] = [count |-> Buffer(b).count, got |-> Gathered(b)]]
<1> DEFINE r == buffer[name[b[1]]]
<1>1. name[b[1]] \in Names
  BY ReadFacts
<1>2. r \in [count: Nat, got: SUBSET Batches]
  BY <1>1 DEF IInv, TypeOK
<1>3. [r EXCEPT !.got = Gathered(b)] = [count |-> r.count, got |-> Gathered(b)]
  BY <1>2, SetGot
<1>4. buffer' = [buffer EXCEPT ![name[b[1]]] = [r EXCEPT !.got = Gathered(b)]]
  BY DEF IInv, TypeOK
<1> QED BY <1>1, <1>2, <1>3, <1>4 DEF Buffer

(* What was gathered stays one for an index.                               *)
LEMMA GotStays ==
  ASSUME IInv, NEW b \in Batches, Read(b), NEW S \in {Gathered(b), {}, Buffer(b).got},
         NEW m \in Nat,
         buffer' = [buffer EXCEPT ![name[b[1]]] = [count |-> m, got |-> S]]
  PROVE  GotIsTaken' /\ buffer' \in [Names -> [count: Nat, got: SUBSET Batches]]
<1>1. name[b[1]] \in Names
  BY ReadFacts
<1>2. Buffer(b).got \in SUBSET Batches
  BY <1>1 DEF Buffer, IInv, TypeOK
<1>3. buffer' \in [Names -> [count: Nat, got: SUBSET Batches]]
  BY <1>1, <1>2, GatheredFacts DEF IInv, TypeOK
<1>4. GotIsTaken'
  <2> SUFFICES ASSUME NEW n \in Names, NEW c \in buffer'[n].got
               PROVE  stage'[c] = "taken" /\ \A d \in buffer'[n].got : c[2] = d[2] => c = d
    BY DEF GotIsTaken, Names
  <2>1. CASE n = name[b[1]]
    <3>1. buffer'[n].got = S
      BY <1>1, <2>1 DEF IInv, TypeOK
    <3>2. CASE S = Gathered(b)
      BY <3>1, <3>2, GatheredFacts
    <3>3. CASE S = Buffer(b).got
      BY <1>1, <1>2, <3>1, <3>3, TakenStays DEF Buffer, GotIsTaken, IInv
    <3> QED BY <3>1, <3>2, <3>3
  <2>2. CASE n # name[b[1]]
    <3>1. buffer'[n] = buffer[n]
      BY <1>1, <2>2 DEF IInv, TypeOK
    <3>2. c \in Batches
      BY <3>1 DEF IInv, TypeOK
    <3> QED BY <3>1, <3>2, TakenStays DEF GotIsTaken, IInv
  <2> QED BY <2>1, <2>2
<1> QED BY <1>3, <1>4

(* A file of its own name is where it was unless it is the one read.       *)
LEMMA AccountStays ==
  ASSUME IInv, NEW b \in Batches, Read(b),
         \A n \in Names : n # name[b[1]] => buffer'[n] = buffer[n],
         Yielded' \subseteq Yielded \cup {b[1]}, Yielded \subseteq Yielded',
         NamesDistinct => Kept(b[1])' \/ Over(b[1])'
  PROVE  AccountOfFiles'
<1> SUFFICES ASSUME NamesDistinct, NEW f \in Files
             PROVE  IF f >= next THEN f \notin Yielded' ELSE Kept(f)' \/ Over(f)'
  BY TakenStays DEF AccountOfFiles, NamesDistinct
<1>1. b[1] \in Files /\ b[1] < next
  BY ReadFacts
<1>2. CASE f = b[1]
  BY <1>1, <1>2, SizeType DEF IInv, TypeOK
<1>3. CASE f # b[1]
  <2>1. buffer'[name[f]] = buffer[name[f]]
    BY <1>1, <1>3, NameType DEF NamesDistinct, IInv
  <2>2. f \in Yielded' <=> f \in Yielded
    BY <1>3
  <2>3. \A c \in FileBatches(f) : stage'[c] = "taken" <=> stage[c] = "taken"
    BY <1>3, ReadFacts DEF FileBatches
  <2>4. (Kept(f)' <=> Kept(f)) /\ (Over(f)' <=> Over(f))
    BY <2>1, <2>2, <2>3, TakenStays, OtherFile
  <2> QED BY <2>2, <2>4 DEF IInv, AccountOfFiles
<1> QED BY <1>2, <1>3

LEMMA DropResultKeeps == ASSUME NEW b \in Batches PROVE IInv /\ DropResult(b) => IInv'
<1> SUFFICES ASSUME IInv, DropResult(b) PROVE IInv'
  OBVIOUS
<1>1. Read(b) /\ Onwards(b) /\ Buffer(b).count = 0 /\ buffer' = buffer /\ out' = out
  BY DEF DropResult
<1>2. SubmittedInOrder' /\ ReadyIsDone' /\ DoneHasResult' /\ PendingIsOutstanding'
  BY <1>1, ReadKeeps
<1>3. PartsAreTaken' /\ FailedMeansFallback' /\ YieldsWholeFile' /\ Yielded' = Yielded
      /\ out' \in Seq(Delivery)
  BY <1>1, TakenStays, OutStays
<1>4. GotIsTaken' /\ buffer' \in [Names -> [count: Nat, got: SUBSET Batches]]
  BY <1>1, TakenStays DEF GotIsTaken, IInv, TypeOK
<1>5. TypeOK' /\ EndIsEmpty'
  BY <1>1, <1>3, <1>4, OnwardsType, ReadTypes
<1>6. ~NamesDistinct
  BY <1>1, OwnBuffer
<1>7. AccountOfFiles'
  BY <1>1, <1>6, TakenStays DEF AccountOfFiles, NamesDistinct
<1> QED BY <1>2, <1>3, <1>4, <1>5, <1>7 DEF IInv

LEMMA KeepResultKeeps == ASSUME NEW b \in Batches PROVE IInv /\ KeepResult(b) => IInv'
<1> SUFFICES ASSUME IInv, KeepResult(b) PROVE IInv'
  OBVIOUS
<1>1. /\ Read(b) /\ Onwards(b) /\ out' = out
      /\ Cardinality(Gathered(b)) # Buffer(b).count
      /\ buffer' = [buffer EXCEPT ![name[b[1]]].got = Gathered(b)]
  BY DEF KeepResult
<1>2. SubmittedInOrder' /\ ReadyIsDone' /\ DoneHasResult' /\ PendingIsOutstanding'
  BY <1>1, ReadKeeps
<1>3. PartsAreTaken' /\ FailedMeansFallback' /\ YieldsWholeFile' /\ Yielded' = Yielded
      /\ out' \in Seq(Delivery)
  BY <1>1, TakenStays, OutStays
<1>4. /\ name[b[1]] \in Names /\ Buffer(b).count \in Nat
      /\ buffer' = [buffer EXCEPT ![name[b[1]]] = [count |-> Buffer(b).count, got |-> Gathered(b)]]
  BY <1>1, GotReplaced
<1>5. GotIsTaken' /\ buffer' \in [Names -> [count: Nat, got: SUBSET Batches]]
  BY <1>1, <1>4, GotStays
<1>6. TypeOK' /\ EndIsEmpty'
  BY <1>1, <1>3, <1>5, OnwardsType, ReadTypes
<1>7. NamesDistinct => Kept(b[1])'
  <2> SUFFICES ASSUME NamesDistinct PROVE Kept(b[1])'
    OBVIOUS
  <2>1. /\ Kept(b[1]) /\ Buffer(b).count = Size[b[1]]
        /\ Gathered(b) = {c \in FileBatches(b[1]) : stage'[c] = "taken"}
    BY <1>1, OwnBuffer
  <2>2. buffer'[name[b[1]]] = [count |-> Size[b[1]], got |-> Gathered(b)]
    BY <1>4, <2>1 DEF IInv, TypeOK
  <2>3. Gathered(b) # FileBatches(b[1])
    BY <1>1, <2>1, BatchesOfFile, ReadFacts
  <2>4. FileBatches(b[1])' = FileBatches(b[1])
    BY DEF FileBatches
  <2> QED BY <1>1, <1>3, <2>1, <2>2, <2>3, <2>4, TakenStays DEF Kept
<1>8. AccountOfFiles'
  <2>1. \A n \in Names : n # name[b[1]] => buffer'[n] = buffer[n]
    BY <1>4 DEF IInv, TypeOK
  <2> QED BY <1>1, <1>3, <1>7, <2>1, AccountStays
<1> QED BY <1>2, <1>3, <1>5, <1>6, <1>8 DEF IInv

(* A file's batches are as many as their indexes, and no other has one.    *)
LEMMA AllIndexes ==
  ASSUME NEW f \in Files, NEW S \in SUBSET FileBatches(f)
  PROVE  /\ Cardinality(S) = Size[f] => S = FileBatches(f)
         /\ Indexes(S) = 1..Size[f] <=> S = FileBatches(f)
<1>1. Cardinality(S) = Size[f] => S = FileBatches(f)
  BY BatchesOfFile, FS_Subset
<1>2. ASSUME Indexes(S) = 1..Size[f] PROVE S = FileBatches(f)
  <2>1. \A b \in FileBatches(f) : \E c \in S : c[2] = b[2]
    BY <1>2, BatchIsPair DEF FileBatches, Indexes
  <2>2. \A b, c \in FileBatches(f) : c[2] = b[2] => b = c
    BY BatchIsPair DEF FileBatches
  <2> QED BY <2>1, <2>2
<1>3. Indexes(FileBatches(f)) = 1..Size[f]
  <2>1. \A i \in 1..Size[f] : <<f, i>> \in FileBatches(f) /\ <<f, i>>[2] = i
    BY BatchIsPair, SizeType DEF FileBatches
  <2>2. \A b \in FileBatches(f) : b[2] \in 1..Size[f]
    BY BatchIsPair DEF FileBatches
  <2> QED BY <2>1, <2>2 DEF Indexes
<1> QED BY <1>1, <1>2, <1>3

LEMMA MissBatchKeeps == ASSUME NEW b \in Batches PROVE IInv /\ MissBatch(b) => IInv'
<1> SUFFICES ASSUME IInv, MissBatch(b) PROVE IInv'
  OBVIOUS
<1>1. /\ Read(b) /\ out' = out /\ pc' = "raised"
      /\ Cardinality(Gathered(b)) = Buffer(b).count
      /\ Indexes(Gathered(b)) # 1..Buffer(b).count
      /\ buffer' = [buffer EXCEPT ![name[b[1]]].got = Gathered(b)]
  BY DEF MissBatch
<1>2. SubmittedInOrder' /\ ReadyIsDone' /\ DoneHasResult' /\ PendingIsOutstanding'
  BY <1>1, ReadKeeps
<1>3. PartsAreTaken' /\ FailedMeansFallback' /\ YieldsWholeFile' /\ Yielded' = Yielded
      /\ out' \in Seq(Delivery)
  BY <1>1, TakenStays, OutStays
<1>4. /\ name[b[1]] \in Names /\ Buffer(b).count \in Nat
      /\ buffer' = [buffer EXCEPT ![name[b[1]]] = [count |-> Buffer(b).count, got |-> Gathered(b)]]
  BY <1>1, GotReplaced
<1>5. GotIsTaken' /\ buffer' \in [Names -> [count: Nat, got: SUBSET Batches]]
  BY <1>1, <1>4, GotStays
<1>6. TypeOK' /\ EndIsEmpty'
  BY <1>1, <1>3, <1>5, ReadTypes
<1>7. ~NamesDistinct
  <2> SUFFICES ASSUME NamesDistinct PROVE FALSE
    OBVIOUS
  <2>1. Buffer(b).count = Size[b[1]] /\ Gathered(b) \in SUBSET FileBatches(b[1])
    BY <1>1, OwnBuffer
  <2> QED BY <1>1, <2>1, AllIndexes, ReadFacts
<1>8. AccountOfFiles'
  BY <1>1, <1>7, TakenStays DEF AccountOfFiles, NamesDistinct
<1> QED BY <1>2, <1>3, <1>5, <1>6, <1>8 DEF IInv

(* What a file is yielded with: what was gathered of it, by index.         *)
Parts(b) == [i \in 1..Buffer(b).count |-> CHOOSE c \in Gathered(b) : c[2] = i]
Yield(b) == [file   |-> Parts(b)[1][1],
             parts  |-> Parts(b),
             failed |-> \E c \in Gathered(b) : result[c] # "ok"]

LEMMA YieldedParts ==
  ASSUME IInv, NEW b \in Batches, YieldFile(b)
  PROVE  /\ Buffer(b).count \in Nat \ {0}
         /\ \A i \in 1..Buffer(b).count : Parts(b)[i] \in Gathered(b) /\ Parts(b)[i][2] = i
         /\ \A c \in Gathered(b) : c[2] \in 1..Buffer(b).count /\ Parts(b)[c[2]] = c
<1>1. Read(b) /\ Buffer(b).count # 0 /\ Indexes(Gathered(b)) = 1..Buffer(b).count
  BY DEF YieldFile
<1>2. Buffer(b).count \in Nat
  BY <1>1, ReadFacts DEF Buffer, IInv, TypeOK
<1>3. \A i \in 1..Buffer(b).count : \E c \in Gathered(b) : c[2] = i
  BY <1>1 DEF Indexes
<1>4. \A i \in 1..Buffer(b).count : Parts(b)[i] \in Gathered(b) /\ Parts(b)[i][2] = i
  BY <1>3 DEF Parts
<1>5. \A c \in Gathered(b) : c[2] \in 1..Buffer(b).count
  BY <1>1 DEF Indexes
<1>6. \A c \in Gathered(b) : Parts(b)[c[2]] = c
  BY <1>1, <1>4, <1>5, GatheredFacts
<1> QED BY <1>1, <1>2, <1>4, <1>5, <1>6

LEMMA YieldIsSound ==
  ASSUME IInv, NEW b \in Batches, YieldFile(b)
  PROVE  /\ Yield(b) \in Delivery /\ out' = Append(out, Yield(b))
         /\ \A i \in DOMAIN Yield(b).parts : stage'[Yield(b).parts[i]] = "taken"
         /\ Yield(b).failed <=> \E i \in DOMAIN Yield(b).parts :
                                  result'[Yield(b).parts[i]] \in {"fallback", "raised"}
<1>1. Read(b) /\ result' = result
  BY DEF YieldFile, Read
<1>2. DOMAIN Parts(b) = 1..Buffer(b).count
  BY DEF Parts
<1>3. Parts(b) \in Seq(Batches)
  <2>1. Parts(b) \in [1..Buffer(b).count -> Batches]
    BY <1>1, <1>2, YieldedParts, GatheredFacts DEF Parts
  <2> QED BY <2>1, YieldedParts
<1>4. Parts(b)[1][1] \in Files
  BY <1>1, YieldedParts, GatheredFacts, BatchIsPair
<1>5. Yield(b).parts = Parts(b) /\ Yield(b).file = Parts(b)[1][1]
      /\ Yield(b).failed = (\E c \in Gathered(b) : result[c] # "ok")
  BY DEF Yield
<1>6. Yield(b) \in Delivery
  BY <1>3, <1>4 DEF Yield, Delivery
<1>7. out' = Append(out, Yield(b))
  BY DEF YieldFile, Yield, Parts
<1>8. \A c \in Gathered(b) : stage'[c] = "taken"
                             /\ (result[c] # "ok" <=> result[c] \in {"fallback", "raised"})
  BY <1>1, GatheredFacts DEF IInv, TypeOK
<1>9. (\E c \in Gathered(b) : result[c] # "ok")
        <=> \E i \in DOMAIN Parts(b) : result[Parts(b)[i]] \in {"fallback", "raised"}
  BY <1>2, <1>8, YieldedParts
<1> QED BY <1>1, <1>2, <1>5, <1>6, <1>7, <1>8, <1>9, YieldedParts

(* A file of its own name is yielded whole.                                *)
LEMMA YieldIsEntire ==
  ASSUME IInv, NEW b \in Batches, YieldFile(b), NamesDistinct
  PROVE  /\ Yield(b).file = b[1] /\ Entire(Yield(b))
         /\ Size[b[1]] > 0 /\ b[1] \notin Yielded
         /\ \A c \in FileBatches(b[1]) : stage'[c] = "taken"
<1>1. Read(b) /\ Indexes(Gathered(b)) = 1..Buffer(b).count
  BY DEF YieldFile
<1>2. /\ Kept(b[1]) /\ Buffer(b).count = Size[b[1]] /\ Size[b[1]] \in Nat \ {0}
      /\ Gathered(b) = {c \in FileBatches(b[1]) : stage'[c] = "taken"}
  BY <1>1, OwnBuffer
<1>3. Gathered(b) = FileBatches(b[1])
  <2>1. Gathered(b) \in SUBSET FileBatches(b[1])
    BY <1>2
  <2> QED BY <1>1, <1>2, <2>1, AllIndexes, ReadFacts
<1>4. \A i \in 1..Size[b[1]] : Parts(b)[i] = <<b[1], i>>
  BY <1>2, <1>3, YieldedParts, BatchIsPair DEF FileBatches
<1>5. Parts(b) = [i \in 1..Size[b[1]] |-> <<b[1], i>>]
  <2>1. Parts(b) = [i \in 1..Buffer(b).count |-> Parts(b)[i]]
    BY DEF Parts
  <2> QED BY <1>2, <1>4, <2>1
<1>6. Yield(b).file = b[1] /\ Yield(b).parts = Parts(b)
  BY <1>2, <1>4 DEF Yield
<1> QED BY <1>2, <1>3, <1>5, <1>6 DEF Entire, Kept

LEMMA YieldFileKeeps == ASSUME NEW b \in Batches PROVE IInv /\ YieldFile(b) => IInv'
<1> SUFFICES ASSUME IInv, YieldFile(b) PROVE IInv'
  OBVIOUS
<1>1. Read(b) /\ Onwards(b) /\ buffer' = [buffer EXCEPT ![name[b[1]]] = [count |-> 0, got |-> {}]]
  BY DEF YieldFile, NoBuffer
<1>2. SubmittedInOrder' /\ ReadyIsDone' /\ DoneHasResult' /\ PendingIsOutstanding'
  BY <1>1, ReadKeeps
<1>3. PartsAreTaken' /\ FailedMeansFallback' /\ YieldsWholeFile'
      /\ Yielded' = Yielded \cup {Yield(b).file} /\ out' \in Seq(Delivery)
  BY <1>1, TakenStays, YieldIsSound, YieldIsEntire, OutGrows
<1>4. GotIsTaken' /\ buffer' \in [Names -> [count: Nat, got: SUBSET Batches]]
  BY <1>1, GotStays
<1>5. TypeOK' /\ EndIsEmpty'
  BY <1>1, <1>3, <1>4, OnwardsType, ReadTypes
<1>6. AccountOfFiles'
  <2>1. \A n \in Names : n # name[b[1]] => buffer'[n] = buffer[n]
    BY <1>1 DEF IInv, TypeOK
  <2>2. CASE NamesDistinct
    <3>1. FileBatches(b[1])' = FileBatches(b[1])
      BY DEF FileBatches
    <3>2. Over(b[1])'
      BY <1>3, <2>2, <3>1, YieldIsEntire DEF Over
    <3> QED BY <1>1, <1>3, <2>1, <2>2, <3>2, YieldIsEntire, AccountStays
  <2>3. CASE ~NamesDistinct
    BY <1>1, <2>3, TakenStays DEF AccountOfFiles, NamesDistinct
  <2> QED BY <2>2, <2>3
<1> QED BY <1>2, <1>3, <1>4, <1>5, <1>6 DEF IInv

-----------------------------------------------------------------------------
(* The workers.                                                            *)
LEMMA WorkKeeps == ASSUME NEW b \in Batches PROVE IInv /\ Work(b) => IInv'
<1> SUFFICES ASSUME IInv, Work(b) PROVE IInv'
  OBVIOUS
<1>1. UNCHANGED <<name, pc, next, pending, ready, buffer, out>>
  BY DEF Work, StartBatch, TranslateBatch, RetryBatch, FallBack, RaiseInBatch
<1>2. /\ stage[b] \in {"queued", "running"}
      /\ \E s \in {"running", "done"} : stage' = [stage EXCEPT ![b] = s]
      /\ \/ result' = result /\ stage'[b] = "running"
         \/ \E r \in {"ok", "fallback", "raised"} : result' = [result EXCEPT ![b] = r]
  <2>1. stage \in [Batches -> {"idle", "queued", "running", "done", "taken"}]
    BY DEF IInv, TypeOK
  <2>2. CASE StartBatch(b)
    BY <2>1, <2>2 DEF StartBatch
  <2>3. CASE RetryBatch(b)
    <3>1. stage' = [stage EXCEPT ![b] = "running"]
      BY <2>1, <2>3 DEF RetryBatch
    <3> QED BY <2>1, <2>3, <3>1 DEF RetryBatch
  <2>4. CASE TranslateBatch(b) \/ FallBack(b) \/ RaiseInBatch(b)
    BY <2>4 DEF TranslateBatch, FallBack, RaiseInBatch, EndBatch
  <2> QED BY <2>2, <2>3, <2>4 DEF Work
<1>3. attempt' \in [Batches -> 0..MaxRetries]
  <2>1. attempt \in [Batches -> 0..MaxRetries] /\ attempt[b] \in 0..MaxRetries
    BY DEF IInv, TypeOK
  <2>2. attempt' = attempt \/ (attempt[b] + 1 <= MaxRetries /\ attempt' = [attempt EXCEPT ![b] = @ + 1])
    BY <2>1, PoolAssumption
       DEF Work, StartBatch, TranslateBatch, RetryBatch, FallBack, RaiseInBatch
  <2>3. MaxRetries \in Nat
    BY PoolAssumption
  <2> QED BY <2>1, <2>2, <2>3
<1>4. TypeOK'
  BY <1>1, <1>2, <1>3 DEF IInv, TypeOK
<1>5. \A c \in Batches : /\ stage'[c] = "taken" <=> stage[c] = "taken"
                         /\ stage'[c] = "idle" <=> stage[c] = "idle"
                         /\ stage[c] = "done" => stage'[c] = "done"
                         /\ stage[c] = "taken" => result'[c] = result[c]
  BY <1>2 DEF IInv, TypeOK
<1>6. ReadyIsDone'
  BY <1>1, <1>5 DEF ReadyIsDone, IInv, TypeOK
<1>7. DoneHasResult'
  BY <1>2 DEF DoneHasResult, IInv, TypeOK
<1>8. Outstanding' = Outstanding
  <2>1. \A c \in Batches : stage[c] \in {"queued", "running", "done"}
                           <=> stage'[c] \in {"queued", "running", "done"}
    BY <1>2 DEF IInv, TypeOK
  <2> QED BY <2>1 DEF Outstanding
<1>9. PendingIsOutstanding' /\ EndIsEmpty'
  BY <1>1, <1>8 DEF PendingIsOutstanding, EndIsEmpty, IInv
<1> QED BY <1>1, <1>4, <1>5, <1>6, <1>7, <1>9, QuietStep DEF IInv

-----------------------------------------------------------------------------
(* Every step keeps the invariant (process_files_stream and the pool).     *)
THEOREM NextIInv == IInv /\ [Next]_vars => IInv'
<1> SUFFICES ASSUME IInv, [Next]_vars PROVE IInv'
  OBVIOUS
<1>1. CASE Next
  <2>1. CASE SubmitFile \/ YieldEmptyFile \/ StopSubmitting \/ WaitForResults
    BY <2>1, SubmitFileKeeps, YieldEmptyFileKeeps, StopSubmittingKeeps, WaitForResultsKeeps
  <2>2. ASSUME NEW b \in Batches, Collect(b) PROVE IInv'
    BY <2>2, DropResultKeeps, KeepResultKeeps, YieldFileKeeps, MissBatchKeeps DEF Collect
  <2>3. ASSUME NEW b \in Batches, Work(b) PROVE IInv'
    BY <2>3, WorkKeeps
  <2> QED BY <1>1, <2>1, <2>2, <2>3 DEF Next, Main
<1>2. CASE UNCHANGED vars
  <2>1. UNCHANGED <<name, pc, next, pending, stage, attempt, result, ready, buffer, out>>
    BY <1>2 DEF vars
  <2>2. TypeOK' /\ EndIsEmpty' /\ ReadyIsDone' /\ DoneHasResult' /\ PendingIsOutstanding'
    BY <2>1 DEF IInv, TypeOK, EndIsEmpty, ReadyIsDone, DoneHasResult, PendingIsOutstanding, Outstanding
  <2> QED BY <2>1, <2>2, QuietStep DEF IInv
<1> QED BY <1>1, <1>2

(* Whatever the sizes, names and failures, the invariant of the stream     *)
(* holds in every reachable state.                                         *)
THEOREM InductiveInvariant == Spec => []IInv
BY InitIInv, NextIInv, PTL DEF Spec

(* Every reachable state of the stream is well typed.                      *)
THEOREM TypeCorrect == Spec => []TypeOK
<1>1. IInv => TypeOK
  BY DEF IInv
<1> QED BY <1>1, InductiveInvariant, PTL

(* pending_batches_count is the number of futures that are out.            *)
THEOREM CounterIsExact == Spec => []PendingIsOutstanding
<1>1. IInv => PendingIsOutstanding
  BY DEF IInv
<1> QED BY <1>1, InductiveInvariant, PTL

(* No file with a batch of source text is yielded as translated, and none  *)
(* without is yielded as failed.                                           *)
THEOREM FailureIsReported == Spec => []FailedMeansFallback
<1>1. IInv => FailedMeansFallback
  BY DEF IInv
<1> QED BY <1>1, InductiveInvariant, PTL

(* Files of names of their own are yielded whole and in order.             *)
THEOREM FilesAreWhole == Spec => []YieldsWholeFile
<1>1. IInv => YieldsWholeFile
  BY DEF IInv
<1> QED BY <1>1, InductiveInvariant, PTL

(* The stream does not end before it has yielded every file.               *)
LEMMA EndIsComplete == IInv => NothingLeftBehind
<1> SUFFICES ASSUME IInv, NamesDistinct, pc = "end" PROVE Files = Yielded
  BY DEF NothingLeftBehind, Yielded
<1>1. Yielded \subseteq Files
  BY PartsAreBatches DEF IInv, Yielded, Delivery
<1>2. ASSUME NEW f \in Files PROVE f \in Yielded
  <2>1. ~(f >= next)
    BY SizeType DEF IInv, EndIsEmpty, TypeOK
  <2>2. \A c \in FileBatches(f) : stage[c] = "taken"
    <3> SUFFICES ASSUME NEW c \in FileBatches(f) PROVE stage[c] = "taken"
      OBVIOUS
    <3>1. c \in Batches /\ stage[c] # "idle"
      BY <2>1 DEF FileBatches, IInv, SubmittedInOrder
    <3> QED BY <3>1 DEF IInv, EndIsEmpty, Outstanding, TypeOK
  <2> QED BY <2>1, <2>2 DEF IInv, AccountOfFiles, Kept, Over
<1> QED BY <1>1, <1>2

(* Each file of a mod is yielded before the stream ends, if no other has   *)
(* its name.                                                               *)
THEOREM NoFileIsLost == Spec => []NothingLeftBehind
BY EndIsComplete, InductiveInvariant, PTL

-----------------------------------------------------------------------------
(* A step of the stream is one of the contract, or none.                   *)
LEMMA StepIsDelivery ==
  IInv /\ [Next]_vars =>
    [Contract!Next]_<<IF NamesDistinct THEN Files ELSE {}, IF NamesDistinct THEN out ELSE <<>> >>
<1> SUFFICES ASSUME IInv, [Next]_vars
             PROVE  \/ Contract!Next
                    \/ UNCHANGED <<IF NamesDistinct THEN Files ELSE {},
                                   IF NamesDistinct THEN out ELSE <<>> >>
  OBVIOUS
<1>1. name' = name
  BY DEF Next, Main, SubmitFile, YieldEmptyFile, StopSubmitting, WaitForResults, Collect,
         DropResult, KeepResult, YieldFile, MissBatch, Read, Work, StartBatch, TranslateBatch,
         RetryBatch, FallBack, RaiseInBatch, vars
<1>2. NamesDistinct' = NamesDistinct
  BY <1>1 DEF NamesDistinct
<1>3. CASE out' = out
  BY <1>2, <1>3
<1>4. CASE ~NamesDistinct
  BY <1>2, <1>4
<1>5. ASSUME NamesDistinct, NEW f \in Files, NEW failed \in BOOLEAN, f \notin Yielded,
             failed => Size[f] > 0,
             out' = Append(out, [file   |-> f,
                                 parts  |-> [i \in 1..Size[f] |-> <<f, i>>],
                                 failed |-> failed])
      PROVE  Contract!Next
  <2>1. Contract!Handed = Yielded
    BY <1>5 DEF Contract!Handed, Yielded
  <2>2. Contract!Deliver(f, failed)
    BY <1>2, <1>5, <2>1 DEF Contract!Deliver, Contract!Whole
  <2> QED BY <2>2 DEF Contract!Next, Contract!Files, Files
<1>6. CASE NamesDistinct /\ YieldEmptyFile
  <2>1. /\ next \in Files /\ Size[next] = 0 /\ next >= next
        /\ out' = Append(out, [file |-> next, parts |-> <<>>, failed |-> FALSE])
    BY <1>6, SizeType DEF YieldEmptyFile
  <2>2. next \notin Yielded
    BY <1>6, <2>1 DEF IInv, AccountOfFiles
  <2>3. <<>> = [i \in 1..Size[next] |-> <<next, i>>]
    <3>1. <<>> = [i \in 1..0 |-> <<next, i>>]
      OBVIOUS
    <3> QED BY <2>1, <3>1
  <2> QED BY <1>5, <1>6, <2>1, <2>2, <2>3
<1>7. ASSUME NamesDistinct, NEW b \in Batches, YieldFile(b) PROVE Contract!Next
  <2>1. /\ b[1] \in Files /\ Yield(b).file = b[1] /\ Yield(b).failed \in BOOLEAN
        /\ Yield(b).parts = [i \in 1..Size[b[1]] |-> <<b[1], i>>]
        /\ b[1] \notin Yielded /\ Size[b[1]] > 0 /\ out' = Append(out, Yield(b))
    BY <1>7, BatchIsPair, YieldIsEntire, YieldIsSound DEF Entire, Yield
  <2>2. Yield(b) = [file   |-> b[1],
                    parts  |-> [i \in 1..Size[b[1]] |-> <<b[1], i>>],
                    failed |-> Yield(b).failed]
    BY <2>1 DEF Yield
  <2> QED BY <1>5, <1>7, <2>1, <2>2
<1>8. out' = out \/ YieldEmptyFile \/ \E b \in Batches : YieldFile(b)
  BY DEF Next, Main, SubmitFile, StopSubmitting, WaitForResults, Collect, DropResult,
         KeepResult, MissBatch, Work, StartBatch, TranslateBatch, RetryBatch, FallBack,
         RaiseInBatch, vars
<1> QED BY <1>3, <1>4, <1>6, <1>7, <1>8

(* With names of their own, files are handed over as FileDelivery says:    *)
(* each once, whole, in order, marked failed only if it had batches.  That *)
(* all of them are in the end is left to the run.                          *)
THEOREM StreamKeepsContract == Spec => Contract!Safety
<1>1. Init => Contract!Init
  BY DEF Init, Contract!Init, Contract!Files, Files
<1>2. Contract!Safety <=>
        /\ Contract!Init
        /\ [][Contract!Next]_<<IF NamesDistinct THEN Files ELSE {},
                               IF NamesDistinct THEN out ELSE <<>> >>
  BY DEF Contract!Safety
<1> QED BY <1>1, <1>2, StepIsDelivery, InductiveInvariant, PTL DEF Spec

-----------------------------------------------------------------------------
(*                              THE UPDATES                                *)

(* No two entries have one key, and no two files one base name.            *)
OwnKeys  == \A d, e \in Entries : KeyOf[d] = KeyOf[e] => d = e
OwnNames == \A f, g \in DOMAIN NameOf : NameOf[f] = NameOf[g] => f = g

EntryValues == [Entries -> MaybeValues]
Versions    == [source : Sources, values : [Langs -> EntryValues]]
UpdateRecords ==
  [at : {"idle", "prepare", "translate", "build", "create", "store"},
   dry : BOOLEAN, todo : SUBSET Langs, alone : BOOLEAN, lang : Langs \cup {NoLang},
   source : Sources, dirty : SUBSET Entries, plan : EntryValues, version : Nat]
UploadRecords ==
  [at : {"idle", "scan", "store"}, source : Sources, version : Nat,
   found : [Langs -> EntryValues]]

-----------------------------------------------------------------------------
(* Positions: an entry's place among the entries of a set.                 *)
LEMMA SomeEntries ==
  ASSUME NEW S, S \subseteq Entries
  PROVE  S \subseteq Nat /\ IsFiniteSet(S) /\ Cardinality(S) \in Nat
BY UpdateAssumption, FS_Subset, FS_CardinalityType

LEMMA LeastVersion ==
  ASSUME NEW S, S \subseteq Nat, S # {}
  PROVE  Min(S) \in S
<1> DEFINE Below == {p \in Nat \X Nat : p[1] < p[2]}
<1>1. OpToRel(<, Nat) = Below
  BY Zenon DEF OpToRel
<1>2. IsWellFoundedOn(Below, Nat)
  BY <1>1, NatLessThanWellFounded, Zenon
<1>3. PICK x \in S : \A y \in S : <<y, x>> \notin Below
  BY <1>2, WFMin, Zenon
<1>4. \A y \in S : x =< y
  <2> TAKE y \in S
  <2>1. <<y, x>> \notin Below /\ x \in Nat /\ y \in Nat
    BY <1>3
  <2> QED BY <2>1
<1> QED BY <1>4 DEF Min

LEMMA PositionInRange ==
  ASSUME NEW S, S \subseteq Entries, NEW e \in S
  PROVE  Position(e, S) \in 1..Cardinality(S)
<1> DEFINE T == {d \in S : d <= e}
<1>1. IsFiniteSet(S) /\ Cardinality(S) \in Nat /\ e \in Nat
  BY SomeEntries
<1>2. T \in SUBSET S /\ e \in T
  BY <1>1
<1>3. IsFiniteSet(T) /\ Cardinality(T) <= Cardinality(S) /\ Cardinality(T) \in Nat
  BY <1>1, <1>2, FS_Subset, FS_CardinalityType
<1>4. Cardinality(T) # 0
  BY <1>2, <1>3, FS_EmptySet
<1> QED BY <1>1, <1>3, <1>4 DEF Position

LEMMA EarlierPosition ==
  ASSUME NEW S, S \subseteq Entries, NEW d \in S, NEW e \in S, d < e
  PROVE  Position(d, S) < Position(e, S)
<1> DEFINE T == {x \in S : x <= d}
           U == {x \in S : x <= e}
<1>1. IsFiniteSet(S) /\ S \subseteq Nat
  BY SomeEntries
<1>2. T \in SUBSET U /\ U \in SUBSET S /\ e \in U /\ e \notin T
  <2>1. d \in Nat /\ e \in Nat /\ \A x \in S : x \in Nat
    BY <1>1
  <2>2. \A x \in S : x <= d => x <= e
    BY <2>1
  <2>3. ~(e <= d) /\ e <= e
    BY <2>1
  <2> QED BY <2>2, <2>3
<1>3. IsFiniteSet(U)
  BY <1>1, <1>2, FS_Subset
<1>4. IsFiniteSet(T) /\ Cardinality(T) <= Cardinality(U) /\ Cardinality(T) # Cardinality(U)
  BY <1>2, <1>3, FS_Subset
<1>5. Cardinality(T) \in Nat /\ Cardinality(U) \in Nat
  BY <1>3, <1>4, FS_CardinalityType
<1> QED BY <1>4, <1>5 DEF Position

LEMMA PositionIsOwn ==
  ASSUME NEW S, S \subseteq Entries, NEW d \in S, NEW e \in S, Position(d, S) = Position(e, S)
  PROVE  d = e
<1>1. d \in Nat /\ e \in Nat
  BY SomeEntries
<1>2. Position(d, S) \in Nat
  BY PositionInRange
<1>3. ~(d < e) /\ ~(e < d)
  BY <1>2, EarlierPosition
<1> QED BY <1>1, <1>3

LEMMA NthOfPosition ==
  ASSUME NEW S, S \subseteq Entries, NEW e \in S
  PROVE  Nth(Position(e, S), S) = e
BY PositionIsOwn DEF Nth

(* The positions of a set are all of them: as many, and in range.          *)
LEMMA NthIsIn ==
  ASSUME NEW S, S \subseteq Entries, NEW n \in 1..Cardinality(S)
  PROVE  Nth(n, S) \in S /\ Position(Nth(n, S), S) = n
<1> DEFINE m == Cardinality(S)
           g == [e \in S |-> Position(e, S)]
<1>1. IsFiniteSet(S) /\ m \in Nat
  BY SomeEntries
<1>2. IsFiniteSet(1..m) /\ Cardinality(1..m) = m
  BY <1>1, FS_Interval
<1>3. g \in Injection(S, 1..m)
  <2>1. g \in [S -> 1..m]
    BY PositionInRange
  <2>2. \A d, e \in S : g[d] = g[e] => d = e
    BY PositionIsOwn
  <2> QED BY <2>1, <2>2 DEF Injection, IsInjective
<1>4. g \in Surjection(S, 1..m)
  BY <1>2, <1>3, FS_Injection
<1>5. PICK e \in S : g[e] = n
  BY <1>4 DEF Surjection
<1>6. Position(e, S) = n
  BY <1>5
<1> QED BY <1>6 DEF Nth

LEMMA GreatestIsIn ==
  ASSUME NEW S, S \subseteq Entries, S # {}
  PROVE  Max(S) \in S
<1> DEFINE e == Nth(Cardinality(S), S)
           T == {d \in S : d <= e}
<1>1. S \subseteq Nat /\ IsFiniteSet(S) /\ Cardinality(S) \in Nat /\ Cardinality(S) # 0
  BY SomeEntries, FS_EmptySet
<1>2. e \in S /\ Position(e, S) = Cardinality(S)
  <2>1. Cardinality(S) \in 1..Cardinality(S)
    BY <1>1
  <2> QED BY <2>1, NthIsIn
<1>3. T = S
  <2>1. T \in SUBSET S /\ Cardinality(T) = Cardinality(S)
    <3> HIDE DEF e
    <3> QED BY <1>2 DEF Position
  <2> HIDE DEF T
  <2> QED BY <1>1, <2>1, FS_Subset
<1>4. \A d \in S : e >= d
  <2> HIDE DEF e
  <2> QED BY <1>1, <1>2, <1>3
<1> QED BY <1>2, <1>4 DEF Max

-----------------------------------------------------------------------------
(* Sources and their hashes.                                               *)
Apart(Q) == \A s, t \in Q : Hash(s) = Hash(t) => s = t

LEMMA EmptyHash ==
  ASSUME NEW s \in Sources, Hash(s) = Hash(NoSource)
  PROVE  s = NoSource
<1>1. Present(NoSource) = {}
  BY DEF Present, NoSource
<1>2. Cardinality(Present(NoSource)) = 0
  BY <1>1, FS_EmptySet
<1>3. Present(s) \subseteq Entries
  BY DEF Present
<1>4. IsFiniteSet(Present(s)) /\ Cardinality(Present(s)) \in Nat
  BY <1>3, SomeEntries
<1>5. 1..Cardinality(Present(s)) = 1..Cardinality(Present(NoSource))
  <2>1. DOMAIN Hash(s) = 1..Cardinality(Present(s))
    BY DEF Hash
  <2>2. DOMAIN Hash(NoSource) = 1..Cardinality(Present(NoSource))
    BY DEF Hash
  <2> QED BY <2>1, <2>2
<1>6. Cardinality(Present(s)) = 0
  <2> HIDE DEF Present
  <2> QED BY <1>2, <1>4, <1>5
<1>7. Present(s) = {}
  BY <1>4, <1>6, FS_EmptySet
<1> QED BY <1>7 DEF Present, NoSource, Sources

LEMMA ApartWithNone ==
  ASSUME NEW Q, Q \subseteq Sources, Apart(Q), NEW R, R \subseteq Q \cup {NoSource}
  PROVE  Apart(R)
<1> SUFFICES ASSUME NEW s \in R, NEW t \in R, Hash(s) = Hash(t)
             PROVE  s = t
  BY DEF Apart
<1>1. CASE s \in Q /\ t \in Q
  BY <1>1 DEF Apart
<1>2. CASE s \notin Q
  BY <1>2, EmptyHash
<1>3. CASE t \notin Q
  BY <1>3, EmptyHash
<1> QED BY <1>1, <1>2, <1>3

-----------------------------------------------------------------------------
(* Values.                                                                 *)
LEMMA MissingIsNoValue == Missing \notin Values /\ Missing \in MaybeValues
BY UpdateAssumption DEF Missing, Values, MaybeValues

LEMMA UpdateValue ==
  ASSUME NEW t \in Texts
  PROVE  /\ Translation(t) \in Values /\ Translation(t).of = t
         /\ Copy(t) \in Values /\ Copy(t).of = t
         /\ [Copy(t) EXCEPT !.by = "upload"] \in Values
         /\ [Copy(t) EXCEPT !.by = "upload"].by = "upload"
BY DEF Translation, Copy, Values

LEMMA UploadedValue ==
  ASSUME NEW v \in MaybeValues, v # Missing
  PROVE  /\ [v EXCEPT !.by = "upload"] \in Values
         /\ [v EXCEPT !.by = "upload"].by = "upload"
BY DEF MaybeValues, Values

LEMMA NothingIsMissing ==
  Nothing \in EntryValues /\ \A e \in Entries : Nothing[e] = Missing
BY MissingIsNoValue DEF Nothing, EntryValues

LEMMA NoneIsTyped == NoSource \in Sources /\ NoUpdate \in UpdateRecords /\ NoUpload \in UploadRecords
BY NothingIsMissing, UpdateAssumption DEF NoSource, Sources, NoUpdate, NoUpload, UpdateRecords, UploadRecords

LEMMA NoneHasNoVersion == NoUpdate.version = 0 /\ NoUpload.version = 0
BY DEF NoUpdate, NoUpload

-----------------------------------------------------------------------------
(* The types, one by one.                                                  *)
Typed ==
  /\ source \in Sources
  /\ package \in [Langs -> EntryValues]
  /\ archive \in Seq(Versions)
  /\ latest \in [Langs -> 0..Len(archive)]
  /\ update \in UpdateRecords /\ update.version \in 0..Len(archive)
  /\ upload \in UploadRecords /\ upload.version \in 0..Len(archive)
  /\ last \in [Langs -> [source : Sources, failed : SUBSET Entries]]
Bounded ==
  /\ edits \in 0..MaxEdits /\ runs \in 0..MaxRuns /\ uploads \in 0..MaxUploads
  /\ faults \in 0..MaxFaults

LEMMA TypedIsTypeOK == UpdateTypeOK <=> Typed /\ Bounded
<1>1. archive \in Seq(Versions) => Len(archive) \in Nat
  OBVIOUS
<1> HIDE DEF UpdateRecords
<1>2. archive \in Seq(Versions) =>
        (update \in [at : {"idle", "prepare", "translate", "build", "create", "store"},
                 dry : BOOLEAN, todo : SUBSET Langs, alone : BOOLEAN,
                 lang : Langs \cup {NoLang}, source : Sources, dirty : SUBSET Entries,
                 plan : [Entries -> MaybeValues], version : 0..Len(archive)]
          <=> update \in UpdateRecords /\ update.version \in 0..Len(archive))
  BY <1>1 DEF UpdateRecords, EntryValues
<1>3. archive \in Seq(Versions) =>
       (upload \in [at : {"idle", "scan", "store"}, source : Sources, version : 0..Len(archive),
                 found : [Langs -> [Entries -> MaybeValues]]]
          <=> upload \in UploadRecords /\ upload.version \in 0..Len(archive))
  BY <1>1 DEF UploadRecords, EntryValues
<1> QED BY <1>2, <1>3 DEF UpdateTypeOK, Typed, Bounded, EntryValues, Versions

-----------------------------------------------------------------------------
(* The archive: what its two writes change.                                *)
LEMMA VersionsAreTyped ==
  ASSUME archive \in Seq(Versions)
  PROVE  /\ Len(archive) \in Nat
         /\ \A v \in 1..Len(archive) :
              /\ archive[v] \in Versions /\ archive[v].source \in Sources
              /\ \A l \in Langs, e \in Entries : archive[v].values[l][e] \in MaybeValues
<1>1. Len(archive) \in Nat /\ \A v \in 1..Len(archive) : archive[v] \in Versions
  OBVIOUS
<1>2. ASSUME NEW r \in Versions
      PROVE  /\ r.source \in Sources
             /\ \A l \in Langs, e \in Entries : r.values[l][e] \in MaybeValues
  BY DEF Versions, EntryValues
<1> HIDE DEF Versions
<1> QED BY <1>1, <1>2

LEMMA AlikeIsVersion ==
  ASSUME archive \in Seq(Versions), NEW s \in Sources, Alike(s) # {}
  PROVE  /\ Version(s) \in 1..Len(archive)
         /\ Hash(archive[Version(s)].source) = Hash(s)
<1>1. Alike(s) \subseteq Nat
  BY DEF Alike
<1>2. Min(Alike(s)) \in Alike(s)
  BY <1>1, LeastVersion
<1> QED BY <1>2 DEF Version, Alike

LEMMA CreatedKeeps ==
  ASSUME archive \in Seq(Versions), NEW s \in Sources
  PROVE  /\ Created(s) \in Seq(Versions) /\ Len(archive) <= Len(Created(s))
         /\ Version(s) \in 1..Len(Created(s))
         /\ \A v \in 1..Len(archive) : v \in 1..Len(Created(s)) /\ Created(s)[v] = archive[v]
         /\ \A v \in 1..Len(Created(s)) :
              \/ v \in 1..Len(archive)
              \/ Created(s)[v] = [source |-> s, values |-> [l \in Langs |-> Nothing]]
<1> DEFINE new == [source |-> s, values |-> [l \in Langs |-> Nothing]]
<1>0. Len(archive) \in Nat
  BY VersionsAreTyped
<1>1. CASE Alike(s) # {}
  <2>1. Created(s) = archive
    BY <1>1 DEF Created
  <2> QED BY <1>0, <1>1, <2>1, AlikeIsVersion
<1>2. CASE Alike(s) = {}
  <2>1. new \in Versions
    BY NothingIsMissing DEF Versions
  <2>2. Created(s) = Append(archive, new) /\ Version(s) = Len(archive) + 1
    BY <1>2 DEF Created, Version
  <2> HIDE DEF new
  <2>3. Append(archive, new) \in Seq(Versions) /\ Len(Append(archive, new)) = Len(archive) + 1
    BY <2>1
  <2>4. \A v \in 1..Len(archive) : Append(archive, new)[v] = archive[v]
    BY <2>1
  <2>5. Append(archive, new)[Len(archive) + 1] = new
    BY <2>1
  <2>6. \A v \in 1..(Len(archive) + 1) : v \in 1..Len(archive) \/ v = Len(archive) + 1
    BY <1>0
  <2>7. Len(archive) <= Len(archive) + 1 /\ Len(archive) + 1 \in 1..(Len(archive) + 1)
        /\ 1..Len(archive) \subseteq 1..(Len(archive) + 1)
    BY <1>0
  <2>8. \A v \in 1..(Len(archive) + 1) : v \in 1..Len(archive) \/ Append(archive, new)[v] = new
    BY <2>5, <2>6
  <2>9. \A v \in 1..Len(archive) : v \in 1..(Len(archive) + 1)
    BY <2>7
  <2> QED BY <2>2, <2>3, <2>4, <2>7, <2>8, <2>9 DEF new
<1> QED BY <1>1, <1>2

LEMMA CreatedIsApart ==
  ASSUME archive \in Seq(Versions), NEW s \in Sources,
         \A v \in 1..Len(archive) : Hash(archive[v].source) = Hash(s) => archive[v].source = s
  PROVE  Created(s)[Version(s)].source = s
<1>1. CASE Alike(s) # {}
  BY <1>1, AlikeIsVersion DEF Created
<1>2. CASE Alike(s) = {}
  <2> DEFINE new == [source |-> s, values |-> [l \in Langs |-> Nothing]]
  <2>1. Created(s) = Append(archive, new) /\ Version(s) = Len(archive) + 1
    BY <1>2 DEF Created, Version
  <2>2. Append(archive, new)[Len(archive) + 1] = new
    OBVIOUS
  <2>3. new.source = s
    OBVIOUS
  <2> HIDE DEF new
  <2> QED BY <2>1, <2>2, <2>3
<1> QED BY <1>1, <1>2

LEMMA UpsertedKeeps ==
  ASSUME archive \in Seq(Versions), NEW v \in 0..Len(archive), NEW l \in Langs,
         NEW found \in EntryValues
  PROVE  /\ Upserted(v, l, found) \in Seq(Versions)
         /\ Len(Upserted(v, l, found)) = Len(archive)
         /\ \A w \in 1..Len(archive) :
              /\ Upserted(v, l, found)[w].source = archive[w].source
              /\ \A m \in Langs, e \in Entries :
                   Upserted(v, l, found)[w].values[m][e] =
                     IF w = v /\ m = l /\ e \in Rows(v, found) THEN found[e]
                     ELSE archive[w].values[m][e]
<1> DEFINE row(w, m) == [e \in Entries |-> IF e \in Rows(w, found) THEN found[e]
                                           ELSE archive[w].values[m][e]]
           new(w) == [source |-> archive[w].source,
                      values |-> [archive[w].values EXCEPT ![l] = row(w, l)]]
           n == Len(archive)
<1>0. n \in Nat
  BY VersionsAreTyped
<1>1. archive \in [1..n -> Versions]
  OBVIOUS
<1>2. \A w \in 1..n : archive[w] = [source |-> archive[w].source, values |-> archive[w].values]
  BY VersionsAreTyped DEF Versions
<1>3. Upserted(v, l, found) = [w \in 1..n |-> IF w = v THEN new(w) ELSE archive[w]]
  <2> DEFINE changed == [archive[v] EXCEPT !.values = [archive[v].values EXCEPT ![l] = row(v, l)]]
  <2>1. Upserted(v, l, found) = [archive EXCEPT ![v] = changed]
    BY DEF Upserted
  <2>2. v \in 1..n => changed = new(v)
    <3> DEFINE a == archive[v]
               t == row(v, l)
    <3>1. v \in 1..n => a = [source |-> a.source, values |-> a.values]
      BY <1>2
    <3> HIDE DEF a, t
    <3>2. v \in 1..n => [a EXCEPT !.values = [a.values EXCEPT ![l] = t]]
                        = [source |-> a.source, values |-> [a.values EXCEPT ![l] = t]]
      BY <3>1
    <3> QED BY <3>2 DEF a, t
  <2>3. [archive EXCEPT ![v] = changed] = [w \in 1..n |-> IF w = v THEN changed ELSE archive[w]]
    <3> HIDE DEF changed
    <3> QED BY <1>1
  <2>4. \A w \in 1..n : (IF w = v THEN changed ELSE archive[w]) = (IF w = v THEN new(w) ELSE archive[w])
    <3> HIDE DEF changed, new
    <3> QED BY <2>2
  <2> HIDE DEF changed, new
  <2> QED BY <2>1, <2>3, <2>4
<1>4. \A w \in 1..n : row(w, l) \in EntryValues
  BY VersionsAreTyped DEF EntryValues
<1>5. \A w \in 1..n : new(w) \in Versions
  BY <1>4, VersionsAreTyped DEF Versions
<1>6. Upserted(v, l, found) \in [1..n -> Versions]
  <2> HIDE DEF new
  <2> QED BY <1>1, <1>3, <1>5
<1>7. Upserted(v, l, found) \in Seq(Versions) /\ Len(Upserted(v, l, found)) = n
  <2> HIDE DEF n
  <2> QED BY <1>0, <1>6
<1>8. ASSUME NEW w \in 1..n
      PROVE  /\ Upserted(v, l, found)[w].source = archive[w].source
             /\ \A m \in Langs, e \in Entries :
                   Upserted(v, l, found)[w].values[m][e] =
                     IF w = v /\ m = l /\ e \in Rows(v, found) THEN found[e]
                     ELSE archive[w].values[m][e]
  <2>1. CASE w # v
    BY <1>3, <2>1
  <2>2. CASE w = v
    <3>1. Upserted(v, l, found)[w] = new(w)
      BY <1>3, <2>2
    <3>2. new(w).source = archive[w].source /\ new(w).values = [archive[w].values EXCEPT ![l] = row(w, l)]
      OBVIOUS
    <3>3. archive[w].values \in [Langs -> EntryValues]
      BY VersionsAreTyped DEF Versions
    <3>4. ASSUME NEW m \in Langs, NEW e \in Entries
          PROVE  new(w).values[m][e] = IF m = l /\ e \in Rows(w, found) THEN found[e]
                                       ELSE archive[w].values[m][e]
      <4>1. new(w).values[m] = IF m = l THEN row(w, l) ELSE archive[w].values[m]
        BY <3>2, <3>3
      <4>2. row(w, l)[e] = IF e \in Rows(w, found) THEN found[e] ELSE archive[w].values[l][e]
        OBVIOUS
      <4> HIDE DEF new, row
      <4> QED BY <4>1, <4>2
    <3> HIDE DEF new, row
    <3> QED BY <2>2, <3>1, <3>2, <3>4
  <2> QED BY <2>1, <2>2
<1> HIDE DEF new
<1> QED BY <1>7, <1>8

-----------------------------------------------------------------------------
(* Every step keeps the types.                                             *)
(* An update asks for entries it has read, for a language it was given.    *)
TaskFits ==
  /\ update.dirty \subseteq Present(update.source)
  /\ update.at \in {"translate", "build", "create", "store"} => update.lang \in Langs

LEMMA ImageOfEntries ==
  ASSUME NEW S, S \subseteq Entries, NEW g, NEW T, T \subseteq {g[e] : e \in S}
  PROVE  IsFiniteSet(T) /\ Cardinality(T) \in Nat
<1> DEFINE U == {g[e] : e \in S}
           h == [e \in S |-> g[e]]
<1>1. h \in Surjection(S, U)
  BY DEF Surjection
<1>2. IsFiniteSet(U)
  BY <1>1, SomeEntries, FS_Surjection
<1> QED BY <1>2, FS_Subset, FS_CardinalityType

LEMMA StepsStayBounded ==
  ASSUME Typed, Bounded, TaskFits, [UpdateNext]_updateVars
  PROVE  Bounded'
<1> USE UpdateAssumption DEF Bounded
<1>1. ASSUME NEW e \in Entries, NEW t \in Texts \cup {NoText}, Edit(e, t)
      PROVE  Bounded'
  BY <1>1 DEF Edit
<1>2. ASSUME NEW langs \in SUBSET Langs, NEW dry \in BOOLEAN, Begin(langs, dry)
      PROVE  Bounded'
  <2>1. Cardinality(langs) \in Nat
    BY FS_Subset, FS_CardinalityType
  <2> QED BY <1>2, <2>1 DEF Begin
<1>3. ASSUME NEW fell, Translate(fell)
      PROVE  Bounded'
  <2> DEFINE g == [e \in Entries |-> NameOf[FileOf[e]]]
  <2>1. update.dirty \subseteq Entries
    BY DEF Typed, UpdateRecords
  <2>2. fell \subseteq {g[e] : e \in update.dirty}
    BY <1>3, <2>1 DEF Translate
  <2>3. Cardinality(fell) \in Nat
    <3> HIDE DEF g
    <3> QED BY <2>1, <2>2, ImageOfEntries
  <2> QED BY <1>3, <2>3 DEF Translate
<1>4. ASSUME NEW lost, Build(lost)
      PROVE  Bounded'
  <2>1. Present(update.source) \subseteq Entries
    BY DEF Present
  <2>2. Cardinality(lost) \in Nat
    BY <1>4, <2>1, ImageOfEntries DEF Build
  <2> QED BY <1>4, <2>2 DEF Build
<1>5. ASSUME NEW l \in Langs, Prepare(l) \/ UploadResults(l)
      PROVE  Bounded'
  BY <1>5 DEF Prepare, UploadResults, bounds
<1>6. CASE TranslateRaises \/ ArchiveFails \/ Restart
  BY <1>6 DEF TranslateRaises, ArchiveFails, Restart
<1>7. CASE CreateVersion \/ ArchiveResults \/ End \/ ScanPackages \/ EndUpload \/ UNCHANGED updateVars
  BY <1>7 DEF CreateVersion, ArchiveResults, End, ScanPackages, EndUpload, bounds, updateVars
<1>8. CASE UploadVersion
  BY <1>8 DEF UploadVersion
<1> QED
  BY <1>1, <1>2, <1>3, <1>4, <1>5, <1>6, <1>7, <1>8 DEF UpdateNext, Update, Upload

LEMMA BaselineInRange ==
  ASSUME Typed, NEW l \in Langs
  PROVE  /\ Baseline(l) \in 0..Len(archive)
         /\ Len(archive) # 0 => Baseline(l) \in 1..Len(archive)
<1>1. Len(archive) \in Nat /\ latest[l] \in 0..Len(archive)
  BY VersionsAreTyped DEF Typed
<1> QED BY <1>1 DEF Baseline

LEMMA KnownIsArchived ==
  ASSUME Typed, NEW l \in Langs, NEW e \in Entries, Known(l, e) # {}
  PROVE  Len(archive) # 0 /\ Known(l, e) \subseteq Entries
BY DEF Known

LEMMA ArchivedIsValue ==
  ASSUME Typed, NEW l \in Langs, NEW d \in Entries, Len(archive) # 0
  PROVE  Archived(l, d) \in MaybeValues
<1> DEFINE same == Translated(l, KeyOf[d])
<1>1. CASE same = {}
  BY <1>1, MissingIsNoValue DEF Archived
<1>2. CASE same # {}
  <2>1. same \subseteq Entries
    BY DEF Translated
  <2>3. Max(same) \in same
    <3> HIDE DEF same
    <3> QED BY <1>2, <2>1, GreatestIsIn
  <2>4. Archived(l, d) = archive[Baseline(l)].values[l][Max(same)]
    BY <1>2 DEF Archived
  <2> HIDE DEF same
  <2> QED BY <2>1, <2>3, <2>4, BaselineInRange, VersionsAreTyped DEF Typed
<1> QED BY <1>1, <1>2

LEMMA ResultIsValue ==
  ASSUME Typed, TaskFits, NEW fell, NEW e \in update.dirty
  PROVE  Result(e, fell) \in Values
<1> DEFINE f == FileOf[e]
           owner == Max(Namesakes(f))
           n == Position(e, DirtyOf(f))
<1>1. \A d \in update.dirty : d \in Entries /\ update.source[d] \in Texts
  BY DEF Typed, UpdateRecords, TaskFits, Present, Sources
<1>2. \A g : DirtyOf(g) \subseteq update.dirty /\ DirtyOf(g) \subseteq Entries
  BY <1>1 DEF DirtyOf
<1>3. n \in Nat /\ n >= 1
  <2>1. e \in DirtyOf(f)
    BY DEF DirtyOf
  <2>2. n \in 1..Cardinality(DirtyOf(f)) /\ Cardinality(DirtyOf(f)) \in Nat
    BY <1>2, <2>1, PositionInRange, SomeEntries
  <2> QED BY <2>2
<1>4. n <= Cardinality(DirtyOf(owner)) => Nth(n, DirtyOf(owner)) \in update.dirty
  <2> DEFINE o == DirtyOf(owner)
  <2>1. o \subseteq Entries /\ o \subseteq update.dirty /\ Cardinality(o) \in Nat
    BY <1>2, SomeEntries
  <2> HIDE DEF o, n
  <2>2. n <= Cardinality(o) => n \in 1..Cardinality(o)
    BY <1>3, <2>1
  <2>3. n <= Cardinality(o) => Nth(n, o) \in update.dirty
    BY <2>1, <2>2, NthIsIn
  <2> QED BY <2>3 DEF o
<1>5. \A d \in update.dirty : Translation(update.source[d]) \in Values /\ Copy(update.source[d]) \in Values
  BY <1>1, UpdateValue
<1>6. Result(e, fell) =
        IF Cardinality(Namesakes(f)) = 1 /\ NameOf[f] \notin fell
          THEN Translation(update.source[e])
          ELSE IF n <= Cardinality(DirtyOf(owner))
            THEN Copy(update.source[Nth(n, DirtyOf(owner))])
            ELSE Copy(update.source[e])
  BY DEF Result
<1> HIDE DEF n, owner, f
<1> QED BY <1>4, <1>5, <1>6

LEMMA FoundIsValue ==
  ASSUME Typed, NEW l \in Langs
  PROVE  /\ Found(l) \in EntryValues
         /\ \A e \in Entries : Found(l)[e].by # "update"
<1> SUFFICES ASSUME NEW e \in Entries
             PROVE  Found(l)[e] \in MaybeValues /\ Found(l)[e].by # "update"
  BY DEF EntryValues, Found
<1>1. package[l][e] \in MaybeValues /\ (upload.source[e] # NoText => upload.source[e] \in Texts)
  BY DEF Typed, EntryValues, UploadRecords, Sources
<1>2. CASE Match(l, e)
  <2>1. Found(l)[e] = [package[l][e] EXCEPT !.by = "upload"] /\ package[l][e] # Missing
    BY <1>2 DEF Found, Match
  <2> QED BY <1>1, <2>1, UploadedValue DEF MaybeValues
<1>3. CASE Found(l)[e] = [Copy(upload.source[e]) EXCEPT !.by = "upload"] /\ upload.source[e] # NoText
  BY <1>1, <1>3, UpdateValue DEF MaybeValues
<1>4. CASE Found(l)[e] = Missing
  BY <1>4, MissingIsNoValue DEF Missing
<1> QED BY <1>2, <1>3, <1>4 DEF Found

LEMMA EmptiedIsTyped ==
  ASSUME Typed, NEW langs
  PROVE  Empty(langs) \in [Langs -> EntryValues]
BY NothingIsMissing DEF Empty, Typed

(* A task's record changes without leaving its type.                       *)
LEMMA BeginKeepsTypes ==
  ASSUME Typed, TaskFits, NEW langs \in SUBSET Langs, NEW dry \in BOOLEAN, Begin(langs, dry)
  PROVE  Typed' /\ TaskFits'
<1>1. update' = [NoUpdate EXCEPT !.at = "prepare", !.dry = dry, !.todo = langs,
                                 !.alone = (Cardinality(langs) = 1), !.source = source]
  BY DEF Begin
<1>2. update' \in UpdateRecords /\ update'.version = 0 /\ update'.dirty = {} /\ update'.at = "prepare"
  BY <1>1, NoneIsTyped DEF UpdateRecords, NoUpdate, Typed
<1>3. package' \in [Langs -> EntryValues]
  BY EmptiedIsTyped DEF Begin, Typed
<1>4. Len(archive) \in Nat
  BY VersionsAreTyped DEF Typed
<1> QED BY <1>2, <1>3, <1>4 DEF Begin, Typed, TaskFits, db

LEMMA PrepareKeepsTypes ==
  ASSUME Typed, TaskFits, NEW l \in Langs, Prepare(l)
  PROVE  Typed' /\ TaskFits'
<1> DEFINE here  == Present(update.source)
           dirty == {e \in here : ~Unchanged(l, e)}
           plan  == [e \in Entries |->
                      IF e \in here \ dirty THEN Archived(l, CHOOSE d \in Known(l, e) : TRUE)
                                            ELSE Missing]
<1>1. plan \in EntryValues
  <2> SUFFICES ASSUME NEW e \in Entries
               PROVE  plan[e] \in MaybeValues
    BY DEF EntryValues
  <2>1. CASE e \in here \ dirty
    <3>1. Unchanged(l, e)
      BY <2>1
    <3>2. (CHOOSE d \in Known(l, e) : TRUE) \in Known(l, e)
      BY <3>1 DEF Unchanged
    <3>3. (CHOOSE d \in Known(l, e) : TRUE) \in Entries /\ Len(archive) # 0
      BY <3>2, KnownIsArchived
    <3>4. Archived(l, CHOOSE d \in Known(l, e) : TRUE) \in MaybeValues
      BY <3>3, ArchivedIsValue
    <3> QED BY <2>1, <3>4
  <2>2. CASE ~(e \in here \ dirty)
    BY <2>2, MissingIsNoValue
  <2> QED BY <2>1, <2>2
<1>2. dirty \subseteq Entries /\ dirty \subseteq here
  BY DEF Present
<1>3. update' = (IF update.dry
        THEN [update EXCEPT !.todo = @ \ {l}]
        ELSE [update EXCEPT !.at = "translate", !.todo = @ \ {l}, !.lang = l,
                            !.dirty = dirty, !.plan = plan])
  BY DEF Prepare
<1> HIDE DEF dirty, plan
<1>4. update \in UpdateRecords /\ update.version \in 0..Len(archive)
  BY DEF Typed
<1>5. /\ update' \in UpdateRecords /\ update'.version = update.version
      /\ update'.source = update.source
      /\ update'.dirty \in {update.dirty, dirty}
      /\ update'.at = "translate" => update'.lang \in Langs
      /\ update'.at \in {"prepare", "translate"}
  <2>1. CASE update.dry
    BY <1>3, <1>4, <2>1 DEF UpdateRecords, Prepare
  <2>2. CASE ~update.dry
    BY <1>1, <1>2, <1>3, <1>4, <2>2 DEF UpdateRecords
  <2> QED BY <2>1, <2>2
<1>6. package' \in [Langs -> EntryValues]
  BY EmptiedIsTyped DEF Prepare, Emptied, Typed
<1>7. Present(update.source)' = Present(update.source)
  BY <1>5 DEF Present
<1> QED BY <1>2, <1>5, <1>6, <1>7 DEF Prepare, Typed, TaskFits, db

LEMMA TranslateKeepsTypes ==
  ASSUME Typed, TaskFits, NEW fell, Translate(fell)
  PROVE  Typed' /\ TaskFits'
<1> DEFINE plan == [e \in Entries |-> IF e \in update.dirty THEN Result(e, fell) ELSE update.plan[e]]
<1>1. plan \in EntryValues
  BY ResultIsValue DEF EntryValues, MaybeValues, Typed, UpdateRecords
<1>2. update' = [update EXCEPT !.at = "build", !.plan = plan]
  BY DEF Translate
<1> HIDE DEF plan
<1>3. /\ update' \in UpdateRecords /\ update'.version = update.version
      /\ update'.source = update.source /\ update'.dirty = update.dirty
      /\ update'.lang = update.lang /\ update.at = "translate"
  BY <1>1, <1>2 DEF UpdateRecords, Typed, Translate
<1>4. Present(update.source)' = Present(update.source)
  BY <1>3 DEF Present
<1> QED BY <1>3, <1>4 DEF Translate, Typed, TaskFits, db, files

LEMMA BuildKeepsTypes ==
  ASSUME Typed, TaskFits, NEW lost, Build(lost)
  PROVE  Typed' /\ TaskFits'
<1> DEFINE written == [e \in Entries |-> IF FileOf[e] \in lost THEN Missing ELSE update.plan[e]]
<1>1. written \in EntryValues
  BY MissingIsNoValue DEF EntryValues, Typed, UpdateRecords
<1>2. update' = [update EXCEPT !.at = "create"] /\ package' = [package EXCEPT ![update.lang] = written]
  BY DEF Build
<1> HIDE DEF written
<1>3. /\ update' \in UpdateRecords /\ update'.version = update.version
      /\ update'.source = update.source /\ update'.dirty = update.dirty
      /\ update'.lang = update.lang /\ update.at = "build"
  BY <1>2 DEF UpdateRecords, Typed, Build
<1>4. package' \in [Langs -> EntryValues]
  BY <1>1, <1>2 DEF Typed
<1>5. Present(update.source)' = Present(update.source)
  BY <1>3 DEF Present
<1> QED BY <1>3, <1>4, <1>5 DEF Build, Typed, TaskFits, db

LEMMA EndingKeepsTypes ==
  ASSUME Typed, TaskFits, update' \in {update, NoUpdate}, upload' \in {upload, NoUpload},
         UNCHANGED <<files, db, last>>
  PROVE  Typed' /\ TaskFits'
<1>1. Len(archive) \in Nat
  BY VersionsAreTyped DEF Typed
<1>2. update' \in UpdateRecords /\ update'.version \in 0..Len(archive)
  BY <1>1, NoneIsTyped, NoneHasNoVersion DEF Typed
<1>3. upload' \in UploadRecords /\ upload'.version \in 0..Len(archive)
  BY <1>1, NoneIsTyped, NoneHasNoVersion DEF Typed
<1>4. TaskFits'
  BY DEF TaskFits, NoUpdate, Present
<1> QED BY <1>2, <1>3, <1>4 DEF Typed, files, db

LEMMA OnwardIsTyped ==
  ASSUME NEW u \in UpdateRecords
  PROVE  /\ Onward(u) \in UpdateRecords /\ Onward(u).version = 0 /\ Onward(u).dirty = {}
         /\ Onward(u).source = u.source /\ Onward(u).plan = Nothing
         /\ Onward(u).at = "prepare"
BY NothingIsMissing DEF Onward, UpdateRecords

LEMMA CreateVersionKeepsTypes ==
  ASSUME Typed, TaskFits, CreateVersion
  PROVE  Typed' /\ TaskFits'
<1>1. update.source \in Sources /\ archive \in Seq(Versions) /\ Len(archive) \in Nat
  BY VersionsAreTyped DEF Typed, UpdateRecords
<1>2. /\ archive' = Created(update.source)
      /\ update' = [update EXCEPT !.at = "store", !.version = Version(update.source)]
  BY DEF CreateVersion
<1>3. archive' \in Seq(Versions) /\ Len(archive) <= Len(archive') /\ Len(archive') \in Nat
      /\ Version(update.source) \in 1..Len(archive')
  <2>1. Created(update.source) \in Seq(Versions) /\ Len(archive) <= Len(Created(update.source))
        /\ Version(update.source) \in 1..Len(Created(update.source))
    BY <1>1, CreatedKeeps
  <2>2. Len(Created(update.source)) \in Nat
    BY <2>1
  <2> QED BY <1>2, <2>1, <2>2
<1>4. /\ update' \in UpdateRecords /\ update'.version \in 0..Len(archive')
      /\ update'.source = update.source /\ update'.dirty = update.dirty
      /\ update'.lang = update.lang /\ update.at = "create"
  <2>1. Version(update.source) \in Nat /\ Version(update.source) \in 0..Len(archive')
    BY <1>3
  <2> QED BY <1>2, <2>1 DEF UpdateRecords, Typed, CreateVersion
<1>5. Present(update.source)' = Present(update.source)
  BY <1>4 DEF Present
<1>6. 0..Len(archive) \subseteq 0..Len(archive')
  BY <1>1, <1>3
<1>7. UNCHANGED <<source, package, latest, upload, last>>
  BY DEF CreateVersion, files
<1>8. TaskFits'
  BY <1>4, <1>5 DEF TaskFits
<1>9. latest' \in [Langs -> 0..Len(archive')] /\ upload'.version \in 0..Len(archive')
  BY <1>6, <1>7 DEF Typed
<1> QED BY <1>3, <1>4, <1>7, <1>8, <1>9 DEF Typed

LEMMA ArchiveResultsKeepsTypes ==
  ASSUME Typed, TaskFits, ArchiveResults
  PROVE  Typed' /\ TaskFits'
<1> DEFINE failed == {e \in Present(update.source) : IsCopy(update.plan[e], update.source[e])}
<1>1. /\ update \in UpdateRecords /\ update.version \in 0..Len(archive)
      /\ archive \in Seq(Versions) /\ Len(archive) \in Nat
      /\ update.plan \in EntryValues /\ update.source \in Sources
      /\ update.lang \in Langs
  BY VersionsAreTyped DEF Typed, UpdateRecords, TaskFits, ArchiveResults
<1>2. archive' \in Seq(Versions) /\ Len(archive') = Len(archive)
  BY <1>1, UpsertedKeeps DEF ArchiveResults
<1>3. latest' \in [Langs -> 0..Len(archive')]
  BY <1>1, <1>2 DEF ArchiveResults, Typed
<1>4. failed \subseteq Entries
  BY DEF Present
<1>5. last' = [last EXCEPT ![update.lang] = [source |-> update.source, failed |-> failed]]
  BY DEF ArchiveResults
<1> HIDE DEF failed
<1>6. last' \in [Langs -> [source : Sources, failed : SUBSET Entries]]
  BY <1>1, <1>4, <1>5 DEF Typed
<1>7. /\ update' \in UpdateRecords /\ update'.version = 0 /\ update'.dirty = {} /\ update'.at = "prepare"
  BY <1>1, OnwardIsTyped DEF ArchiveResults
<1>8. UNCHANGED <<source, package, upload>>
  BY DEF ArchiveResults, files
<1> QED BY <1>1, <1>2, <1>3, <1>6, <1>7, <1>8 DEF Typed, TaskFits

LEMMA ArchiveFailsKeepsTypes ==
  ASSUME Typed, TaskFits, ArchiveFails
  PROVE  Typed' /\ TaskFits'
<1>1. update' = Onward(update) /\ UNCHANGED <<files, db, upload, last>>
  BY DEF ArchiveFails
<1>2. /\ update' \in UpdateRecords /\ update'.version = 0 /\ update'.dirty = {} /\ update'.at = "prepare"
  BY <1>1, OnwardIsTyped DEF Typed
<1>3. Len(archive) \in Nat
  BY VersionsAreTyped DEF Typed
<1> QED BY <1>1, <1>2, <1>3 DEF Typed, TaskFits, files, db

LEMMA UploadVersionKeepsTypes ==
  ASSUME Typed, TaskFits, UploadVersion
  PROVE  Typed' /\ TaskFits'
<1>1. source \in Sources /\ archive \in Seq(Versions) /\ Len(archive) \in Nat
  BY VersionsAreTyped DEF Typed
<1>2. /\ archive' = Created(source)
      /\ upload' = [NoUpload EXCEPT !.at = "scan", !.source = source, !.version = Version(source)]
  BY DEF UploadVersion
<1>3. archive' \in Seq(Versions) /\ Len(archive) <= Len(archive') /\ Len(archive') \in Nat
      /\ Version(source) \in 1..Len(archive')
  <2>1. Created(source) \in Seq(Versions) /\ Len(archive) <= Len(Created(source))
        /\ Version(source) \in 1..Len(Created(source))
    BY <1>1, CreatedKeeps
  <2>2. Len(Created(source)) \in Nat
    BY <2>1
  <2> QED BY <1>2, <2>1, <2>2
<1>4. upload' \in UploadRecords /\ upload'.version \in 0..Len(archive')
  <2>1. NoUpload \in UploadRecords /\ Version(source) \in Nat
    BY <1>3, NoneIsTyped
  <2>2. upload' \in UploadRecords /\ upload'.version = Version(source)
    BY <1>1, <1>2, <2>1 DEF UploadRecords
  <2>3. Version(source) \in 0..Len(archive')
    BY <1>3
  <2> QED BY <2>2, <2>3
<1>5. 0..Len(archive) \subseteq 0..Len(archive')
  BY <1>1, <1>3
<1>6. UNCHANGED <<source, package, latest, update, last>>
  BY DEF UploadVersion, files
<1>7. TaskFits'
  BY <1>6 DEF TaskFits, Present
<1>8. latest' \in [Langs -> 0..Len(archive')] /\ update'.version \in 0..Len(archive')
  BY <1>5, <1>6 DEF Typed
<1> QED BY <1>3, <1>4, <1>6, <1>7, <1>8 DEF Typed

LEMMA ScanKeepsTypes ==
  ASSUME Typed, TaskFits, ScanPackages
  PROVE  Typed' /\ TaskFits'
<1> DEFINE all == [l \in Langs |-> Found(l)]
<1>1. all \in [Langs -> EntryValues]
  BY FoundIsValue
<1>2. upload' = [upload EXCEPT !.at = "store", !.source = NoSource, !.found = all]
  BY DEF ScanPackages
<1> HIDE DEF all
<1>3. upload' \in UploadRecords /\ upload'.version = upload.version
  BY <1>1, <1>2, NoneIsTyped DEF UploadRecords, Typed
<1> QED BY <1>3 DEF ScanPackages, Typed, TaskFits, Present, files, db

LEMMA UploadResultsKeepsTypes ==
  ASSUME Typed, TaskFits, NEW l \in Langs, UploadResults(l)
  PROVE  Typed' /\ TaskFits'
<1>1. /\ upload \in UploadRecords /\ upload.version \in 0..Len(archive)
      /\ archive \in Seq(Versions) /\ Len(archive) \in Nat
      /\ upload.found[l] \in EntryValues
  BY VersionsAreTyped DEF Typed, UploadRecords
<1>2. archive' \in Seq(Versions) /\ Len(archive') = Len(archive)
  BY <1>1, UpsertedKeeps DEF UploadResults
<1>3. latest' \in [Langs -> 0..Len(archive')]
  BY <1>1, <1>2 DEF UploadResults, Typed
<1>4. NoLast \in [source : Sources, failed : SUBSET Entries]
  BY NoneIsTyped DEF NoLast
<1>5. last' \in [Langs -> [source : Sources, failed : SUBSET Entries]]
  BY <1>4 DEF UploadResults, Typed
<1>6. upload' \in UploadRecords /\ upload'.version = upload.version
  <2>1. upload' = [upload EXCEPT !.found = [upload.found EXCEPT ![l] = Nothing]]
    BY DEF UploadResults
  <2>2. [upload.found EXCEPT ![l] = Nothing] \in [Langs -> EntryValues]
    BY <1>1, NothingIsMissing DEF UploadRecords
  <2> QED BY <1>1, <2>1, <2>2 DEF UploadRecords
<1>7. UNCHANGED <<source, package, update>>
  BY DEF UploadResults, files
<1> QED BY <1>1, <1>2, <1>3, <1>5, <1>6, <1>7 DEF Typed, TaskFits, Present

LEMMA StepsKeepTypes ==
  ASSUME Typed, TaskFits, [UpdateNext]_updateVars
  PROVE  Typed' /\ TaskFits'
<1>1. ASSUME NEW e \in Entries, NEW t \in Texts \cup {NoText}, Edit(e, t)
      PROVE  Typed' /\ TaskFits'
  <2>1. source' \in Sources
    BY <1>1 DEF Edit, Typed, Sources
  <2> QED BY <1>1, <2>1 DEF Edit, Typed, TaskFits, Present, db
<1>2. CASE TranslateRaises \/ End \/ EndUpload \/ Restart \/ UNCHANGED updateVars
  <2>1. update' \in {update, NoUpdate} /\ upload' \in {upload, NoUpload} /\ UNCHANGED <<files, db, last>>
    BY <1>2 DEF TranslateRaises, End, EndUpload, Restart, updateVars
  <2> QED BY <2>1, EndingKeepsTypes
<1>3. ASSUME NEW l \in Langs, Prepare(l) \/ UploadResults(l)
      PROVE  Typed' /\ TaskFits'
  BY <1>3, PrepareKeepsTypes, UploadResultsKeepsTypes
<1>4. ASSUME NEW langs \in SUBSET Langs, NEW dry \in BOOLEAN, Begin(langs, dry)
      PROVE  Typed' /\ TaskFits'
  BY <1>4, BeginKeepsTypes
<1>5. ASSUME NEW s, Translate(s) \/ Build(s)
      PROVE  Typed' /\ TaskFits'
  BY <1>5, TranslateKeepsTypes, BuildKeepsTypes
<1>6. CASE CreateVersion \/ ArchiveResults \/ ArchiveFails \/ UploadVersion \/ ScanPackages
  BY <1>6, CreateVersionKeepsTypes, ArchiveResultsKeepsTypes, ArchiveFailsKeepsTypes,
     UploadVersionKeepsTypes, ScanKeepsTypes
<1> QED
  BY <1>1, <1>2, <1>3, <1>4, <1>5, <1>6 DEF UpdateNext, Update, Upload

LEMMA InitialTypes ==
  ASSUME UpdateInit
  PROVE  Typed /\ Bounded /\ TaskFits
<1>1. archive = << >> /\ Len(archive) = 0 /\ archive \in Seq(Versions)
  BY DEF UpdateInit
<1>2. source \in Sources
  BY DEF UpdateInit, Sources
<1>3. update = NoUpdate /\ upload = NoUpload
  BY DEF UpdateInit
<1>4. package \in [Langs -> EntryValues] /\ latest \in [Langs -> 0..Len(archive)]
  BY <1>1, NothingIsMissing DEF UpdateInit
<1>5. last \in [Langs -> [source : Sources, failed : SUBSET Entries]]
  BY NoneIsTyped DEF UpdateInit, NoLast
<1>6. TaskFits
  BY <1>3 DEF TaskFits, NoUpdate
<1>7. Bounded
  BY UpdateAssumption DEF UpdateInit, Bounded
<1> QED BY <1>1, <1>2, <1>3, <1>4, <1>5, <1>6, <1>7, NoneIsTyped DEF Typed, NoUpdate, NoUpload

(* Every variable of an update keeps its type, for any keys and names and  *)
(* any edit: what is looked up by key, matched by position or stored by    *)
(* hash is always there.                                                   *)
THEOREM UpdateTypes == UpdateSpec => []UpdateTypeOK
<1> DEFINE TInv == Typed /\ Bounded /\ TaskFits
<1>1. UpdateInit => TInv
  BY InitialTypes
<1>2. TInv /\ [UpdateNext]_updateVars => TInv'
  BY StepsKeepTypes, StepsStayBounded
<1>3. TInv => UpdateTypeOK
  BY TypedIsTypeOK
<1> QED BY <1>1, <1>2, <1>3, PTL DEF UpdateSpec

-----------------------------------------------------------------------------
(* The strengthening.                                                      *)
(* What the theorems on texts assume: edits that give a source no other    *)
(* source's hash, and keys and base names of one owner.                    *)
Plain == ~Renames /\ OwnKeys /\ OwnNames

(* Two sources that are archived, being read or on disk have one hash only *)
(* if they are the same.                                                   *)
HashesApart == Apart(InUse \cup {source})

(* A source that is read has an entry.                                     *)
SourcesHold ==
  /\ Present(source) # {}
  /\ update.at # "idle" => Present(update.source) # {}
  /\ upload.at = "scan" => Present(upload.source) # {}

(* The version an update stores into is that of its source.                *)
VersionHolds ==
  /\ update.at = "store" => update.version # 0 /\ archive[update.version].source = update.source
  /\ upload.at # "idle" => upload.version # 0

(* What an upload found is marked as its own.                              *)
UploadMarks == \A l \in Langs, e \in Entries : upload.found[l][e].by # "update"

(* What is planned by an update comes from the text it has read; and all   *)
(* is planned once it has been translated.                                 *)
PlanFits == \A e \in Entries : update.plan[e].by = "update" => update.plan[e].of = update.source[e]
PlanFull ==
  /\ update.at = "translate" =>
       \A e \in Present(update.source) \ update.dirty : update.plan[e] # Missing
  /\ update.at \in {"build", "create", "store"} =>
       \A e \in Present(update.source) : update.plan[e] # Missing

(* What is written of an entry is what was planned, if its file could be.  *)
WrittenIsPlanned ==
  update.at \in {"create", "store"} =>
    \A e \in Entries : package[update.lang][e] \in {update.plan[e], Missing}

(* What an update archived last is what a comparison will find.            *)
LastHolds(l, v, s) ==
  /\ v # 0 /\ archive[v].source = s
  /\ \A e \in Present(s) : archive[v].values[l][e] # Missing
  /\ last[l].failed = {e \in Present(s) : IsCopy(archive[v].values[l][e], s[e])}
LastIsArchived == \A l \in Langs : last[l] # NoLast => LastHolds(l, latest[l], last[l].source)

-----------------------------------------------------------------------------
(* No version changes its source, and new ones have that of a task or the  *)
(* one on disk.                                                            *)
LEMMA SourcesStay ==
  ASSUME Typed, TaskFits, [UpdateNext]_updateVars
  PROVE  /\ Len(archive) <= Len(archive')
         /\ \A v \in 1..Len(archive) : v \in 1..Len(archive') /\ archive'[v].source = archive[v].source
         /\ \A v \in 1..Len(archive') : archive'[v].source \in InUse \cup {source}
<1>0. /\ archive \in Seq(Versions) /\ Len(archive) \in Nat /\ source \in Sources
      /\ update \in UpdateRecords /\ upload \in UploadRecords
      /\ update.source \in Sources
  BY VersionsAreTyped DEF Typed, UpdateRecords
<1>1. ASSUME NEW s \in {update.source, source}, archive' = Created(s)
      PROVE  /\ Len(archive) <= Len(archive')
             /\ \A v \in 1..Len(archive) : v \in 1..Len(archive') /\ archive'[v].source = archive[v].source
             /\ \A v \in 1..Len(archive') : archive'[v].source \in InUse \cup {source}
  <2>1. s \in Sources
    BY <1>0
  <2>2. \A v \in 1..Len(Created(s)) : Created(s)[v].source \in InUse \cup {source}
    <3>1. s \in InUse \cup {source} /\ \A v \in 1..Len(archive) : archive[v].source \in InUse
      BY DEF InUse
    <3>2. [source |-> s, values |-> [l \in Langs |-> Nothing]].source = s
      OBVIOUS
    <3> QED BY <1>0, <2>1, <3>1, <3>2, CreatedKeeps
  <2> QED BY <1>0, <1>1, <2>1, <2>2, CreatedKeeps
<1>2. ASSUME NEW v \in 0..Len(archive), NEW l \in Langs, NEW found \in EntryValues,
             archive' = Upserted(v, l, found)
      PROVE  /\ Len(archive) <= Len(archive')
             /\ \A w \in 1..Len(archive) : w \in 1..Len(archive') /\ archive'[w].source = archive[w].source
             /\ \A w \in 1..Len(archive') : archive'[w].source \in InUse \cup {source}
  <2>1. /\ Len(archive') = Len(archive)
        /\ \A w \in 1..Len(archive) : archive'[w].source = archive[w].source
    BY <1>0, <1>2, UpsertedKeeps
  <2> QED BY <1>0, <2>1 DEF InUse
<1>3. CASE CreateVersion \/ UploadVersion
  BY <1>1, <1>3 DEF CreateVersion, UploadVersion
<1>4. CASE ArchiveResults
  <2>1. update.version \in 0..Len(archive) /\ update.plan \in EntryValues /\ update.lang \in Langs
    BY <1>4 DEF Typed, UpdateRecords, TaskFits, ArchiveResults
  <2> QED BY <1>2, <1>4, <2>1 DEF ArchiveResults
<1>5. ASSUME NEW l \in Langs, UploadResults(l)
      PROVE  /\ Len(archive) <= Len(archive')
             /\ \A v \in 1..Len(archive) : v \in 1..Len(archive') /\ archive'[v].source = archive[v].source
             /\ \A v \in 1..Len(archive') : archive'[v].source \in InUse \cup {source}
  <2>1. upload.version \in 0..Len(archive) /\ upload.found[l] \in EntryValues
    BY DEF Typed, UploadRecords
  <2> QED BY <1>2, <1>5, <2>1 DEF UploadResults
<1>6. CASE archive' = archive
  BY <1>0, <1>6 DEF InUse
<1>7. \/ CreateVersion \/ UploadVersion \/ ArchiveResults \/ (\E l \in Langs : UploadResults(l))
      \/ archive' = archive
  BY DEF UpdateNext, Update, Upload, Edit, Begin, Prepare, Translate, TranslateRaises, Build,
         ArchiveFails, End, ScanPackages, EndUpload, Restart, updateVars, db
<1> QED BY <1>3, <1>4, <1>5, <1>6, <1>7

(* The tasks read the source, or go on with what they have read.           *)
LEMMA TaskSources ==
  ASSUME Typed, [UpdateNext]_updateVars
  PROVE  /\ update'.source \in {update.source, source, NoSource}
         /\ upload'.source \in {upload.source, source, NoSource}
<1>1. ASSUME NEW langs, NEW dry, Begin(langs, dry)
      PROVE  update'.source = source /\ upload' = upload
  BY <1>1 DEF Begin, NoUpdate
<1>2. ASSUME NEW x, Prepare(x) \/ Translate(x) \/ Build(x)
      PROVE  update'.source = update.source /\ upload' = upload
  <2>1. update \in UpdateRecords
    BY DEF Typed
  <2> QED BY <1>2, <2>1 DEF UpdateRecords, Prepare, Translate, Build
<1>3. CASE CreateVersion \/ ArchiveResults \/ ArchiveFails
  <2>1. update \in UpdateRecords
    BY DEF Typed
  <2> QED BY <1>3, <2>1, OnwardIsTyped DEF UpdateRecords, CreateVersion, ArchiveResults, ArchiveFails
<1>4. CASE UploadVersion
  BY <1>4 DEF UploadVersion, NoUpload
<1>5. CASE ScanPackages
  <2>1. upload \in UploadRecords
    BY DEF Typed
  <2> QED BY <1>5, <2>1 DEF UploadRecords, ScanPackages
<1>6. ASSUME NEW l \in Langs, UploadResults(l)
      PROVE  update' = update /\ upload'.source = upload.source
  <2>1. upload \in UploadRecords
    BY DEF Typed
  <2> QED BY <1>6, <2>1 DEF UploadRecords, UploadResults
<1>7. CASE TranslateRaises \/ End \/ EndUpload \/ Restart \/ UNCHANGED updateVars
  BY <1>7 DEF TranslateRaises, End, EndUpload, Restart, updateVars, NoUpdate, NoUpload
<1>8. ASSUME NEW e, NEW t, Edit(e, t)
      PROVE  update' = update /\ upload' = upload
  BY <1>8 DEF Edit
<1> QED BY <1>1, <1>2, <1>3, <1>4, <1>5, <1>6, <1>7, <1>8 DEF UpdateNext, Update, Upload

LEMMA ApartStays ==
  ASSUME ~Renames, Typed, TaskFits, HashesApart, [UpdateNext]_updateVars
  PROVE  HashesApart'
<1> DEFINE Q == InUse \cup {source}
<1>1. /\ archive \in Seq(Versions) /\ Len(archive) \in Nat /\ source \in Sources
      /\ \A v \in 1..Len(archive) : archive[v].source \in Sources
      /\ update.source \in Sources /\ upload.source \in Sources
  BY VersionsAreTyped DEF Typed, UpdateRecords, UploadRecords
<1>2. Q \subseteq Sources /\ Apart(Q)
  BY <1>1 DEF InUse, HashesApart
<1>3. InUse' \subseteq Q \cup {NoSource}
  BY SourcesStay, TaskSources DEF InUse
<1>4. ASSUME NEW e \in Entries, NEW t \in Texts \cup {NoText}, Edit(e, t)
      PROVE  HashesApart'
  <2>1. InUse' = InUse /\ \A s \in InUse : Hash(source') = Hash(s) => source' = s
    BY <1>4 DEF Edit, InUse, db
  <2> QED BY <1>2, <2>1 DEF HashesApart, Apart
<1>5. CASE source' = source
  <2>1. (InUse \cup {source})' \subseteq Q \cup {NoSource}
    BY <1>3, <1>5
  <2>2. Apart((InUse \cup {source})')
    BY <1>2, <2>1, ApartWithNone
  <2> QED BY <2>2 DEF HashesApart, Apart
<1>6. source' = source \/ \E e \in Entries, t \in Texts \cup {NoText} : Edit(e, t)
  BY DEF UpdateNext, Update, Upload, Begin, Prepare, Translate, TranslateRaises, Build, CreateVersion,
         ArchiveResults, ArchiveFails, End, UploadVersion, UploadResults, ScanPackages, EndUpload,
         Restart, updateVars, files
<1> QED BY <1>4, <1>5, <1>6

(* A task begins to read when there is an entry to read.                   *)
LEMMA SourcesStayHeld ==
  ASSUME Typed, SourcesHold, [UpdateNext]_updateVars
  PROVE  SourcesHold'
<1> DEFINE UpdateReads == update'.at # "idle" =>
             \/ update.at # "idle" /\ update'.source = update.source
             \/ update'.source = source /\ Present(source) # {}
           UploadReads == upload'.at = "scan" =>
             \/ upload.at = "scan" /\ upload'.source = upload.source
             \/ upload'.source = source /\ Present(source) # {}
<1>0. update \in UpdateRecords /\ upload \in UploadRecords
  BY DEF Typed
<1>1. UpdateReads /\ UploadReads /\ Present(source') # {} => SourcesHold'
  BY DEF SourcesHold, Present
<1>2. upload' = upload /\ source' = source => UploadReads /\ Present(source') # {}
  BY DEF SourcesHold, Present
<1>3. update' = update /\ source' = source => UpdateReads /\ Present(source') # {}
  BY DEF SourcesHold, Present
<1>4. ASSUME NEW langs, NEW dry, Begin(langs, dry)
      PROVE  SourcesHold'
  <2>1. UpdateReads /\ upload' = upload /\ source' = source
    BY <1>4 DEF Begin, NoUpdate
  <2> QED BY <1>1, <1>2, <2>1
<1>5. ASSUME NEW x, Prepare(x) \/ Translate(x) \/ Build(x)
      PROVE  SourcesHold'
  <2>1. UpdateReads /\ upload' = upload /\ source' = source
    BY <1>0, <1>5 DEF UpdateRecords, Prepare, Translate, Build, files
  <2> QED BY <1>1, <1>2, <2>1
<1>6. CASE CreateVersion \/ ArchiveResults \/ ArchiveFails
  <2>1. UpdateReads /\ upload' = upload /\ source' = source
    BY <1>0, <1>6, OnwardIsTyped DEF UpdateRecords, CreateVersion, ArchiveResults, ArchiveFails, files
  <2> QED BY <1>1, <1>2, <2>1
<1>7. CASE UploadVersion
  <2>1. UploadReads /\ update' = update /\ source' = source
    BY <1>7 DEF UploadVersion, NoUpload, files
  <2> QED BY <1>1, <1>3, <2>1
<1>8. ASSUME NEW l, ScanPackages \/ UploadResults(l)
      PROVE  SourcesHold'
  <2>1. UploadReads /\ update' = update /\ source' = source
    BY <1>0, <1>8 DEF UploadRecords, ScanPackages, UploadResults, files
  <2> QED BY <1>1, <1>3, <2>1
<1>9. CASE TranslateRaises \/ End \/ EndUpload \/ Restart \/ UNCHANGED updateVars
  <2>1. UpdateReads /\ UploadReads /\ source' = source
    BY <1>9 DEF TranslateRaises, End, EndUpload, Restart, updateVars, NoUpdate, NoUpload, files
  <2> QED BY <2>1 DEF SourcesHold, Present
<1>10. ASSUME NEW e, NEW t, Edit(e, t)
       PROVE  SourcesHold'
  BY <1>10 DEF Edit, Present, SourcesHold
<1> QED BY <1>4, <1>5, <1>6, <1>7, <1>8, <1>9, <1>10 DEF UpdateNext, Update, Upload

LEMMA VersionStaysHeld ==
  ASSUME Typed, TaskFits, HashesApart, VersionHolds, [UpdateNext]_updateVars
  PROVE  VersionHolds'
<1>0. /\ update \in UpdateRecords /\ upload \in UploadRecords
      /\ archive \in Seq(Versions) /\ Len(archive) \in Nat /\ source \in Sources /\ update.source \in Sources
  BY VersionsAreTyped DEF Typed, UpdateRecords
<1>1. CASE update' = update /\ upload' = upload
  <2>1. update.version \in 0..Len(archive)
    BY DEF Typed
  <2>2. update.at = "store" => update.version \in 1..Len(archive)
    BY <1>0, <2>1 DEF VersionHolds
  <2> QED BY <1>1, <2>2, SourcesStay DEF VersionHolds
<1>2. CASE CreateVersion
  <2> DEFINE s == update.source
  <2>1. s \in InUse /\ \A v \in 1..Len(archive) : archive[v].source \in InUse
    BY DEF InUse
  <2>2. \A v \in 1..Len(archive) : Hash(archive[v].source) = Hash(s) => archive[v].source = s
    BY <2>1 DEF HashesApart, Apart
  <2>3. Created(s)[Version(s)].source = s
    BY <1>0, <2>2, CreatedIsApart
  <2>4. Version(s) # 0
    <3>1. Version(s) \in 1..Len(Created(s))
      BY <1>0, CreatedKeeps
    <3> QED BY <3>1
  <2>5. update'.version = Version(s) /\ update'.source = s /\ archive' = Created(s) /\ upload' = upload
    BY <1>0, <1>2 DEF CreateVersion, UpdateRecords
  <2> QED BY <2>3, <2>4, <2>5 DEF VersionHolds
<1>3. CASE UploadVersion
  <2>1. Version(source) # 0
    <3>1. Version(source) \in 1..Len(Created(source))
      BY <1>0, CreatedKeeps
    <3> QED BY <3>1
  <2>2. upload'.version = Version(source) /\ update' = update
    BY <1>3 DEF UploadVersion, NoUpload
  <2>3. update.version \in 0..Len(archive)
    BY DEF Typed
  <2>4. update.at = "store" => update.version \in 1..Len(archive)
    BY <1>0, <2>3 DEF VersionHolds
  <2> QED BY <2>1, <2>2, <2>4, SourcesStay DEF VersionHolds
<1>4. CASE update'.at # "store" /\ (upload'.at # "idle" => upload.at # "idle" /\ upload'.version = upload.version)
  BY <1>4 DEF VersionHolds
<1>5. CASE update' = update /\ upload.at # "idle" /\ upload'.version = upload.version
  <2>1. update.version \in 0..Len(archive)
    BY DEF Typed
  <2>2. update.at = "store" => update.version \in 1..Len(archive)
    BY <1>0, <2>1 DEF VersionHolds
  <2> QED BY <1>5, <2>2, SourcesStay DEF VersionHolds
<1>6. ASSUME NEW x, NEW y, \/ Begin(x, y) \/ Prepare(x) \/ Translate(x) \/ Build(x)
      PROVE  update'.at # "store" /\ upload' = upload
  BY <1>0, <1>6 DEF UpdateRecords, Begin, NoUpdate, Prepare, Translate, Build
<1>7. CASE TranslateRaises \/ ArchiveResults \/ ArchiveFails \/ End \/ Restart
  <2>1. update'.at # "store" /\ (upload' = upload \/ upload'.at = "idle")
    BY <1>0, <1>7, OnwardIsTyped DEF TranslateRaises, ArchiveResults, ArchiveFails, End, Restart, NoUpdate, NoUpload
  <2> QED BY <1>4, <2>1
<1>8. CASE EndUpload
  <2>1. update' = update /\ upload'.at = "idle"
    BY <1>8 DEF EndUpload, NoUpload
  <2>2. update.version \in 0..Len(archive)
    BY DEF Typed
  <2>3. update.at = "store" => update.version \in 1..Len(archive)
    BY <1>0, <2>2 DEF VersionHolds
  <2> QED BY <2>1, <2>3, SourcesStay DEF VersionHolds
<1>9. ASSUME NEW x, \/ ScanPackages \/ UploadResults(x)
      PROVE  update' = update /\ upload.at # "idle" /\ upload'.version = upload.version
  BY <1>0, <1>9 DEF UploadRecords, ScanPackages, UploadResults
<1>10. ASSUME NEW e, NEW t, Edit(e, t)
       PROVE  update' = update /\ upload' = upload
  BY <1>10 DEF Edit
<1>11. UNCHANGED updateVars => update' = update /\ upload' = upload
  BY DEF updateVars
<1> QED BY <1>1, <1>2, <1>3, <1>4, <1>5, <1>6, <1>7, <1>8, <1>9, <1>10, <1>11 DEF UpdateNext, Update, Upload

LEMMA UploadStaysMarked ==
  ASSUME Typed, UploadMarks, [UpdateNext]_updateVars
  PROVE  UploadMarks'
<1>0. upload \in UploadRecords
  BY DEF Typed
<1>1. \A e \in Entries : Nothing[e].by # "update"
  BY NothingIsMissing DEF Missing
<1>2. CASE upload' = upload
  BY <1>2 DEF UploadMarks
<1>3. CASE upload' = NoUpload \/ UploadVersion
  <2>1. \A l \in Langs : upload'.found[l] = Nothing
    <3>1. NoUpload.found = [l \in Langs |-> Nothing] /\ NoUpload \in UploadRecords
      BY NoneIsTyped DEF NoUpload
    <3>2. upload'.found = NoUpload.found
      BY <1>3, <3>1 DEF UploadVersion, UploadRecords
    <3> QED BY <3>1, <3>2
  <2> QED BY <1>1, <2>1 DEF UploadMarks
<1>4. CASE ScanPackages
  <2>1. \A l \in Langs : upload'.found[l] = Found(l)
    BY <1>0, <1>4 DEF ScanPackages, UploadRecords
  <2> QED BY <2>1, FoundIsValue DEF UploadMarks
<1>5. ASSUME NEW l \in Langs, UploadResults(l)
      PROVE  UploadMarks'
  <2>1. upload' = [upload EXCEPT !.found = [upload.found EXCEPT ![l] = Nothing]]
    BY <1>5 DEF UploadResults
  <2>2. upload'.found = [upload.found EXCEPT ![l] = Nothing]
    BY <1>0, <2>1 DEF UploadRecords
  <2>3. \A m \in Langs : upload'.found[m] \in {Nothing, upload.found[m]}
    BY <1>0, <2>2 DEF UploadRecords
  <2> QED BY <1>1, <2>3 DEF UploadMarks
<1>6. \/ upload' = upload \/ upload' = NoUpload \/ UploadVersion \/ ScanPackages
      \/ \E l \in Langs : UploadResults(l)
  BY DEF UpdateNext, Update, Upload, Edit, Begin, Prepare, Translate, TranslateRaises, Build, CreateVersion,
         ArchiveResults, ArchiveFails, End, EndUpload, Restart, updateVars
<1> QED BY <1>2, <1>3, <1>4, <1>5, <1>6

-----------------------------------------------------------------------------
(* With keys and names of their own, entries are looked up as themselves   *)
(* and keep their own results.                                             *)
LEMMA ArchivedIsOwn ==
  ASSUME OwnKeys, NEW l \in Langs, NEW e \in Entries
  PROVE  Archived(l, e) = archive[Baseline(l)].values[l][e]
<1> DEFINE same == Translated(l, KeyOf[e])
<1>1. same \subseteq {e} /\ (e \in same <=> archive[Baseline(l)].values[l][e] # Missing)
  BY DEF Translated, OwnKeys
<1>2. CASE same = {}
  <2>1. archive[Baseline(l)].values[l][e] = Missing
    BY <1>1, <1>2
  <2> QED BY <1>2, <2>1 DEF Archived
<1>3. CASE same # {}
  <2>1. Max(same) \in same
    <3> HIDE DEF same
    <3> QED BY <1>1, <1>3, GreatestIsIn
  <2>2. Max(same) = e
    BY <1>1, <2>1
  <2> QED BY <1>3, <2>2 DEF Archived
<1> QED BY <1>2, <1>3

LEMMA KnownIsOwn ==
  ASSUME OwnKeys, NEW l \in Langs, NEW e \in Entries
  PROVE  Known(l, e) = IF Len(archive) = 0 \/ Original(l, e) = NoText THEN {} ELSE {e}
<1>1. {d \in Entries : KeyOf[d] = KeyOf[e] /\ Original(l, d) # NoText} \subseteq {e}
  BY DEF OwnKeys
<1>2. CASE Original(l, e) = NoText
  <2>1. {d \in Entries : KeyOf[d] = KeyOf[e] /\ Original(l, d) # NoText} = {}
    BY <1>1, <1>2
  <2>2. Cardinality({}) # 1
    BY FS_EmptySet
  <2> QED BY <1>2, <2>1, <2>2 DEF Known
<1> QED BY <1>2 DEF Known

LEMMA UnchangedIsOwn ==
  ASSUME OwnKeys, NEW l \in Langs, NEW e \in Entries
  PROVE  /\ Unchanged(l, e) <=>
              /\ Len(archive) # 0 /\ Original(l, e) # NoText
              /\ archive[Baseline(l)].values[l][e] # Missing
              /\ ~IsCopy(archive[Baseline(l)].values[l][e], update.source[e])
              /\ Original(l, e) = update.source[e]
         /\ Unchanged(l, e) => (CHOOSE d \in Known(l, e) : TRUE) = e
<1>1. CASE Len(archive) = 0 \/ Original(l, e) = NoText
  BY <1>1, KnownIsOwn DEF Unchanged
<1>2. CASE ~(Len(archive) = 0 \/ Original(l, e) = NoText)
  <2>1. Known(l, e) = {e}
    BY <1>2, KnownIsOwn
  <2> QED BY <1>2, <2>1, ArchivedIsOwn DEF Unchanged
<1> QED BY <1>1, <1>2

LEMMA ResultIsOwn ==
  ASSUME OwnNames, Typed, TaskFits, NEW fell, NEW e \in update.dirty
  PROVE  Result(e, fell) \in {Translation(update.source[e]), Copy(update.source[e])}
<1> DEFINE f == FileOf[e]
<1>1. update.dirty \subseteq Entries
  BY DEF Typed, UpdateRecords
<1>2. f \in DOMAIN NameOf /\ f \in Nat
  BY <1>1, UpdateAssumption
<1>3. e \in DirtyOf(f) /\ DirtyOf(f) \subseteq Entries
  BY <1>1 DEF DirtyOf
<1>4. Namesakes(f) = {f}
  BY <1>2, <1>3 DEF Namesakes, OwnNames
<1>5. Max({f}) = f
  BY <1>2 DEF Max
<1>6. Nth(Position(e, DirtyOf(f)), DirtyOf(f)) = e
  BY <1>3, NthOfPosition
<1> QED BY <1>4, <1>5, <1>6 DEF Result

-----------------------------------------------------------------------------
(* What is planned, and what is written of it.                             *)
LEMMA PlanStays ==
  ASSUME OwnKeys, OwnNames, Typed, TaskFits, SourcesHold, PlanFits, PlanFull, ArchivedForItsText,
         [UpdateNext]_updateVars
  PROVE  PlanFits' /\ PlanFull'
<1>0. update \in UpdateRecords
  BY DEF Typed
<1>1. Nothing \in EntryValues /\ \A e \in Entries : Nothing[e].by = "none"
  BY NothingIsMissing DEF Missing
<1>2. CASE update' = update
  BY <1>2 DEF PlanFits, PlanFull, Present
<1>3. CASE update'.plan = Nothing /\ update'.at \in {"idle", "prepare"}
  BY <1>1, <1>3 DEF PlanFits, PlanFull
<1>4. CASE TranslateRaises \/ End \/ Restart
  BY <1>3, <1>4 DEF TranslateRaises, End, Restart, NoUpdate
<1>5. CASE ArchiveResults \/ ArchiveFails
  BY <1>0, <1>3, <1>5, OnwardIsTyped DEF ArchiveResults, ArchiveFails
<1>6. ASSUME NEW langs, NEW dry, Begin(langs, dry)
      PROVE  PlanFits' /\ PlanFull'
  BY <1>3, <1>6 DEF Begin, NoUpdate
<1>7. ASSUME NEW x, Build(x) \/ CreateVersion
      PROVE  PlanFits' /\ PlanFull'
  <2>1. /\ update'.plan = update.plan /\ update'.source = update.source
        /\ update.at \in {"build", "create"} /\ update'.at \in {"create", "store"}
    BY <1>0, <1>7 DEF Build, CreateVersion, UpdateRecords
  <2> QED BY <2>1 DEF PlanFits, PlanFull, Present
<1>8. ASSUME NEW fell, Translate(fell)
      PROVE  PlanFits' /\ PlanFull'
  <2> DEFINE plan == [e \in Entries |-> IF e \in update.dirty THEN Result(e, fell) ELSE update.plan[e]]
  <2>1. update' = [update EXCEPT !.at = "build", !.plan = plan] /\ update.at = "translate"
    BY <1>8 DEF Translate
  <2>2. ASSUME NEW e \in update.dirty
        PROVE  Result(e, fell).by = "update" /\ Result(e, fell).of = update.source[e]
    BY ResultIsOwn DEF Translation, Copy
  <2>3. \A e \in Entries : plan[e].by = "update" => plan[e].of = update.source[e]
    BY <2>2 DEF PlanFits
  <2>4. \A e \in Present(update.source) : plan[e] # Missing
    <3> TAKE e \in Present(update.source)
    <3>1. e \in Entries
      BY DEF Present
    <3>2. CASE e \in update.dirty
      BY <2>2, <3>1, <3>2 DEF Missing
    <3>3. CASE e \notin update.dirty
      BY <2>1, <3>1, <3>3 DEF PlanFull
    <3> QED BY <3>2, <3>3
  <2> HIDE DEF plan
  <2>5. update'.plan = plan /\ update'.source = update.source /\ update'.at = "build"
    BY <1>0, <2>1 DEF UpdateRecords
  <2> QED BY <2>3, <2>4, <2>5 DEF PlanFits, PlanFull, Present
<1>9. ASSUME NEW l \in Langs, Prepare(l)
      PROVE  PlanFits' /\ PlanFull'
  <2> DEFINE here  == Present(update.source)
             dirty == {e \in here : ~Unchanged(l, e)}
             plan  == [e \in Entries |->
                        IF e \in here \ dirty THEN Archived(l, CHOOSE d \in Known(l, e) : TRUE)
                                              ELSE Missing]
  <2>1. CASE update.dry
    <3>1. update' = [update EXCEPT !.todo = @ \ {l}] /\ update.at = "prepare"
      BY <1>9, <2>1 DEF Prepare
    <3>2. update'.plan = update.plan /\ update'.source = update.source /\ update'.at = "prepare"
      BY <1>0, <3>1 DEF UpdateRecords
    <3> QED BY <3>2 DEF PlanFits, PlanFull
  <2>2. CASE ~update.dry
    <3>1. update' = [update EXCEPT !.at = "translate", !.todo = @ \ {l}, !.lang = l,
                                   !.dirty = dirty, !.plan = plan]
      BY <1>9, <2>2 DEF Prepare
    <3>2. ASSUME NEW e \in here \ dirty
          PROVE  /\ e \in Entries /\ plan[e] = archive[Baseline(l)].values[l][e]
                 /\ plan[e] # Missing /\ Len(archive) # 0
                 /\ archive[Baseline(l)].source[e] = update.source[e]
      <4>1. e \in Entries /\ Unchanged(l, e)
        BY DEF Present
      <4>2. plan[e] = Archived(l, e)
        BY <4>1, UnchangedIsOwn
      <4> QED BY <4>1, <4>2, UnchangedIsOwn, ArchivedIsOwn DEF Original
    <3>3. ASSUME NEW e \in Entries, e \notin here \ dirty
          PROVE  plan[e].by # "update"
      BY <3>3 DEF Missing
    <3>4. \A e \in Entries : plan[e].by = "update" => plan[e].of = update.source[e]
      <4> TAKE e \in Entries
      <4>1. CASE e \in here \ dirty
        <5>1. Baseline(l) \in 1..Len(archive)
          BY <3>2, <4>1, BaselineInRange
        <5>2. archive[Baseline(l)].values[l][e].by = "update"
                => archive[Baseline(l)].values[l][e].of = archive[Baseline(l)].source[e]
          BY <5>1 DEF ArchivedForItsText
        <5>3. plan[e] = archive[Baseline(l)].values[l][e] /\ archive[Baseline(l)].source[e] = update.source[e]
          BY <3>2, <4>1
        <5> HIDE DEF plan
        <5> QED BY <5>2, <5>3
      <4>2. CASE e \notin here \ dirty
        BY <3>3, <4>2
      <4> QED BY <4>1, <4>2
    <3>5. \A e \in here \ dirty : plan[e] # Missing
      BY <3>2
    <3> HIDE DEF dirty, plan
    <3>6. /\ update'.plan = plan /\ update'.source = update.source /\ update'.at = "translate"
          /\ update'.dirty = dirty
      BY <1>0, <3>1 DEF UpdateRecords
    <3> QED BY <3>4, <3>5, <3>6 DEF PlanFits, PlanFull, Present
  <2> QED BY <2>1, <2>2
<1>10. ASSUME NEW x, NEW y, \/ Edit(x, y) \/ UploadVersion \/ ScanPackages \/ UploadResults(x)
                            \/ EndUpload \/ UNCHANGED updateVars
       PROVE  update' = update
  BY <1>10 DEF Edit, UploadVersion, ScanPackages, UploadResults, EndUpload, updateVars
<1> QED BY <1>2, <1>4, <1>5, <1>6, <1>7, <1>8, <1>9, <1>10 DEF UpdateNext, Update, Upload

LEMMA WrittenStays ==
  ASSUME Typed, TaskFits, WrittenIsPlanned, [UpdateNext]_updateVars
  PROVE  WrittenIsPlanned'
<1>0. update \in UpdateRecords
  BY DEF Typed
<1>1. CASE update'.at \notin {"create", "store"}
  BY <1>1 DEF WrittenIsPlanned
<1>2. CASE update' = update /\ package' = package
  BY <1>2 DEF WrittenIsPlanned
<1>3. CASE CreateVersion
  <2>1. /\ update'.plan = update.plan /\ update'.lang = update.lang /\ update.at = "create"
        /\ package' = package
    BY <1>0, <1>3 DEF CreateVersion, UpdateRecords, files
  <2> QED BY <2>1 DEF WrittenIsPlanned
<1>4. ASSUME NEW lost, Build(lost)
      PROVE  WrittenIsPlanned'
  <2>1. /\ update'.plan = update.plan /\ update'.lang = update.lang /\ update.lang \in Langs
    BY <1>0, <1>4 DEF Build, UpdateRecords, TaskFits
  <2>2. package'[update.lang] = [e \in Entries |-> IF FileOf[e] \in lost THEN Missing ELSE update.plan[e]]
    BY <1>4, <2>1 DEF Build, Typed
  <2> QED BY <2>1, <2>2 DEF WrittenIsPlanned
<1>5. CASE TranslateRaises \/ End \/ Restart \/ ArchiveResults \/ ArchiveFails
  BY <1>0, <1>1, <1>5, OnwardIsTyped DEF TranslateRaises, End, Restart, NoUpdate, ArchiveResults, ArchiveFails
<1>6. ASSUME NEW x, NEW y, \/ Begin(x, y) \/ Prepare(x) \/ Translate(x)
      PROVE  update'.at \notin {"create", "store"}
  BY <1>0, <1>6 DEF UpdateRecords, Begin, NoUpdate, Prepare, Translate
<1>7. ASSUME NEW x, NEW y, \/ Edit(x, y) \/ UploadVersion \/ ScanPackages \/ UploadResults(x)
                           \/ EndUpload \/ UNCHANGED updateVars
      PROVE  update' = update /\ package' = package
  BY <1>7 DEF Edit, UploadVersion, ScanPackages, UploadResults, EndUpload, updateVars, files
<1> QED BY <1>1, <1>2, <1>3, <1>4, <1>5, <1>6, <1>7 DEF UpdateNext, Update, Upload

-----------------------------------------------------------------------------
(* What is archived.                                                       *)
LEMMA ArchivedStays ==
  ASSUME Typed, TaskFits, VersionHolds, UploadMarks, PlanFits, ArchivedForItsText,
         [UpdateNext]_updateVars
  PROVE  ArchivedForItsText'
<1>0. /\ archive \in Seq(Versions) /\ Len(archive) \in Nat /\ source \in Sources
      /\ update \in UpdateRecords /\ upload \in UploadRecords /\ update.source \in Sources
  BY VersionsAreTyped DEF Typed, UpdateRecords
<1>1. ASSUME NEW s \in Sources, archive' = Created(s)
      PROVE  ArchivedForItsText'
  <2> SUFFICES ASSUME NEW v \in 1..Len(Created(s)), NEW l \in Langs, NEW e \in Entries,
                      Created(s)[v].values[l][e].by = "update"
               PROVE  Created(s)[v].values[l][e].of = Created(s)[v].source[e]
    BY <1>1 DEF ArchivedForItsText
  <2>1. CASE v \in 1..Len(archive)
    <3>1. Created(s)[v] = archive[v]
      BY <1>0, <2>1, CreatedKeeps
    <3> QED BY <2>1, <3>1 DEF ArchivedForItsText
  <2>2. CASE Created(s)[v] = [source |-> s, values |-> [m \in Langs |-> Nothing]]
    <3>1. Created(s)[v].values[l][e] = Missing
      BY <2>2, NothingIsMissing
    <3> QED BY <3>1 DEF Missing
  <2> QED BY <1>0, <2>1, <2>2, CreatedKeeps
<1>2. ASSUME NEW v \in 0..Len(archive), NEW l \in Langs, NEW found \in EntryValues,
             archive' = Upserted(v, l, found),
             \A e \in Entries : found[e].by = "update" => v # 0 /\ found[e].of = archive[v].source[e]
      PROVE  ArchivedForItsText'
  <2>1. Len(archive') = Len(archive)
    BY <1>0, <1>2, UpsertedKeeps
  <2> SUFFICES ASSUME NEW w \in 1..Len(archive), NEW m \in Langs, NEW e \in Entries,
                      archive'[w].values[m][e].by = "update"
               PROVE  archive'[w].values[m][e].of = archive'[w].source[e]
    BY <2>1 DEF ArchivedForItsText
  <2>2. /\ archive'[w].source = archive[w].source
        /\ archive'[w].values[m][e] =
             IF w = v /\ m = l /\ e \in Rows(v, found) THEN found[e] ELSE archive[w].values[m][e]
    BY <1>0, <1>2, UpsertedKeeps
  <2> QED BY <1>2, <2>2 DEF ArchivedForItsText
<1>3. CASE CreateVersion \/ UploadVersion
  BY <1>0, <1>1, <1>3 DEF CreateVersion, UploadVersion
<1>4. CASE ArchiveResults
  <2>1. /\ update.version \in 0..Len(archive) /\ update.plan \in EntryValues /\ update.lang \in Langs
        /\ archive' = Upserted(update.version, update.lang, update.plan)
    BY <1>4 DEF Typed, UpdateRecords, TaskFits, ArchiveResults
  <2>2. \A e \in Entries : update.plan[e].by = "update" =>
          update.version # 0 /\ update.plan[e].of = archive[update.version].source[e]
    BY <1>4 DEF PlanFits, VersionHolds, ArchiveResults
  <2> QED BY <1>2, <2>1, <2>2
<1>5. ASSUME NEW l \in Langs, UploadResults(l)
      PROVE  ArchivedForItsText'
  <2>1. /\ upload.version \in 0..Len(archive) /\ upload.found[l] \in EntryValues
        /\ archive' = Upserted(upload.version, l, upload.found[l])
    BY <1>5 DEF Typed, UploadRecords, UploadResults
  <2>2. \A e \in Entries : upload.found[l][e].by # "update"
    BY DEF UploadMarks
  <2> QED BY <1>2, <2>1, <2>2
<1>6. CASE archive' = archive
  BY <1>6 DEF ArchivedForItsText
<1>7. \/ CreateVersion \/ UploadVersion \/ ArchiveResults \/ (\E l \in Langs : UploadResults(l))
      \/ archive' = archive
  BY DEF UpdateNext, Update, Upload, Edit, Begin, Prepare, Translate, TranslateRaises, Build,
         ArchiveFails, End, ScanPackages, EndUpload, Restart, updateVars, db
<1> QED BY <1>3, <1>4, <1>5, <1>6, <1>7

(* The record of a language's last update holds on while the versions and  *)
(* the values of the language stay as they are.                            *)
LEMMA LastStays ==
  ASSUME Typed, TaskFits, SourcesHold, VersionHolds, PlanFull, LastIsArchived, [UpdateNext]_updateVars
  PROVE  LastIsArchived'
<1>0. /\ archive \in Seq(Versions) /\ Len(archive) \in Nat /\ source \in Sources
      /\ update \in UpdateRecords /\ upload \in UploadRecords /\ update.source \in Sources
      /\ \A l \in Langs : latest[l] \in 0..Len(archive)
      /\ \A v \in 1..Len(archive) : archive[v].source \in Sources
  BY VersionsAreTyped DEF Typed, UpdateRecords
<1>1. ASSUME NEW l \in Langs, last'[l] = last[l], latest'[l] = latest[l],
             \A v \in 1..Len(archive) : archive'[v].source = archive[v].source,
             \A v \in 1..Len(archive), e \in Entries :
               archive'[v].values[l][e] = archive[v].values[l][e]
      PROVE  last'[l] # NoLast => LastHolds(l, latest[l], last[l].source)'
  <2> DEFINE v == latest[l]
             s == last[l].source
  <2>1. SUFFICES ASSUME last[l] # NoLast
                 PROVE  LastHolds(l, v, s)'
    BY <1>1
  <2>2. LastHolds(l, v, s)
    BY <2>1 DEF LastIsArchived
  <2>3. v \in 1..Len(archive) /\ latest'[l] = v /\ last'[l].source = s /\ last'[l].failed = last[l].failed
    BY <1>0, <1>1, <2>2 DEF LastHolds
  <2>4. \A e \in Present(s) : e \in Entries
    BY DEF Present
  <2> HIDE DEF v, s
  <2>5. archive'[v].source = s /\ \A e \in Present(s) : archive'[v].values[l][e] = archive[v].values[l][e]
    BY <1>1, <2>2, <2>3, <2>4 DEF LastHolds
  <2>6. Present(s)' = Present(s') /\ v' = v /\ s' = s
    BY <2>3 DEF v, s, Present
  <2> QED BY <2>2, <2>3, <2>5, <2>6 DEF LastHolds
<1>2. ASSUME NEW s \in Sources, archive' = Created(s), UNCHANGED <<last, latest>>
      PROVE  LastIsArchived'
  <2>1. \A v \in 1..Len(archive) : archive'[v] = archive[v]
    BY <1>0, <1>2, CreatedKeeps
  <2>2. \A l \in Langs : last'[l] # NoLast => LastHolds(l, latest[l], last[l].source)'
    BY <1>1, <1>2, <2>1
  <2> QED BY <2>2 DEF LastIsArchived
<1>3. CASE CreateVersion \/ UploadVersion
  <2>1. \E s \in Sources : archive' = Created(s) /\ UNCHANGED <<last, latest>>
    BY <1>0, <1>3 DEF CreateVersion, UploadVersion
  <2> QED BY <1>2, <2>1
<1>4. CASE UNCHANGED <<archive, latest, last>>
  BY <1>4 DEF LastIsArchived, LastHolds, Present
<1>5. ASSUME NEW l \in Langs, NEW v \in 0..Len(archive), NEW found \in EntryValues,
             archive' = Upserted(v, l, found), NEW m \in Langs, m # l,
             last'[m] = last[m], latest'[m] = latest[m]
      PROVE  last'[m] # NoLast => LastHolds(m, latest[m], last[m].source)'
  <2>1. \A w \in 1..Len(archive) :
          /\ archive'[w].source = archive[w].source
          /\ \A e \in Entries : archive'[w].values[m][e] = archive[w].values[m][e]
    BY <1>0, <1>5, UpsertedKeeps
  <2> QED BY <1>1, <1>5, <2>1
<1>6. ASSUME NEW l \in Langs, UploadResults(l)
      PROVE  LastIsArchived'
  <2>1. /\ upload.version \in 0..Len(archive) /\ upload.found[l] \in EntryValues
        /\ archive' = Upserted(upload.version, l, upload.found[l])
    BY <1>6 DEF Typed, UploadRecords, UploadResults
  <2>2. last'[l] = NoLast
    BY <1>6 DEF UploadResults, Typed
  <2>3. \A m \in Langs : m # l => last'[m] = last[m] /\ latest'[m] = latest[m]
    BY <1>6 DEF UploadResults, Typed
  <2>4. ASSUME NEW m \in Langs, m # l
        PROVE  last'[m] # NoLast => LastHolds(m, latest[m], last[m].source)'
    BY <1>5, <2>1, <2>3, <2>4
  <2> QED BY <2>2, <2>4 DEF LastIsArchived
<1>7. CASE ArchiveResults
  <2>1. /\ update.version \in 0..Len(archive) /\ update.plan \in EntryValues /\ update.lang \in Langs
        /\ archive' = Upserted(update.version, update.lang, update.plan)
    BY <1>7 DEF Typed, UpdateRecords, TaskFits, ArchiveResults
  <2>2. PICK l \in Langs, v \in 0..Len(archive), s \in Sources, plan \in EntryValues :
          l = update.lang /\ v = update.version /\ s = update.source /\ plan = update.plan
    BY <1>0, <2>1
  <2>3. \A m \in Langs : m # l => last'[m] = last[m] /\ latest'[m] = latest[m]
    BY <1>7, <2>2 DEF ArchiveResults, Typed
  <2>4. ASSUME NEW m \in Langs, m # l
        PROVE  last'[m] # NoLast => LastHolds(m, latest[m], last[m].source)'
    BY <1>5, <2>1, <2>2, <2>3, <2>4
  <2>5. v \in 1..Len(archive) /\ archive[v].source = s /\ Present(s) # {}
    BY <1>0, <1>7, <2>2 DEF VersionHolds, ArchiveResults, SourcesHold
  <2>6. \A e \in Present(s) : e \in Entries /\ plan[e] # Missing
    BY <1>7, <2>2 DEF PlanFull, Present, ArchiveResults
  <2>7. Rows(v, plan) = Present(s)
    BY <2>5, <2>6 DEF Rows
  <2>8. latest'[l] = v
    BY <1>7, <2>2, <2>5, <2>7 DEF ArchiveResults, Typed
  <2>9. last'[l] = [source |-> s, failed |-> {e \in Present(s) : IsCopy(plan[e], s[e])}]
    <3>1. last' = [last EXCEPT ![l] =
                    [source |-> s, failed |-> {e \in Present(s) : IsCopy(plan[e], s[e])}]]
      BY <1>7, <2>2 DEF ArchiveResults
    <3> QED BY <3>1 DEF Typed
  <2>10. archive'[v].source = s /\ \A e \in Present(s) : archive'[v].values[l][e] = plan[e]
    <3>1. /\ archive'[v].source = archive[v].source
          /\ \A e \in Entries : e \in Rows(v, plan) => archive'[v].values[l][e] = plan[e]
      BY <1>0, <2>1, <2>2, <2>5, UpsertedKeeps
    <3> QED BY <2>5, <2>6, <2>7, <3>1
  <2>11. LastHolds(l, latest[l], last[l].source)'
    <3>1. last'[l].source = s /\ last'[l].failed = {e \in Present(s) : IsCopy(plan[e], s[e])}
      BY <2>9
    <3>2. {e \in Present(s) : IsCopy(plan[e], s[e])}
            = {e \in Present(s) : IsCopy(archive'[v].values[l][e], s[e])}
      BY <2>10
    <3> HIDE DEF Present, IsCopy
    <3> QED BY <2>5, <2>6, <2>8, <2>10, <3>1, <3>2 DEF LastHolds, Present, IsCopy
  <2> QED BY <2>4, <2>11 DEF LastIsArchived
<1>8. \/ CreateVersion \/ UploadVersion \/ ArchiveResults \/ (\E l \in Langs : UploadResults(l))
      \/ UNCHANGED <<archive, latest, last>>
  BY DEF UpdateNext, Update, Upload, Edit, Begin, Prepare, Translate, TranslateRaises, Build,
         ArchiveFails, End, ScanPackages, EndUpload, Restart, updateVars, db
<1> QED BY <1>3, <1>4, <1>6, <1>7, <1>8

(* A comparison asks for what is missing or failed in the version that was *)
(* stored last.                                                            *)
LEMMA AsksStays ==
  ASSUME OwnKeys, Typed, TaskFits, SourcesHold, LastIsArchived, AsksOnlyForFailures,
         [UpdateNext]_updateVars
  PROVE  AsksOnlyForFailures'
<1>0. update \in UpdateRecords
  BY DEF Typed
<1>1. CASE update'.at # "translate"
  BY <1>1 DEF AsksOnlyForFailures
<1>2. CASE UNCHANGED <<update, last>>
  BY <1>2 DEF AsksOnlyForFailures
<1>3. ASSUME NEW l \in Langs, UploadResults(l)
      PROVE  AsksOnlyForFailures'
  <2>1. update' = update /\ last' = [last EXCEPT ![l] = NoLast]
    BY <1>3 DEF UploadResults
  <2>2. CASE update.at = "translate" /\ update.lang = l
    <3>1. last'[update.lang].source = NoSource
      BY <2>1, <2>2 DEF Typed, NoLast
    <3>2. update.source # NoSource
      BY <2>2 DEF SourcesHold, Present, NoSource
    <3> QED BY <2>1, <3>1, <3>2 DEF AsksOnlyForFailures
  <2>3. CASE ~(update.at = "translate" /\ update.lang = l)
    <3>1. update.at = "translate" => last'[update.lang] = last[update.lang]
      BY <2>1, <2>3 DEF Typed, TaskFits
    <3> QED BY <2>1, <3>1 DEF AsksOnlyForFailures
  <2> QED BY <2>2, <2>3
<1>4. ASSUME NEW l \in Langs, Prepare(l)
      PROVE  AsksOnlyForFailures'
  <2>1. CASE update.dry
    <3>1. update' = [update EXCEPT !.todo = @ \ {l}] /\ update.at = "prepare"
      BY <1>4, <2>1 DEF Prepare
    <3>2. update'.at # "translate"
      BY <1>0, <3>1 DEF UpdateRecords
    <3> QED BY <1>1, <3>2
  <2>2. CASE ~update.dry
    <3> DEFINE dirty == {e \in Present(update.source) : ~Unchanged(l, e)}
    <3>1. update'.source = update.source /\ update'.lang = l /\ last' = last /\ update.at = "prepare"
      BY <1>0, <1>4, <2>2 DEF Prepare, UpdateRecords
    <3>2. update'.dirty = dirty
      BY <1>0, <1>4, <2>2 DEF Prepare, UpdateRecords
    <3> SUFFICES ASSUME update.source = last[l].source
                 PROVE  dirty = last[l].failed
      <4> HIDE DEF dirty
      <4> QED BY <3>1, <3>2 DEF AsksOnlyForFailures
    <3>3. last[l] # NoLast
      <4>1. update.source # NoSource
        BY <3>1 DEF SourcesHold, Present, NoSource
      <4> QED BY <4>1 DEF NoLast
    <3>4. LastHolds(l, latest[l], update.source)
      BY <3>3 DEF LastIsArchived
    <3>5. Baseline(l) = latest[l] /\ Len(archive) # 0
      <4>1. latest[l] # 0 /\ latest[l] \in 0..Len(archive) /\ Len(archive) \in Nat
        BY <3>4, VersionsAreTyped DEF LastHolds, Typed
      <4> QED BY <4>1 DEF Baseline
    <3>6. ASSUME NEW e \in Present(update.source)
          PROVE  ~Unchanged(l, e) <=> IsCopy(archive[latest[l]].values[l][e], update.source[e])
      <4>1. e \in Entries /\ update.source[e] # NoText
        BY DEF Present
      <4>2. Original(l, e) = update.source[e] /\ archive[latest[l]].values[l][e] # Missing
        BY <3>4, <3>5 DEF LastHolds, Original
      <4> QED BY <3>5, <4>1, <4>2, UnchangedIsOwn
    <3> QED BY <3>4, <3>6 DEF LastHolds
  <2> QED BY <2>1, <2>2
<1>5. ASSUME NEW x, NEW y, \/ Begin(x, y) \/ Translate(x) \/ Build(x) \/ TranslateRaises \/ CreateVersion
                           \/ ArchiveResults \/ ArchiveFails \/ End \/ Restart
      PROVE  update'.at # "translate"
  <2>1. CASE TranslateRaises \/ End \/ Restart
    BY <2>1 DEF NoUpdate, TranslateRaises, End, Restart
  <2>2. CASE Begin(x, y)
    BY <2>2, NoneIsTyped DEF Begin, UpdateRecords
  <2>3. CASE Translate(x) \/ Build(x) \/ CreateVersion
    BY <1>0, <2>3 DEF UpdateRecords, Translate, Build, CreateVersion
  <2>4. CASE ArchiveResults \/ ArchiveFails
    BY <1>0, <2>4, OnwardIsTyped DEF ArchiveResults, ArchiveFails
  <2> QED BY <1>5, <2>1, <2>2, <2>3, <2>4
<1>6. ASSUME NEW x, NEW y, \/ Edit(x, y) \/ UploadVersion \/ ScanPackages \/ EndUpload \/ UNCHANGED updateVars
      PROVE  UNCHANGED <<update, last>>
  BY <1>6 DEF Edit, UploadVersion, ScanPackages, EndUpload, updateVars
<1> QED BY <1>1, <1>2, <1>3, <1>4, <1>5, <1>6 DEF UpdateNext, Update, Upload

-----------------------------------------------------------------------------
(* The invariant.                                                          *)
UpdateInv ==
  /\ Typed
  /\ TaskFits
  /\ HashesApart
  /\ SourcesHold
  /\ VersionHolds
  /\ UploadMarks
  /\ PlanFits
  /\ PlanFull
  /\ WrittenIsPlanned
  /\ LastIsArchived
  /\ ArchivedForItsText
  /\ AsksOnlyForFailures

LEMMA UpdateInvStarts == UpdateInit => UpdateInv
<1> SUFFICES ASSUME UpdateInit
             PROVE  UpdateInv
  OBVIOUS
<1>1. Typed /\ TaskFits
  BY InitialTypes
<1>2. /\ archive = << >> /\ Len(archive) = 0 /\ update = NoUpdate /\ upload = NoUpload
      /\ source \in Sources /\ \A e \in Entries : source[e] # NoText
      /\ last = [l \in Langs |-> NoLast]
  BY UpdateAssumption DEF UpdateInit, Sources
<1>3. HashesApart
  <2>1. InUse = {NoSource}
    BY <1>2 DEF InUse, NoUpdate, NoUpload
  <2>2. Apart({source})
    BY DEF Apart
  <2>3. Apart(InUse \cup {source})
    BY <1>2, <2>1, <2>2, ApartWithNone
  <2> QED BY <2>3 DEF HashesApart
<1>4. SourcesHold /\ VersionHolds
  BY <1>2, UpdateAssumption DEF SourcesHold, VersionHolds, Present, NoUpdate, NoUpload
<1>5. UploadMarks
  BY <1>2, NothingIsMissing DEF UploadMarks, NoUpload, Missing
<1>6. PlanFits
  BY <1>2, NothingIsMissing DEF PlanFits, NoUpdate, Missing
<1>7. PlanFull /\ WrittenIsPlanned /\ AsksOnlyForFailures
  BY <1>2 DEF PlanFull, WrittenIsPlanned, AsksOnlyForFailures, NoUpdate
<1>8. LastIsArchived /\ ArchivedForItsText
  BY <1>2 DEF LastIsArchived, ArchivedForItsText
<1> QED BY <1>1, <1>3, <1>4, <1>5, <1>6, <1>7, <1>8 DEF UpdateInv

(* Where an edit moves no text to another key with the same hash, and keys *)
(* and base names are their owners' alone, the strengthening is inductive. *)
THEOREM UpdateInvariant == Plain => (UpdateSpec => []UpdateInv)
<1> SUFFICES ASSUME Plain
             PROVE  UpdateSpec => []UpdateInv
  OBVIOUS
<1>1. UpdateInit => UpdateInv
  BY UpdateInvStarts
<1>2. UpdateInv /\ [UpdateNext]_updateVars => UpdateInv'
  BY StepsKeepTypes, ApartStays, SourcesStayHeld, VersionStaysHeld, UploadStaysMarked, PlanStays,
     WrittenStays, LastStays, ArchivedStays, AsksStays DEF UpdateInv, Plain
<1> QED BY <1>1, <1>2, PTL DEF UpdateSpec

LEMMA WrittenFollows == UpdateInv => WrittenForItsText
BY DEF UpdateInv, WrittenIsPlanned, PlanFits, WrittenForItsText, Missing

(* No value that an update archived stands beside another text than the    *)
(* one it was made for, in any order of edits, updates, uploads, failed    *)
(* writes and restarts (create_source_version, archive_language_result).   *)
THEOREM ArchivedTextsMatch == Plain => (UpdateSpec => []ArchivedForItsText)
<1>1. UpdateInv => ArchivedForItsText
  BY DEF UpdateInv
<1> QED BY <1>1, UpdateInvariant, PTL

(* A package holds no translation of a text the source read did not have   *)
(* (classify_entry, build_language_output).                                *)
THEOREM WrittenTextsMatch == Plain => (UpdateSpec => []WrittenForItsText)
BY WrittenFollows, UpdateInvariant, PTL

(* An unchanged source is asked for where it failed and nowhere else       *)
(* (get_entries, classify_entry).                                          *)
THEOREM NothingPaidTwice == Plain => (UpdateSpec => []AsksOnlyForFailures)
<1>1. UpdateInv => AsksOnlyForFailures
  BY DEF UpdateInv
<1> QED BY <1>1, UpdateInvariant, PTL

=============================================================================
