------------------------ MODULE RunsAndReportsProofs ------------------------
(***************************************************************************)
(* What TranslationRun guarantees for any number of files, languages, runs *)
(* and faults.  That a checkpoint tells the truth is not inductive: the    *)
(* set in memory, which the next save writes whole, must tell it too, and  *)
(* the file being written must be in neither.  That a completed run left   *)
(* nothing out needs an account of every file the iterator has passed.     *)
(*                                                                         *)
(* And what ProgressReports guarantees of the limit that runs share, for   *)
(* any threads, lines and settings: what each thread has still to do must  *)
(* be known to the step.                                                   *)
(***************************************************************************)
EXTENDS TranslationRun, ProgressReports, SequenceTheorems, TLAPS

(* A language is being translated; a file of it is being finalised.        *)
Finalising == pc \in {"write", "mark", "status", "archive"}
Working    == pc = "stream" \/ Finalising

IsTranslated(l, f) == output[l][f].text = "translated"

(* Between runs, and between languages, the run remembers nothing.         *)
FreshWhenNotWorking ==
  /\ pc \in {"idle", "prepare"} => lang = 1
  /\ pc = "language" => lang \in Langs
  /\ ~Working => flying = {} /\ errors = FALSE

(* The set in memory holds what is on disk, and names only translated      *)
(* files.                                                                  *)
SeenIsTranslated ==
  Working => /\ lang \in Langs
             /\ checkpoint[lang] \subseteq seen
             /\ \A f \in seen \ Empty : IsTranslated(lang, f)

(* What is in the stream was taken once, for a reason.                     *)
FlyingIsOwed ==
  \A f \in flying : f < next /\ f \notin Empty /\ f \notin seen

(* The file at hand left the stream, and is not yet counted as finished;   *)
(* past its write it holds the translation of what the run read.           *)
FileAtHand ==
  Finalising =>
    /\ file \in Files \ Empty /\ file < next /\ file \notin flying
    /\ pc \in {"write", "mark"} => file \notin seen
    /\ pc = "write" /\ failed => errors
    /\ pc # "write" => output[lang][file] = [text |-> "translated", of |-> snapshot]

(* Every file the iterator has passed is finished, on its way, or the      *)
(* cause of an error the language will raise.                              *)
PassedIsAccountedFor ==
  Working =>
    \A f \in Files \ Empty : f < next =>
      errors \/ f \in seen \/ f \in flying \/ (pc \in {"write", "mark"} /\ f = file)

(* The languages the run has left behind are complete.                     *)
EarlierLanguagesDone ==
  /\ pc = "language" \/ Working =>
       \A l \in Langs, f \in Files \ Empty : l < lang => IsTranslated(l, f)
  /\ pc = "close" => Translated

(* Nothing is said of a run before its end.                                *)
VerdictAtEnd == verdict = "completed" /\ thorough => pc = "idle" /\ Translated

IInv ==
  /\ TypeOK
  /\ CheckpointedIsTranslated
  /\ FreshWhenNotWorking
  /\ SeenIsTranslated
  /\ FlyingIsOwed
  /\ FileAtHand
  /\ PassedIsAccountedFor
  /\ EarlierLanguagesDone
  /\ VerdictAtEnd

-----------------------------------------------------------------------------
(* One file of one language is overwritten.                                *)
Overwrites(l, f, c) == output' = [output EXCEPT ![l][f] = c]

(* Overwriting one file of one language leaves the others alone.           *)
LEMMA OverwriteOne ==
  ASSUME TypeOK, NEW l \in Langs, NEW f \in Files, NEW c \in Content, Overwrites(l, f, c)
  PROVE  /\ output' \in [Langs -> [Files -> Content]]
         /\ output'[l][f] = c
         /\ \A k \in Langs, g \in Files : k # l \/ g # f => output'[k][g] = output[k][g]
<1>1. output \in [Langs -> [Files -> Content]]
  BY DEF TypeOK
<1>2. output'[l] = [output[l] EXCEPT ![f] = c]
  BY <1>1 DEF Overwrites
<1>3. \A k \in Langs : k # l => output'[k] = output[k]
  BY <1>1 DEF Overwrites
<1>4. output'[l] \in [Files -> Content]
  BY <1>1, <1>2
<1>5. output' \in [Langs -> [Files -> Content]]
  BY <1>1, <1>3, <1>4 DEF Overwrites
<1> QED BY <1>1, <1>2, <1>3, <1>5

(* Emptying or replacing one language's checkpoint.                        *)
LEMMA CheckpointOne ==
  ASSUME TypeOK, NEW l \in Langs, NEW s \in SUBSET Files,
         checkpoint' = [checkpoint EXCEPT ![l] = s] \/ checkpoint' = checkpoint
  PROVE  /\ checkpoint' \in [Langs -> SUBSET Files]
         /\ checkpoint'[l] = s \/ checkpoint'[l] = checkpoint[l]
         /\ \A k \in Langs : k # l => checkpoint'[k] = checkpoint[k]
BY DEF TypeOK

(* Marking a file adds it to the set in memory, and to its language's      *)
(* checkpoint nothing else.                                                *)
LEMMA MarkOne ==
  ASSUME TypeOK, lang \in Langs, NEW f \in Files, Mark(f)
  PROVE  /\ seen' = seen \cup {f} /\ seen' \subseteq Files
         /\ checkpoint' \in [Langs -> SUBSET Files]
         /\ checkpoint'[lang] = seen \cup {f} \/ checkpoint'[lang] = checkpoint[lang]
         /\ \A k \in Langs : k # lang => checkpoint'[k] = checkpoint[k]
         /\ faults' \in Nat
<1>1. seen' = seen \cup {f} /\ seen' \subseteq Files
  BY DEF Mark, TypeOK
<1>2. checkpoint' = [checkpoint EXCEPT ![lang] = seen \cup {f}] \/ checkpoint' = checkpoint
  BY DEF Mark
<1>3. seen \cup {f} \in SUBSET Files
  BY DEF TypeOK
<1>4. faults' \in Nat
  BY DEF Mark, NoFault, Swallowed, TypeOK
<1> QED BY <1>1, <1>2, <1>3, <1>4, CheckpointOne

(* The end of a run, however it comes about: at most the file being        *)
(* written is disturbed, and success is claimed only when all is done.     *)
LEMMA EndKeepsIInv ==
  ASSUME IInv, CutOff, NEW v \in {"completed", "failed", "died"}, NEW w \in BOOLEAN,
         End(v, w), w => pc = "close",
         UNCHANGED <<revision, checkpoint, done, archived, faults>>
  PROVE  IInv'
<1> USE DEF Finalising, Working
<1>1. TypeOK
  BY DEF IInv
<1>2. /\ output' \in [Langs -> [Files -> Content]]
      /\ \A l \in Langs, f \in Files :
           output'[l][f] = output[l][f] \/ (pc = "write" /\ l = lang /\ f = file)
  <2>1. CASE output' = output
    BY <1>1, <2>1 DEF TypeOK
  <2>2. CASE /\ pc = "write"
             /\ output' = [output EXCEPT ![lang][file] = [text |-> "torn", of |-> snapshot]]
    <3>1. lang \in Langs /\ file \in Files
      BY <2>2 DEF IInv, SeenIsTranslated, FileAtHand
    <3>2. PICK c \in Content : Overwrites(lang, file, c)
      BY <1>1, <2>2 DEF TypeOK, Content, Overwrites
    <3>3. /\ output' \in [Langs -> [Files -> Content]]
          /\ \A k \in Langs, g \in Files :
               k # lang \/ g # file => output'[k][g] = output[k][g]
      BY <1>1, <3>1, <3>2, OverwriteOne
    <3> QED BY <2>2, <3>3
  <2> QED BY <2>1, <2>2 DEF CutOff
<1>3. pc' = "idle" /\ lang' = 1 /\ flying' = {} /\ errors' = FALSE
  BY DEF End
<1>4. TypeOK'
  <2>1. 1 \in 1..L + 1 /\ 1 \in 1..N + 1 /\ 0 \in 0..N
    BY SizeAssumption
  <2> QED BY <1>1, <1>2, <2>1 DEF TypeOK, End
<1>5. CheckpointedIsTranslated'
  <2> SUFFICES ASSUME NEW l \in Langs, NEW f \in checkpoint[l] \ Empty
               PROVE  output'[l][f].text = "translated"
    BY DEF CheckpointedIsTranslated
  <2>1. output[l][f].text = "translated" /\ f \in Files
    BY <1>1 DEF IInv, CheckpointedIsTranslated, TypeOK
  <2>2. ~(pc = "write" /\ l = lang /\ f = file)
    BY DEF IInv, SeenIsTranslated, FileAtHand
  <2> QED BY <1>2, <2>1, <2>2
<1>6. FreshWhenNotWorking' /\ SeenIsTranslated' /\ FlyingIsOwed' /\ FileAtHand'
      /\ PassedIsAccountedFor' /\ EarlierLanguagesDone'
  BY <1>3 DEF FreshWhenNotWorking, SeenIsTranslated, FlyingIsOwed, FileAtHand,
              PassedIsAccountedFor, EarlierLanguagesDone
<1>7. VerdictAtEnd'
  <2>1. CASE w
    <3>1. pc = "close" /\ Translated
      BY <2>1 DEF IInv, EarlierLanguagesDone
    <3>2. Translated'
      BY <1>2, <3>1 DEF Translated
    <3> QED BY <1>3, <3>2 DEF VerdictAtEnd
  <2>2. CASE ~w
    BY <2>2 DEF End, VerdictAtEnd
  <2> QED BY <2>1, <2>2
<1> QED BY <1>4, <1>5, <1>6, <1>7 DEF IInv

(* Before and between languages nothing is at stake but the checkpoints.   *)
LEMMA StartAndPrepareKeepIInv ==
  ASSUME IInv, (\E r \in BOOLEAN : StartRun(r)) \/ PrepareRun \/ BeginLanguage
  PROVE  IInv'
<1> USE DEF Finalising, Working
<1>0. TypeOK
  BY DEF IInv
<1>1. ASSUME NEW r \in BOOLEAN, StartRun(r) PROVE IInv'
  <2>1. TypeOK'
    <3>1. runs' \in Nat
      BY <1>0, <1>1 DEF StartRun, TypeOK
    <3>2. resume' \in BOOLEAN
      BY <1>1 DEF StartRun
    <3> QED BY <1>0, <1>1, <3>1, <3>2 DEF StartRun, TypeOK, disk
  <2>2. CheckpointedIsTranslated' /\ FreshWhenNotWorking' /\ FlyingIsOwed'
    BY <1>1 DEF StartRun, disk, IInv, CheckpointedIsTranslated, FreshWhenNotWorking,
                FlyingIsOwed
  <2>3. SeenIsTranslated' /\ FileAtHand' /\ PassedIsAccountedFor'
        /\ EarlierLanguagesDone' /\ VerdictAtEnd'
    BY <1>1 DEF StartRun, SeenIsTranslated, FileAtHand, PassedIsAccountedFor,
                EarlierLanguagesDone, VerdictAtEnd
  <2> QED BY <2>1, <2>2, <2>3 DEF IInv
<1>2. CASE PrepareRun
  <2>1. TypeOK'
    BY <1>0, <1>2 DEF PrepareRun, TypeOK, disk
  <2>2. CheckpointedIsTranslated' /\ FlyingIsOwed'
    BY <1>2 DEF PrepareRun, disk, IInv, CheckpointedIsTranslated, FlyingIsOwed
  <2>3. FreshWhenNotWorking' /\ lang' = 1
    BY <1>2, SizeAssumption DEF PrepareRun, IInv, FreshWhenNotWorking, Langs
  <2>4. SeenIsTranslated' /\ FileAtHand' /\ PassedIsAccountedFor'
    BY <1>2 DEF PrepareRun, SeenIsTranslated, FileAtHand, PassedIsAccountedFor
  <2>5. EarlierLanguagesDone'
    BY <1>2, <2>3 DEF PrepareRun, EarlierLanguagesDone, Langs
  <2>6. VerdictAtEnd'
    BY <1>2 DEF PrepareRun, IInv, VerdictAtEnd
  <2> QED BY <2>1, <2>2, <2>3, <2>4, <2>5, <2>6 DEF IInv
<1>3. CASE BeginLanguage
  <2>1. lang \in Langs /\ lang' = lang /\ seen' = checkpoint[lang] /\ output' = output
    BY <1>3 DEF BeginLanguage, IInv, FreshWhenNotWorking
  <2>2. /\ checkpoint' \in [Langs -> SUBSET Files]
        /\ \A l \in Langs : checkpoint'[l] \subseteq checkpoint[l]
    BY <1>0, <1>3, <2>1 DEF BeginLanguage, TypeOK
  <2>3. faults' \in Nat
    BY <1>0, <1>3 DEF BeginLanguage, NoFault, Swallowed, TypeOK
  <2>4. TypeOK'
    <3>1. 1 \in 1..N + 1
      BY SizeAssumption
    <3> QED BY <1>0, <1>3, <2>1, <2>2, <2>3, <3>1 DEF BeginLanguage, TypeOK
  <2>5. CheckpointedIsTranslated'
    BY <2>1, <2>2 DEF IInv, CheckpointedIsTranslated
  <2>6. SeenIsTranslated'
    BY <2>1, <2>2 DEF IInv, CheckpointedIsTranslated, SeenIsTranslated, IsTranslated
  <2>7. flying' = {} /\ next' = 1 /\ pc' = "stream"
    BY <1>3 DEF BeginLanguage, IInv, FreshWhenNotWorking
  <2>8. FreshWhenNotWorking' /\ FlyingIsOwed' /\ FileAtHand' /\ VerdictAtEnd'
    BY <1>3, <2>7 DEF BeginLanguage, IInv, FreshWhenNotWorking, FlyingIsOwed, FileAtHand,
                      VerdictAtEnd
  <2>9. PassedIsAccountedFor'
    BY <2>7 DEF PassedIsAccountedFor, Files
  <2>10. EarlierLanguagesDone'
    BY <1>3, <2>1, <2>7 DEF BeginLanguage, IInv, EarlierLanguagesDone, IsTranslated
  <2> QED BY <2>4, <2>5, <2>6, <2>8, <2>9, <2>10 DEF IInv
<1> QED BY <1>1, <1>2, <1>3

(* The iterator: a file is passed because it is finished, or is taken.     *)
LEMMA IteratorKeepsIInv ==
  ASSUME IInv, SkipFile \/ TakeFile \/ TakeEmptyFile
  PROVE  IInv'
<1> USE DEF Finalising, Working
<1>0. TypeOK
  BY DEF IInv
<1>1. /\ pc = "stream" /\ pc' = pc /\ next \in Files /\ next' = next + 1
      /\ lang \in Langs /\ lang' = lang /\ errors' = errors /\ verdict' = verdict
      /\ thorough' = thorough
  BY DEF IInv, SeenIsTranslated, SkipFile, TakeFile, TakeEmptyFile
<1>2. next + 1 \in 1..N + 1 /\ next \in Nat
  BY <1>1, SizeAssumption DEF Files
<1>3. \A f \in Files : f < next + 1 <=> (f < next \/ f = next)
  BY <1>2 DEF Files
<1>4. FreshWhenNotWorking' /\ FileAtHand' /\ VerdictAtEnd'
  BY <1>1 DEF IInv, FreshWhenNotWorking, FileAtHand, VerdictAtEnd
<1>5. flying \subseteq Files
  BY <1>0 DEF TypeOK
<1>6. CASE SkipFile
  <2>1. TypeOK'
    BY <1>0, <1>1, <1>2, <1>6 DEF SkipFile, TypeOK, disk
  <2>2. CheckpointedIsTranslated' /\ SeenIsTranslated' /\ EarlierLanguagesDone'
    BY <1>1, <1>6 DEF SkipFile, disk, IInv, CheckpointedIsTranslated, SeenIsTranslated,
                      EarlierLanguagesDone, IsTranslated
  <2>3. FlyingIsOwed'
    BY <1>1, <1>3, <1>5, <1>6 DEF SkipFile, IInv, FlyingIsOwed
  <2>4. PassedIsAccountedFor'
    BY <1>1, <1>3, <1>6 DEF SkipFile, IInv, PassedIsAccountedFor
  <2> QED BY <1>4, <2>1, <2>2, <2>3, <2>4 DEF IInv
<1>7. CASE TakeFile
  <2>1. TypeOK'
    BY <1>0, <1>1, <1>2, <1>7 DEF TakeFile, TypeOK, disk
  <2>2. CheckpointedIsTranslated' /\ SeenIsTranslated' /\ EarlierLanguagesDone'
    BY <1>1, <1>7 DEF TakeFile, disk, IInv, CheckpointedIsTranslated, SeenIsTranslated,
                      EarlierLanguagesDone, IsTranslated
  <2>3. FlyingIsOwed'
    BY <1>1, <1>3, <1>5, <1>7 DEF TakeFile, IInv, FlyingIsOwed
  <2>4. PassedIsAccountedFor'
    BY <1>1, <1>3, <1>7 DEF TakeFile, IInv, PassedIsAccountedFor
  <2> QED BY <1>4, <2>1, <2>2, <2>3, <2>4 DEF IInv
<1>8. CASE TakeEmptyFile
  <2>1. /\ output' \in [Langs -> [Files -> Content]]
        /\ \A l \in Langs, f \in Files \ Empty : output'[l][f] = output[l][f]
    <3>1. CASE output' = output
      BY <1>0, <3>1 DEF TypeOK
    <3>2. CASE output' = [output EXCEPT ![lang][next] = [text |-> "source", of |-> revision]]
      <4>1. PICK c \in Content : Overwrites(lang, next, c)
        BY <1>0, <3>2 DEF TypeOK, Content, Overwrites
      <4>2. next \in Empty
        BY <1>8 DEF TakeEmptyFile
      <4>3. /\ output' \in [Langs -> [Files -> Content]]
            /\ \A k \in Langs, g \in Files :
                 k # lang \/ g # next => output'[k][g] = output[k][g]
        BY <1>0, <1>1, <4>1, OverwriteOne
      <4> QED BY <4>2, <4>3
    <3> QED BY <1>8, <3>1, <3>2 DEF TakeEmptyFile
  <2>2. /\ seen' = seen \cup {next} /\ seen' \subseteq Files
        /\ checkpoint' \in [Langs -> SUBSET Files]
        /\ checkpoint'[lang] = seen \cup {next} \/ checkpoint'[lang] = checkpoint[lang]
        /\ \A k \in Langs : k # lang => checkpoint'[k] = checkpoint[k]
        /\ faults' \in Nat
    BY <1>0, <1>1, <1>8, MarkOne DEF TakeEmptyFile
  <2>3. TypeOK'
    BY <1>0, <1>1, <1>2, <1>8, <2>1, <2>2 DEF TakeEmptyFile, TypeOK
  <2>4. next \in Empty
    BY <1>8 DEF TakeEmptyFile
  <2>5. SeenIsTranslated'
    BY <1>0, <1>1, <2>1, <2>2, <2>4 DEF IInv, SeenIsTranslated, IsTranslated, TypeOK
  <2>6. CheckpointedIsTranslated'
    <3> SUFFICES ASSUME NEW l \in Langs, NEW f \in checkpoint'[l] \ Empty
                 PROVE  output'[l][f].text = "translated"
      BY DEF CheckpointedIsTranslated
    <3>1. CASE l = lang
      BY <1>1, <2>5, <3>1 DEF SeenIsTranslated, IsTranslated
    <3>2. CASE l # lang
      BY <1>0, <2>1, <2>2, <3>2 DEF IInv, CheckpointedIsTranslated, TypeOK
    <3> QED BY <3>1, <3>2
  <2>7. FlyingIsOwed'
    BY <1>1, <1>3, <1>5, <1>8, <2>2, <2>4 DEF TakeEmptyFile, IInv, FlyingIsOwed
  <2>8. PassedIsAccountedFor'
    BY <1>1, <1>3, <1>8, <2>2, <2>4 DEF TakeEmptyFile, IInv, PassedIsAccountedFor
  <2>9. EarlierLanguagesDone'
    BY <1>1, <2>1 DEF IInv, EarlierLanguagesDone, IsTranslated
  <2> QED BY <1>4, <2>3, <2>5, <2>6, <2>7, <2>8, <2>9 DEF IInv
<1> QED BY <1>6, <1>7, <1>8

(* A file leaves the stream and is written: what is overwritten is in no   *)
(* checkpoint, and in no earlier language.                                 *)
LEMMA YieldAndWriteKeepIInv ==
  ASSUME IInv, (\E f \in Files, bad \in BOOLEAN : YieldFile(f, bad)) \/ WriteFile
  PROVE  IInv'
<1> USE DEF Finalising, Working
<1>0. TypeOK
  BY DEF IInv
<1>1. ASSUME NEW f \in Files, NEW bad \in BOOLEAN, YieldFile(f, bad) PROVE IInv'
  <2>1. f < next /\ f \notin Empty /\ f \notin seen /\ f \in flying
    BY <1>1 DEF YieldFile, IInv, FlyingIsOwed
  <2>2. bad => errors'
    BY <1>1 DEF YieldFile
  <2>3. errors => errors'
    BY <1>1 DEF YieldFile
  <2>4. pc = "stream" /\ pc' = "write" /\ file' = f /\ flying' = flying \ {f} /\ failed' = bad
    BY <1>1 DEF YieldFile
  <2>5. TypeOK'
    <3>1. errors' \in BOOLEAN /\ failed' \in BOOLEAN
      BY <1>1 DEF YieldFile
    <3>2. f \in 0..N
      BY DEF Files
    <3> QED BY <1>0, <1>1, <3>1, <3>2 DEF YieldFile, TypeOK, disk
  <2>6. CheckpointedIsTranslated' /\ SeenIsTranslated' /\ EarlierLanguagesDone'
        /\ FlyingIsOwed'
    BY <1>1 DEF YieldFile, disk, IInv, CheckpointedIsTranslated, SeenIsTranslated,
                EarlierLanguagesDone, IsTranslated, FlyingIsOwed
  <2>7. FreshWhenNotWorking' /\ VerdictAtEnd'
    BY <1>1 DEF YieldFile, IInv, FreshWhenNotWorking, VerdictAtEnd
  <2>8. FileAtHand'
    <3>1. next' = next /\ seen' = seen
      BY <1>1 DEF YieldFile
    <3> QED BY <2>1, <2>2, <2>4, <3>1 DEF FileAtHand
  <2>9. PassedIsAccountedFor'
    BY <1>1, <2>3, <2>4 DEF YieldFile, IInv, PassedIsAccountedFor
  <2> QED BY <2>5, <2>6, <2>7, <2>8, <2>9 DEF IInv
<1>2. CASE WriteFile
  <2> DEFINE c == [text |-> IF failed THEN "source" ELSE "translated", of |-> snapshot]
  <2>1. /\ lang \in Langs /\ file \in Files \ Empty /\ file < next
        /\ file \notin flying /\ file \notin seen
        /\ failed => errors
    BY <1>2 DEF WriteFile, IInv, SeenIsTranslated, FileAtHand
  <2>2. c \in Content
    BY <1>0 DEF TypeOK, Content
  <2>3. ~failed => c = [text |-> "translated", of |-> snapshot]
    OBVIOUS
  <2>4. Overwrites(lang, file, c)
    BY <1>2 DEF WriteFile, Overwrites
  <2> HIDE DEF c
  <2>5. /\ output' \in [Langs -> [Files -> Content]]
        /\ output'[lang][file] = c
        /\ \A k \in Langs, g \in Files :
             k # lang \/ g # file => output'[k][g] = output[k][g]
    BY <1>0, <2>1, <2>2, <2>4, OverwriteOne
  <2>6. /\ pc = "write" /\ pc' = IF failed THEN "stream" ELSE "mark"
        /\ UNCHANGED <<revision, checkpoint, done, archived, resume, snapshot, lang, next,
                       seen, flying, file, failed, errors, verdict, thorough, runs, faults>>
    BY <1>2 DEF WriteFile
  <2>7. TypeOK'
    <3>1. pc' \in {"stream", "mark"}
      BY <2>6
    <3> QED BY <1>0, <2>5, <2>6, <3>1 DEF TypeOK
  <2>8. CheckpointedIsTranslated'
    <3> SUFFICES ASSUME NEW l \in Langs, NEW f \in checkpoint[l] \ Empty
                 PROVE  output'[l][f].text = "translated"
      BY <2>6 DEF CheckpointedIsTranslated
    <3>1. output[l][f].text = "translated" /\ f \in Files
      BY <1>0 DEF IInv, CheckpointedIsTranslated, TypeOK
    <3>2. l = lang => f # file
      BY <2>1, <2>6 DEF IInv, SeenIsTranslated
    <3> QED BY <2>5, <3>1, <3>2
  <2>9. SeenIsTranslated'
    BY <1>0, <2>1, <2>5, <2>6 DEF IInv, SeenIsTranslated, IsTranslated, TypeOK
  <2>10. FreshWhenNotWorking' /\ FlyingIsOwed' /\ VerdictAtEnd'
    BY <2>6 DEF IInv, FreshWhenNotWorking, FlyingIsOwed, VerdictAtEnd
  <2>11. FileAtHand'
    BY <2>1, <2>3, <2>5, <2>6 DEF FileAtHand
  <2>12. PassedIsAccountedFor'
    BY <2>1, <2>6 DEF IInv, PassedIsAccountedFor
  <2>13. EarlierLanguagesDone'
    <3>1. \A l \in Langs, f \in Files \ Empty : l < lang => IsTranslated(l, f)
      BY <2>6 DEF IInv, EarlierLanguagesDone
    <3>2. \A l \in Langs : l < lang => l # lang
      BY DEF Langs
    <3>3. \A l \in Langs, f \in Files \ Empty : l < lang => output'[l][f].text = "translated"
      BY <2>5, <3>1, <3>2 DEF IsTranslated
    <3> QED BY <2>6, <3>3 DEF EarlierLanguagesDone, IsTranslated
  <2> QED BY <2>7, <2>8, <2>9, <2>10, <2>11, <2>12, <2>13 DEF IInv
<1> QED BY <1>1, <1>2

(* The records of a success.                                               *)
LEMMA RecordsKeepIInv ==
  ASSUME IInv, MarkFile \/ SyncStatus \/ ArchiveFile
  PROVE  IInv'
<1> USE DEF Finalising, Working
<1>0. TypeOK
  BY DEF IInv
<1>1. /\ lang \in Langs /\ file \in Files \ Empty /\ file \notin flying
      /\ output[lang][file].text = "translated"
  BY DEF IInv, SeenIsTranslated, FileAtHand, MarkFile, SyncStatus, ArchiveFile
<1>2. CASE MarkFile
  <2>1. /\ seen' = seen \cup {file} /\ seen' \subseteq Files
        /\ checkpoint' \in [Langs -> SUBSET Files]
        /\ checkpoint'[lang] = seen \cup {file} \/ checkpoint'[lang] = checkpoint[lang]
        /\ \A k \in Langs : k # lang => checkpoint'[k] = checkpoint[k]
        /\ faults' \in Nat
    BY <1>0, <1>1, <1>2, MarkOne DEF MarkFile
  <2>2. /\ pc = "mark" /\ pc' = "status"
        /\ UNCHANGED <<revision, output, done, archived, resume, snapshot, lang, next, flying,
                       file, failed, errors, verdict, thorough, runs>>
    BY <1>2 DEF MarkFile
  <2>3. TypeOK'
    BY <1>0, <2>1, <2>2 DEF TypeOK
  <2>4. SeenIsTranslated'
    BY <1>1, <2>1, <2>2 DEF IInv, SeenIsTranslated, IsTranslated
  <2>5. CheckpointedIsTranslated'
    <3> SUFFICES ASSUME NEW l \in Langs, NEW f \in checkpoint'[l] \ Empty
                 PROVE  output'[l][f].text = "translated"
      BY DEF CheckpointedIsTranslated
    <3>1. CASE l = lang
      BY <2>2, <2>4, <3>1 DEF SeenIsTranslated, IsTranslated
    <3>2. CASE l # lang
      BY <2>1, <2>2, <3>2 DEF IInv, CheckpointedIsTranslated
    <3> QED BY <3>1, <3>2
  <2>6. FreshWhenNotWorking' /\ FlyingIsOwed' /\ FileAtHand' /\ VerdictAtEnd'
    BY <1>1, <2>1, <2>2 DEF IInv, FreshWhenNotWorking, FlyingIsOwed, FileAtHand, VerdictAtEnd
  <2>7. PassedIsAccountedFor'
    BY <2>1, <2>2 DEF IInv, PassedIsAccountedFor
  <2>8. EarlierLanguagesDone'
    BY <2>2 DEF IInv, EarlierLanguagesDone, IsTranslated
  <2> QED BY <2>3, <2>4, <2>5, <2>6, <2>7, <2>8 DEF IInv
<1>3. CASE SyncStatus \/ ArchiveFile
  <2>1. /\ pc \in {"status", "archive"} /\ pc' \in {"archive", "stream"}
        /\ UNCHANGED <<revision, output, checkpoint, resume, snapshot, lang, next, seen,
                       flying, file, failed, errors, verdict, thorough, runs>>
    BY <1>3 DEF SyncStatus, ArchiveFile
  <2>2. done' \subseteq Files
    <3>1. done' \subseteq done \cup {file}
      BY <1>3 DEF SyncStatus, ArchiveFile
    <3>2. file \in Files /\ done \subseteq Files
      BY <1>0, <1>1 DEF TypeOK
    <3> QED BY <3>1, <3>2
  <2>3. archived' \subseteq Langs \X Files \X (0..MaxRevision)
    <3>1. archived' \subseteq archived \cup {<<lang, file, snapshot>>}
      BY <1>3 DEF SyncStatus, ArchiveFile
    <3>2. <<lang, file, snapshot>> \in Langs \X Files \X (0..MaxRevision)
      BY <1>0, <1>1 DEF TypeOK
    <3>3. archived \subseteq Langs \X Files \X (0..MaxRevision)
      BY <1>0 DEF TypeOK
    <3> QED BY <3>1, <3>2, <3>3
  <2>4. faults' \in Nat
    BY <1>0, <1>3 DEF SyncStatus, ArchiveFile, NoFault, Swallowed, TypeOK
  <2>5. TypeOK'
    BY <1>0, <2>1, <2>2, <2>3, <2>4 DEF TypeOK
  <2>6. CheckpointedIsTranslated' /\ FreshWhenNotWorking' /\ SeenIsTranslated'
        /\ FlyingIsOwed' /\ FileAtHand' /\ VerdictAtEnd'
    BY <2>1 DEF IInv, CheckpointedIsTranslated, FreshWhenNotWorking, SeenIsTranslated,
                IsTranslated, FlyingIsOwed, FileAtHand, VerdictAtEnd
  <2>7. PassedIsAccountedFor' /\ EarlierLanguagesDone'
    BY <2>1 DEF IInv, PassedIsAccountedFor, EarlierLanguagesDone, IsTranslated
  <2> QED BY <2>5, <2>6, <2>7 DEF IInv
<1> QED BY <1>2, <1>3

(* A language ends without an error: the iterator has passed every file    *)
(* and none is on its way, so all are finished.                            *)
LEMMA EndLanguageKeepsIInv ==
  ASSUME IInv, EndLanguage
  PROVE  IInv'
<1> USE DEF Finalising, Working
<1>1. TypeOK
  BY DEF IInv
<1>2. /\ pc = "stream" /\ pc' = IF lang = L THEN "close" ELSE "language"
      /\ lang' = IF lang = L THEN 1 ELSE lang + 1
      /\ next \notin Files /\ flying = {} /\ ~errors
      /\ seen' = {} /\ file' = 0 /\ failed' = FALSE
      /\ UNCHANGED <<revision, output, checkpoint, done, archived, resume, snapshot, next,
                     flying, errors, verdict, thorough, runs, faults>>
  BY DEF EndLanguage, Streamed, disk
<1>3. lang \in Langs /\ lang' \in Langs
  BY <1>2, SizeAssumption DEF IInv, SeenIsTranslated, Langs
<1>4. \A f \in Files \ Empty : IsTranslated(lang, f)
  <2>1. \A f \in Files : f < next
    BY <1>1, <1>2, SizeAssumption DEF TypeOK, Files
  <2> QED BY <1>2, <2>1 DEF IInv, PassedIsAccountedFor, SeenIsTranslated
<1>5. \A l \in Langs, f \in Files \ Empty : l < lang \/ l = lang => IsTranslated(l, f)
  BY <1>2, <1>4 DEF IInv, EarlierLanguagesDone
<1>6. TypeOK'
  <2>1. pc' \in {"close", "language"}
    BY <1>2
  <2>2. lang' \in 1..L + 1 /\ 0 \in 0..N
    BY <1>3, SizeAssumption DEF Langs
  <2> QED BY <1>1, <1>2, <2>1, <2>2 DEF TypeOK
<1>7. CheckpointedIsTranslated' /\ FlyingIsOwed' /\ VerdictAtEnd'
  BY <1>2 DEF IInv, CheckpointedIsTranslated, FlyingIsOwed, VerdictAtEnd
<1>8. FreshWhenNotWorking' /\ SeenIsTranslated' /\ FileAtHand' /\ PassedIsAccountedFor'
  BY <1>2, <1>3 DEF FreshWhenNotWorking, SeenIsTranslated, FileAtHand,
                    PassedIsAccountedFor
<1>9. EarlierLanguagesDone'
  <2>1. CASE lang = L
    <3>1. \A l \in Langs : l < lang \/ l = lang
      BY <2>1, SizeAssumption DEF Langs
    <3> QED BY <1>2, <1>5, <2>1, <3>1 DEF EarlierLanguagesDone, Translated, IsTranslated
  <2>2. CASE lang # L
    <3>1. \A l \in Langs : l < lang + 1 => l < lang \/ l = lang
      BY <1>3 DEF Langs
    <3> QED BY <1>2, <1>5, <2>2, <3>1 DEF EarlierLanguagesDone, IsTranslated
  <2> QED BY <2>1, <2>2
<1> QED BY <1>6, <1>7, <1>8, <1>9 DEF IInv

(* A checkpoint that shrinks stays true; the source is nobody's business.  *)
LEMMA ForgettingKeepsIInv ==
  ASSUME IInv, ClearCheckpoint \/ (\E l \in Langs : DeleteCheckpoint(l)) \/ ChangeSource
  PROVE  IInv'
<1> USE DEF Finalising, Working
<1>1. TypeOK
  BY DEF IInv
<1>2. /\ checkpoint' \in [Langs -> SUBSET Files]
      /\ \A l \in Langs : checkpoint'[l] \subseteq checkpoint[l]
  <2>1. CASE checkpoint' = checkpoint
    BY <1>1, <2>1 DEF TypeOK
  <2>2. ASSUME NEW l \in Langs, checkpoint' = [checkpoint EXCEPT ![l] = {}]
        PROVE  /\ checkpoint' \in [Langs -> SUBSET Files]
               /\ \A k \in Langs : checkpoint'[k] \subseteq checkpoint[k]
    BY <1>1, <2>2 DEF TypeOK
  <2> QED BY <2>1, <2>2 DEF ClearCheckpoint, DeleteCheckpoint, ChangeSource
<1>3. UNCHANGED <<output, done, archived, pc, resume, snapshot, next, seen, flying, file,
                  failed, errors, verdict, thorough, runs>>
  BY DEF ClearCheckpoint, DeleteCheckpoint, ChangeSource, process
<1>4. lang' = lang \/ (pc = "close" /\ lang \in Langs /\ lang' = lang + 1)
  BY DEF ClearCheckpoint, DeleteCheckpoint, ChangeSource, process
<1>5. TypeOK'
  <2>1. lang' \in 1..L + 1
    BY <1>1, <1>4, SizeAssumption DEF TypeOK, Langs
  <2>2. revision' \in 0..MaxRevision
    BY <1>1, BoundAssumption DEF TypeOK, ClearCheckpoint, DeleteCheckpoint, ChangeSource
  <2>3. snapshot' \in 0..MaxRevision /\ faults' \in Nat
    BY <1>1, <1>3 DEF TypeOK, ClearCheckpoint, NoFault, Swallowed, DeleteCheckpoint,
                      ChangeSource
  <2> QED BY <1>1, <1>2, <1>3, <2>1, <2>2, <2>3 DEF TypeOK
<1>6. CheckpointedIsTranslated'
  BY <1>2, <1>3 DEF IInv, CheckpointedIsTranslated
<1>7. FreshWhenNotWorking' /\ SeenIsTranslated' /\ FileAtHand'
  BY <1>2, <1>3, <1>4 DEF IInv, FreshWhenNotWorking, SeenIsTranslated, IsTranslated,
                          FileAtHand
<1>8. FlyingIsOwed' /\ PassedIsAccountedFor' /\ VerdictAtEnd'
  BY <1>3 DEF IInv, FlyingIsOwed, PassedIsAccountedFor, VerdictAtEnd, Translated
<1>9. EarlierLanguagesDone'
  BY <1>3, <1>4 DEF IInv, EarlierLanguagesDone, Translated, IsTranslated
<1> QED BY <1>5, <1>6, <1>7, <1>8, <1>9 DEF IInv

-----------------------------------------------------------------------------
(* The invariant holds from the first run on, through every step of a run, *)
(* every death of the process and every change from outside.               *)
THEOREM RunInvariant == Spec => []IInv
<1>1. Init => IInv
  <2> SUFFICES ASSUME Init PROVE IInv
    OBVIOUS
  <2> USE DEF Init
  <2>1. TypeOK
    <3>1. 0 \in 0..MaxRevision /\ 1 \in 1..L + 1 /\ 1 \in 1..N + 1 /\ 0 \in 0..N
      BY SizeAssumption, BoundAssumption
    <3>2. [text |-> "none", of |-> 0] \in Content
      BY <3>1 DEF Content
    <3>3. output \in [Langs -> [Files -> Content]]
      BY <3>2
    <3> QED BY <3>1, <3>3 DEF TypeOK
  <2>2. CheckpointedIsTranslated
    BY DEF CheckpointedIsTranslated
  <2>3. FreshWhenNotWorking /\ SeenIsTranslated /\ FlyingIsOwed /\ FileAtHand
        /\ PassedIsAccountedFor /\ EarlierLanguagesDone /\ VerdictAtEnd
    BY DEF FreshWhenNotWorking, SeenIsTranslated, FlyingIsOwed, FileAtHand,
           PassedIsAccountedFor, EarlierLanguagesDone, VerdictAtEnd, Finalising, Working
  <2> QED BY <2>1, <2>2, <2>3 DEF IInv
<1>2. IInv /\ [Next]_vars => IInv'
  <2> SUFFICES ASSUME IInv, [Next]_vars PROVE IInv'
    OBVIOUS
  <2>1. CASE GiveUp
    <3>1. CutOff
      BY <2>1 DEF GiveUp, CutOff, disk
    <3> QED BY <2>1, <3>1, EndKeepsIInv DEF GiveUp, disk
  <2>2. CASE FailLanguage
    <3>1. CutOff
      BY <2>2 DEF FailLanguage, Streamed, CutOff, disk
    <3> QED BY <2>2, <3>1, EndKeepsIInv DEF FailLanguage, disk
  <2>3. CASE CompleteRun
    <3>1. CutOff
      BY <2>3 DEF CompleteRun, CutOff, disk
    <3> QED BY <2>3, <3>1, EndKeepsIInv DEF CompleteRun, disk
  <2>4. CASE Raise \/ Crash
    BY <2>4, EndKeepsIInv DEF Raise, Crash
  <2>5. CASE (\E r \in BOOLEAN : StartRun(r)) \/ PrepareRun \/ BeginLanguage
    BY <2>5, StartAndPrepareKeepIInv
  <2>6. CASE SkipFile \/ TakeFile \/ TakeEmptyFile
    BY <2>6, IteratorKeepsIInv
  <2>7. CASE (\E f \in Files, bad \in BOOLEAN : YieldFile(f, bad)) \/ WriteFile
    BY <2>7, YieldAndWriteKeepIInv
  <2>8. CASE MarkFile \/ SyncStatus \/ ArchiveFile
    BY <2>8, RecordsKeepIInv
  <2>9. CASE EndLanguage
    BY <2>9, EndLanguageKeepsIInv
  <2>10. CASE ClearCheckpoint \/ (\E l \in Langs : DeleteCheckpoint(l)) \/ ChangeSource
    BY <2>10, ForgettingKeepsIInv
  <2>11. CASE UNCHANGED vars
    BY <2>11 DEF vars, disk, process, IInv, TypeOK, CheckpointedIsTranslated,
                 FreshWhenNotWorking, SeenIsTranslated, FlyingIsOwed, FileAtHand,
                 PassedIsAccountedFor, EarlierLanguagesDone, VerdictAtEnd, Translated,
                 IsTranslated, Working, Finalising
  <2> QED BY <2>1, <2>2, <2>3, <2>4, <2>5, <2>6, <2>7, <2>8, <2>9, <2>10, <2>11 DEF Next
<1> QED BY <1>1, <1>2, PTL DEF Spec

(* Every variable keeps its type.                                          *)
THEOREM RunTypeCorrect == Spec => []TypeOK
BY RunInvariant, PTL DEF IInv

(* Whatever crashed or failed to save, in this run or an earlier one, a    *)
(* file a checkpoint names is translated on disk.                          *)
THEOREM CheckpointIsTrue == Spec => []CheckpointedIsTranslated
BY RunInvariant, PTL DEF IInv

(* A run that went through its languages and completed left every file     *)
(* translated.                                                             *)
THEOREM CompletionIsTrue == Spec => []CompletedIsTranslated
<1>1. IInv => CompletedIsTranslated
  BY DEF IInv, VerdictAtEnd, CompletedIsTranslated
<1> QED BY <1>1, RunInvariant, PTL

(* No step overwrites a file its language's checkpoint names.              *)
THEOREM FinishedWorkIsKept == Spec => FinishedIsKept
<1>1. ASSUME IInv, [Next]_vars
      PROVE  [\A l \in Langs : \A f \in checkpoint[l] \ Empty :
                output'[l][f] = output[l][f]]_vars
  <2> SUFFICES ASSUME Next, NEW l \in Langs, NEW f \in checkpoint[l] \ Empty
               PROVE  output'[l][f] = output[l][f]
    BY <1>1
  <2>1. TypeOK /\ f \in Files
    BY <1>1 DEF IInv, TypeOK
  <2>2. CASE output' = output
    BY <2>2
  <2>3. CASE TakeEmptyFile
    <3>1. lang \in Langs /\ next \in Files /\ next \in Empty
      BY <1>1, <2>3 DEF TakeEmptyFile, IInv, SeenIsTranslated, Working
    <3>2. [text |-> "source", of |-> revision] \in Content
      BY <2>1 DEF TypeOK, Content
    <3>3. ASSUME NEW c \in Content, Overwrites(lang, next, c)
          PROVE  output'[l][f] = output[l][f]
      <4>1. \A k \in Langs, g \in Files :
              k # lang \/ g # next => output'[k][g] = output[k][g]
        BY <2>1, <3>1, <3>3, OverwriteOne
      <4> QED BY <2>1, <3>1, <4>1
    <3> QED BY <2>2, <2>3, <3>2, <3>3 DEF TakeEmptyFile, Overwrites
  <2>4. ASSUME NEW c \in Content, pc = "write", Overwrites(lang, file, c)
        PROVE  output'[l][f] = output[l][f]
    <3>1. lang \in Langs /\ file \in Files /\ (l = lang => f # file)
      BY <1>1, <2>4 DEF IInv, SeenIsTranslated, FileAtHand, Working, Finalising
    <3>2. \A k \in Langs, g \in Files :
            k # lang \/ g # file => output'[k][g] = output[k][g]
      BY <2>1, <2>4, <3>1, OverwriteOne
    <3> QED BY <2>1, <3>1, <3>2
  <2>5. CASE WriteFile
    <3>1. [text |-> IF failed THEN "source" ELSE "translated", of |-> snapshot] \in Content
      BY <2>1 DEF TypeOK, Content
    <3> QED BY <2>4, <2>5, <3>1 DEF WriteFile, Overwrites
  <2>6. CASE Raise \/ Crash
    <3>1. [text |-> "torn", of |-> snapshot] \in Content
      BY <2>1 DEF TypeOK, Content
    <3> QED BY <2>2, <2>4, <2>6, <3>1 DEF Raise, Crash, CutOff, Overwrites
  <2>7. \/ output' = output \/ TakeEmptyFile \/ WriteFile \/ Raise \/ Crash
    BY DEF Next, StartRun, PrepareRun, GiveUp, BeginLanguage, SkipFile, TakeFile, YieldFile,
           MarkFile, SyncStatus, ArchiveFile, FailLanguage, EndLanguage, ClearCheckpoint,
           CompleteRun, DeleteCheckpoint, ChangeSource, disk
  <2> QED BY <2>2, <2>3, <2>5, <2>6, <2>7
<1> QED BY <1>1, RunInvariant, PTL DEF Spec, FinishedIsKept

(* A file enters the project's status or the archive only while the output *)
(* folder holds its translation, of the source version it is filed under.  *)
THEOREM SuccessIsWritten == Spec => SuccessFollowsOutput
<1>1. ASSUME IInv, [Next]_vars
      PROVE  [/\ \A e \in archived' \ archived :
                   output[e[1]][e[2]] = [text |-> "translated", of |-> e[3]]
              /\ \A f \in done' \ done : output[lang][f].text = "translated"]_vars
  <2> SUFFICES ASSUME Next
               PROVE  /\ \A e \in archived' \ archived :
                           output[e[1]][e[2]] = [text |-> "translated", of |-> e[3]]
                      /\ \A f \in done' \ done : output[lang][f].text = "translated"
    BY <1>1
  <2>1. CASE SyncStatus
    <3>1. output[lang][file].text = "translated"
      BY <1>1, <2>1 DEF SyncStatus, IInv, FileAtHand, Finalising
    <3> QED BY <2>1, <3>1 DEF SyncStatus
  <2>2. CASE ArchiveFile
    <3>1. output[lang][file] = [text |-> "translated", of |-> snapshot]
      BY <1>1, <2>2 DEF ArchiveFile, IInv, FileAtHand, Finalising
    <3>2. archived' \ archived \subseteq {<<lang, file, snapshot>>} /\ done' = done
      BY <2>2 DEF ArchiveFile
    <3> QED BY <3>1, <3>2
  <2>3. \/ done' = done /\ archived' = archived
        \/ SyncStatus
        \/ ArchiveFile
    BY DEF Next, StartRun, PrepareRun, GiveUp, BeginLanguage, SkipFile, TakeFile,
           TakeEmptyFile, YieldFile, WriteFile, MarkFile, FailLanguage, EndLanguage,
           ClearCheckpoint, CompleteRun, Raise, Crash, DeleteCheckpoint, ChangeSource, disk
  <2> QED BY <2>1, <2>2, <2>3
<1> QED BY <1>1, RunInvariant, PTL DEF Spec, SuccessFollowsOutput

-----------------------------------------------------------------------------
(***************************************************************************)
(* The limit is given back.  A run's main thread goes through stages, and  *)
(* its handler is attached in the middle two of them (Staged); as long as  *)
(* no run or setting began while another was under way, what any thread    *)
(* may still set the limit to is known (Due), and nothing else stands      *)
(* between the limit and the setting (Settled).                            *)
(***************************************************************************)
Steps ==
  {<<"take", l>> : l \in Locks} \cup {<<"give", l>> : l \in Locks} \cup {<<"save">>}
    \cup {<<"log", i>> : i \in Nat} \cup {<<"set", n>> : n \in Nat}
    \cup {<<op, r>> : op \in {"attach", "detach", "restore"}, r \in Runs}

(* Of a program: no step of a run's frame; what it may set; a run's        *)
(* beginning, which ends with its handler.                                 *)
Frame        == {"attach", "detach", "restore"}
Inside(s)    == \A i \in 1..Len(s) : s[i][1] \notin Frame
SetsTo(s, V) == \A i \in 1..Len(s) : s[i][1] = "set" => s[i][2] \in V
Opening(s, r) ==
  /\ s # << >> /\ s[Len(s)] = <<"attach", r>>
  /\ \A i \in 1..(Len(s) - 1) : s[i][1] \notin Frame

Attached(r) == \E i \in 1..Len(bridges) : bridges[i] = r

Stage(r) ==
  \/ Opening(todo[r], r) /\ ~Attached(r)
  \/ Inside(todo[r]) /\ Attached(r)
  \/ todo[r] = <<<<"detach", r>>, <<"restore", r>>>> /\ Attached(r)
  \/ todo[r] = <<<<"restore", r>>>> /\ ~Attached(r)

Typed ==
  /\ todo \in [Threads -> Seq(Steps)] /\ bridges \in Seq(Runs) /\ within \subseteq Runs
  /\ before \in [Runs -> Nat] /\ limit \in Nat /\ configured \in Nat

Staged ==
  /\ \A i, j \in 1..Len(bridges) : bridges[i] = bridges[j] => i = j
  /\ \A r \in Runs : Attached(r) => r \in within
  /\ \A t \in Threads \ within : Inside(todo[t])
  /\ \A r \in within : Stage(r)

Due(t) == IF within = {} THEN {configured} ELSE IF t \in within THEN {RpmOf[t]} \ {0} ELSE {}

Settled ==
  /\ \A a, b \in within : a = b
  /\ \A r \in within : before[r] = configured /\ (RpmOf[r] = 0 => limit = configured)
  /\ \A t \in Threads : SetsTo(todo[t], Due(t))
  /\ within = {} /\ (\A t \in Threads : SetsTo(todo[t], {})) => limit = configured

RInv == Typed /\ Staged /\ (~crossed => Settled)

-----------------------------------------------------------------------------
(* The steps of threads, and what one puts before those it has left.       *)
LEMMA StepKinds ==
  /\ \A s \in Steps : s[1] = "set" => s[2] \in Nat
  /\ \A s \in Steps : s[1] \in Frame => s[2] \in Runs
  /\ \A l \in Locks : <<"take", l>> \in Steps /\ <<"give", l>> \in Steps
  /\ <<"save">> \in Steps /\ \A i \in Nat : <<"log", i>> \in Steps
  /\ \A n \in Nat : <<"set", n>> \in Steps
  /\ \A op \in Frame, r \in Runs : <<op, r>> \in Steps
BY DEF Steps, Frame

LEMMA Joined ==
  ASSUME NEW p \in Seq(Steps), NEW s \in Seq(Steps)
  PROVE  /\ p \o s \in Seq(Steps)
         /\ Inside(p) /\ Inside(s) => Inside(p \o s)
         /\ \A V : SetsTo(p, V) /\ SetsTo(s, V) => SetsTo(p \o s, V)
<1>1. /\ p \o s \in Seq(Steps) /\ Len(p \o s) = Len(p) + Len(s) /\ Len(p) \in Nat /\ Len(s) \in Nat
      /\ \A i \in 1..(Len(p) + Len(s)) : (p \o s)[i] = IF i <= Len(p) THEN p[i] ELSE s[i - Len(p)]
  BY ConcatProperties, LenProperties
<1>2. \A i \in 1..Len(p \o s) : \/ i \in 1..Len(p) /\ (p \o s)[i] = p[i]
                                \/ i - Len(p) \in 1..Len(s) /\ (p \o s)[i] = s[i - Len(p)]
  BY <1>1
<1> QED
  BY <1>1, <1>2 DEF Inside, SetsTo

LEMMA Ahead ==
  ASSUME NEW p \in Seq(Steps), NEW s \in Seq(Steps), s # << >>
  PROVE  LET q == p \o Tail(s) IN
         /\ q \in Seq(Steps)
         /\ Inside(p) /\ Inside(s) => Inside(q)
         /\ \A V : SetsTo(p, V) /\ SetsTo(s, V) => SetsTo(q, V)
         /\ \A V : SetsTo(q, V) /\ s[1][1] # "set" => SetsTo(s, V)
         /\ \A r : Opening(s, r) /\ Inside(p) /\ s[1][1] # "attach" => Opening(q, r)
         /\ \A r : Opening(s, r) /\ s[1][1] \in Frame => s = <<<<"attach", r>>>>
<1> DEFINE q == p \o Tail(s)
<1>1. /\ Tail(s) \in Seq(Steps) /\ Len(Tail(s)) = Len(s) - 1 /\ Len(s) \in Nat /\ Len(s) > 0
      /\ \A i \in 1..Len(Tail(s)) : Tail(s)[i] = s[i + 1]
  BY HeadTailProperties, LenProperties, EmptySeq
<1>2. /\ q \in Seq(Steps) /\ Len(q) = Len(p) + Len(Tail(s)) /\ Len(p) \in Nat
      /\ \A i \in 1..Len(q) : q[i] = IF i <= Len(p) THEN p[i] ELSE Tail(s)[i - Len(p)]
  BY <1>1, ConcatProperties, LenProperties
<1>3. Inside(s) => Inside(Tail(s))
  BY <1>1 DEF Inside
<1>4. \A V : SetsTo(s, V) => SetsTo(Tail(s), V)
  BY <1>1 DEF SetsTo
<1>5. ASSUME NEW r, Opening(s, r), Inside(p), s[1][1] # "attach"
      PROVE  Opening(q, r)
  <2>1. Len(s) # 1
    BY <1>5 DEF Opening
  <2>2. Len(q) > 0 /\ q[Len(q)] = s[Len(s)] /\ q # << >>
    BY <1>1, <1>2, <2>1
  <2>3. ASSUME NEW i \in 1..(Len(q) - 1) PROVE q[i][1] \notin Frame
    <3>1. CASE i <= Len(p)
      BY <1>2, <1>5, <3>1 DEF Inside
    <3>2. CASE i > Len(p)
      <4>1. i - Len(p) + 1 \in 1..(Len(s) - 1) /\ q[i] = s[i - Len(p) + 1]
        BY <1>1, <1>2, <3>2
      <4> QED
        BY <1>5, <4>1 DEF Opening
    <3> QED
      BY <1>2, <3>1, <3>2
  <2> HIDE DEF q
  <2> QED
    BY <1>5, <2>2, <2>3 DEF Opening
<1>6. ASSUME NEW r, Opening(s, r), s[1][1] \in Frame
      PROVE  s = <<<<"attach", r>>>>
  <2>1. Len(s) = 1
    BY <1>1, <1>6 DEF Opening
  <2>2. s[1] = <<"attach", r>>
    BY <1>6, <2>1 DEF Opening
  <2>3. s[1] \in Steps
    BY <1>1
  <2>4. PICK x : x = s[1]
    OBVIOUS
  <2>5. <<x>> \in Seq(Steps) /\ Len(<<x>>) = 1 /\ <<x>>[1] = x
    BY <2>3, <2>4
  <2>6. s = <<x>>
    BY <2>1, <2>4, <2>5, SeqEqual
  <2> QED
    BY <2>2, <2>4, <2>6
<1>7. ASSUME NEW V, SetsTo(q, V), s[1][1] # "set"
      PROVE  SetsTo(s, V)
  <2> SUFFICES ASSUME NEW i \in 1..Len(s), s[i][1] = "set"
               PROVE  s[i][2] \in V
    BY DEF SetsTo
  <2>1. i # 1
    BY <1>7
  <2>2. PICK j : j = Len(p) + (i - 1)
    OBVIOUS
  <2>3. j \in 1..Len(q) /\ q[j] = s[i]
    BY <1>1, <1>2, <2>1, <2>2
  <2> HIDE DEF q
  <2> QED
    BY <1>7, <2>3 DEF SetsTo
<1> QED
  BY <1>1, <1>2, <1>3, <1>4, <1>5, <1>6, <1>7, Joined

LEMMA Singles ==
  ASSUME NEW s \in Steps
  PROVE  /\ <<s>> \in Seq(Steps)
         /\ s[1] \notin Frame => Inside(<<s>>)
         /\ \A V : (s[1] = "set" => s[2] \in V) => SetsTo(<<s>>, V)
BY DEF Inside, SetsTo

LEMMA Doubles ==
  ASSUME NEW s \in Steps, NEW g \in Steps, s[1] \notin Frame, g[1] \notin Frame
  PROVE  /\ <<s, g>> \in Seq(Steps) /\ Inside(<<s, g>>)
         /\ \A V : (s[1] = "set" => s[2] \in V) /\ (g[1] = "set" => g[2] \in V) => SetsTo(<<s, g>>, V)
BY DEF Inside, SetsTo

LEMMA Nothing ==
  << >> \in Seq(Steps) /\ Inside(<< >>) /\ \A V : SetsTo(<< >>, V)
BY DEF Inside, SetsTo

LEMMA UnderKinds ==
  ASSUME NEW l \in Locks, NEW s \in Seq(Steps), Inside(s)
  PROVE  /\ Under(l, s) \in Seq(Steps) /\ Inside(Under(l, s))
         /\ \A V : SetsTo(s, V) => SetsTo(Under(l, s), V)
<1> DEFINE a == <<"take", l>>
           b == <<"give", l>>
<1>1. a \in Steps /\ b \in Steps /\ a[1] \notin Frame \cup {"set"} /\ b[1] \notin Frame \cup {"set"}
  BY StepKinds DEF Frame
<1> HIDE DEF a, b
<1>2. \A c \in {a, b} : <<c>> \in Seq(Steps) /\ Inside(<<c>>) /\ \A V : SetsTo(<<c>>, V)
  BY <1>1, Singles
<1>3. /\ <<a>> \o s \in Seq(Steps) /\ Inside(<<a>> \o s)
      /\ \A V : SetsTo(s, V) => SetsTo(<<a>> \o s, V)
  BY <1>2, Joined
<1>4. /\ (<<a>> \o s) \o <<b>> \in Seq(Steps) /\ Inside((<<a>> \o s) \o <<b>>)
      /\ \A V : SetsTo(s, V) => SetsTo((<<a>> \o s) \o <<b>>, V)
  BY <1>2, <1>3, Joined
<1>5. Under(l, s) = (<<a>> \o s) \o <<b>>
  BY DEF Under, a, b
<1> QED
  BY <1>4, <1>5

(* The programs: none has a step of a run's frame, and only update_rpm has *)
(* one that sets.                                                          *)
Calm(p) == p \in Seq(Steps) /\ Inside(p) /\ \A V : SetsTo(p, V)

LEMMA CalmJoined ==
  /\ \A p, q : Calm(p) /\ Calm(q) => Calm(p \o q)
  /\ \A p : \A l \in Locks : Calm(p) => Calm(Under(l, p))
BY Joined, UnderKinds DEF Calm

LEMMA Programs ==
  /\ Calm(<< >>) /\ Calm(<<LogLine>>) /\ Calm(Update) /\ Calm(Update \o <<LogLine>>)
  /\ \A r \in Runs : Calm(Translate(r))
  /\ \A n \in Nat : UpdateRpm(n) \in Seq(Steps) /\ Inside(UpdateRpm(n)) /\ SetsTo(UpdateRpm(n), {n})
<1>1. Ledger \in Locks /\ Limiter \in Locks /\ \A r \in Runs : Progress(r) \in Locks
  BY DEF Locks
<1>2. Calm(<< >>)
  BY Nothing DEF Calm
<1>3. Calm(<<LogLine>>)
  <2>1. LogLine \in Steps /\ LogLine[1] = "log"
    BY StepKinds DEF LogLine
  <2> QED
    BY <2>1, Singles DEF Calm, Frame
<1>4. Calm(Update)
  <2>1. PICK s : s = <<"save">>
    OBVIOUS
  <2>2. s \in Steps /\ s[1] = "save"
    BY <2>1, StepKinds
  <2>3. Calm(<<s>>)
    BY <2>2, Singles DEF Calm, Frame
  <2> QED
    BY <1>1, <2>1, <2>3, CalmJoined DEF Update
<1>5. \A r \in Runs : Calm(Translate(r))
  BY <1>1, <1>2, <1>4, CalmJoined DEF Translate, Reserve
<1>6. ASSUME NEW n \in Nat
      PROVE  UpdateRpm(n) \in Seq(Steps) /\ Inside(UpdateRpm(n)) /\ SetsTo(UpdateRpm(n), {n})
  <2>1. PICK s : s = <<"set", n>>
    OBVIOUS
  <2>2. s \in Steps /\ s[1] = "set" /\ s[2] = n
    BY <2>1, StepKinds
  <2>3. PICK g : g = LogLine
    OBVIOUS
  <2>4. g \in Steps /\ g[1] = "log"
    BY <2>3, StepKinds DEF LogLine
  <2>5. <<s, g>> \in Seq(Steps) /\ Inside(<<s, g>>) /\ SetsTo(<<s, g>>, {n})
    BY <2>2, <2>4, Doubles DEF Frame
  <2> QED
    BY <1>1, <2>1, <2>3, <2>5, UnderKinds DEF UpdateRpm
<1> QED
  BY <1>2, <1>3, <1>4, <1>5, <1>6, CalmJoined

(* update_rpm does set the limit.                                          *)
LEMMA UpdateSets == \A n \in Nat : ~SetsTo(UpdateRpm(n), {})
<1> SUFFICES ASSUME NEW n \in Nat PROVE ~SetsTo(UpdateRpm(n), {})
  OBVIOUS
<1>1. PICK a : a = <<"take", Limiter>>
  OBVIOUS
<1>2. PICK b : b = <<"set", n>>
  OBVIOUS
<1>3. PICK c : c = LogLine
  OBVIOUS
<1>4. PICK d : d = <<"give", Limiter>>
  OBVIOUS
<1>5. UpdateRpm(n) = <<a>> \o <<b, c>> \o <<d>>
  BY <1>1, <1>2, <1>3, <1>4 DEF UpdateRpm, Under
<1>6. /\ <<a>> \in Seq({a, b, c, d}) /\ Len(<<a>>) = 1
      /\ <<b, c>> \in Seq({a, b, c, d}) /\ Len(<<b, c>>) = 2 /\ <<b, c>>[1] = b
      /\ <<d>> \in Seq({a, b, c, d}) /\ Len(<<d>>) = 1
  OBVIOUS
<1>7. PICK p : p = <<a>> \o <<b, c>>
  OBVIOUS
<1>8. p \in Seq({a, b, c, d}) /\ Len(p) = 3 /\ p[2] = b
  BY <1>6, <1>7, ConcatProperties
<1>9. UpdateRpm(n)[2] = b /\ Len(UpdateRpm(n)) = 4
  BY <1>5, <1>6, <1>7, <1>8, ConcatProperties
<1>10. b[1] = "set" /\ 2 \in 1..4
  BY <1>2
<1> QED
  BY <1>9, <1>10 DEF SetsTo

-----------------------------------------------------------------------------
(* A step of a run's frame is its main thread's, and what that has left    *)
(* tells which it is.                                                      *)
LEMMA Heads ==
  ASSUME Typed, Staged, NEW t \in Threads, todo[t] # << >>
  PROVE  LET h == todo[t][1] IN
         /\ h = Head(todo[t]) /\ h \in Steps
         /\ h[1] \in Frame => t \in within /\ t \in Runs /\ h[2] = t
         /\ h[1] = "attach" => todo[t] = <<<<"attach", t>>>> /\ ~Attached(t)
         /\ h[1] = "detach" => todo[t] = <<<<"detach", t>>, <<"restore", t>>>> /\ Attached(t)
         /\ h[1] = "restore" => todo[t] = <<<<"restore", t>>>> /\ ~Attached(t)
<1> DEFINE h == todo[t][1]
<1>1. todo[t] \in Seq(Steps) /\ within \subseteq Runs
  BY DEF Typed
<1>2. h = Head(todo[t]) /\ h \in Steps /\ 1 \in 1..Len(todo[t]) /\ Len(todo[t]) \in Nat
  BY <1>1
<1>3. Inside(todo[t]) => h[1] \notin Frame
  BY <1>2 DEF Inside
<1> SUFFICES ASSUME h[1] \in Frame
             PROVE  /\ t \in within /\ h[2] = t
                    /\ h[1] = "attach" => todo[t] = <<<<"attach", t>>>> /\ ~Attached(t)
                    /\ h[1] = "detach" => todo[t] = <<<<"detach", t>>, <<"restore", t>>>> /\ Attached(t)
                    /\ h[1] = "restore" => todo[t] = <<<<"restore", t>>>> /\ ~Attached(t)
  BY <1>1, <1>2 DEF Frame
<1>4. t \in within /\ Stage(t)
  BY <1>3 DEF Staged
<1>5. CASE Opening(todo[t], t) /\ ~Attached(t)
  <2>1. << >> \in Seq(Steps) /\ todo[t][1][1] \in Frame
    OBVIOUS
  <2>2. todo[t] = <<<<"attach", t>>>>
    BY <1>1, <1>5, <2>1, Ahead
  <2>3. h[1] = "attach" /\ h[2] = t
    BY <2>2
  <2> QED
    BY <1>4, <1>5, <2>2, <2>3
<1>6. CASE todo[t] = <<<<"detach", t>>, <<"restore", t>>>> /\ Attached(t)
  <2>1. h[1] = "detach" /\ h[2] = t
    BY <1>6
  <2> QED
    BY <1>4, <1>6, <2>1
<1>7. CASE todo[t] = <<<<"restore", t>>>> /\ ~Attached(t)
  <2>1. h[1] = "restore" /\ h[2] = t
    BY <1>7
  <2> QED
    BY <1>4, <1>7, <2>1
<1> QED
  BY <1>3, <1>4, <1>5, <1>6, <1>7 DEF Stage

(* A thread with something else before it takes nothing from its stage.    *)
LEMMA ReplacedStaged ==
  ASSUME Typed, Staged, NEW t \in Threads, NEW q \in Seq(Steps),
         todo' = [todo EXCEPT ![t] = q], UNCHANGED <<bridges, within>>,
         Inside(todo[t]) => Inside(q), \A r : Opening(todo[t], r) => Opening(q, r),
         todo[t] # << >> => todo[t][1][1] \notin {"detach", "restore"}
  PROVE  Staged' /\ todo' \in [Threads -> Seq(Steps)]
<1>1. todo' \in [Threads -> Seq(Steps)] /\ todo'[t] = q
  BY DEF Typed
<1>2. \A u \in Threads : u # t => todo'[u] = todo[u]
  BY DEF Typed
<1>3. \A r : Attached(r)' <=> Attached(r)
  BY DEF Attached
<1>4. \A u \in Threads \ within' : Inside(todo'[u])
  BY <1>1, <1>2 DEF Staged
<1>5. ASSUME NEW r \in within' PROVE Stage(r)'
  <2>1. r \in within /\ Stage(r) /\ r \in Threads
    BY DEF Staged, Typed, Threads
  <2>2. CASE r # t
    BY <1>2, <1>3, <2>1, <2>2 DEF Stage
  <2>3. CASE r = t
    <3>1. todo[t] # <<<<"detach", t>>, <<"restore", t>>>> /\ todo[t] # <<<<"restore", t>>>>
      OBVIOUS
    <3> QED
      BY <1>1, <1>3, <2>1, <2>3, <3>1 DEF Stage
  <2> QED
    BY <2>2, <2>3
<1>6. \A i, j \in 1..Len(bridges') : bridges'[i] = bridges'[j] => i = j
  BY DEF Staged
<1>7. \A r \in Runs : Attached(r)' => r \in within'
  BY <1>3 DEF Staged
<1> QED
  BY <1>1, <1>4, <1>5, <1>6, <1>7 DEF Staged

(* Nor does it change what is due, unless it sets more than it did.        *)
LEMMA ReplacedSettled ==
  ASSUME Settled, Typed, NEW t \in Threads, NEW q,
         todo' = [todo EXCEPT ![t] = q], UNCHANGED <<within, before, limit, configured>>,
         \A V : SetsTo(todo[t], V) => SetsTo(q, V),
         SetsTo(q, {}) => SetsTo(todo[t], {})
  PROVE  Settled'
<1>1. todo'[t] = q /\ \A u \in Threads : u # t => todo'[u] = todo[u]
  BY DEF Typed
<1>2. \A u \in Threads : Due(u)' = Due(u)
  BY DEF Due
<1>3. \A u \in Threads : SetsTo(todo'[u], Due(u)')
  BY <1>1, <1>2 DEF Settled
<1>4. (\A u \in Threads : SetsTo(todo'[u], {})) => \A u \in Threads : SetsTo(todo[u], {})
  BY <1>1
<1> QED
  BY <1>3, <1>4 DEF Settled

(* Steps that neither begin, end nor set: the thread has p to do first.    *)
LEMMA Moves ==
  ASSUME RInv, NEW t \in Threads, NEW p, Calm(p), todo[t] # << >>,
         Head(todo[t])[1] \notin Frame \cup {"set"}, Then(t, p),
         UNCHANGED <<bridges, within, before, limit, configured, crossed>>
  PROVE  RInv'
<1> DEFINE q == p \o Tail(todo[t])
<1>1. Typed /\ Staged /\ todo[t] \in Seq(Steps) /\ p \in Seq(Steps) /\ Inside(p) /\ \A V : SetsTo(p, V)
  BY DEF RInv, Typed, Calm
<1>2. todo[t][1][1] \notin Frame \cup {"set"} /\ todo[t][1][1] \notin {"attach", "detach", "restore"}
  BY <1>1, Heads DEF Frame
<1>3. /\ q \in Seq(Steps)
      /\ Inside(todo[t]) => Inside(q)
      /\ \A V : SetsTo(todo[t], V) => SetsTo(q, V)
      /\ \A V : SetsTo(q, V) => SetsTo(todo[t], V)
      /\ \A r : Opening(todo[t], r) => Opening(q, r)
  BY <1>1, <1>2, Ahead
<1>4. todo' = [todo EXCEPT ![t] = q]
  BY <1>1 DEF Then, Typed
<1> HIDE DEF q
<1>5. Staged' /\ todo' \in [Threads -> Seq(Steps)]
  BY <1>1, <1>2, <1>3, <1>4, ReplacedStaged
<1>6. ~crossed => Settled'
  BY <1>1, <1>3, <1>4, ReplacedSettled DEF RInv
<1> QED
  BY <1>1, <1>5, <1>6 DEF RInv, Typed

(* A thread with nothing before it is given a program.                     *)
LEMMA Says ==
  ASSUME RInv, NEW t \in Threads, NEW p, Calm(p), todo[t] = << >>, todo' = [todo EXCEPT ![t] = p],
         UNCHANGED <<bridges, within, before, limit, configured, crossed>>
  PROVE  RInv'
<1>1. Typed /\ Staged /\ p \in Seq(Steps) /\ Inside(p) /\ \A V : SetsTo(p, V)
  BY DEF RInv, Calm
<1>2. /\ \A r : ~Opening(todo[t], r)
      /\ \A V : SetsTo(todo[t], V)
  BY Nothing DEF Opening
<1>3. Staged' /\ todo' \in [Threads -> Seq(Steps)]
  BY <1>1, <1>2, ReplacedStaged
<1>4. ~crossed => Settled'
  BY <1>1, <1>2, ReplacedSettled DEF RInv
<1> QED
  BY <1>1, <1>3, <1>4 DEF RInv, Typed

LEMMA Sayings ==
  ASSUME RInv,
         \/ \E w \in Workers : TranslateBatch(w)
         \/ \E r \in Runs : ReportFile(r)
         \/ \E o \in Others : ServeRequest(o)
  PROVE  RInv'
<1>1. PICK t \in Threads : \E p : Calm(p) /\ Say(t, p)
  <2>1. CASE \E w \in Workers : TranslateBatch(w)
    BY ReportsAssumption, <2>1, Programs DEF TranslateBatch, Threads
  <2>2. CASE \E r \in Runs : ReportFile(r)
    BY <2>2, Programs DEF ReportFile, Threads
  <2>3. CASE \E o \in Others : ServeRequest(o)
    BY <2>3, Programs DEF ServeRequest, Threads
  <2> QED
    BY <2>1, <2>2, <2>3
<1>2. PICK p : Calm(p) /\ Say(t, p)
  BY <1>1
<1> QED
  BY <1>2, Says DEF Say, Idle

(* Locks, lines and saves.                                                 *)
LEMMA Workings ==
  ASSUME RInv, NEW t \in Threads, Take(t) \/ Give(t) \/ Save(t) \/ Log(t)
  PROVE  RInv'
<1>1. todo[t] # << >> /\ Head(todo[t])[1] \in {"take", "give", "save", "log"}
  BY DEF Take, Give, Save, Log, Next1, Idle
<1>2. UNCHANGED <<bridges, within, before, limit, configured, crossed>>
  BY DEF Take, Give, Save, Log
<1>3. PICK p : Calm(p) /\ Then(t, p)
  <2>1. CASE Take(t) \/ Give(t)
    BY <2>1, Programs DEF Take, Give
  <2>2. CASE Save(t)
    BY <2>2, Programs DEF Save
  <2>3. CASE Log(t)
    <3>1. Then(t, Emission(Arg(t)))
      BY <2>3 DEF Log
    <3>2. Head(todo[t])[1] = "log" /\ Head(todo[t]) \in Steps
      BY <2>3, <1>1, Heads DEF Log, Next1, RInv
    <3>3. Arg(t) \in Nat
      BY <3>2 DEF Arg, Steps
    <3>4. Calm(Emission(Arg(t)))
      <4> SUFFICES ASSUME NEW i \in Nat PROVE Calm(Emission(i))
        BY <3>3
      <4>1. CASE i \in DOMAIN bridges
        <5>1. bridges[i] \in Runs
          BY <4>1 DEF RInv, Typed
        <5>2. Calm(Under(Bridge(bridges[i]), Update))
          BY <5>1, CalmJoined, Programs DEF Locks
        <5>3. PICK x : x = <<"log", i + 1>>
          OBVIOUS
        <5>4. x \in Steps /\ x[1] = "log"
          BY <5>3, StepKinds
        <5>5. Calm(<<x>>)
          BY <5>4, Singles DEF Calm, Frame
        <5> QED
          BY <4>1, <5>2, <5>3, <5>5, CalmJoined DEF Emission
      <4>2. CASE i \notin DOMAIN bridges
        BY <4>2, Programs DEF Emission
      <4> QED
        BY <4>1, <4>2
    <3> QED
      BY <3>1, <3>4
  <2> QED
    BY <2>1, <2>2, <2>3
<1> QED
  BY <1>1, <1>2, <1>3, Moves DEF Frame

(* The limit is set to what is due.                                        *)
LEMMA Settings ==
  ASSUME RInv, NEW t \in Threads, SetLimit(t)
  PROVE  RInv'
<1> DEFINE s == todo[t]
           q == << >> \o Tail(s)
<1>1. Typed /\ Staged /\ s \in Seq(Steps) /\ s # << >> /\ << >> \in Seq(Steps)
  BY DEF RInv, Typed, SetLimit, Next1, Idle
<1>2. s[1] = Head(s) /\ s[1] \in Steps /\ s[1][1] = "set"
  BY <1>1, Heads DEF SetLimit, Next1
<1>3. s[1][1] \notin {"attach", "detach", "restore"}
  BY <1>2
<1>4. limit' = s[1][2] /\ s[1][2] \in Nat
  BY <1>2, StepKinds DEF SetLimit, Arg
<1>5. /\ q \in Seq(Steps)
      /\ Inside(s) => Inside(q)
      /\ \A V : SetsTo(s, V) => SetsTo(q, V)
      /\ \A r : Opening(s, r) => Opening(q, r)
  BY <1>1, <1>3, Ahead, Nothing
<1>6. todo' = [todo EXCEPT ![t] = q] /\ UNCHANGED <<bridges, within, before, configured, crossed>>
  BY <1>1 DEF SetLimit, Then, Typed
<1> HIDE DEF q
<1>7. Staged' /\ todo' \in [Threads -> Seq(Steps)]
  BY <1>1, <1>3, <1>5, <1>6, ReplacedStaged
<1>8. ASSUME ~crossed PROVE Settled'
  <2>1. Settled /\ s[1][2] \in Due(t)
    BY <1>1, <1>2, <1>8 DEF RInv, Settled, SetsTo
  <2>2. \A u \in Threads : Due(u)' = Due(u) /\ SetsTo(todo'[u], Due(u))
    BY <1>1, <1>5, <1>6, <2>1 DEF Due, Settled, Typed
  <2>3. CASE within = {}
    <3>1. limit' = configured
      BY <1>4, <2>1, <2>3 DEF Due
    <3> QED
      BY <1>6, <2>1, <2>2, <2>3, <3>1 DEF Settled
  <2>4. CASE within # {}
    <3>1. t \in within /\ RpmOf[t] # 0
      BY <2>1, <2>4 DEF Due
    <3>2. \A r \in within : r = t
      BY <2>1, <3>1 DEF Settled
    <3> QED
      BY <1>6, <2>1, <2>2, <2>4, <3>1, <3>2 DEF Settled
  <2> QED
    BY <2>3, <2>4
<1> QED
  BY <1>1, <1>4, <1>6, <1>7, <1>8 DEF RInv, Typed

(* A setting that nothing is under way for.                                *)
LEMMA Changes ==
  ASSUME RInv, NEW o \in Others, NEW n \in Rpms, ChangeSetting(o, n)
  PROVE  RInv'
<1>1. Typed /\ Staged /\ o \in Threads /\ n \in Nat /\ todo[o] = << >>
  BY ReportsAssumption DEF RInv, ChangeSetting, Idle, Threads
<1>2. PICK q : q = UpdateRpm(n)
  OBVIOUS
<1>3. q \in Seq(Steps) /\ Inside(q) /\ SetsTo(q, {n}) /\ ~SetsTo(q, {})
  BY <1>1, <1>2, Programs, UpdateSets
<1>4. todo' = [todo EXCEPT ![o] = q] /\ configured' = n /\ UNCHANGED <<bridges, within, before, limit>>
  BY <1>2 DEF ChangeSetting
<1>5. Staged' /\ todo' \in [Threads -> Seq(Steps)]
  <2>1. \A r : ~Opening(todo[o], r)
    BY <1>1 DEF Opening
  <2> QED
    BY <1>1, <1>3, <1>4, <2>1, ReplacedStaged
<1>6. ASSUME ~crossed' PROVE Settled'
  <2>1. within = {} /\ \A t \in Threads : todo[t] = << >>
    BY <1>6 DEF ChangeSetting, Quiet, Idle
  <2>2. todo'[o] = q /\ \A t \in Threads : t # o => todo'[t] = << >>
    BY <1>1, <1>4, <2>1 DEF Typed
  <2>3. \A t \in Threads : Due(t)' = {n}
    BY <1>4, <2>1 DEF Due
  <2>4. \A t \in Threads : SetsTo(todo'[t], Due(t)')
    BY <1>3, <2>2, <2>3, Nothing
  <2> QED
    BY <1>1, <1>3, <1>4, <2>1, <2>2, <2>4 DEF Settled
<1> QED
  BY <1>1, <1>4, <1>5, <1>6 DEF RInv, Typed

(* Beginning: the handler comes last.                                      *)
LEMMA OpeningMade ==
  ASSUME NEW p \in Seq(Steps), Inside(p), NEW r \in Runs
  PROVE  LET q == p \o <<<<"attach", r>>>> IN
         /\ q \in Seq(Steps) /\ Opening(q, r)
         /\ \A V : SetsTo(p, V) => SetsTo(q, V)
<1> DEFINE q == p \o <<<<"attach", r>>>>
<1>1. PICK x : x = <<"attach", r>>
  OBVIOUS
<1>2. x \in Steps /\ x[1] = "attach"
  BY <1>1, StepKinds DEF Frame
<1>3. <<x>> \in Seq(Steps) /\ Len(<<x>>) = 1 /\ <<x>>[1] = x
  BY <1>2
<1>4. q = p \o <<x>>
  BY <1>1
<1>5. /\ q \in Seq(Steps) /\ Len(q) = Len(p) + 1 /\ Len(p) \in Nat /\ q[Len(p) + 1] = x
      /\ \A i \in 1..Len(p) : q[i] = p[i]
  BY <1>3, <1>4, ConcatProperties, LenProperties
<1> HIDE DEF q
<1>6. Opening(q, r)
  <2>1. q # << >>
    BY <1>5
  <2>2. \A i \in 1..(Len(q) - 1) : q[i][1] \notin Frame
    BY <1>5 DEF Inside
  <2> QED
    BY <1>1, <1>5, <2>1, <2>2 DEF Opening
<1>7. ASSUME NEW V, SetsTo(p, V) PROVE SetsTo(q, V)
  <2>1. \A i \in 1..Len(q) : i \in 1..Len(p) \/ q[i] = x
    BY <1>5
  <2> QED
    BY <1>2, <1>5, <1>7, <2>1 DEF SetsTo
<1> QED
  BY <1>5, <1>6, <1>7 DEF q

LEMMA Beginnings ==
  ASSUME RInv, NEW r \in Runs, BeginRun(r)
  PROVE  RInv'
<1>1. Typed /\ Staged /\ r \in Threads /\ RpmOf[r] \in Nat /\ todo[r] = << >> /\ r \notin within
  BY ReportsAssumption DEF RInv, BeginRun, Idle, Threads
<1>2. PICK p : p = IF RpmOf[r] = 0 THEN << >> ELSE UpdateRpm(RpmOf[r])
  OBVIOUS
<1>3. p \in Seq(Steps) /\ Inside(p) /\ SetsTo(p, {RpmOf[r]} \ {0})
  <2>1. CASE RpmOf[r] = 0
    BY <1>2, <2>1, Nothing
  <2>2. CASE RpmOf[r] # 0
    <3>1. {RpmOf[r]} \ {0} = {RpmOf[r]}
      BY <2>2
    <3> QED
      BY <1>1, <1>2, <2>2, <3>1, Programs
  <2> QED
    BY <2>1, <2>2
<1>4. PICK q : q = p \o <<<<"attach", r>>>>
  OBVIOUS
<1>5. q \in Seq(Steps) /\ Opening(q, r) /\ SetsTo(q, {RpmOf[r]} \ {0})
  BY <1>3, <1>4, OpeningMade
<1>6. /\ todo' = [todo EXCEPT ![r] = q] /\ within' = within \cup {r}
      /\ before' = [before EXCEPT ![r] = limit] /\ UNCHANGED <<bridges, limit, configured>>
  BY <1>2, <1>4 DEF BeginRun
<1>7. todo' \in [Threads -> Seq(Steps)] /\ todo'[r] = q /\ \A t \in Threads : t # r => todo'[t] = todo[t]
  BY <1>1, <1>5, <1>6 DEF Typed
<1>8. Typed'
  BY <1>1, <1>6, <1>7 DEF Typed
<1>9. Staged'
  <2>1. \A s : Attached(s)' <=> Attached(s)
    BY <1>6 DEF Attached
  <2>2. ASSUME NEW s \in within' PROVE Stage(s)'
    <3>1. CASE s = r
      <4>1. ~Attached(r)
        BY <1>1 DEF Staged
      <4> QED
        BY <1>5, <1>7, <2>1, <3>1, <4>1 DEF Stage
    <3>2. CASE s # r
      <4>1. s \in within /\ s \in Threads
        BY <1>1, <1>6, <3>2 DEF Typed, Threads
      <4>2. Stage(s) /\ todo'[s] = todo[s]
        BY <1>1, <1>7, <3>2, <4>1 DEF Staged
      <4> QED
        BY <2>1, <4>2 DEF Stage
    <3> QED
      BY <3>1, <3>2
  <2>3. \A t \in Threads \ within' : Inside(todo'[t])
    BY <1>1, <1>6, <1>7 DEF Staged
  <2>4. /\ \A i, j \in 1..Len(bridges') : bridges'[i] = bridges'[j] => i = j
        /\ \A s \in Runs : Attached(s)' => s \in within'
    BY <1>1, <1>6, <2>1 DEF Staged
  <2> QED
    BY <2>2, <2>3, <2>4 DEF Staged
<1>10. ASSUME ~crossed' PROVE Settled'
  <2>1. ~crossed /\ within = {} /\ \A t \in Threads : todo[t] = << >>
    BY <1>10 DEF BeginRun, Quiet, Idle
  <2>2. limit = configured
    BY <2>1, Nothing DEF RInv, Settled
  <2>3. within' = {r} /\ before'[r] = limit
    BY <1>1, <1>6, <2>1 DEF Typed
  <2>4. ASSUME NEW t \in Threads PROVE SetsTo(todo'[t], Due(t)')
    <3>1. CASE t = r
      <4>1. Due(t)' = {RpmOf[r]} \ {0}
        BY <2>3, <3>1 DEF Due
      <4> QED
        BY <1>5, <1>7, <3>1, <4>1
    <3>2. CASE t # r
      BY <1>7, <2>1, <3>2, Nothing
    <3> QED
      BY <3>1, <3>2
  <2> QED
    BY <1>6, <2>2, <2>3, <2>4 DEF Settled
<1> QED
  BY <1>8, <1>9, <1>10 DEF RInv

(* The last stages.                                                        *)
LEMMA LastStages ==
  ASSUME NEW r \in Runs
  PROVE  /\ <<<<"detach", r>>, <<"restore", r>>>> \in Seq(Steps)
         /\ \A V : SetsTo(<<<<"detach", r>>, <<"restore", r>>>>, V)
         /\ <<<<"restore", r>>>> \in Seq(Steps)
         /\ \A V : SetsTo(<<<<"restore", r>>>>, V)
         /\ << >> \o Tail(<<<<"detach", r>>, <<"restore", r>>>>) = <<<<"restore", r>>>>
         /\ \A p \in Seq(Steps) : p \o Tail(<<<<"restore", r>>>>) = p
         /\ << >> \o Tail(<<<<"attach", r>>>>) = << >>
<1>1. PICK a : a = <<"detach", r>>
  OBVIOUS
<1>2. PICK b : b = <<"restore", r>>
  OBVIOUS
<1>3. PICK c : c = <<"attach", r>>
  OBVIOUS
<1>4. a \in Steps /\ a[1] = "detach" /\ b \in Steps /\ b[1] = "restore" /\ c \in Steps
  BY <1>1, <1>2, <1>3, StepKinds DEF Frame
<1>5. /\ <<a, b>> \in Seq(Steps) /\ \A V : SetsTo(<<a, b>>, V)
      /\ <<b>> \in Seq(Steps) /\ \A V : SetsTo(<<b>>, V)
  BY <1>4 DEF SetsTo
<1>6. << >> \o Tail(<<a, b>>) = <<b>> /\ << >> \o Tail(<<c>>) = << >>
  BY <1>4
<1>7. \A p \in Seq(Steps) : p \o Tail(<<b>>) = p
  <2>1. Tail(<<b>>) = << >>
    OBVIOUS
  <2> QED
    BY <2>1, ConcatEmptySeq
<1> QED
  BY <1>1, <1>2, <1>3, <1>5, <1>6, <1>7

LEMMA Endings ==
  ASSUME RInv, NEW r \in Runs, EndRun(r)
  PROVE  RInv'
<1>1. PICK q : q = <<<<"detach", r>>, <<"restore", r>>>>
  OBVIOUS
<1>2. q \in Seq(Steps) /\ \A V : SetsTo(q, V)
  BY <1>1, LastStages
<1>3. /\ Typed /\ Staged /\ r \in Threads /\ todo[r] = << >>
      /\ todo' = [todo EXCEPT ![r] = q] /\ UNCHANGED <<bridges, within, before, limit, configured, crossed>>
  BY <1>1 DEF RInv, EndRun, Idle, Threads
<1>4. Attached(r) /\ r \in within
  BY <1>3 DEF EndRun, ToSet, Attached, Staged, Typed
<1>5. todo' \in [Threads -> Seq(Steps)] /\ todo'[r] = q /\ \A t \in Threads : t # r => todo'[t] = todo[t]
  BY <1>2, <1>3 DEF Typed
<1>6. Staged'
  <2>1. \A s : Attached(s)' <=> Attached(s)
    BY <1>3 DEF Attached
  <2>2. ASSUME NEW s \in within' PROVE Stage(s)'
    <3>1. s \in within /\ s \in Threads
      BY <1>3 DEF Typed, Threads
    <3>2. CASE s = r
      BY <1>1, <1>4, <1>5, <2>1, <3>2 DEF Stage
    <3>3. CASE s # r
      <4>1. Stage(s) /\ todo'[s] = todo[s]
        BY <1>3, <1>5, <3>1, <3>3 DEF Staged
      <4> QED
        BY <2>1, <4>1 DEF Stage
    <3> QED
      BY <3>2, <3>3
  <2> QED
    BY <1>3, <1>4, <1>5, <2>1, <2>2 DEF Staged
<1>7. ~crossed => Settled'
  <2>1. SetsTo(todo[r], {})
    BY <1>3, Nothing
  <2> QED
    BY <1>2, <1>3, <2>1, ReplacedSettled DEF RInv
<1> QED
  BY <1>3, <1>5, <1>6, <1>7 DEF RInv, Typed

(* RemoveFirst, of a sequence of distinct elements, loses just the one.    *)
Distinct(s) == \A i, j \in 1..Len(s) : s[i] = s[j] => i = j
Has(s, x)   == \E i \in 1..Len(s) : s[i] = x

LEMMA FirstRemoved ==
  ASSUME NEW S, NEW s \in Seq(S), NEW e, Has(s, e), Distinct(s)
  PROVE  /\ RemoveFirst(s, e) \in Seq(S) /\ Distinct(RemoveFirst(s, e))
         /\ \A x : Has(RemoveFirst(s, e), x) <=> x # e /\ Has(s, x)
<1> PICK k \in 1..Len(s) : s[k] = e
  BY DEF Has
<1> USE DEF Distinct
<1> DEFINE q == RemoveFirst(s, e)
           a == SubSeq(s, 1, k - 1)
           b == SubSeq(s, k + 1, Len(s))
<1>1. {i \in 1..Len(s) : s[i] = e} = {k}
  OBVIOUS
<1>2. SelectInSeq(s, LAMBDA v : v = e) = k
  BY <1>1 DEF SelectInSeq, Min
<1>3. q = a \o b
  BY <1>2 DEF RemoveFirst, RemoveAt
<1>4. /\ a \in Seq(S) /\ Len(a) = k - 1 /\ \A i \in 1..(k - 1) : a[i] = s[i]
      /\ b \in Seq(S) /\ Len(b) = Len(s) - k /\ \A i \in 1..(Len(s) - k) : b[i] = s[k + i]
      /\ Len(s) \in Nat /\ k \in Nat
  OBVIOUS
<1> HIDE DEF q, a, b
<1>5. a \in Seq(S) /\ b \in Seq(S)
  BY <1>4
<1>6. /\ q \in Seq(S) /\ Len(q) = Len(s) - 1
      /\ \A i \in 1..Len(q) : q[i] = IF i < k THEN s[i] ELSE s[i + 1]
  <2>1. /\ q \in Seq(S) /\ Len(q) = Len(a) + Len(b)
        /\ \A i \in 1..(Len(a) + Len(b)) : q[i] = IF i <= Len(a) THEN a[i] ELSE b[i - Len(a)]
    BY <1>3, <1>5, ConcatProperties
  <2>2. Len(q) = Len(s) - 1
    BY <1>4, <2>1
  <2>3. ASSUME NEW i \in 1..Len(q) PROVE q[i] = IF i < k THEN s[i] ELSE s[i + 1]
    <3>1. CASE i < k
      BY <1>4, <2>1, <2>2, <3>1
    <3>2. CASE ~(i < k)
      <4>1. i - Len(a) \in 1..(Len(s) - k) /\ k + (i - Len(a)) = i + 1 /\ ~(i <= Len(a))
        BY <1>4, <2>2, <3>2
      <4>2. q[i] = b[i - Len(a)]
        BY <1>4, <2>1, <2>2, <4>1
      <4> QED
        BY <1>4, <3>2, <4>1, <4>2
    <3> QED
      BY <3>1, <3>2
  <2> QED
    BY <2>1, <2>2, <2>3
<1> DEFINE At(i) == IF i < k THEN i ELSE i + 1
<1>7. \A i \in 1..Len(q) : At(i) \in 1..Len(s) /\ At(i) # k /\ q[i] = s[At(i)]
  BY <1>4, <1>6
<1>8. \A i, j \in 1..Len(q) : At(i) = At(j) => i = j
  BY <1>4, <1>6
<1>9. \A j \in 1..Len(s) : j # k => \E i \in 1..Len(q) : At(i) = j
  <2> SUFFICES ASSUME NEW j \in 1..Len(s), j # k PROVE \E i \in 1..Len(q) : At(i) = j
    OBVIOUS
  <2>1. Len(q) = Len(s) - 1 /\ Len(s) \in Nat /\ j \in Nat /\ k \in Nat
    BY <1>4, <1>6
  <2>2. j < k => j \in 1..Len(q) /\ At(j) = j
    BY <2>1
  <2>3. ~(j < k) => j - 1 \in 1..Len(q) /\ At(j - 1) = j
    BY <2>1
  <2> HIDE DEF At
  <2> QED
    BY <2>2, <2>3
<1> HIDE DEF At
<1>10. Distinct(q)
  BY <1>7, <1>8
<1>11. ASSUME NEW x
       PROVE  Has(q, x) <=> x # e /\ Has(s, x)
  <2>1. ASSUME NEW i \in 1..Len(q), q[i] = x PROVE x # e /\ Has(s, x)
    <3>1. At(i) \in 1..Len(s) /\ s[At(i)] = x /\ At(i) # k
      BY <1>7, <2>1
    <3> QED
      BY <3>1 DEF Has
  <2>2. ASSUME x # e, NEW j \in 1..Len(s), s[j] = x PROVE Has(q, x)
    <3>1. PICK i \in 1..Len(q) : At(i) = j
      BY <1>9, <2>2
    <3>2. q[i] = x
      BY <1>7, <2>2, <3>1
    <3> QED
      BY <3>2 DEF Has
  <2> QED
    BY <2>1, <2>2 DEF Has
<1> QED
  BY <1>6, <1>10, <1>11 DEF q

(* The handler is attached and detached.                                   *)
LEMMA Attachments ==
  ASSUME RInv, NEW t \in Threads, Attach(t)
  PROVE  RInv'
<1>1. Typed /\ Staged /\ todo[t] # << >> /\ Head(todo[t])[1] = "attach"
  BY DEF RInv, Attach, Next1, Idle
<1>2. /\ t \in within /\ t \in Runs /\ Arg(t) = t
      /\ todo[t] = <<<<"attach", t>>>> /\ ~Attached(t)
  BY <1>1, Heads DEF Arg, Frame
<1>3. << >> \o Tail(todo[t]) = << >>
  BY <1>2, LastStages
<1>4. /\ todo' = [todo EXCEPT ![t] = << >>] /\ bridges' = Append(bridges, t)
      /\ UNCHANGED <<within, before, limit, configured, crossed>>
  BY <1>1, <1>2, <1>3 DEF Attach, Then, Typed
<1>5. /\ bridges \in Seq(Runs) /\ bridges' \in Seq(Runs) /\ Len(bridges') = Len(bridges) + 1
      /\ Len(bridges) \in Nat /\ bridges'[Len(bridges) + 1] = t
      /\ \A i \in 1..Len(bridges) : bridges'[i] = bridges[i]
  BY <1>1, <1>2, <1>4, AppendProperties, LenProperties DEF Typed
<1>6. \A s : Attached(s)' <=> Attached(s) \/ s = t
  BY <1>5 DEF Attached
<1>7. \A i, j \in 1..Len(bridges') : bridges'[i] = bridges'[j] => i = j
  BY <1>1, <1>2, <1>5 DEF Staged, Attached
<1>8. todo' \in [Threads -> Seq(Steps)] /\ todo'[t] = << >> /\ \A s \in Threads : s # t => todo'[s] = todo[s]
  BY <1>1, <1>4, Nothing DEF Typed
<1>9. Staged'
  <2>1. ASSUME NEW s \in within' PROVE Stage(s)'
    <3>1. s \in within /\ s \in Threads
      BY <1>1, <1>4 DEF Typed, Threads
    <3>2. CASE s = t
      BY <1>6, <1>8, <3>2, Nothing DEF Stage
    <3>3. CASE s # t
      <4>1. Stage(s) /\ todo'[s] = todo[s]
        BY <1>1, <1>8, <3>1, <3>3 DEF Staged
      <4> QED
        BY <1>6, <3>3, <4>1 DEF Stage
    <3> QED
      BY <3>2, <3>3
  <2>2. \A s \in Threads \ within' : Inside(todo'[s])
    BY <1>1, <1>2, <1>4, <1>8 DEF Staged
  <2>3. \A s \in Runs : Attached(s)' => s \in within'
    BY <1>1, <1>2, <1>4, <1>6 DEF Staged
  <2> QED
    BY <1>7, <2>1, <2>2, <2>3 DEF Staged
<1>10. ASSUME ~crossed PROVE Settled'
  <2>1. \A s \in Threads : Due(s)' = Due(s)
    BY <1>4 DEF Due
  <2>2. \A s \in Threads : SetsTo(todo'[s], Due(s))
    BY <1>8, <1>10, Nothing DEF RInv, Settled
  <2> QED
    BY <1>2, <1>4, <1>10, <2>1, <2>2 DEF RInv, Settled
<1> QED
  BY <1>1, <1>4, <1>5, <1>8, <1>9, <1>10 DEF RInv, Typed

LEMMA Detachments ==
  ASSUME RInv, NEW t \in Threads, Detach(t)
  PROVE  RInv'
<1>1. Typed /\ Staged /\ todo[t] # << >> /\ Head(todo[t])[1] = "detach"
  BY DEF RInv, Detach, Next1, Idle
<1>2. /\ t \in within /\ t \in Runs /\ Arg(t) = t
      /\ todo[t] = <<<<"detach", t>>, <<"restore", t>>>> /\ Attached(t)
  BY <1>1, Heads DEF Arg, Frame
<1>3. PICK q : q = <<<<"restore", t>>>>
  OBVIOUS
<1>4. << >> \o Tail(todo[t]) = q /\ q \in Seq(Steps) /\ \A V : SetsTo(q, V)
  BY <1>2, <1>3, LastStages
<1>5. /\ todo' = [todo EXCEPT ![t] = q] /\ bridges' = RemoveFirst(bridges, t)
      /\ UNCHANGED <<within, before, limit, configured, crossed>>
  BY <1>1, <1>2, <1>4 DEF Detach, Then, Typed
<1>6. bridges \in Seq(Runs) /\ \A i, j \in 1..Len(bridges) : bridges[i] = bridges[j] => i = j
  BY <1>1 DEF Typed, Staged
<1>7. Has(bridges, t) /\ Distinct(bridges)
  BY <1>2, <1>6 DEF Attached, Has, Distinct
<1>8. /\ bridges' \in Seq(Runs) /\ Distinct(bridges')
      /\ \A s : Has(bridges', s) <=> s # t /\ Has(bridges, s)
  <2>1. PICK kept : kept = RemoveFirst(bridges, t)
    OBVIOUS
  <2>2. /\ kept \in Seq(Runs) /\ Distinct(kept)
        /\ \A s : Has(kept, s) <=> s # t /\ Has(bridges, s)
    BY <1>6, <1>7, <2>1, FirstRemoved
  <2> QED
    BY <1>5, <2>1, <2>2
<1>9. \A s : Attached(s)' <=> s # t /\ Attached(s)
  BY <1>8 DEF Attached, Has
<1>10. todo' \in [Threads -> Seq(Steps)] /\ todo'[t] = q /\ \A s \in Threads : s # t => todo'[s] = todo[s]
  BY <1>1, <1>4, <1>5 DEF Typed
<1>11. Staged'
  <2>1. ASSUME NEW s \in within' PROVE Stage(s)'
    <3>1. s \in within /\ s \in Threads
      BY <1>1, <1>5 DEF Typed, Threads
    <3>2. CASE s = t
      BY <1>3, <1>9, <1>10, <3>2 DEF Stage
    <3>3. CASE s # t
      <4>1. Stage(s) /\ todo'[s] = todo[s]
        BY <1>1, <1>10, <3>1, <3>3 DEF Staged
      <4> QED
        BY <1>9, <3>3, <4>1 DEF Stage
    <3> QED
      BY <3>2, <3>3
  <2>2. \A s \in Threads \ within' : Inside(todo'[s])
    BY <1>1, <1>2, <1>5, <1>10 DEF Staged
  <2>3. \A s \in Runs : Attached(s)' => s \in within'
    BY <1>1, <1>5, <1>9 DEF Staged
  <2> QED
    BY <1>8, <2>1, <2>2, <2>3 DEF Staged, Distinct
<1>12. ASSUME ~crossed PROVE Settled'
  <2>1. \A s \in Threads : Due(s)' = Due(s)
    BY <1>5 DEF Due
  <2>2. \A s \in Threads : SetsTo(todo'[s], Due(s))
    BY <1>4, <1>10, <1>12 DEF RInv, Settled
  <2> QED
    BY <1>2, <1>5, <1>12, <2>1, <2>2 DEF RInv, Settled
<1> QED
  BY <1>1, <1>5, <1>8, <1>10, <1>11, <1>12 DEF RInv, Typed

(* The end of a run: its main thread alone may still set, to the setting.  *)
LEMMA Restorations ==
  ASSUME RInv, NEW t \in Threads, Restore(t)
  PROVE  RInv'
<1>1. Typed /\ Staged /\ todo[t] # << >> /\ Head(todo[t])[1] = "restore"
  BY DEF RInv, Restore, Next1, Idle
<1>2. /\ t \in within /\ t \in Runs /\ Arg(t) = t
      /\ todo[t] = <<<<"restore", t>>>> /\ ~Attached(t)
  BY <1>1, Heads DEF Arg, Frame
<1>3. before[t] \in Nat
  BY <1>1, <1>2 DEF Typed
<1>4. PICK p : p = IF RpmOf[t] # 0 /\ before[t] # limit THEN UpdateRpm(before[t]) ELSE << >>
  OBVIOUS
<1>5. p \in Seq(Steps) /\ Inside(p) /\ SetsTo(p, {before[t]})
  BY <1>3, <1>4, Programs, Nothing
<1>6. SetsTo(p, {}) => RpmOf[t] = 0 \/ limit = before[t]
  BY <1>3, <1>4, UpdateSets
<1>7. p \o Tail(todo[t]) = p
  BY <1>2, <1>5, LastStages
<1>8. /\ todo' = [todo EXCEPT ![t] = p] /\ within' = within \ {t}
      /\ UNCHANGED <<bridges, before, limit, configured, crossed>>
  BY <1>1, <1>2, <1>4, <1>7 DEF Restore, Then, Typed
<1>9. todo' \in [Threads -> Seq(Steps)] /\ todo'[t] = p /\ \A s \in Threads : s # t => todo'[s] = todo[s]
  BY <1>1, <1>5, <1>8 DEF Typed
<1>10. Staged'
  <2>1. \A s : Attached(s)' <=> Attached(s)
    BY <1>8 DEF Attached, Has
  <2>2. ASSUME NEW s \in within' PROVE Stage(s)'
    <3>1. s \in within /\ s \in Threads /\ s # t
      BY <1>1, <1>8 DEF Typed, Threads
    <3>2. Stage(s) /\ todo'[s] = todo[s]
      BY <1>1, <1>9, <3>1 DEF Staged
    <3> QED
      BY <2>1, <3>2 DEF Stage
  <2>3. \A s \in Threads \ within' : Inside(todo'[s])
    BY <1>1, <1>5, <1>8, <1>9 DEF Staged
  <2>4. \A s \in Runs : Attached(s)' => s \in within'
    BY <1>1, <1>2, <1>8, <2>1 DEF Staged
  <2>5. \A i, j \in 1..Len(bridges') : bridges'[i] = bridges'[j] => i = j
    BY <1>1, <1>8 DEF Staged
  <2> QED
    BY <2>2, <2>3, <2>4, <2>5 DEF Staged
<1>11. ASSUME ~crossed PROVE Settled'
  <2>1. Settled /\ within = {t} /\ before[t] = configured
    BY <1>2, <1>11 DEF RInv, Settled
  <2>2. within' = {}
    BY <1>8, <2>1
  <2>3. \A s \in Threads : Due(s)' = {configured}
    BY <1>8, <2>2 DEF Due
  <2>4. ASSUME NEW s \in Threads PROVE SetsTo(todo'[s], Due(s)')
    <3>1. CASE s = t
      BY <1>5, <1>9, <2>1, <2>3, <3>1
    <3>2. CASE s # t
      <4>1. SetsTo(todo[s], {})
        BY <2>1, <3>2 DEF Settled, Due
      <4>2. SetsTo(todo[s], {configured})
        BY <4>1 DEF SetsTo
      <4> QED
        BY <1>9, <2>3, <3>2, <4>2
    <3> QED
      BY <3>1, <3>2
  <2>5. (\A s \in Threads : SetsTo(todo'[s], {})) => limit' = configured'
    <3>1. RpmOf[t] = 0 => limit = configured
      BY <1>2, <2>1 DEF Settled
    <3> QED
      BY <1>6, <1>8, <1>9, <2>1, <3>1
  <2> QED
    BY <2>2, <2>4, <2>5 DEF Settled
<1> QED
  BY <1>1, <1>8, <1>9, <1>10, <1>11 DEF RInv, Typed

(* Proved: the inductive invariant.  A run's main thread attaches its      *)
(* handler once, detaches it and restores, in that order and within its    *)
(* block; and while nothing crossed, whatever may still set the limit sets *)
(* it to the setting, or to the rate of the one run that is under way,     *)
(* which found the setting there.                                          *)
THEOREM RunsGoThroughStages == ReportsSpec => []RInv
<1>1. ASSUME ReportsInit PROVE RInv
  <2>1. \A t \in Threads : todo[t] = << >>
    BY <1>1 DEF ReportsInit
  <2>2. Typed
    BY ReportsAssumption, <1>1, Nothing DEF ReportsInit, Typed
  <2>3. Staged
    BY <1>1, <2>1, Nothing DEF ReportsInit, Staged, Attached
  <2>4. Settled
    BY <1>1, <2>1, Nothing DEF ReportsInit, Settled
  <2> QED
    BY <2>2, <2>3, <2>4 DEF RInv
<1>2. ASSUME RInv, [ReportsNext]_reportVars PROVE RInv'
  <2>1. CASE \E r \in Runs : BeginRun(r)
    BY <1>2, <2>1, Beginnings
  <2>2. CASE \E r \in Runs : EndRun(r)
    BY <1>2, <2>2, Endings
  <2>3. CASE \/ \E w \in Workers : TranslateBatch(w)
             \/ \E r \in Runs : ReportFile(r)
             \/ \E o \in Others : ServeRequest(o)
    BY <1>2, <2>3, Sayings
  <2>4. CASE \E o \in Others : \E n \in Rpms : ChangeSetting(o, n)
    BY <1>2, <2>4, Changes
  <2>5. CASE \E t \in Threads : Step(t)
    <3>1. PICK t \in Threads : Step(t)
      BY <2>5
    <3>2. CASE Take(t) \/ Give(t) \/ Save(t) \/ Log(t)
      BY <1>2, <3>2, Workings
    <3>3. CASE SetLimit(t)
      BY <1>2, <3>3, Settings
    <3>4. CASE Attach(t)
      BY <1>2, <3>4, Attachments
    <3>5. CASE Detach(t)
      BY <1>2, <3>5, Detachments
    <3>6. CASE Restore(t)
      BY <1>2, <3>6, Restorations
    <3> QED
      BY <3>1, <3>2, <3>3, <3>4, <3>5, <3>6 DEF Step
  <2>6. CASE UNCHANGED reportVars
    <3>1. UNCHANGED <<todo, bridges, within, before, limit, configured, crossed>>
      BY <2>6 DEF reportVars
    <3>2. Typed'
      BY <1>2, <3>1 DEF RInv, Typed
    <3>3. Staged'
      BY <1>2, <3>1 DEF RInv, Staged, Stage, Attached
    <3>4. ~crossed => Settled'
      BY <1>2, <3>1 DEF RInv, Settled, Due
    <3> QED
      BY <3>1, <3>2, <3>3, <3>4 DEF RInv
  <2> QED
    BY <1>2, <2>1, <2>2, <2>3, <2>4, <2>5, <2>6 DEF ReportsNext
<1> QED
  BY <1>1, <1>2, PTL DEF ReportsSpec

(* Proved: a run that is alone gives the limit back as the user set it     *)
(* (temporary_rpm_limit), whatever its threads log and report meanwhile.   *)
THEOREM TheLimitIsRestored == ReportsSpec => []LimitRestored
<1>1. RInv => LimitRestored
  <2> SUFFICES ASSUME RInv, Quiet, ~crossed PROVE limit = configured
    BY DEF LimitRestored
  <2>1. within = {} /\ \A t \in Threads : SetsTo(todo[t], {})
    BY Nothing DEF Quiet, Idle
  <2> QED
    BY <2>1 DEF RInv, Settled
<1> QED
  BY <1>1, RunsGoThroughStages, PTL
=============================================================================
