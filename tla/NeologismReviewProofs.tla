----------------------- MODULE NeologismReviewProofs ------------------------
(***************************************************************************)
(* What NeologismReview guarantees for any terms, any number of handlers,  *)
(* decisions, glossaries, faults and crashes.  None of the properties is   *)
(* inductive.  That a decision stands rests on the file having one         *)
(* candidate for a term, which rests on what a run adds being checked      *)
(* against the file as it is at the merge.  That what is approved is in    *)
(* the glossary rests on what holds between the entry and the decision.    *)
(* That one glossary is made rests on where its maker stands.              *)
(***************************************************************************)
EXTENDS NeologismReview, FiniteSetTheorems, TLAPS

Verdicts == {"approved", "new_meaning"}

(* A request's fields.                                                     *)
Shape(q) == q = [pc |-> q.pc, what |-> q.what, id |-> q.id, status |-> q.status,
                 glossary |-> q.glossary]

RequestOK(q, file) ==
  \/ q = Free
  \/ /\ Shape(q) /\ q.pc \in Pcs
     /\ q.what \in {"approve", "ensure", "mine"}
     /\ q.what = "approve" => /\ q.id \in Ids /\ \E c \in file : c.id = q.id
                              /\ q.status \in Verdicts
     /\ q.pc \in {"write", "save"} => q.what = "approve"

(* Candidates and what was decided about them.                             *)
CandidateInv ==
  /\ store \subseteq [id : Ids, status : Statuses]
  /\ OneCandidatePerTerm
  /\ decided \in [Ids -> Statuses \cup {"none"}]
  /\ \A id \in Ids : decided[id] # "none" => Listed(id)
  /\ \A c \in store : decided[c.id] = c.status

(* Who refers to them.                                                     *)
RequestInv ==
  /\ \A r \in Requests : RequestOK(req[r], store)
  /\ req \in [Requests -> {req[r] : r \in Requests}]

MinerInv ==
  miner \in [pc : {"off", "queued", "extract", "merge", "complete", "report"},
             found : SUBSET Terms, seen : SUBSET [id : Ids, status : Statuses]]

(* Entries, and approvals between their entry and their decision.          *)
EntryInv ==
  /\ \A e \in entries : e.of \in Ids /\ e.id = EntryId(e.of)
  /\ \A e, f \in entries : e.id = f.id => e = f
  /\ removed \subseteq Ids
  /\ \A c \in store : c.status \in Verdicts /\ c.id \notin removed
                        => \E e \in entries : e.of = c.id
  /\ \A r \in Requests : At(r, "save") /\ req[r].id \notin removed
                           => \E e \in entries : e.of = req[r].id

(* The maker of a glossary, and what was lost by then.                     *)
GlossaryInv ==
  /\ made \in Nat /\ losses \in Nat /\ made <= 1 + losses
  /\ creating = {r \in Requests : req[r].pc \in {"create", "bind"}}
  /\ \A q, r \in creating : q = r
  /\ \A r \in Requests : At(r, "create") => made <= losses
  /\ bound = {} /\ (\A r \in Requests : ~At(r, "bind")) => made <= losses

(* What is on disk, and the status of mining.                              *)
DiskInv ==
  /\ dedicated \in [Glossaries -> BOOLEAN] /\ bound \subseteq Glossaries
  /\ \A e \in entries : e.in \in Glossaries
  /\ keyed \in BOOLEAN
  /\ mining \in Active \cup {"idle", "completed", "failed"}

IInv == CandidateInv /\ RequestInv /\ MinerInv /\ EntryInv /\ GlossaryInv /\ DiskInv

-----------------------------------------------------------------------------
LEMMA InitInv == Init => IInv
<1>. SUFFICES ASSUME Init PROVE IInv
  OBVIOUS
<1>1. CandidateInv
  BY DEF Init, CandidateInv, OneCandidatePerTerm
<1>2. RequestInv /\ MinerInv
  BY DEF Init, RequestInv, MinerInv, RequestOK, Free, Off
<1>3. EntryInv
  BY DEF Init, EntryInv, At, Free
<1>4. GlossaryInv
  BY DEF Init, GlossaryInv, At, Free
<1>5. DiskInv
  BY DEF Init, DiskInv, Glossaries
<1>. QED
  BY <1>1, <1>2, <1>3, <1>4, <1>5 DEF IInv

-----------------------------------------------------------------------------
(* The candidates.                                                         *)

(* A decision keeps the candidates and is what is known of its candidate.  *)
LEMMA DecideKeeps ==
  ASSUME CandidateInv, NEW id \in Ids, NEW status \in Statuses, Listed(id), Decide(id, status)
  PROVE  /\ CandidateInv'
         /\ \A i \in Ids : Listed(i) => Listed(i)'
         /\ \A c \in store' : c \in store \/ (c.id = id /\ c.status = status)
<1>. DEFINE Given(c) == IF c.id = id THEN [c EXCEPT !.status = status] ELSE c
<1>1. store' = {Given(c) : c \in store}
  BY DEF Decide
<1>2. \A c \in store : /\ Given(c) \in [id : Ids, status : Statuses]
                       /\ Given(c).id = c.id
                       /\ Given(c).status = IF c.id = id THEN status ELSE c.status
  BY DEF CandidateInv
<1>3. decided' = [decided EXCEPT ![id] = status]
  BY DEF Decide
<1>4. store' \subseteq [id : Ids, status : Statuses]
  BY <1>1, <1>2
<1>5. OneCandidatePerTerm'
  <2>. SUFFICES ASSUME NEW c \in store', NEW d \in store', TermOf(c) = TermOf(d) PROVE c = d
    BY DEF OneCandidatePerTerm, TermOf
  <2>1. PICK a \in store, b \in store : c = Given(a) /\ d = Given(b)
    BY <1>1
  <2>2. a.id[1] = b.id[1]
    BY <2>1, <1>2 DEF TermOf
  <2>3. a = b
    BY <2>2 DEF CandidateInv, OneCandidatePerTerm, TermOf
  <2>. QED
    BY <2>1, <2>3
<1>6. \A i \in Ids : Listed(i) => Listed(i)'
  <2>. SUFFICES ASSUME NEW i \in Ids, NEW c \in store, c.id = i PROVE \E d \in store' : d.id = i
    BY DEF Listed
  <2>. QED
    BY <1>1, <1>2
<1>7. decided' \in [Ids -> Statuses \cup {"none"}]
  BY <1>3 DEF CandidateInv
<1>8. \A i \in Ids : decided'[i] # "none" => Listed(i)'
  BY <1>3, <1>6 DEF CandidateInv
<1>9. \A c \in store' : decided'[c.id] = c.status
  BY <1>1, <1>2, <1>3 DEF CandidateInv
<1>10. \A c \in store' : c \in store \/ (c.id = id /\ c.status = status)
  BY <1>1, <1>2
<1>. QED
  BY <1>4, <1>5, <1>6, <1>7, <1>8, <1>9, <1>10 DEF CandidateInv

(* A merge adds candidates for terms that have none.                       *)
LEMMA MergeKeeps ==
  ASSUME CandidateInv, Merge
  PROVE  /\ CandidateInv'
         /\ \A i \in Ids : Listed(i) => Listed(i)'
         /\ \A c \in store' : c \in store \/ c.status = "pending"
<1>. DEFINE added == {New(t) : t \in (miner.found \ Known(miner.seen)) \ Known(store)}
<1>1. /\ \A c \in added : c.id \in Ids
      /\ store' = store \cup added
      /\ decided' = [id \in Ids |-> IF \E c \in added : c.id = id THEN "pending" ELSE decided[id]]
  BY DEF Merge, MergeInto
<1>2. \A c \in added : /\ c \in [id : Ids, status : Statuses] /\ c.status = "pending"
                       /\ TermOf(c) \notin Known(store)
  <2>. SUFFICES ASSUME NEW t \in (miner.found \ Known(miner.seen)) \ Known(store),
                       New(t).id \in Ids
                PROVE  /\ New(t) \in [id : Ids, status : Statuses] /\ New(t).status = "pending"
                       /\ TermOf(New(t)) \notin Known(store)
    BY <1>1
  <2>. DEFINE k == 1 + Cardinality({c \in store : TermOf(c) = t})
  <2>1. New(t) = [id |-> <<t, k>>, status |-> "pending"]
    BY DEF New
  <2>. HIDE DEF k
  <2>. QED
    BY <2>1 DEF TermOf, Statuses
<1>3. \A c \in added, d \in added : TermOf(c) = TermOf(d) => c = d
  <2>1. \A t : TermOf(New(t)) = t
    BY DEF New, TermOf
  <2>. QED
    BY <2>1
<1>4. \A c \in store, d \in added : TermOf(c) # TermOf(d) /\ c.id # d.id
  BY <1>2 DEF Known, TermOf
<1>. HIDE DEF added
<1>5. OneCandidatePerTerm'
  <2>. SUFFICES ASSUME NEW c \in store', NEW d \in store', TermOf(c) = TermOf(d) PROVE c = d
    BY DEF OneCandidatePerTerm, TermOf
  <2>1. c \in store \cup added /\ d \in store \cup added
    BY <1>1
  <2>. QED
    BY <2>1, <1>3, <1>4 DEF CandidateInv, OneCandidatePerTerm
<1>6. \A i \in Ids : Listed(i) => Listed(i)'
  BY <1>1 DEF Listed
<1>7. \A i \in Ids : decided'[i] # "none" => Listed(i)'
  BY <1>1, <1>6 DEF CandidateInv, Listed
<1>8. \A c \in store' : decided'[c.id] = c.status
  <2>1. CASE \A c \in store : decided[c.id] = c.status
    BY <2>1, <1>1, <1>2, <1>4 DEF CandidateInv
  <2>. QED
    BY <2>1 DEF CandidateInv
<1>9. store' \subseteq [id : Ids, status : Statuses]
  BY <1>1, <1>2 DEF CandidateInv
<1>10. decided' \in [Ids -> Statuses \cup {"none"}]
  BY <1>1 DEF CandidateInv, Statuses
<1>. QED
  BY <1>1, <1>2, <1>5, <1>6, <1>7, <1>8, <1>9, <1>10 DEF CandidateInv

-----------------------------------------------------------------------------
(* The requests.                                                           *)

Grows == \A c \in store : \E d \in store' : d.id = c.id

LEMMA RequestSet ==
  ASSUME RequestInv, Grows, NEW r \in Requests, NEW q, RequestOK(q, store'),
         req' = [req EXCEPT ![r] = q]
  PROVE  RequestInv'
<1>1. \A s \in Requests : req'[s] = IF s = r THEN q ELSE req[s]
  BY DEF RequestInv
<1>2. ASSUME NEW s \in Requests PROVE RequestOK(req'[s], store')
  <2>1. CASE s = r
    BY <2>1, <1>1
  <2>2. CASE s # r
    <3>1. RequestOK(req[s], store)
      BY DEF RequestInv
    <3>2. RequestOK(req[s], store')
      BY <3>1 DEF RequestOK, Grows
    <3>. QED
      BY <2>2, <1>1, <3>2
  <2>. QED
    BY <2>1, <2>2
<1>3. req' \in [Requests -> {req'[s] : s \in Requests}]
  BY <1>1 DEF RequestInv
<1>. QED
  BY <1>2, <1>3 DEF RequestInv

LEMMA RequestAnswered ==
  ASSUME RequestInv, Grows, NEW r \in Requests, Answer(r)
  PROVE  RequestInv'
BY RequestSet DEF Answer, RequestOK

(* A request that goes on.                                                 *)
LEMMA RequestGoes ==
  ASSUME RequestInv, Grows, NEW r \in Requests, req[r] # Free,
         NEW pc \in Pcs, pc \in {"write", "save"} => req[r].what = "approve",
         NEW g, req' = [req EXCEPT ![r].pc = pc, ![r].glossary = g] \/ Go(r, pc)
  PROVE  RequestInv'
<1>1. RequestOK(req[r], store)
  BY DEF RequestInv
<1>2. /\ Shape(req[r])
      /\ req[r].what \in {"approve", "ensure", "mine"}
      /\ req[r].what = "approve" => /\ req[r].id \in Ids /\ req[r].status \in Verdicts
                                    /\ \E c \in store' : c.id = req[r].id
  BY <1>1 DEF RequestOK, Grows
<1>3. CASE req' = [req EXCEPT ![r].pc = pc, ![r].glossary = g]
  <2>. DEFINE q == [pc |-> pc, what |-> req[r].what, id |-> req[r].id,
                    status |-> req[r].status, glossary |-> g]
  <2>. DEFINE f == [req EXCEPT ![r].pc = pc]
  <2>a. DOMAIN req = Requests
    BY DEF RequestInv
  <2>b. DOMAIN f = Requests /\ \A s \in Requests : s # r => f[s] = req[s]
    BY <2>a
  <2>c. f[r] = [pc |-> pc, what |-> req[r].what, id |-> req[r].id,
                status |-> req[r].status, glossary |-> req[r].glossary]
    BY <1>2, <2>a DEF Shape
  <2>d. req' = [f EXCEPT ![r].glossary = g]
    BY <1>3
  <2>e. /\ DOMAIN req' = Requests /\ \A s \in Requests : s # r => req'[s] = req[s]
        /\ req'[r] = [f[r] EXCEPT !.glossary = g]
    <3>. HIDE DEF f
    <3>. QED
      BY <2>b, <2>d
  <2>f. req'[r] = q
    <3>. HIDE DEF f
    <3>. QED
      BY <2>c, <2>e
  <2>1. req' = [req EXCEPT ![r] = q]
    BY <2>a, <2>d, <2>e, <2>f
  <2>2. RequestOK(q, store')
    BY <1>2 DEF RequestOK, Shape
  <2>. QED
    BY <2>1, <2>2, RequestSet
<1>4. CASE Go(r, pc)
  <2>. DEFINE q == [pc |-> pc, what |-> req[r].what, id |-> req[r].id,
                    status |-> req[r].status, glossary |-> req[r].glossary]
  <2>1. req' = [req EXCEPT ![r] = q]
    BY <1>2, <1>4 DEF Shape, Go
  <2>2. RequestOK(q, store')
    BY <1>2 DEF RequestOK, Shape
  <2>. QED
    BY <2>1, <2>2, RequestSet
<1>. QED
  BY <1>3, <1>4

(* A candidate in the file was there before, or waits for a decision or    *)
(* was passed over, or is what an approval saves.                          *)
Explained ==
  \A c \in store' : \/ c \in store \/ c.status \notin Verdicts
                    \/ \E r \in Requests : At(r, "save") /\ c.id = req[r].id

ReviewKept == CandidateInv' /\ RequestInv' /\ MinerInv' /\ Grows /\ Explained

LEMMA FileUntouched ==
  ASSUME CandidateInv, UNCHANGED <<store, decided>>
  PROVE  CandidateInv' /\ Grows /\ Explained
BY DEF CandidateInv, OneCandidatePerTerm, Listed, Grows, Explained

LEMMA DecisionExplained ==
  ASSUME CandidateInv, NEW id \in Ids, NEW status \in Statuses, Listed(id), Decide(id, status),
         status \notin Verdicts \/ \E r \in Requests : At(r, "save") /\ id = req[r].id
  PROVE  CandidateInv' /\ Grows /\ Explained
<1>1. /\ CandidateInv'
      /\ \A i \in Ids : Listed(i) => Listed(i)'
      /\ \A c \in store' : c \in store \/ (c.id = id /\ c.status = status)
  BY DecideKeeps
<1>2. Grows
  BY <1>1 DEF Grows, Listed, CandidateInv
<1>3. Explained
  BY <1>1 DEF Explained
<1>. QED
  BY <1>1, <1>2, <1>3

LEMMA AskKeeps ==
  ASSUME CandidateInv, RequestInv, MinerInv, NEW r \in Requests, NEW what, NEW id, NEW status,
         what \in {"ensure", "mine"} \/
           (what = "approve" /\ id \in Ids /\ Listed(id) /\ status \in Verdicts),
         Ask(r, what, id, status)
  PROVE  ReviewKept
<1>1. CandidateInv' /\ Grows /\ Explained
  BY FileUntouched DEF Ask, disk
<1>2. RequestOK(Waiting(what, id, status), store')
  BY DEF RequestOK, Waiting, Shape, Pcs, Listed, Ask, disk
<1>3. RequestInv'
  BY <1>1, <1>2, RequestSet DEF Ask
<1>4. MinerInv'
  BY DEF Ask, MinerInv
<1>. QED
  BY <1>1, <1>3, <1>4 DEF ReviewKept

LEMMA HandlerKeeps ==
  ASSUME CandidateInv, RequestInv, MinerInv, NEW r \in Requests, Handler(r)
  PROVE  ReviewKept
<1>0. \A pc \in Pcs : At(r, pc) => req[r] # Free
  BY DEF At, Free, Pcs
<1>1. ASSUME UNCHANGED <<store, decided, miner>>, RequestInv /\ Grows => RequestInv'
      PROVE  ReviewKept
  <2>1. CandidateInv' /\ Grows /\ Explained
    BY <1>1, FileUntouched
  <2>2. MinerInv'
    BY <1>1 DEF MinerInv
  <2>. QED
    BY <1>1, <2>1, <2>2 DEF ReviewKept
<1>2. ASSUME Look(r) PROVE ReviewKept
  <2>1. UNCHANGED <<store, decided, miner>>
    BY <1>2 DEF Look, LookFor, disk
  <2>2. /\ At(r, "lock")
        /\ \/ \E g : req' = [req EXCEPT ![r].pc = "got", ![r].glossary = g]
           \/ Go(r, "create")
    BY <1>2 DEF Look, LookFor
  <2>3. Grows => RequestInv'
    BY <2>2, <1>0, RequestGoes DEF Pcs
  <2>. QED
    BY <2>1, <2>3, <1>1
<1>3. ASSUME CreateGlossary(r) PROVE ReviewKept
  <2>1. UNCHANGED <<store, decided, miner>>
    BY <1>3 DEF CreateGlossary
  <2>2. /\ At(r, "create")
        /\ \/ \E g : req' = [req EXCEPT ![r].pc = "bind", ![r].glossary = g]
           \/ Answer(r)
    BY <1>3 DEF CreateGlossary
  <2>3. Grows => RequestInv'
    BY <2>2, <1>0, RequestGoes, RequestAnswered DEF Pcs
  <2>. QED
    BY <2>1, <2>3, <1>1
<1>4. ASSUME BindGlossary(r) PROVE ReviewKept
  <2>1. UNCHANGED <<store, decided, miner>>
    BY <1>4 DEF BindGlossary
  <2>2. At(r, "bind") /\ (Go(r, "got") \/ Answer(r))
    BY <1>4 DEF BindGlossary
  <2>3. Grows => RequestInv'
    BY <2>2, <1>0, RequestGoes, RequestAnswered DEF Pcs
  <2>. QED
    BY <2>1, <2>3, <1>1
<1>5. ASSUME Ensured(r) PROVE ReviewKept
  <2>1. UNCHANGED <<store, decided, miner>> /\ Answer(r)
    BY <1>5 DEF Ensured, disk
  <2>. QED
    BY <2>1, <1>1, RequestAnswered
<1>6. ASSUME ReadCandidate(r) PROVE ReviewKept
  <2>1. UNCHANGED <<store, decided, miner>>
    BY <1>6 DEF ReadCandidate, disk
  <2>2. At(r, "got") /\ req[r].what = "approve" /\ (Go(r, "write") \/ Answer(r))
    BY <1>6 DEF ReadCandidate
  <2>3. Grows => RequestInv'
    BY <2>2, <1>0, RequestGoes, RequestAnswered DEF Pcs
  <2>. QED
    BY <2>1, <2>3, <1>1
<1>7. ASSUME WriteEntry(r) PROVE ReviewKept
  <2>1. UNCHANGED <<store, decided, miner>>
    BY <1>7 DEF WriteEntry
  <2>2. At(r, "write") /\ (Go(r, "save") \/ Answer(r))
    BY <1>7 DEF WriteEntry
  <2>3. req[r].what = "approve"
    BY <2>2, <1>0 DEF RequestInv, RequestOK, At, Pcs
  <2>4. Grows => RequestInv'
    BY <2>2, <2>3, <1>0, RequestGoes, RequestAnswered DEF Pcs
  <2>. QED
    BY <2>1, <2>4, <1>1
<1>8. ASSUME SaveDecision(r) PROVE ReviewKept
  <2>1. /\ At(r, "save") /\ Answer(r) /\ miner' = miner
        /\ \/ Decide(req[r].id, req[r].status)
           \/ UNCHANGED <<store, decided>>
    BY <1>8 DEF SaveDecision
  <2>2. /\ req[r].id \in Ids /\ req[r].status \in Verdicts
        /\ Listed(req[r].id)
    BY <2>1, <1>0 DEF RequestInv, RequestOK, At, Pcs, Listed
  <2>3. CandidateInv' /\ Grows /\ Explained
    <3>1. CASE Decide(req[r].id, req[r].status)
      BY <2>1, <2>2, <3>1, DecisionExplained DEF Verdicts, Statuses
    <3>2. CASE UNCHANGED <<store, decided>>
      BY <3>2, FileUntouched
    <3>. QED
      BY <2>1, <3>1, <3>2
  <2>4. RequestInv' /\ MinerInv'
    BY <2>1, <2>3, RequestAnswered DEF MinerInv
  <2>. QED
    BY <2>3, <2>4 DEF ReviewKept
<1>9. ASSUME StartMining(r) PROVE ReviewKept
  <2>1. UNCHANGED <<store, decided>> /\ Answer(r)
    BY <1>9 DEF StartMining
  <2>2. CandidateInv' /\ Grows /\ Explained
    BY <2>1, FileUntouched
  <2>3. MinerInv'
    BY <1>9 DEF StartMining, MinerInv, Off
  <2>. QED
    BY <2>1, <2>2, <2>3, RequestAnswered DEF ReviewKept
<1>. QED
  BY <1>2, <1>3, <1>4, <1>5, <1>6, <1>7, <1>8, <1>9 DEF Handler

LEMMA ReviewStep ==
  ASSUME CandidateInv, RequestInv, MinerInv, [Next]_vars
  PROVE  ReviewKept
<1>1. ASSUME UNCHANGED <<store, decided, req>>, MinerInv' PROVE ReviewKept
  <2>1. CandidateInv' /\ Grows /\ Explained
    BY <1>1, FileUntouched
  <2>2. RequestInv'
    BY <1>1 DEF RequestInv
  <2>. QED
    BY <1>1, <2>1, <2>2 DEF ReviewKept
<1>2. ASSUME NEW r \in Requests, AskGlossary(r) \/ AskMining(r) PROVE ReviewKept
  BY <1>2, AskKeeps DEF AskGlossary, AskMining
<1>3. ASSUME NEW r \in Requests, NEW id \in Ids, NEW status \in Verdicts, AskApproval(r, id, status)
      PROVE  ReviewKept
  BY <1>3, AskKeeps DEF AskApproval
<1>4. ASSUME NEW r \in Requests, Handler(r) PROVE ReviewKept
  BY <1>4, HandlerKeeps
<1>5. ASSUME NEW id \in Ids, MarkDuplicate(id) \/ Reject(id) \/ Restore(id) PROVE ReviewKept
  <2>1. PICK status \in Statuses \ Verdicts : Listed(id) /\ Review(id, status)
    BY <1>5 DEF MarkDuplicate, Reject, Restore, Statuses, Verdicts
  <2>2. CandidateInv' /\ Grows /\ Explained
    BY <2>1, DecisionExplained DEF Review
  <2>3. RequestInv'
    BY <2>1, <2>2 DEF RequestInv, RequestOK, Grows, Review, memory
  <2>4. MinerInv'
    BY <2>1 DEF MinerInv, Review, memory
  <2>. QED
    BY <2>2, <2>3, <2>4 DEF ReviewKept
<1>6. ASSUME Merge PROVE ReviewKept
  <2>1. /\ CandidateInv'
        /\ \A i \in Ids : Listed(i) => Listed(i)'
        /\ \A c \in store' : c \in store \/ c.status = "pending"
    BY <1>6, MergeKeeps
  <2>2. Grows /\ Explained
    BY <2>1 DEF Grows, Explained, Listed, CandidateInv, Verdicts
  <2>3. RequestInv'
    BY <1>6, <2>2 DEF RequestInv, RequestOK, Grows, Merge, MergeInto
  <2>4. MinerInv'
    BY <1>6 DEF MinerInv, Merge, MergeInto, Off
  <2>. QED
    BY <2>1, <2>2, <2>3, <2>4 DEF ReviewKept
<1>7. ASSUME Miner, ~Merge PROVE ReviewKept
  <2>1. UNCHANGED <<store, decided, req>>
    BY <1>7 DEF Miner, BeginMining, Extract, MiningFails, CompleteMining, ReportMining, disk
  <2>2. MinerInv'
    BY <1>7 DEF Miner, BeginMining, Extract, MiningFails, CompleteMining, ReportMining, Off,
                MinerInv, CandidateInv
  <2>. QED
    BY <2>1, <2>2, <1>1
<1>8. ASSUME ByHand PROVE ReviewKept
  <2>1. Edit
    BY <1>8 DEF ByHand, AddGlossary, Unbind, Bind, MakeStandard, DeleteGlossary, DeleteEntry
  <2>. QED
    BY <2>1, <1>1 DEF Edit, memory, MinerInv
<1>9. ASSUME Crash PROVE ReviewKept
  <2>1. CandidateInv' /\ Grows /\ Explained
    BY <1>9, FileUntouched DEF Crash, disk
  <2>2. RequestInv' /\ MinerInv'
    BY <1>9 DEF Crash, RequestInv, RequestOK, MinerInv, Off
  <2>. QED
    BY <2>1, <2>2 DEF ReviewKept
<1>10. ASSUME UNCHANGED vars PROVE ReviewKept
  BY <1>10, <1>1 DEF vars, disk, memory, MinerInv
<1>. QED
  BY <1>2, <1>3, <1>4, <1>5, <1>6, <1>7, <1>8, <1>9, <1>10 DEF Next, Verdicts

-----------------------------------------------------------------------------
(* The entries.                                                            *)

(* Nobody gets between the entry and the decision.                         *)
SaveKept == \A r \in Requests : At(r, "save")' => At(r, "save") /\ req'[r].id = req[r].id

(* Entries are taken out, and that is noted.                               *)
LEMMA EntriesTaken ==
  ASSUME EntryInv, SaveKept, Explained, entries' \subseteq entries,
         removed \subseteq removed', removed' \subseteq Ids,
         \A e \in entries : e \in entries' \/ e.of \in removed'
  PROVE  EntryInv'
<1>1. ASSUME NEW c \in store', c.status \in Verdicts, c.id \notin removed'
      PROVE  \E e \in entries' : e.of = c.id
  <2>1. \E e \in entries : e.of = c.id
    BY <1>1 DEF EntryInv, Explained
  <2>. QED
    BY <1>1, <2>1
<1>2. ASSUME NEW r \in Requests, At(r, "save")', req'[r].id \notin removed'
      PROVE  \E e \in entries' : e.of = req'[r].id
  <2>1. At(r, "save") /\ req'[r].id = req[r].id
    BY <1>2 DEF SaveKept
  <2>2. \E e \in entries : e.of = req[r].id
    BY <1>2, <2>1 DEF EntryInv
  <2>. QED
    BY <1>2, <2>1, <2>2
<1>. QED
  BY <1>1, <1>2 DEF EntryInv, EntryId

LEMMA EntriesUntouched ==
  ASSUME EntryInv, SaveKept, Explained, UNCHANGED <<entries, removed>>
  PROVE  EntryInv'
BY EntriesTaken DEF EntryInv

LEMMA EntryWritten ==
  ASSUME CandidateInv, RequestInv, EntryInv, NEW r \in Requests, WriteEntry(r)
  PROVE  EntryInv'
<1>1. /\ At(r, "write") /\ store' = store
      /\ \A s \in Requests : s # r => req'[s] = req[s]
  BY DEF WriteEntry, Go, Answer, RequestInv
<1>2. CASE Answer(r) /\ UNCHANGED <<entries, removed>>
  <2>1. SaveKept
    BY <1>1, <1>2 DEF SaveKept, At, Answer, Free, RequestInv
  <2>. QED
    BY <1>1, <1>2, <2>1, EntriesUntouched DEF Explained
<1>3. CASE Put(r, EntryId(req[r].id)) /\ Go(r, "save") /\ removed' = removed \ {req[r].id}
  <2>. DEFINE x == req[r].id
              new == [id |-> EntryId(x), of |-> x, in |-> req[r].glossary]
  <2>1. x \in Ids
    BY <1>1 DEF RequestInv, RequestOK, At, Free
  <2>2. entries' = {e \in entries : e.id # EntryId(x)} \cup {new}
    BY <1>3 DEF Put, EntryId
  <2>3. req'[r].id = x
    <3>1. Shape(req[r])
      BY <1>1 DEF RequestInv, RequestOK, At, Free
    <3>. QED
      BY <1>3, <3>1 DEF Go, Shape, RequestInv
  <2>4. \A e \in entries : e.of # x => e \in entries'
    BY <2>2 DEF EntryInv, EntryId
  <2>5. new \in entries' /\ new.of = x /\ new.id = EntryId(x)
    BY <2>2
  <2>6. \A e \in entries' : e = new \/ (e \in entries /\ e.id # EntryId(x))
    BY <2>2
  <2>. HIDE DEF new, x
  <2>7. \A e \in entries' : e.of \in Ids /\ e.id = EntryId(e.of)
    BY <2>1, <2>5, <2>6 DEF EntryInv, EntryId
  <2>8. \A e, f \in entries' : e.id = f.id => e = f
    BY <2>5, <2>6 DEF EntryInv
  <2>9. ASSUME NEW i, i \notin removed', i # x => \E e \in entries : e.of = i
        PROVE  \E e \in entries' : e.of = i
    BY <2>9, <2>4, <2>5
  <2>10. \A i : i # x /\ i \notin removed' => i \notin removed
    BY <1>3 DEF x
  <2>11. ASSUME NEW c \in store', c.status \in Verdicts, c.id \notin removed'
         PROVE  \E e \in entries' : e.of = c.id
    BY <2>11, <2>9, <2>10, <1>1 DEF EntryInv
  <2>12. ASSUME NEW s \in Requests, At(s, "save")', req'[s].id \notin removed'
         PROVE  \E e \in entries' : e.of = req'[s].id
    <3>1. CASE s = r
      BY <3>1, <2>3, <2>5
    <3>2. CASE s # r
      <4>1. req'[s] = req[s] /\ At(s, "save")
        BY <3>2, <1>1, <2>12 DEF At
      <4>. QED
        BY <4>1, <2>12, <2>9, <2>10 DEF EntryInv
    <3>. QED
      BY <3>1, <3>2
  <2>13. removed' \subseteq Ids
    BY <1>3 DEF EntryInv
  <2>. QED
    BY <2>7, <2>8, <2>11, <2>12, <2>13 DEF EntryInv, EntryId
<1>. QED
  BY <1>2, <1>3 DEF WriteEntry

(* Requests that answer, or go on but not to the decision.                 *)
MovesOn(r) ==
  \/ Answer(r)
  \/ \E pc \in Pcs \ {"save"} :
       Go(r, pc) \/ \E g : req' = [req EXCEPT ![r].pc = pc, ![r].glossary = g]
  \/ \E what, id, status : req' = [req EXCEPT ![r] = Waiting(what, id, status)]

LEMMA SaveKeptBy ==
  ASSUME RequestInv, NEW r \in Requests, MovesOn(r)
  PROVE  SaveKept
<1>1. DOMAIN req = Requests
  BY DEF RequestInv
<1>2. \A s \in Requests : s # r => req'[s] = req[s]
  BY <1>1 DEF MovesOn, Answer, Go
<1>3. ~At(r, "save")'
  <2>1. CASE Answer(r)
    BY <2>1, <1>1 DEF Answer, Free, At
  <2>2. CASE \E what, id, status : req' = [req EXCEPT ![r] = Waiting(what, id, status)]
    BY <2>2, <1>1 DEF Waiting, At
  <2>3. ASSUME NEW pc \in Pcs \ {"save"}, Go(r, pc) PROVE ~At(r, "save")'
    BY <2>3, <1>1 DEF Go, At
  <2>4. ASSUME NEW pc \in Pcs \ {"save"}, NEW g,
               req' = [req EXCEPT ![r].pc = pc, ![r].glossary = g]
        PROVE  ~At(r, "save")'
    <3>. DEFINE f == [req EXCEPT ![r].pc = pc]
    <3>1. DOMAIN f = Requests /\ f[r].pc = pc
      BY <1>1
    <3>2. req' = [f EXCEPT ![r].glossary = g]
      BY <2>4
    <3>3. req'[r].pc = f[r].pc
      <4>. HIDE DEF f
      <4>. QED
        BY <3>1, <3>2
    <3>. QED
      BY <3>1, <3>3 DEF At
  <2>. QED
    BY <2>1, <2>2, <2>3, <2>4 DEF MovesOn
<1>. QED
  BY <1>2, <1>3 DEF SaveKept, At

LEMMA EntryStep ==
  ASSUME CandidateInv, RequestInv, EntryInv, Explained, [Next]_vars
  PROVE  EntryInv'
<1>1. ASSUME UNCHANGED <<entries, removed>>, SaveKept PROVE EntryInv'
  BY <1>1, EntriesUntouched
<1>2. ASSUME UNCHANGED <<entries, removed>>, req' = req PROVE EntryInv'
  BY <1>1, <1>2 DEF SaveKept, At
<1>3. ASSUME NEW r \in Requests, UNCHANGED <<entries, removed>>, MovesOn(r) PROVE EntryInv'
  BY <1>1, <1>3, SaveKeptBy
<1>4. ASSUME NEW r \in Requests, NEW what, NEW id, NEW status, Ask(r, what, id, status)
      PROVE  EntryInv'
  BY <1>4, <1>3 DEF Ask, disk, MovesOn
<1>5. ASSUME NEW r \in Requests, Handler(r) PROVE EntryInv'
  <2>. USE DEF Pcs, MovesOn
  <2>1. CASE Look(r)
    <3>1. /\ UNCHANGED <<entries, removed>>
          /\ \/ \E g : req' = [req EXCEPT ![r].pc = "got", ![r].glossary = g]
             \/ Go(r, "create")
      BY <2>1 DEF Look, LookFor, disk
    <3>. QED
      BY <3>1, <1>3
  <2>2. CASE CreateGlossary(r)
    <3>1. /\ UNCHANGED <<entries, removed>>
          /\ \/ \E g : req' = [req EXCEPT ![r].pc = "bind", ![r].glossary = g]
             \/ Answer(r)
      BY <2>2 DEF CreateGlossary
    <3>. QED
      BY <3>1, <1>3
  <2>3. CASE BindGlossary(r)
    <3>1. UNCHANGED <<entries, removed>> /\ (Go(r, "got") \/ Answer(r))
      BY <2>3 DEF BindGlossary
    <3>. QED
      BY <3>1, <1>3
  <2>4. CASE Ensured(r) \/ StartMining(r)
    <3>1. UNCHANGED <<entries, removed>> /\ Answer(r)
      BY <2>4 DEF Ensured, StartMining, disk
    <3>. QED
      BY <3>1, <1>3
  <2>5. CASE ReadCandidate(r)
    <3>1. UNCHANGED <<entries, removed>> /\ (Go(r, "write") \/ Answer(r))
      BY <2>5 DEF ReadCandidate, disk
    <3>. QED
      BY <3>1, <1>3
  <2>6. CASE WriteEntry(r)
    BY <2>6, EntryWritten
  <2>7. CASE SaveDecision(r)
    <3>1. UNCHANGED <<entries, removed>> /\ Answer(r)
      BY <2>7 DEF SaveDecision
    <3>. QED
      BY <3>1, <1>3
  <2>. QED
    BY <1>5, <2>1, <2>2, <2>3, <2>4, <2>5, <2>6, <2>7 DEF Handler
<1>6. ASSUME NEW id, MarkDuplicate(id) \/ Reject(id) \/ Restore(id) PROVE EntryInv'
  BY <1>6, <1>2 DEF MarkDuplicate, Reject, Restore, Review, memory
<1>7. ASSUME Miner PROVE EntryInv'
  BY <1>7, <1>2 DEF Miner, BeginMining, Extract, Merge, MergeInto, MiningFails, CompleteMining,
                    ReportMining, disk
<1>8. ASSUME ByHand PROVE EntryInv'
  <2>1. req' = req /\ SaveKept
    BY <1>8 DEF ByHand, AddGlossary, Unbind, Bind, MakeStandard, DeleteGlossary, DeleteEntry,
                Edit, memory, SaveKept, At
  <2>2. CASE UNCHANGED <<entries, removed>>
    BY <2>1, <2>2, <1>1
  <2>3. ASSUME NEW g, DeleteGlossary(g) PROVE EntryInv'
    <3>1. /\ entries' = {e \in entries : e.in # g}
          /\ removed' = removed \cup {e.of : e \in {f \in entries : f.in = g}}
      BY <2>3 DEF DeleteGlossary
    <3>2. removed' \subseteq Ids
      BY <3>1 DEF EntryInv
    <3>. QED
      BY <2>1, <3>1, <3>2, EntriesTaken
  <2>4. ASSUME NEW e \in entries, DeleteEntry(e) PROVE EntryInv'
    <3>1. entries' = entries \ {e} /\ removed' = removed \cup {e.of}
      BY <2>4 DEF DeleteEntry
    <3>2. removed' \subseteq Ids
      BY <3>1 DEF EntryInv
    <3>. QED
      BY <2>1, <3>1, <3>2, EntriesTaken
  <2>. QED
    BY <1>8, <2>2, <2>3, <2>4 DEF ByHand, AddGlossary, Unbind, Bind, MakeStandard
<1>9. ASSUME Crash PROVE EntryInv'
  BY <1>9, <1>1 DEF Crash, disk, SaveKept, At, Free
<1>10. ASSUME UNCHANGED vars PROVE EntryInv'
  BY <1>10, <1>2 DEF vars, disk, memory
<1>. QED
  BY <1>4, <1>5, <1>6, <1>7, <1>8, <1>9, <1>10 DEF Next, AskGlossary, AskMining, AskApproval

-----------------------------------------------------------------------------
(* What is on disk.                                                        *)
LEMMA DiskStep ==
  ASSUME DiskInv, [Next]_vars
  PROVE  DiskInv'
<1>1. ASSUME UNCHANGED <<dedicated, bound, entries>>,
             keyed' \in BOOLEAN, mining' \in Active \cup {"idle", "completed", "failed"}
      PROVE  DiskInv'
  BY <1>1 DEF DiskInv, Glossaries
<1>2. ASSUME UNCHANGED <<keyed, mining>>,
             dedicated' \in [Glossaries' -> BOOLEAN], bound' \subseteq Glossaries',
             \A e \in entries' : e.in \in Glossaries'
      PROVE  DiskInv'
  BY <1>2 DEF DiskInv
<1>3. ASSUME UNCHANGED <<dedicated, bound, entries, keyed, mining>> PROVE DiskInv'
  BY <1>3, <1>1 DEF DiskInv
<1>4. ASSUME NEW r \in Requests, Handler(r) PROVE DiskInv'
  <2>1. CASE Look(r) \/ Ensured(r) \/ ReadCandidate(r) \/ SaveDecision(r)
    BY <2>1, <1>3 DEF Look, LookFor, Ensured, ReadCandidate, SaveDecision, disk
  <2>2. CASE CreateGlossary(r)
    <3>1. \/ UNCHANGED dedicated
          \/ dedicated' = [g \in Glossaries \cup {NewGlossary} |->
                             IF g = NewGlossary THEN TRUE ELSE dedicated[g]]
      BY <2>2 DEF CreateGlossary
    <3>2. UNCHANGED <<bound, entries, keyed, mining>>
      BY <2>2 DEF CreateGlossary
    <3>3. Glossaries \subseteq Glossaries' /\ dedicated' \in [Glossaries' -> BOOLEAN]
      BY <3>1 DEF DiskInv, Glossaries
    <3>. QED
      BY <3>2, <3>3, <1>2 DEF DiskInv
  <2>3. CASE BindGlossary(r)
    <3>1. bound' = bound \/ \E g \in Glossaries : bound' = bound \cup {g}
      BY <2>3 DEF BindGlossary
    <3>2. UNCHANGED <<dedicated, entries, keyed, mining>>
      BY <2>3 DEF BindGlossary
    <3>. QED
      BY <3>1, <3>2 DEF DiskInv, Glossaries
  <2>4. CASE WriteEntry(r)
    <3>1. \/ entries' = entries
          \/ /\ req[r].glossary \in Glossaries
             /\ \A e \in entries' : e \in entries \/ e.in = req[r].glossary
      BY <2>4 DEF WriteEntry, Put
    <3>2. UNCHANGED <<dedicated, bound, keyed, mining>>
      BY <2>4 DEF WriteEntry
    <3>. QED
      BY <3>1, <3>2 DEF DiskInv, Glossaries
  <2>5. CASE StartMining(r)
    <3>1. UNCHANGED <<dedicated, bound, entries>> /\ (keyed' = keyed \/ keyed' = TRUE)
          /\ (mining' = mining \/ mining' = "starting")
      BY <2>5 DEF StartMining
    <3>. QED
      BY <3>1, <1>1 DEF DiskInv, Active
  <2>. QED
    BY <1>4, <2>1, <2>2, <2>3, <2>4, <2>5 DEF Handler
<1>5. ASSUME Miner PROVE DiskInv'
  <2>1. UNCHANGED <<dedicated, bound, entries>> /\ (keyed' = keyed \/ keyed' = FALSE)
        /\ (mining' = mining \/ mining' \in {"running", "failed", "completed"})
    BY <1>5 DEF Miner, BeginMining, Extract, Merge, MergeInto, MiningFails, CompleteMining,
                ReportMining, disk
  <2>. QED
    BY <2>1, <1>1 DEF DiskInv, Active
<1>6. ASSUME ByHand PROVE DiskInv'
  <2>0. UNCHANGED <<keyed, mining>>
    BY <1>6 DEF ByHand, AddGlossary, Unbind, Bind, MakeStandard, DeleteGlossary, DeleteEntry,
                Edit, memory
  <2>1. CASE AddGlossary
    <3>1. /\ dedicated' = [g \in Glossaries \cup {NewGlossary} |-> g # NewGlossary /\ dedicated[g]]
          /\ UNCHANGED <<bound, entries>>
      BY <2>1 DEF AddGlossary
    <3>2. Glossaries' = Glossaries \cup {NewGlossary} /\ dedicated' \in [Glossaries' -> BOOLEAN]
      BY <3>1 DEF Glossaries
    <3>. QED
      BY <2>0, <3>1, <3>2, <1>2 DEF DiskInv
  <2>2. CASE Unbind
    <3>1. /\ entries' = entries
          /\ \/ \E g : bound' = bound \ {g} /\ dedicated' = [dedicated EXCEPT ![g] = FALSE]
             \/ bound' = bound /\ dedicated' = [g \in Glossaries |-> FALSE]
      BY <2>2 DEF Unbind
    <3>2. Glossaries' = Glossaries /\ dedicated' \in [Glossaries' -> BOOLEAN]
          /\ bound' \subseteq bound
      BY <3>1 DEF DiskInv, Glossaries
    <3>. QED
      BY <2>0, <3>1, <3>2, <1>2 DEF DiskInv
  <2>3. ASSUME NEW g \in Glossaries, Bind(g) \/ MakeStandard(g) PROVE DiskInv'
    <3>1. /\ entries' = entries
          /\ dedicated' = dedicated \/ dedicated' = [dedicated EXCEPT ![g] = FALSE]
          /\ bound' \subseteq bound \cup {g}
      BY <2>3 DEF Bind, MakeStandard
    <3>2. Glossaries' = Glossaries /\ dedicated' \in [Glossaries' -> BOOLEAN]
      BY <3>1 DEF DiskInv, Glossaries
    <3>. QED
      BY <2>0, <3>1, <3>2, <1>2 DEF DiskInv
  <2>4. ASSUME NEW g \in Glossaries, DeleteGlossary(g) PROVE DiskInv'
    <3>1. /\ dedicated' = [x \in Glossaries \ {g} |-> dedicated[x]]
          /\ bound' = bound \ {g} /\ entries' = {e \in entries : e.in # g}
      BY <2>4 DEF DeleteGlossary, Restrict
    <3>2. Glossaries' = Glossaries \ {g} /\ dedicated' \in [Glossaries' -> BOOLEAN]
      BY <3>1 DEF DiskInv, Glossaries
    <3>. QED
      BY <2>0, <3>1, <3>2, <1>2 DEF DiskInv
  <2>5. ASSUME NEW e, DeleteEntry(e) PROVE DiskInv'
    BY <2>5, <2>0 DEF DeleteEntry, DiskInv, Glossaries
  <2>. QED
    BY <1>6, <2>1, <2>2, <2>3, <2>4, <2>5 DEF ByHand
<1>7. ASSUME NEW id, MarkDuplicate(id) \/ Reject(id) \/ Restore(id) PROVE DiskInv'
  BY <1>7, <1>3 DEF MarkDuplicate, Reject, Restore, Review, memory
<1>8. ASSUME Crash PROVE DiskInv'
  BY <1>8, <1>1 DEF Crash, disk, DiskInv
<1>9. ASSUME UNCHANGED vars PROVE DiskInv'
  BY <1>9, <1>3 DEF vars, disk, memory
<1>10. ASSUME NEW r, NEW what, NEW id, NEW status, Ask(r, what, id, status) PROVE DiskInv'
  BY <1>10, <1>3 DEF Ask, disk
<1>. QED
  BY <1>4, <1>5, <1>6, <1>7, <1>8, <1>9, <1>10 DEF Next, AskGlossary, AskMining, AskApproval

-----------------------------------------------------------------------------
(* The project's glossary.                                                 *)
LEMMA Loosened ==
  \A a, b, c \in Nat : /\ a <= 1 + b /\ c >= b => a <= 1 + c
                       /\ a <= 1 + b /\ c >= b + 1 => a <= c
                       /\ a <= b => a <= 1 + b
                       /\ a <= b /\ c >= b => a <= c
OBVIOUS

Making(r) == req[r].pc \in {"create", "bind"}

(* Steps of which no maker of a glossary is a part: what is taken from the *)
(* project's glossaries is counted.                                        *)
LEMMA MakersKept ==
  ASSUME GlossaryInv, made' = made, losses' \in Nat, losses' >= losses,
         bound' = bound \/ bound' # {} \/ losses' >= losses + 1,
         creating' = creating,
         \A r \in Requests : /\ req'[r].pc = "create" <=> req[r].pc = "create"
                             /\ req'[r].pc = "bind" <=> req[r].pc = "bind"
  PROVE  GlossaryInv'
<1>1. creating' = {r \in Requests : req'[r].pc \in {"create", "bind"}}
  BY DEF GlossaryInv
<1>2. made' <= 1 + losses' /\ made' \in Nat
  <2>1. made \in Nat /\ losses \in Nat /\ made <= 1 + losses
    BY DEF GlossaryInv
  <2>. QED
    BY <2>1, Loosened
<1>3. \A r \in Requests : At(r, "create")' => made' <= losses'
  BY DEF GlossaryInv, At
<1>4. bound' = {} /\ (\A r \in Requests : ~At(r, "bind")') => made' <= losses'
  BY DEF GlossaryInv, At
<1>. QED
  BY <1>1, <1>2, <1>3, <1>4 DEF GlossaryInv

LEMMA GlossariesUntouched ==
  ASSUME GlossaryInv, UNCHANGED <<made, losses, bound, creating, req>>
  PROVE  GlossaryInv'
BY MakersKept DEF GlossaryInv

(* A request that makes no glossary, before or after its step.             *)
LEMMA BystanderStep ==
  ASSUME RequestInv, GlossaryInv, UNCHANGED <<made, losses, bound, creating>>,
         NEW r \in Requests, ~Making(r),
         \/ Answer(r) \/ Go(r, "write") \/ Go(r, "save")
         \/ \E what, id, status : req' = [req EXCEPT ![r] = Waiting(what, id, status)]
  PROVE  GlossaryInv'
<1>1. DOMAIN req = Requests
  BY DEF RequestInv
<1>2. \A s \in Requests : s # r => req'[s] = req[s]
  BY <1>1 DEF Answer, Go
<1>3. req'[r].pc \notin {"create", "bind"}
  <2>1. CASE Answer(r)
    BY <2>1, <1>1 DEF Answer, Free
  <2>2. ASSUME NEW pc, Go(r, pc) PROVE req'[r].pc = pc
    BY <2>2, <1>1 DEF Go
  <2>3. ASSUME NEW what, NEW id, NEW status, req' = [req EXCEPT ![r] = Waiting(what, id, status)]
        PROVE  req'[r].pc = "lock"
    BY <2>3, <1>1 DEF Waiting
  <2>. QED
    BY <2>1, <2>2, <2>3
<1>. QED
  BY <1>2, <1>3, MakersKept DEF Making, GlossaryInv

LEMMA MakerStep ==
  ASSUME RequestInv, GlossaryInv, NEW r \in Requests,
         Look(r) \/ CreateGlossary(r) \/ BindGlossary(r)
  PROVE  GlossaryInv'
<1>1. DOMAIN req = Requests
  BY DEF RequestInv
<1>2. ASSUME NEW pc, Go(r, pc) PROVE /\ req'[r].pc = pc
                                     /\ \A s \in Requests : s # r => req'[s] = req[s]
  BY <1>2, <1>1 DEF Go
<1>3. ASSUME NEW pc, NEW g, req' = [req EXCEPT ![r].pc = pc, ![r].glossary = g]
      PROVE  req'[r].pc = pc /\ \A s \in Requests : s # r => req'[s] = req[s]
  <2>. DEFINE f == [req EXCEPT ![r].pc = pc]
  <2>1. DOMAIN f = Requests /\ f[r].pc = pc /\ \A s \in Requests : s # r => f[s] = req[s]
    BY <1>1
  <2>2. req' = [f EXCEPT ![r].glossary = g]
    BY <1>3
  <2>. HIDE DEF f
  <2>. QED
    BY <2>1, <2>2
<1>4. ASSUME Answer(r) PROVE /\ req'[r].pc = "free"
                             /\ \A s \in Requests : s # r => req'[s] = req[s]
  BY <1>4, <1>1 DEF Answer, Free
<1>5. CASE Look(r)
  <2>1. /\ At(r, "lock") /\ creating = {} /\ UNCHANGED <<bound, made>>
        /\ \A s \in Requests : ~Making(s)
    BY <1>5 DEF Look, LookFor, disk, GlossaryInv, Making
  <2>2. ASSUME NEW g, req' = [req EXCEPT ![r].pc = "got", ![r].glossary = g],
               UNCHANGED <<creating, losses>>
        PROVE  GlossaryInv'
    <3>1. req'[r].pc = "got" /\ \A s \in Requests : s # r => req'[s] = req[s]
      BY <2>2, <1>3
    <3>2. \A s \in Requests : /\ req'[s].pc = "create" <=> req[s].pc = "create"
                              /\ req'[s].pc = "bind" <=> req[s].pc = "bind"
      BY <3>1, <2>1 DEF Making
    <3>3. losses' \in Nat /\ losses' >= losses
      BY <2>2 DEF GlossaryInv
    <3>4. made' = made /\ bound' = bound /\ creating' = creating
      BY <2>1, <2>2
    <3>. QED
      BY <3>2, <3>3, <3>4, MakersKept
  <2>3. ASSUME creating' = creating \cup {r}, Go(r, "create"),
               \/ bound = {} /\ losses' = losses
               \/ losses' = losses + 1
        PROVE  GlossaryInv'
    <3>1. req'[r].pc = "create" /\ \A s \in Requests : s # r => req'[s] = req[s]
      BY <2>3, <1>2
    <3>2. creating' = {r}
      BY <2>1, <2>3
    <3>3. \A s \in Requests : ~At(s, "bind")
      BY <2>1 DEF Making, At
    <3>4. made' <= losses' /\ losses' \in Nat /\ made' \in Nat
      BY <2>1, <2>3, <3>3 DEF GlossaryInv
    <3>5. creating' = {s \in Requests : req'[s].pc \in {"create", "bind"}}
      BY <3>1, <3>2, <2>1 DEF Making
    <3>6. \A p, q \in creating' : p = q
      BY <3>2
    <3>7. made' <= 1 + losses'
      BY <3>4, Loosened
    <3>. QED
      BY <3>4, <3>5, <3>6, <3>7 DEF GlossaryInv
  <2>. QED
    BY <1>5, <2>2, <2>3 DEF Look, LookFor
<1>6. CASE CreateGlossary(r)
  <2>1. /\ At(r, "create") /\ UNCHANGED <<bound, losses>> /\ made <= losses
        /\ r \in creating /\ \A s \in Requests : s # r => ~Making(s)
    BY <1>6 DEF CreateGlossary, GlossaryInv, At, Making
  <2>2. ASSUME NEW g, req' = [req EXCEPT ![r].pc = "bind", ![r].glossary = g],
               made' = made + 1, creating' = creating
        PROVE  GlossaryInv'
    <3>1. req'[r].pc = "bind" /\ \A s \in Requests : s # r => req'[s] = req[s]
      BY <2>2, <1>3
    <3>2. creating' = {s \in Requests : req'[s].pc \in {"create", "bind"}}
      BY <2>1, <2>2, <3>1 DEF GlossaryInv, At
    <3>3. made' \in Nat /\ losses' \in Nat /\ made' <= 1 + losses'
      BY <2>1, <2>2 DEF GlossaryInv
    <3>4. \A s \in Requests : ~At(s, "create")'
      BY <2>1, <3>1 DEF Making, At
    <3>5. ~(\A s \in Requests : ~At(s, "bind")')
      BY <3>1 DEF At
    <3>6. \A p, q \in creating' : p = q
      BY <2>2 DEF GlossaryInv
    <3>. QED
      BY <3>2, <3>3, <3>4, <3>5, <3>6 DEF GlossaryInv
  <2>3. ASSUME Answer(r), creating' = creating \ {r}, made' = made PROVE GlossaryInv'
    <3>1. req'[r].pc = "free" /\ \A s \in Requests : s # r => req'[s] = req[s]
      BY <2>3, <1>4
    <3>2. creating' = {s \in Requests : req'[s].pc \in {"create", "bind"}} /\ creating' = {}
      BY <2>1, <2>3, <3>1 DEF GlossaryInv, Making
    <3>3. made' \in Nat /\ losses' \in Nat /\ made' <= 1 + losses' /\ made' <= losses'
      BY <2>1, <2>3 DEF GlossaryInv
    <3>. QED
      BY <3>2, <3>3 DEF GlossaryInv
  <2>. QED
    BY <1>6, <2>2, <2>3 DEF CreateGlossary
<1>7. CASE BindGlossary(r)
  <2>1. /\ At(r, "bind") /\ creating' = creating \ {r} /\ made' = made
        /\ r \in creating /\ \A s \in Requests : s # r => ~Making(s)
        /\ Go(r, "got") \/ Answer(r)
    BY <1>7 DEF BindGlossary, GlossaryInv, At, Making
  <2>2. /\ losses' = losses \/ losses' = losses + 1
        /\ losses' = losses => bound' # {}
    <3>1. losses # losses + 1
      BY DEF GlossaryInv
    <3>. QED
      BY <1>7, <3>1 DEF BindGlossary
  <2>3. req'[r].pc \in {"got", "free"} /\ \A s \in Requests : s # r => req'[s] = req[s]
    BY <2>1, <1>2, <1>4
  <2>4. creating' = {s \in Requests : req'[s].pc \in {"create", "bind"}} /\ creating' = {}
    BY <2>1, <2>3 DEF GlossaryInv, Making
  <2>5. /\ made' \in Nat /\ losses' \in Nat /\ made' <= 1 + losses'
        /\ bound' = {} => made' <= losses'
    BY <2>1, <2>2 DEF GlossaryInv
  <2>6. \A s \in Requests : ~At(s, "create")'
    BY <2>1, <2>3 DEF Making, At
  <2>. QED
    BY <2>4, <2>5, <2>6 DEF GlossaryInv
<1>. QED
  BY <1>5, <1>6, <1>7

(* A crash between a glossary and its binding is counted.                  *)
LEMMA CrashStep ==
  ASSUME GlossaryInv, Crash
  PROVE  GlossaryInv'
<1>. DEFINE B == {r \in Requests : At(r, "bind")}
<1>1. losses' = losses + Cardinality(B) /\ UNCHANGED <<made, bound>>
  BY DEF Crash, disk
<1>2. creating' = {} /\ \A r \in Requests : req'[r].pc = "free"
  BY DEF Crash, Free
<1>3. B = {} \/ \E r : B = {r}
  <2>1. \A q, r \in B : q = r
    BY DEF GlossaryInv, At
  <2>. HIDE DEF B
  <2>. QED
    BY <2>1
<1>4. Cardinality(B) \in {0, 1} /\ (B # {} => Cardinality(B) = 1)
  BY <1>3, FS_Singleton, FS_EmptySet
<1>5. made' \in Nat /\ losses' \in Nat /\ made' <= 1 + losses'
  <2>. HIDE DEF B
  <2>. QED
    BY <1>1, <1>4 DEF GlossaryInv
<1>6. bound' = {} => made' <= losses'
  <2>1. CASE B = {}
    <3>1. \A r \in Requests : ~At(r, "bind")
      BY <2>1
    <3>2. losses' >= losses
      <4>. HIDE DEF B
      <4>. QED
        BY <1>1, <1>4 DEF GlossaryInv
    <3>. QED
      BY <1>1, <1>5, <3>1, <3>2 DEF GlossaryInv
  <2>2. CASE B # {}
    <3>. HIDE DEF B
    <3>. QED
      BY <2>2, <1>1, <1>4 DEF GlossaryInv
  <2>. QED
    BY <2>1, <2>2
<1>. QED
  BY <1>2, <1>5, <1>6 DEF GlossaryInv, At

LEMMA GlossaryStep ==
  ASSUME RequestInv, GlossaryInv, [Next]_vars
  PROVE  GlossaryInv'
<1>1. ASSUME NEW r \in Requests, NEW what, NEW id, NEW status, Ask(r, what, id, status)
      PROVE  GlossaryInv'
  BY <1>1, BystanderStep DEF Ask, disk, At, Making
<1>2. ASSUME NEW r \in Requests, Handler(r) PROVE GlossaryInv'
  <2>1. CASE Look(r) \/ CreateGlossary(r) \/ BindGlossary(r)
    BY <2>1, MakerStep
  <2>2. CASE Ensured(r) \/ ReadCandidate(r) \/ WriteEntry(r) \/ SaveDecision(r) \/ StartMining(r)
    <3>1. ~Making(r) /\ UNCHANGED <<made, losses, bound, creating>>
      BY <2>2 DEF Ensured, ReadCandidate, WriteEntry, SaveDecision, StartMining, disk, At, Making
    <3>2. Answer(r) \/ Go(r, "write") \/ Go(r, "save")
      BY <2>2 DEF Ensured, ReadCandidate, WriteEntry, SaveDecision, StartMining
    <3>. QED
      BY <3>1, <3>2, BystanderStep
  <2>. QED
    BY <1>2, <2>1, <2>2 DEF Handler
<1>3. ASSUME NEW id, MarkDuplicate(id) \/ Reject(id) \/ Restore(id) PROVE GlossaryInv'
  BY <1>3, GlossariesUntouched DEF MarkDuplicate, Reject, Restore, Review, memory
<1>4. ASSUME Miner PROVE GlossaryInv'
  BY <1>4, GlossariesUntouched DEF Miner, BeginMining, Extract, Merge, MergeInto, MiningFails,
                                   CompleteMining, ReportMining, disk
<1>5. ASSUME ByHand PROVE GlossaryInv'
  <2>1. UNCHANGED <<made, creating, req>>
    BY <1>5 DEF ByHand, AddGlossary, Unbind, Bind, MakeStandard, DeleteGlossary, DeleteEntry,
                Edit, memory
  <2>2. ASSUME NEW g, Loses(g), bound' = bound \ {g} PROVE GlossaryInv'
    BY <2>1, <2>2, MakersKept DEF Loses, GlossaryInv
  <2>3. CASE AddGlossary \/ \E e \in entries : DeleteEntry(e)
    BY <2>1, <2>3, GlossariesUntouched DEF AddGlossary, DeleteEntry
  <2>4. CASE Unbind
    <3>1. losses' = losses + 1 \/ UNCHANGED <<bound, losses>>
      BY <2>4 DEF Unbind
    <3>. QED
      BY <2>1, <3>1, MakersKept DEF GlossaryInv
  <2>5. ASSUME NEW g, Bind(g) PROVE GlossaryInv'
    BY <2>1, <2>5, MakersKept DEF Bind, GlossaryInv
  <2>6. ASSUME NEW g, MakeStandard(g) \/ DeleteGlossary(g) PROVE GlossaryInv'
    BY <2>6, <2>2 DEF MakeStandard, DeleteGlossary
  <2>. QED
    BY <1>5, <2>3, <2>4, <2>5, <2>6 DEF ByHand
<1>6. ASSUME Crash PROVE GlossaryInv'
  BY <1>6, CrashStep
<1>7. ASSUME UNCHANGED vars PROVE GlossaryInv'
  BY <1>7, GlossariesUntouched DEF vars, disk, memory
<1>. QED
  BY <1>1, <1>2, <1>3, <1>4, <1>5, <1>6, <1>7 DEF Next, AskGlossary, AskMining, AskApproval

-----------------------------------------------------------------------------
(* The inductive invariant of the review.                                  *)
THEOREM ReviewInvariant == Spec => []IInv
<1>1. Init => IInv
  BY InitInv
<1>2. IInv /\ [Next]_vars => IInv'
  BY ReviewStep, EntryStep, GlossaryStep, DiskStep DEF IInv, ReviewKept
<1>. QED
  BY <1>1, <1>2, PTL DEF Spec

(* Variables have their types: a candidate a request works on stays in the *)
(* file, a bound glossary and the glossary of an entry exist, and at most  *)
(* one request makes a glossary (approve_candidate,                        *)
(* get_or_create_project_glossary, delete_glossary).                       *)
THEOREM TypesHold == Spec => []TypeOK
<1>1. IInv => TypeOK
  <2>. SUFFICES ASSUME IInv PROVE TypeOK
    OBVIOUS
  <2>1. /\ \A c \in store : c.id \in Ids /\ c.status \in Statuses
        /\ removed \subseteq Ids
        /\ \A e \in entries : e.of \in Ids
    BY DEF IInv, CandidateInv, EntryInv
  <2>2. \A r \in Requests : req[r] # Free =>
          req[r].pc \in Pcs /\ (req[r].what = "approve" => Listed(req[r].id))
    BY DEF IInv, RequestInv, RequestOK, Listed
  <2>3. /\ miner.pc \in {"off", "queued", "extract", "merge", "complete", "report"}
        /\ miner.found \subseteq Terms
    BY DEF IInv, MinerInv
  <2>. QED
    BY <2>1, <2>2, <2>3 DEF IInv, TypeOK, DiskInv, GlossaryInv
<1>. QED
  BY <1>1, ReviewInvariant, PTL

(* A term has one candidate, whatever was decided about it and however     *)
(* often the project is mined (run_mining_workflow).                       *)
THEOREM TermsHaveOneCandidate == Spec => []OneCandidatePerTerm
<1>1. IInv => OneCandidatePerTerm
  BY DEF IInv, CandidateInv
<1>. QED
  BY <1>1, ReviewInvariant, PTL

(* A candidate keeps the last decision saved for it, whatever a mining run *)
(* read before it and whenever the process crashes (_save_candidates).     *)
THEOREM DecisionsStand == Spec => []LastDecisionStands
<1>1. IInv => LastDecisionStands
  <2>. SUFFICES ASSUME IInv, NEW id \in Ids, decided[id] # "none"
                PROVE  Listed(id) /\ Candidate(id).status = decided[id]
    BY DEF LastDecisionStands
  <2>1. PICK c \in store : c.id = id
    BY DEF IInv, CandidateInv, Listed
  <2>2. Candidate(id) \in store /\ Candidate(id).id = id
    BY <2>1 DEF Candidate
  <2>. QED
    BY <2>1, <2>2 DEF IInv, CandidateInv, Listed
<1>. QED
  BY <1>1, ReviewInvariant, PTL

(* A candidate has one entry at most, and one that is approved has one     *)
(* unless it was deleted by hand, however approvals overlap, fail, crash   *)
(* and are made again (approve_candidate, add_entry).                      *)
THEOREM ApprovalsAreInGlossary == Spec => []ApprovedHasOneEntry
<1>1. IInv => ApprovedHasOneEntry
  BY DEF IInv, EntryInv, ApprovedHasOneEntry, Verdicts
<1>. QED
  BY <1>1, ReviewInvariant, PTL

(* A second glossary is made for a project only after one was lost         *)
(* (get_or_create_project_glossary).                                       *)
THEOREM ProjectGlossaryIsMadeOnce == Spec => []OneProjectGlossary
<1>1. IInv => OneProjectGlossary
  BY DEF IInv, GlossaryInv, OneProjectGlossary
<1>. QED
  BY <1>1, ReviewInvariant, PTL
=============================================================================
