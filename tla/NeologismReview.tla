--------------------------- MODULE NeologismReview --------------------------
(***************************************************************************)
(* The review of new terms of one project.  A mining run, in a thread of   *)
(* its own, asks a model for terms and adds those the project has no       *)
(* candidate for to the candidates' file.  A user decides about each       *)
(* candidate; approving one writes an entry into the project's glossary,   *)
(* which is made on first use, and then the decision into the file.  The   *)
(* handlers of requests share one event loop and lose it wherever they     *)
(* await the database; the file is read and written under a lock no        *)
(* handler keeps across an await.  Users also bind, unbind and delete      *)
(* glossaries and entries, and the process may crash.                      *)
(*                                                                         *)
(* One project of one game; what its glossaries are to other projects and  *)
(* the texts of suggestions and entries are left out.                      *)
(***************************************************************************)
EXTENDS Naturals, FiniteSets, FiniteSetsExt, Functions

CONSTANTS
  Terms,          \* normalized source terms
  Requests,       \* handlers under way at a time
  MaxGlossaries,  \* bound: glossaries at a time
  MaxCopies,      \* bound: candidates for a term
  MaxRequests,    \* bound: requests that await
  MaxReviews,     \* bound: decisions that do not
  MaxEdits,       \* bound: changes to the glossaries by hand
  MaxFaults,      \* bound: operations on file or database that fail
  MaxCrashes      \* bound: crashes

ASSUME ReviewAssumption ==
  /\ IsFiniteSet(Terms)
  /\ MaxGlossaries \in Nat /\ MaxCopies \in Nat \ {0} /\ MaxRequests \in Nat
  /\ MaxReviews \in Nat /\ MaxEdits \in Nat /\ MaxFaults \in Nat /\ MaxCrashes \in Nat

VARIABLES
  (* On disk. *)
  store,     \* the candidates' file
  dedicated, \* glossary -> it was made for the project (kind and owner)
  bound,     \* the glossaries bound to the project
  entries,   \* the glossaries' entries of the project's terms
  keyed,     \* a task of the ledger has the key of mining
  (* In memory. *)
  mining,    \* _mining_status[project_id]
  miner,     \* the run's thread
  req,       \* request -> what it is about and where it stands
  creating,  \* who holds the lock of get_or_create_project_glossary
  (* History. *)
  decided,   \* candidate -> the status it was last given
  removed,   \* candidates whose entry was deleted by hand since
  made,      \* glossaries made for the project
  losses,    \* of the project's glossaries, by hand, fault or crash
  requests, reviews, edits, faults, crashes

disk   == <<store, dedicated, bound, entries, keyed>>
memory == <<mining, miner, req, creating>>
counts == <<requests, reviews, edits, faults, crashes>>
vars   == <<disk, memory, decided, removed, made, losses, counts>>

Glossaries == DOMAIN dedicated
Ids        == Terms \X (1..MaxCopies)
Statuses   == {"pending", "approved", "ignored", "duplicate", "new_meaning"}
Active     == {"starting", "running"}

(* A request: an approval, a call that makes sure of the glossary, or one  *)
(* that starts a mining run.                                               *)
Free == [pc |-> "free"]
Waiting(what, id, status) ==
  [pc |-> "lock", what |-> what, id |-> id, status |-> status, glossary |-> 0]

Off == [pc |-> "off", found |-> {}, seen |-> {}]

Candidate(id) == CHOOSE c \in store : c.id = id
TermOf(c)     == c.id[1]
KnownPending(file) == \* mutant: only what still waits for a decision is known
  {TermOf(c) : c \in {d \in file : d.status = "pending"}}
Known(file)   == {TermOf(c) : c \in file}
EntryIdFresh(id) == \* mutant: an id of its own for every entry
  <<id, Cardinality({e \in entries : e.of = id})>>
EntryId(id)   == <<id, 0>>      \* the candidate's own id
Listed(id)    == \E c \in store : c.id = id

Init ==
  /\ store = {} /\ dedicated = [g \in {} |-> FALSE] /\ bound = {} /\ entries = {} /\ keyed = FALSE
  /\ mining = "idle" /\ miner = Off /\ creating = {}
  /\ req = [r \in Requests |-> Free]
  /\ decided = [id \in Ids |-> "none"] /\ removed = {} /\ made = 0 /\ losses = 0
  /\ requests = 0 /\ reviews = 0 /\ edits = 0 /\ faults = 0 /\ crashes = 0

-----------------------------------------------------------------------------
(* Glossaries.  SQLite numbers a new row one above the highest there is.   *)
NewGlossary == Max({0} \cup Glossaries) + 1

(* get_project_glossary of a project with bindings: the latest of those    *)
(* made for the project, or else the latest.  Which is the latest is left  *)
(* open.                                                                   *)
Preferred ==
  LET own == {g \in bound : dedicated[g]}
  IN  IF own # {} THEN own ELSE bound

(* Faults.                                                                 *)
Fails == faults < MaxFaults /\ faults' = faults + 1
Works == faults' = faults

At(r, pc)  == req[r].pc = pc
Go(r, pc)  == req' = [req EXCEPT ![r].pc = pc]
Answer(r)  == req' = [req EXCEPT ![r] = Free]

-----------------------------------------------------------------------------
(* Requests.                                                               *)
Ask(r, what, id, status) ==
  /\ At(r, "free") /\ requests < MaxRequests
  /\ requests' = requests + 1
  /\ req' = [req EXCEPT ![r] = Waiting(what, id, status)]
  /\ UNCHANGED <<disk, mining, miner, creating, decided, removed, made, losses,
                 reviews, edits, faults, crashes>>

AskApproval(r, id, status) == Listed(id) /\ Ask(r, "approve", id, status)
AskGlossary(r)             == Ask(r, "ensure", << >>, "none")
AskMining(r)               == Ask(r, "mine", << >>, "none")

(* get_or_create_project_glossary, under the project's asyncio lock.       *)
LookFor(r, mayLook) ==
  /\ At(r, "lock") /\ mayLook
  /\ \/ \E g \in Preferred :
        /\ Works
        /\ req' = [req EXCEPT ![r].pc = "got", ![r].glossary = g]
        /\ UNCHANGED <<creating, losses>>
     \/ /\ bound = {} /\ Works
        /\ creating' = creating \cup {r} /\ Go(r, "create")
        /\ UNCHANGED losses
     \/ /\ bound # {} /\ Fails  \* get_project_glossary answers None
        /\ creating' = creating \cup {r} /\ Go(r, "create")
        /\ losses' = losses + 1
  /\ UNCHANGED <<disk, mining, miner, decided, removed, made,
                 requests, reviews, edits, crashes>>

LookUnlocked(r) == LookFor(r, TRUE) \* mutant: the lock is not taken
Look(r)         == LookFor(r, creating = {})

(* The glossary is committed first, then its binding.                      *)
CreateGlossary(r) ==
  /\ At(r, "create")
  /\ \/ /\ Works /\ Cardinality(Glossaries) < MaxGlossaries
        /\ dedicated' = [g \in Glossaries \cup {NewGlossary} |->
                           IF g = NewGlossary THEN TRUE ELSE dedicated[g]]
        /\ req' = [req EXCEPT ![r].pc = "bind", ![r].glossary = NewGlossary]
        /\ made' = made + 1
        /\ UNCHANGED creating
     \/ /\ Fails /\ Answer(r) /\ creating' = creating \ {r}
        /\ UNCHANGED <<dedicated, made>>
  /\ UNCHANGED <<store, bound, entries, keyed, mining, miner, decided, removed, losses,
                 requests, reviews, edits, crashes>>

BindGlossary(r) ==
  LET g == req[r].glossary IN
  /\ At(r, "bind")
  /\ creating' = creating \ {r}
  /\ \/ /\ g \in Glossaries \ bound /\ Works
        /\ bound' = bound \cup {g} /\ Go(r, "got")
        /\ UNCHANGED losses
     \/ /\ (g \notin Glossaries /\ Works) \/ Fails  \* its foreign key, or any error
        /\ Answer(r) /\ losses' = losses + 1
        /\ UNCHANGED bound
     \/ /\ g \in bound /\ Works                      \* bound by hand meanwhile
        /\ Answer(r)
        /\ UNCHANGED <<bound, losses>>
  /\ UNCHANGED <<store, dedicated, entries, keyed, mining, miner, decided, removed, made,
                 requests, reviews, edits, crashes>>

Ensured(r) ==
  /\ At(r, "got") /\ req[r].what = "ensure" /\ Answer(r)
  /\ UNCHANGED <<disk, mining, miner, creating, decided, removed, made, losses, counts>>

-----------------------------------------------------------------------------
(* approve_candidate: the candidate is read under the lock, its entry is   *)
(* awaited, and the decision is saved under the lock.                      *)
ReadCandidate(r) ==
  /\ At(r, "got") /\ req[r].what = "approve"
  /\ IF Candidate(req[r].id).status = "pending" THEN Go(r, "write") ELSE Answer(r)
  /\ UNCHANGED <<disk, mining, miner, creating, decided, removed, made, losses, counts>>

(* add_entry: a merge by the entry's id, in one transaction.               *)
Put(r, id) ==
  entries' = {e \in entries : e.id # id} \cup {[id |-> id, of |-> req[r].id, in |-> req[r].glossary]}

WriteEntry(r) ==
  /\ At(r, "write")
  /\ \/ /\ req[r].glossary \in Glossaries /\ Works
        /\ Put(r, EntryId(req[r].id)) /\ Go(r, "save")
        /\ removed' = removed \ {req[r].id}
     \/ /\ (req[r].glossary \notin Glossaries /\ Works) \/ Fails
        /\ Answer(r)
        /\ UNCHANGED <<entries, removed>>
  /\ UNCHANGED <<store, dedicated, bound, keyed, mining, miner, creating, decided, made, losses,
                 requests, reviews, edits, crashes>>

Decide(id, status) ==
  /\ store' = {IF c.id = id THEN [c EXCEPT !.status = status] ELSE c : c \in store}
  /\ decided' = [decided EXCEPT ![id] = status]

SaveDecision(r) ==
  /\ At(r, "save") /\ Answer(r)
  /\ \/ Works /\ Decide(req[r].id, req[r].status)
     \/ Fails /\ UNCHANGED <<store, decided>>
  /\ UNCHANGED <<dedicated, bound, entries, keyed, mining, miner, creating, removed, made, losses,
                 requests, reviews, edits, crashes>>

(* The decisions that do not await: approve_candidate of a duplicate,      *)
(* reject_candidate and restore_candidate.                                 *)
Review(id, status) ==
  /\ reviews < MaxReviews /\ reviews' = reviews + 1
  /\ Decide(id, status)
  /\ UNCHANGED <<dedicated, bound, entries, keyed, memory, removed, made, losses,
                 requests, edits, faults, crashes>>

MarkDuplicate(id) == Listed(id) /\ Candidate(id).status = "pending" /\ Review(id, "duplicate")
Reject(id)        == Listed(id) /\ Candidate(id).status = "pending" /\ Review(id, "ignored")
Restore(id)       == Listed(id) /\ Candidate(id).status # "pending" /\ Review(id, "pending")

-----------------------------------------------------------------------------
(* trigger_mining, after its awaits: reserve_mining, then create_task,     *)
(* which raises if a task has the key; the reservation stays.              *)
StartMining(r) ==
  /\ At(r, "got") /\ req[r].what = "mine" /\ Answer(r)
  /\ \/ mining \in Active /\ UNCHANGED <<mining, keyed, miner>>
     \/ /\ mining \notin Active /\ mining' = "starting"
        /\ \/ keyed  /\ UNCHANGED <<keyed, miner>>
           \/ ~keyed /\ keyed' = TRUE /\ miner' = [Off EXCEPT !.pc = "queued"]
  /\ UNCHANGED <<store, dedicated, bound, entries, creating, decided, removed, made, losses, counts>>

(* run_mining_workflow, in its thread.                                     *)
BeginMining ==
  /\ miner.pc = "queued"
  /\ mining' = "running" /\ miner' = [miner EXCEPT !.pc = "extract"]
  /\ UNCHANGED <<disk, req, creating, decided, removed, made, losses, counts>>

(* Terms the model found that the texts show, and the candidates by then.  *)
Extract(found) ==
  /\ miner.pc = "extract"
  /\ miner' = [pc |-> "merge", found |-> found, seen |-> store]
  /\ UNCHANGED <<disk, mining, req, creating, decided, removed, made, losses, counts>>

(* What review_terms was asked about is merged into the file as it is now, *)
(* under the lock.                                                         *)
New(t) == [id |-> <<t, 1 + Cardinality({c \in store : TermOf(c) = t})>>, status |-> "pending"]
MergeInto(file) ==
  LET added == {New(t) : t \in (miner.found \ Known(miner.seen)) \ Known(store)} IN
  /\ miner.pc = "merge" /\ miner' = [Off EXCEPT !.pc = "complete"]
  /\ \A c \in added : c.id \in Ids
  /\ store' = file \cup added
  /\ decided' = [id \in Ids |-> IF \E c \in added : c.id = id THEN "pending" ELSE decided[id]]
  /\ UNCHANGED <<dedicated, bound, entries, keyed, mining, req, creating, removed, made, losses,
                 counts>>

MergeSeen == MergeInto(miner.seen) \* mutant: the file as it was read before the review
Merge     == MergeInto(store)

MiningFails ==
  /\ miner.pc \in {"extract", "merge"} /\ Fails
  /\ mining' = "failed" /\ miner' = [Off EXCEPT !.pc = "report"]
  /\ UNCHANGED <<disk, req, creating, decided, removed, made, losses,
                 requests, reviews, edits, crashes>>

(* The status is set first, the ledger's task after it.                    *)
CompleteMining ==
  /\ miner.pc = "complete"
  /\ mining' = "completed" /\ miner' = [miner EXCEPT !.pc = "report"]
  /\ UNCHANGED <<disk, req, creating, decided, removed, made, losses, counts>>

ReportMining ==
  /\ miner.pc = "report"
  /\ miner' = Off /\ keyed' = FALSE
  /\ UNCHANGED <<store, dedicated, bound, entries, mining, req, creating, decided, removed,
                 made, losses, counts>>

-----------------------------------------------------------------------------
(* By hand: create_glossary and duplicate_glossary; bind_project_glossary; *)
(* unbind_project_glossary; update_glossary_metadata; delete_glossary and  *)
(* batch_delete_glossaries; delete_entry.                                  *)
Edit == edits < MaxEdits /\ edits' = edits + 1
        /\ UNCHANGED <<store, keyed, memory, decided, made, requests, reviews, faults, crashes>>

Loses(g) == losses' = losses + (IF g \in bound THEN 1 ELSE 0)

AddGlossary ==
  /\ Edit /\ Cardinality(Glossaries) < MaxGlossaries
  /\ dedicated' = [g \in Glossaries \cup {NewGlossary} |-> g # NewGlossary /\ dedicated[g]]
  /\ UNCHANGED <<bound, entries, removed, losses>>

(* Also a glossary made a project's by its metadata.                       *)
Bind(g) ==
  /\ Edit /\ bound' = bound \cup {g}
  /\ UNCHANGED <<dedicated, entries, removed, losses>>

Unbind ==
  /\ Edit
  /\ \/ \E g \in Preferred :
        /\ bound' = bound \ {g} /\ losses' = losses + 1
        /\ dedicated' = [dedicated EXCEPT ![g] = FALSE]
     \/ /\ bound = {}
        /\ dedicated' = [g \in Glossaries |-> FALSE]
        /\ UNCHANGED <<bound, losses>>
  /\ UNCHANGED <<entries, removed>>

MakeStandard(g) ==
  /\ Edit /\ bound' = bound \ {g} /\ Loses(g)
  /\ dedicated' = [dedicated EXCEPT ![g] = FALSE]
  /\ UNCHANGED <<entries, removed>>

DeleteGlossary(g) ==
  /\ Edit /\ bound' = bound \ {g} /\ Loses(g)
  /\ dedicated' = Restrict(dedicated, Glossaries \ {g})
  /\ entries' = {e \in entries : e.in # g}
  /\ removed' = removed \cup {e.of : e \in {f \in entries : f.in = g}}

DeleteEntry(e) ==
  /\ Edit /\ entries' = entries \ {e} /\ removed' = removed \cup {e.of}
  /\ UNCHANGED <<dedicated, bound, losses>>

(* What is in memory is gone, and nothing else: start-up interrupts the    *)
(* ledger's repairs only.                                                  *)
Crash ==
  /\ crashes < MaxCrashes /\ crashes' = crashes + 1
  /\ mining' = "idle" /\ miner' = Off /\ creating' = {}
  /\ req' = [r \in Requests |-> Free]
  /\ losses' = losses + Cardinality({r \in Requests : At(r, "bind")})
  /\ UNCHANGED <<disk, decided, removed, made, requests, reviews, edits, faults>>

-----------------------------------------------------------------------------
Handler(r) ==
  \/ Look(r) \/ CreateGlossary(r) \/ BindGlossary(r) \/ Ensured(r)
  \/ ReadCandidate(r) \/ WriteEntry(r) \/ SaveDecision(r) \/ StartMining(r)

Miner ==
  \/ BeginMining \/ (\E found \in SUBSET Terms : Extract(found)) \/ Merge
  \/ MiningFails \/ CompleteMining \/ ReportMining

ByHand ==
  \/ AddGlossary \/ Unbind
  \/ \E g \in Glossaries : Bind(g) \/ MakeStandard(g) \/ DeleteGlossary(g)
  \/ \E e \in entries : DeleteEntry(e)

Next ==
  \/ \E r \in Requests :
       \/ AskGlossary(r) \/ AskMining(r) \/ Handler(r)
       \/ \E id \in Ids, status \in {"approved", "new_meaning"} : AskApproval(r, id, status)
  \/ \E id \in Ids : MarkDuplicate(id) \/ Reject(id) \/ Restore(id)
  \/ Miner \/ ByHand \/ Crash

Spec == Init /\ [][Next]_vars

-----------------------------------------------------------------------------
Pcs == {"lock", "create", "bind", "got", "write", "save"}

(* Types of the variables; who holds the glossary's lock is making one,    *)
(* and nobody else is.                                                     *)
TypeOK ==
  /\ \A c \in store : c.id \in Ids /\ c.status \in Statuses
  /\ dedicated \in [Glossaries -> BOOLEAN] /\ bound \subseteq Glossaries
  /\ \A e \in entries : e.of \in Ids /\ e.in \in Glossaries
  /\ keyed \in BOOLEAN
  /\ mining \in Active \cup {"idle", "completed", "failed"}
  /\ miner.pc \in {"off", "queued", "extract", "merge", "complete", "report"}
  /\ miner.found \subseteq Terms
  /\ \A r \in Requests : req[r] # Free =>
       req[r].pc \in Pcs /\ (req[r].what = "approve" => Listed(req[r].id))
  /\ creating = {r \in Requests : req[r].pc \in {"create", "bind"}}
  /\ \A q, r \in creating : q = r
  /\ removed \subseteq Ids /\ made \in Nat /\ losses \in Nat

(* A term has one candidate, whatever was decided about it and however     *)
(* often the project is mined: a term that was ignored is not brought up   *)
(* again (run_mining_workflow).                                            *)
OneCandidatePerTerm == \A c, d \in store : TermOf(c) = TermOf(d) => c = d

(* A candidate keeps the last decision saved for it: a mining run that     *)
(* read the file before the decision does not undo it by its merge, and no *)
(* crash does.                                                             *)
LastDecisionStands ==
  \A id \in Ids : decided[id] # "none" => Listed(id) /\ Candidate(id).status = decided[id]

(* An approval that failed or crashed between the entry and the decision   *)
(* may be made again, in another glossary even, and two may overlap: there *)
(* is one entry of a candidate, and of one that is approved there is one   *)
(* unless it was deleted by hand (approve_candidate, add_entry).           *)
ApprovedHasOneEntry ==
  /\ \A e, f \in entries : e.of = f.of => e = f
  /\ \A c \in store : c.status \in {"approved", "new_meaning"} /\ c.id \notin removed
                        => \E e \in entries : e.of = c.id

(* A second glossary is made for a project only after the first was lost:  *)
(* unbound or deleted by hand, left without its binding by a crash or an   *)
(* error, or not found because of one (get_or_create_project_glossary).    *)
OneProjectGlossary == made <= 1 + losses
=============================================================================
