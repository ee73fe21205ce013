------------------------- MODULE PlanApprovalProofs --------------------------
(***************************************************************************)
(* What PlanApproval guarantees for any plans, any number of requests,     *)
(* faults, locks and restarts.  The argument counts: a plan that may still *)
(* be approved, a handler that has approved it and what came of it are     *)
(* never more than one and its later releases (TokensOf).  The file may    *)
(* lag behind the process, so that a restart could approve again; PlanOf   *)
(* says that it lags only where nothing has come of the plan yet.          *)
(***************************************************************************)
EXTENDS PlanApproval, FiniteSetTheorems, TLAPS

Executes(q, p) == q # Free /\ q.plan = p

(* A handler whose project or translation is still to come.                *)
Owes(q, p) == Executes(q, p) /\ (q.pc = "import" \/ q.door \in {"translate", "jobs"})

Executing(p) == {r \in Requests : Executes(req[r], p)}
Owing(p)     == {r \in Requests : Owes(req[r], p)}
Open(p)      == IF plan[p].home # "gone" /\ ~plan[p].used THEN 1 ELSE 0

TokensOf(p) ==
  /\ made[p] + Cardinality(Owing(p)) + Open(p) <= 1 + reopened[p]
  /\ ran[p] + Cardinality(Executing(p)) + Open(p) <= 1 + reopened[p]

Came(p) == made[p] > 0 \/ ran[p] > 0 \/ p \in lost

PlanOf(p) ==
  /\ plan[p].home = "agent" =>
       /\ saved[p].home = "agent"
       /\ saved[p].used \/ (made[p] <= reopened[p] /\ ran[p] <= reopened[p])
       /\ saved[p].used /\ ~plan[p].used => p \in lost
  /\ plan[p].home = "gone" => ~plan[p].used
  /\ plan[p].used /\ (\A r \in Requests : ~Executes(req[r], p)) => Came(p)

RequestOf(r, p) ==
  /\ plan[p].home # "none"
  /\ plan[p].home = "agent" => /\ plan[p].used /\ saved[p].used
                               /\ \A q \in Requests : Executes(req[q], p) => q = r
  /\ req[r].pc = "scan" \/ (req[r].door = "guided" /\ req[r].pc # "import") => made[p] > 0

IInv ==
  /\ TypeOK
  /\ \A p \in Plans : TokensOf(p) /\ PlanOf(p)
  /\ \A r \in Requests, p \in Plans : Executes(req[r], p) => RequestOf(r, p)

W(b) == IF b THEN 1 ELSE 0

-----------------------------------------------------------------------------
(* Two sets of requests that differ in one request at most.                *)
LEMMA CountOne ==
  ASSUME NEW S, NEW T, S \subseteq Requests, T \subseteq Requests, NEW r \in Requests,
         \A q \in Requests \ {r} : q \in S <=> q \in T
  PROVE  /\ Cardinality(S) \in Nat /\ Cardinality(T) \in Nat
         /\ Cardinality(S) + W(r \in T) = Cardinality(T) + W(r \in S)
<1>1. IsFiniteSet(S) /\ IsFiniteSet(T)
  BY PlanAssumption, FS_Subset
<1>2. Cardinality(S) \in Nat /\ Cardinality(T) \in Nat
  BY <1>1, FS_CardinalityType
<1>3. CASE r \in S /\ r \notin T
  <2>1. T = S \ {r}
    BY <1>3
  <2>2. Cardinality(T) = Cardinality(S) - 1
    BY <1>1, <1>3, <2>1, FS_RemoveElement
  <2>. QED  BY <1>2, <1>3, <2>2 DEF W
<1>4. CASE r \notin S /\ r \in T
  <2>1. S = T \ {r}
    BY <1>4
  <2>2. Cardinality(S) = Cardinality(T) - 1
    BY <1>1, <1>4, <2>1, FS_RemoveElement
  <2>. QED  BY <1>2, <1>4, <2>2 DEF W
<1>5. CASE r \in S <=> r \in T
  <2>1. S = T
    BY <1>5
  <2>. QED  BY <1>2, <2>1
<1>. QED  BY <1>3, <1>4, <1>5

(* What a step of one request does to the tokens of a plan.                *)
LEMMA TokensMove ==
  ASSUME TypeOK, TypeOK', NEW r \in Requests, NEW p \in Plans, TokensOf(p),
         \A q \in Requests \ {r} : req'[q] = req[q],
         made'[p] + W(Owes(req'[r], p)) + Open(p)' + reopened[p]
           <= made[p] + W(Owes(req[r], p)) + Open(p) + reopened'[p],
         ran'[p] + W(Executes(req'[r], p)) + Open(p)' + reopened[p]
           <= ran[p] + W(Executes(req[r], p)) + Open(p) + reopened'[p]
  PROVE  TokensOf(p)'
<1>1. /\ made[p] \in Nat /\ made'[p] \in Nat /\ ran[p] \in Nat /\ ran'[p] \in Nat
      /\ reopened[p] \in Nat /\ reopened'[p] \in Nat
  BY DEF TypeOK
<1>2. Open(p) \in {0, 1} /\ Open(p)' \in {0, 1}
  BY DEF Open
<1>3. /\ Cardinality(Owing(p)) \in Nat /\ Cardinality(Owing(p)') \in Nat
      /\ Cardinality(Owing(p)) + W(Owes(req'[r], p))
           = Cardinality(Owing(p)') + W(Owes(req[r], p))
  <2>1. /\ r \in Owing(p) <=> Owes(req[r], p)
        /\ r \in Owing(p)' <=> Owes(req'[r], p)
        /\ Owing(p) \subseteq Requests /\ Owing(p)' \subseteq Requests
        /\ \A q \in Requests \ {r} : q \in Owing(p) <=> q \in Owing(p)'
    BY DEF Owing
  <2>2. W(r \in Owing(p)) = W(Owes(req[r], p)) /\ W(r \in Owing(p)') = W(Owes(req'[r], p))
    BY <2>1 DEF W
  <2>. QED  BY <2>1, <2>2, CountOne
<1>4. /\ Cardinality(Executing(p)) \in Nat /\ Cardinality(Executing(p)') \in Nat
      /\ Cardinality(Executing(p)) + W(Executes(req'[r], p))
           = Cardinality(Executing(p)') + W(Executes(req[r], p))
  <2>1. /\ r \in Executing(p) <=> Executes(req[r], p)
        /\ r \in Executing(p)' <=> Executes(req'[r], p)
        /\ Executing(p) \subseteq Requests /\ Executing(p)' \subseteq Requests
        /\ \A q \in Requests \ {r} : q \in Executing(p) <=> q \in Executing(p)'
    BY DEF Executing
  <2>2. W(r \in Executing(p)) = W(Executes(req[r], p))
        /\ W(r \in Executing(p)') = W(Executes(req'[r], p))
    BY <2>1 DEF W
  <2>. QED  BY <2>1, <2>2, CountOne
<1>5. /\ W(Owes(req[r], p)) \in {0, 1} /\ W(Owes(req'[r], p)) \in {0, 1}
      /\ W(Executes(req[r], p)) \in {0, 1} /\ W(Executes(req'[r], p)) \in {0, 1}
  BY DEF W
<1>6. /\ made'[p] + Cardinality(Owing(p)') + Open(p)' <= 1 + reopened'[p]
      /\ ran'[p] + Cardinality(Executing(p)') + Open(p)' <= 1 + reopened'[p]
  BY <1>1, <1>2, <1>3, <1>4, <1>5 DEF TokensOf
<1>. QED  BY <1>6 DEF TokensOf

-----------------------------------------------------------------------------
(* A plan that may be approved has nothing to show that was not given      *)
(* back.                                                                   *)
LEMMA Spare ==
  ASSUME TypeOK, NEW p \in Plans, TokensOf(p), plan[p].home # "gone", ~plan[p].used
  PROVE  made[p] <= reopened[p] /\ ran[p] <= reopened[p]
<1>1. Owing(p) \subseteq Requests /\ Executing(p) \subseteq Requests
  BY DEF Owing, Executing
<1>2. Cardinality(Owing(p)) \in Nat /\ Cardinality(Executing(p)) \in Nat
  BY <1>1, PlanAssumption, FS_Subset, FS_CardinalityType
<1>3. made[p] \in Nat /\ ran[p] \in Nat /\ reopened[p] \in Nat
  BY DEF TypeOK
<1>. QED  BY <1>2, <1>3 DEF TokensOf, Open

(* Saving the registry leaves every plan it does not change as it was: one *)
(* that is not used has nothing to show.                                   *)
LEMMA SaveKeeps ==
  ASSUME IInv, NEW o \in Plans,
         plan'[o] = plan[o], made'[o] = made[o], ran'[o] = ran[o],
         reopened'[o] = reopened[o], o \in lost => o \in lost',
         \A q \in Requests : Executes(req'[q], o) <=> Executes(req[q], o),
         saved'[o] = saved[o] \/ saved'[o] = Written(plan')[o]
  PROVE  PlanOf(o)'
<1>1. PlanOf(o) /\ TokensOf(o)
  BY DEF IInv
<1>2. saved'[o] = saved[o] \/ (plan[o].home = "agent" /\ saved'[o] = plan[o])
  BY DEF Written
<1>3. plan[o].home = "agent" /\ ~plan[o].used => made[o] <= reopened[o] /\ ran[o] <= reopened[o]
  BY <1>1, Spare DEF IInv
<1>. QED  BY <1>1, <1>2, <1>3 DEF PlanOf, Came

(* A step in which at most one request, of one plan, moves.                *)
LEMMA OneMoves ==
  ASSUME IInv, TypeOK', NEW r \in Requests, NEW p \in Plans,
         \A q \in Requests \ {r} : req'[q] = req[q],
         req[r] # Free => req[r].plan = p,
         req'[r] # Free => req'[r].plan = p,
         \A o \in Plans \ {p} : /\ plan'[o] = plan[o] /\ made'[o] = made[o]
                                /\ ran'[o] = ran[o] /\ reopened'[o] = reopened[o]
                                 /\ (o \in lost => o \in lost')
                                 /\ (saved'[o] = saved[o] \/ saved'[o] = Written(plan')[o]),
         made'[p] + W(Owes(req'[r], p)) + Open(p)' + reopened[p]
           <= made[p] + W(Owes(req[r], p)) + Open(p) + reopened'[p],
         ran'[p] + W(Executes(req'[r], p)) + Open(p)' + reopened[p]
           <= ran[p] + W(Executes(req[r], p)) + Open(p) + reopened'[p],
         plan'[p].home = "agent" =>
           /\ saved'[p].home = "agent"
           /\ saved'[p].used \/ ~plan'[p].used \/ (made'[p] <= reopened'[p] /\ ran'[p] <= reopened'[p])
           /\ saved'[p].used /\ ~plan'[p].used => p \in lost',
         plan'[p].home = "gone" => ~plan'[p].used,
         plan'[p].used /\ req'[r] = Free => Came(p)',
         plan'[p].home = plan[p].home, made'[p] >= made[p],
         req[r] # Free \/ ~plan[p].used,
         req'[r] # Free =>
           /\ plan[p].home # "none"
           /\ plan[p].home = "agent" => plan'[p].used /\ saved'[p].used
           /\ req'[r].pc = "scan" \/ (req'[r].door = "guided" /\ req'[r].pc # "import")
                => made'[p] > 0
  PROVE  IInv'
<1>1. \A o \in Plans \ {p} : \A q \in Requests :
        /\ Executes(req'[q], o) <=> Executes(req[q], o)
        /\ Owes(req'[q], o) <=> Owes(req[q], o)
  BY DEF Executes, Owes
<1>2. ASSUME NEW o \in Plans  PROVE TokensOf(o)'
  <2>0. TokensOf(o) /\ TypeOK
    BY DEF IInv
  <2>1. CASE o = p
    BY <2>0, <2>1, TokensMove
  <2>2. CASE o # p
    <3>1. /\ W(Owes(req'[r], o)) = W(Owes(req[r], o))
          /\ W(Executes(req'[r], o)) = W(Executes(req[r], o))
      BY <1>1, <2>2 DEF W
    <3>2. Open(o)' = Open(o) /\ made'[o] = made[o] /\ ran'[o] = ran[o] /\ reopened'[o] = reopened[o]
      BY <2>2 DEF Open
    <3>3. /\ made[o] \in Nat /\ ran[o] \in Nat /\ reopened[o] \in Nat /\ Open(o) \in Nat
          /\ W(Owes(req[r], o)) \in Nat /\ W(Executes(req[r], o)) \in Nat
      BY <2>0 DEF TypeOK, Open, W
    <3>4. /\ made'[o] + W(Owes(req'[r], o)) + Open(o)' + reopened[o]
               <= made[o] + W(Owes(req[r], o)) + Open(o) + reopened'[o]
          /\ ran'[o] + W(Executes(req'[r], o)) + Open(o)' + reopened[o]
               <= ran[o] + W(Executes(req[r], o)) + Open(o) + reopened'[o]
      BY <3>1, <3>2, <3>3
    <3>. QED  BY <2>0, <3>4, TokensMove
  <2>. QED  BY <2>1, <2>2
<1>3. ASSUME NEW o \in Plans  PROVE PlanOf(o)'
  <2>1. CASE o = p
    <3>1. plan'[p].home = "agent" /\ ~plan'[p].used => made'[p] <= reopened'[p] /\ ran'[p] <= reopened'[p]
      <4>1. TokensOf(p)' /\ (plan'[p].home = "agent" /\ ~plan'[p].used => Open(p)' = 1)
        BY <1>2 DEF Open
      <4>2. Owing(p)' \subseteq Requests /\ Executing(p)' \subseteq Requests
        BY DEF Owing, Executing
      <4>3. Cardinality(Owing(p)') \in Nat /\ Cardinality(Executing(p)') \in Nat
        BY <4>2, PlanAssumption, FS_Subset, FS_CardinalityType
      <4>4. made'[p] \in Nat /\ ran'[p] \in Nat /\ reopened'[p] \in Nat
        BY DEF TypeOK
      <4>. QED  BY <4>1, <4>3, <4>4 DEF TokensOf
    <3>2. (\A q \in Requests : ~Executes(req'[q], p)) => req'[r] = Free
      BY DEF Executes
    <3>. QED  BY <2>1, <3>1, <3>2 DEF PlanOf
  <2>2. CASE o # p
    BY <1>1, <2>2, SaveKeeps
  <2>. QED  BY <2>1, <2>2
<1>4. ASSUME NEW q \in Requests, NEW o \in Plans, Executes(req'[q], o)  PROVE RequestOf(q, o)'
  <2>1. CASE o # p
    <3>1. Executes(req[q], o) /\ q # r
      BY <1>1, <1>4, <2>1 DEF Executes
    <3>2. RequestOf(q, o) /\ plan'[o] = plan[o] /\ made'[o] = made[o] /\ req'[q] = req[q]
      BY <3>1, <2>1 DEF IInv
    <3>3. saved'[o] = saved[o] \/ (plan[o].home = "agent" /\ saved'[o] = plan[o])
      BY <2>1 DEF Written
    <3>. QED  BY <1>1, <2>1, <3>2, <3>3 DEF RequestOf
  <2>2. CASE o = p /\ q = r
    <3>1. req'[r] # Free
      BY <1>4, <2>2 DEF Executes
    <3>2. plan[p].home = "agent" => \A x \in Requests : Executes(req'[x], p) => x = r
      <4>1. ASSUME NEW x \in Requests, x # r, plan[p].home = "agent", Executes(req'[x], p)
            PROVE  FALSE
        <5>1. Executes(req[x], p)
          BY <4>1
        <5>2. RequestOf(x, p)
          BY <5>1 DEF IInv
        <5>3. req[r] # Free
          BY <4>1, <5>2 DEF RequestOf
        <5>4. Executes(req[r], p)
          BY <5>3 DEF Executes
        <5>. QED  BY <4>1, <5>2, <5>4 DEF RequestOf
      <4>. QED  BY <4>1
    <3>. QED  BY <2>2, <3>1, <3>2 DEF RequestOf
  <2>3. CASE o = p /\ q # r
    <3>1. Executes(req[q], p) /\ req'[q] = req[q]
      BY <1>4, <2>3
    <3>2. RequestOf(q, p)
      BY <3>1 DEF IInv
    <3>3. plan[p].home # "agent"
      <4>1. SUFFICES ASSUME plan[p].home = "agent"  PROVE FALSE
        OBVIOUS
      <4>2. req[r] # Free
        BY <3>2, <4>1 DEF RequestOf
      <4>3. Executes(req[r], p)
        BY <4>2 DEF Executes
      <4>. QED  BY <2>3, <3>2, <4>1, <4>3 DEF RequestOf
    <3>4. made[p] \in Nat /\ made'[p] \in Nat
      BY DEF IInv, TypeOK
    <3>. QED  BY <2>3, <3>1, <3>2, <3>3, <3>4 DEF RequestOf
  <2>. QED  BY <2>1, <2>2, <2>3
<1>. QED  BY <1>2, <1>3, <1>4 DEF IInv

(* A step of a plan in which no request moves.                             *)
LEMMA NoneMoves ==
  ASSUME IInv, TypeOK', req' = req, made' = made, ran' = ran, NEW p \in Plans,
         \A o \in Plans \ {p} : /\ plan'[o] = plan[o] /\ reopened'[o] = reopened[o]
                                /\ (o \in lost => o \in lost')
                                 /\ (saved'[o] = saved[o] \/ saved'[o] = Written(plan')[o]),
         Open(p)' + reopened[p] <= Open(p) + reopened'[p], reopened[p] <= reopened'[p],
         plan'[p].home # "none" \/ plan[p].home = "none",
         plan'[p].home = "agent" =>
           (plan[p].home # "none" /\ plan[p].used /\ saved[p].used => plan'[p].used /\ saved'[p].used),
         plan'[p].home = "agent" => plan[p].home \in {"none", "agent"},
         PlanOf(p)'
  PROVE  IInv'
<1>1. ASSUME NEW o \in Plans  PROVE TokensOf(o)'
  <2>1. Owing(o)' = Owing(o) /\ Executing(o)' = Executing(o)
    BY DEF Owing, Executing
  <2>2. Owing(o) \subseteq Requests /\ Executing(o) \subseteq Requests
    BY DEF Owing, Executing
  <2>3. Cardinality(Owing(o)) \in Nat /\ Cardinality(Executing(o)) \in Nat
    BY <2>2, PlanAssumption, FS_Subset, FS_CardinalityType
  <2>4. /\ made[o] \in Nat /\ ran[o] \in Nat /\ reopened[o] \in Nat /\ reopened'[o] \in Nat
        /\ Open(o) \in Nat /\ Open(o)' \in Nat
    BY DEF IInv, TypeOK, Open
  <2>5. Open(o)' + reopened[o] <= Open(o) + reopened'[o]
    BY <2>4 DEF Open
  <2>6. TokensOf(o)
    BY DEF IInv
  <2>. QED  BY <2>1, <2>3, <2>4, <2>5, <2>6 DEF TokensOf
<1>2. ASSUME NEW o \in Plans  PROVE PlanOf(o)'
  BY SaveKeeps
<1>3. ASSUME NEW q \in Requests, NEW o \in Plans, Executes(req'[q], o)  PROVE RequestOf(q, o)'
  <2>1. RequestOf(q, o)
    BY <1>3 DEF IInv
  <2>2. CASE o # p
    <3>1. saved'[o] = saved[o] \/ (plan[o].home = "agent" /\ saved'[o] = plan[o])
      BY <2>2 DEF Written
    <3>. QED  BY <2>1, <2>2, <3>1 DEF RequestOf
  <2>3. CASE o = p
    BY <2>1, <2>3 DEF RequestOf
  <2>. QED  BY <2>2, <2>3
<1>. QED  BY <1>1, <1>2, <1>3 DEF IInv

-----------------------------------------------------------------------------
(* Types.                                                                  *)
LEMMA HandlingType ==
  ASSUME TypeOK, NEW r \in Requests, req[r] # Free
  PROVE  req[r] \in Handling /\ req[r].plan \in Plans
BY DEF TypeOK, Handling

LEMMA MarkedType ==
  ASSUME TypeOK, NEW p \in Plans, NEW used \in BOOLEAN
  PROVE  Marked(p, used) \in [Plans -> Plan]
<1>1. plan[p] \in Plan /\ [plan[p] EXCEPT !.used = used] \in Plan
  BY DEF TypeOK, Plan
<1>2. Marked(p, used) = [plan EXCEPT ![p] = [plan[p] EXCEPT !.used = used]]
  BY DEF Marked, TypeOK
<1>. QED  BY <1>1, <1>2 DEF TypeOK

LEMMA ReleaseType ==
  ASSUME TypeOK, NEW r \in Requests, req[r] # Free, NEW n, Release(r, n)
  PROVE  /\ plan' \in [Plans -> Plan] /\ saved' \in [Plans -> Plan] /\ lost' \subseteq Plans
         /\ req' = [req EXCEPT ![r] = Free]
<1>. DEFINE p == req[r].plan
<1>1. p \in Plans
  BY HandlingType
<1>2. plan' = plan \/ plan' = Marked(p, FALSE)
  BY DEF Release
<1>3. plan' \in [Plans -> Plan]
  BY <1>1, <1>2, MarkedType DEF TypeOK
<1>4. saved' = saved \/ saved' = Written(plan')
  BY DEF Release
<1>5. saved' \in [Plans -> Plan]
  BY <1>3, <1>4 DEF Written, TypeOK
<1>. QED  BY <1>1, <1>3, <1>5 DEF Release, Answer, Lose, TypeOK

LEMMA TypeStep == TypeOK /\ [Next]_vars => TypeOK'
<1>. SUFFICES ASSUME TypeOK, [Next]_vars  PROVE TypeOK'
  OBVIOUS
<1>0. Unmade \in Plan /\ Gone \in Plan
  BY DEF Unmade, Gone, Plan
<1>1. ASSUME NEW plans \in [Plans -> Plan]  PROVE Written(plans) \in [Plans -> Plan]
  BY DEF Written, TypeOK
<1>2. ASSUME NEW p \in Plans, NEW used \in BOOLEAN  PROVE Marked(p, used) \in [Plans -> Plan]
  BY MarkedType
<1>3. ASSUME NEW p \in Plans, NEW home \in {"copilot", "agent"},
             NEW kind \in {"project", "translation", "dry_run"}, MakePlan(p, home, kind)
      PROVE  TypeOK'
  <2>1. New(home, kind) \in Plan
    BY DEF New, Plan
  <2>2. plan' \in [Plans -> Plan]
    BY <1>3, <2>1 DEF MakePlan, TypeOK
  <2>. QED  BY <1>1, <1>3, <2>2 DEF MakePlan, history, TypeOK
<1>4. ASSUME NEW p \in Plans, Expire(p)  PROVE TypeOK'
  <2>1. plan' \in [Plans -> Plan] /\ saved' \in [Plans -> Plan]
    BY <1>4 DEF Expire, TypeOK, Plan
  <2>. QED  BY <1>4, <2>1 DEF Expire, history, TypeOK
<1>5. ASSUME NEW p \in Plans, ReleaseUnreserved(p)  PROVE TypeOK'
  <2>1. reopened' \in [Plans -> Nat]
    BY <1>5 DEF ReleaseUnreserved, TypeOK
  <2>. QED  BY <1>2, <1>5, <2>1 DEF ReleaseUnreserved, Send, TypeOK
<1>6. ASSUME NEW p \in Plans, DropExpired(p)  PROVE TypeOK'
  BY <1>0, <1>6 DEF DropExpired, Send, TypeOK
<1>7. ASSUME NEW p \in Plans, ConsumeInVain(p)  PROVE TypeOK'
  <2>1. plan' \in [Plans -> Plan] /\ saved' \in [Plans -> Plan]
    BY <1>1, <1>2, <1>7 DEF ConsumeInVain, TypeOK
  <2>. QED  BY <1>7, <2>1 DEF ConsumeInVain, Send, Lose, TypeOK
<1>8. ASSUME NEW p \in Plans, SaveSnapshot(p)  PROVE TypeOK'
  <2>1. saved' \in [Plans -> Plan]
    BY <1>1, <1>8 DEF SaveSnapshot, TypeOK
  <2>. QED  BY <1>8, <2>1 DEF SaveSnapshot, process, history, TypeOK
<1>9. ASSUME NEW r \in Requests, NEW p \in Plans, NEW door, NEW pc, Enter(r, p, door, pc),
             pc \in {"import", "start", "check"},
             door \in IF pc = "import" THEN {"execute", "guided", "projects"}
                                      ELSE {"guided", "translate", "jobs"}
      PROVE  /\ req' \in [Requests -> {Free} \cup Handling]
             /\ \A x \in Requests : req'[x] # Free =>
                  req'[x].door \in IF req'[x].pc \in {"import", "scan"}
                                   THEN {"execute", "guided", "projects"}
                                   ELSE {"guided", "translate", "jobs"}
  <2>. DEFINE e == [pc |-> pc, plan |-> p, door |-> door]
  <2>1. e \in Handling /\ e.pc = pc /\ e.door = door
    BY <1>9 DEF Handling
  <2>2. req' = [req EXCEPT ![r] = e] /\ DOMAIN req = Requests
    BY <1>9 DEF Enter, TypeOK
  <2>. HIDE DEF e
  <2>. QED  BY <1>9, <2>1, <2>2 DEF TypeOK
<1>10. ASSUME NEW r \in Requests, NEW p \in Plans, NEW door \in {"execute", "guided"},
              Reserve(r, p, door)
       PROVE  TypeOK'
  BY <1>2, <1>9, <1>10 DEF Reserve, Send, TypeOK
<1>11. ASSUME NEW r \in Requests, NEW p \in Plans, ReserveTranslation(r, p)  PROVE TypeOK'
  BY <1>2, <1>9, <1>11 DEF ReserveTranslation, Send, TypeOK
<1>12. ASSUME NEW r \in Requests, NEW p \in Plans, NEW kind, NEW pc, Consume(r, p, kind, pc),
              <<kind, pc>> \in {<<"project", "import">>, <<"translation", "start">>,
                                <<"dry_run", "check">>}
       PROVE  TypeOK'
  <2>1. plan' \in [Plans -> Plan] /\ saved' \in [Plans -> Plan]
    BY <1>1, <1>2, <1>12 DEF Consume, ConsumeIf, TypeOK
  <2>2. /\ req' \in [Requests -> {Free} \cup Handling]
        /\ \A x \in Requests : req'[x] # Free =>
             req'[x].door \in IF req'[x].pc \in {"import", "scan"}
                              THEN {"execute", "guided", "projects"}
                              ELSE {"guided", "translate", "jobs"}
    BY <1>9, <1>12 DEF Consume, ConsumeIf, TypeOK
  <2>. QED  BY <1>12, <2>1, <2>2 DEF Consume, ConsumeIf, Send, Lose, TypeOK
<1>13. ASSUME NEW r \in Requests, req[r] # Free, Answer(r)
       PROVE  /\ req' \in [Requests -> {Free} \cup Handling]
              /\ \A x \in Requests : req'[x] # Free =>
                   req'[x].door \in IF req'[x].pc \in {"import", "scan"}
                                    THEN {"execute", "guided", "projects"}
                                    ELSE {"guided", "translate", "jobs"}
  BY <1>13 DEF Answer, TypeOK
<1>14. ASSUME NEW r \in Requests, req[r] # Free, NEW pc, Go(r, pc),
              \/ req[r].pc = "import" /\ pc = "scan"
              \/ req[r].door = "guided" /\ pc = "start"
              \/ req[r].pc \notin {"import", "scan"} /\ pc \in {"tail", "reply", "work"}
       PROVE  /\ req' \in [Requests -> {Free} \cup Handling]
              /\ \A x \in Requests : req'[x] # Free =>
                   req'[x].door \in IF req'[x].pc \in {"import", "scan"}
                                    THEN {"execute", "guided", "projects"}
                                    ELSE {"guided", "translate", "jobs"}
  <2>1. /\ req[r] \in Handling /\ DOMAIN req = Requests
        /\ req' = [req EXCEPT ![r] = [req[r] EXCEPT !.pc = pc]]
    BY <1>14, HandlingType DEF Go, TypeOK
  <2>2. /\ [req[r] EXCEPT !.pc = pc] \in Handling
        /\ [req[r] EXCEPT !.pc = pc].pc = pc
        /\ [req[r] EXCEPT !.pc = pc].door = req[r].door
    BY <1>14, <2>1 DEF Handling
  <2>. QED  BY <1>14, <2>1, <2>2 DEF TypeOK
<1>15. ASSUME NEW r \in Requests, Handler(r)  PROVE TypeOK'
  <2>. DEFINE p == req[r].plan
  <2>1. req[r] # Free /\ p \in Plans
    <3>1. req[r] # Free
      BY <1>15 DEF Handler, Import, ScanFails, ProjectMade, RefuseStart, StartWithoutFolder,
                   Start, Sign, Reply, BeginWork, DryRun, At, Free
    <3>. QED  BY <3>1, HandlingType
  <2>2. ASSUME NEW n, Release(r, n)
        PROVE  /\ plan' \in [Plans -> Plan] /\ saved' \in [Plans -> Plan] /\ lost' \subseteq Plans
               /\ req' \in [Requests -> {Free} \cup Handling]
               /\ \A x \in Requests : req'[x] # Free =>
                    req'[x].door \in IF req'[x].pc \in {"import", "scan"}
                                     THEN {"execute", "guided", "projects"}
                                     ELSE {"guided", "translate", "jobs"}
    BY <1>13, <2>1, <2>2, ReleaseType DEF Answer
  <2>3. CASE Import(r)
    <3>1. CASE Release(r, 0) \/ Release(r, 1)
      BY <2>2, <2>3, <3>1 DEF Import, TypeOK
    <3>2. CASE /\ made' = [made EXCEPT ![p] = @ + 1] /\ Go(r, "scan")
               /\ UNCHANGED <<plan, saved, lost>>
      BY <1>14, <2>1, <2>3, <3>2 DEF Import, At, TypeOK
    <3>. QED  BY <2>3, <3>1, <3>2 DEF Import
  <2>4. CASE ScanFails(r)
    BY <2>1, <2>2, <2>4 DEF ScanFails, TypeOK
  <2>5. CASE ProjectMade(r)
    <3>1. saved' \in [Plans -> Plan]
      BY <1>1, <2>5 DEF ProjectMade, TypeOK
    <3>. QED  BY <1>13, <1>14, <2>1, <2>5, <3>1 DEF ProjectMade, history, TypeOK
  <2>6. CASE RefuseStart(r)
    BY <1>13, <2>1, <2>2, <2>6 DEF RefuseStart, TypeOK
  <2>7. CASE StartWithoutFolder(r)
    BY <2>1, <2>2, <2>7 DEF StartWithoutFolder, SaveTask, TypeOK
  <2>8. CASE Start(r)
    BY <1>14, <2>1, <2>8 DEF Start, At, SaveTask, history, TypeOK
  <2>9. CASE Sign(r)
    <3>1. saved' \in [Plans -> Plan] /\ rows' \subseteq Plans /\ lost' \subseteq Plans
      BY <1>1, <2>1, <2>9 DEF Sign, SaveTask, Lose, TypeOK
    <3>. QED  BY <1>13, <1>14, <2>1, <2>9, <3>1 DEF Sign, At, TypeOK
  <2>10. CASE Reply(r)
    <3>1. saved' \in [Plans -> Plan] /\ lost' \subseteq Plans
      BY <1>1, <2>1, <2>10 DEF Reply, Lose, TypeOK
    <3>. QED  BY <1>13, <1>14, <2>1, <2>10, <3>1 DEF Reply, At, TypeOK
  <2>11. CASE BeginWork(r)
    BY <1>13, <2>1, <2>11 DEF BeginWork, SaveTask, TypeOK
  <2>12. CASE DryRun(r)
    <3>1. /\ saved' \in [Plans -> Plan] /\ rows' \subseteq Plans /\ lost' \subseteq Plans
          /\ known' \subseteq Plans /\ ran' \in [Plans -> Nat]
      BY <1>1, <2>1, <2>12 DEF DryRun, SaveTask, Lose, TypeOK
    <3>. QED  BY <1>13, <2>1, <2>12, <3>1 DEF DryRun, TypeOK
  <2>. QED  BY <1>15, <2>3, <2>4, <2>5, <2>6, <2>7, <2>8, <2>9, <2>10, <2>11, <2>12 DEF Handler
<1>16. CASE Lock \/ Unlock
  BY <1>16 DEF Lock, Unlock, process, history, TypeOK
<1>17. CASE Crash
  <2>1. plan' \in [Plans -> Plan]
    BY <1>0, <1>17 DEF Crash, TypeOK
  <2>. QED  BY <1>17, <2>1 DEF Crash, disk, TypeOK
<1>18. CASE UNCHANGED vars
  BY <1>18 DEF vars, process, disk, history, TypeOK
<1>. QED  BY <1>3, <1>4, <1>5, <1>6, <1>7, <1>8, <1>10, <1>11, <1>12, <1>15, <1>16, <1>17, <1>18
          DEF Next, Approve
-----------------------------------------------------------------------------
(* The steps of handlers and approvals.                                    *)
LEMMA Handled ==
  ASSUME IInv, NEW r \in Requests, req[r] # Free, NEW p, p = req[r].plan
  PROVE  /\ p \in Plans /\ req[r] \in Handling /\ DOMAIN req = Requests
         /\ Executes(req[r], p) /\ RequestOf(r, p) /\ PlanOf(p)
         /\ made[p] \in Nat /\ ran[p] \in Nat /\ reopened[p] \in Nat
         /\ plan[p] \in Plan /\ DOMAIN plan = Plans
<1>1. req[r].plan \in Plans /\ req[r] \in Handling
  BY HandlingType DEF IInv
<1>. QED  BY <1>1 DEF IInv, TypeOK, Executes

LEMMA Released ==
  ASSUME IInv, TypeOK', NEW r \in Requests, req[r] # Free, NEW p, p = req[r].plan, NEW n, Release(r, n),
         made' = made, ran' = ran,
         \/ reopened' = reopened /\ Owes(req[r], p)
         \/ reopened' = [reopened EXCEPT ![p] = @ + 1]
  PROVE  IInv'
<1>1. /\ p \in Plans /\ DOMAIN req = Requests /\ Executes(req[r], p) /\ RequestOf(r, p) /\ PlanOf(p)
      /\ made[p] \in Nat /\ ran[p] \in Nat /\ reopened[p] \in Nat
      /\ plan[p] \in Plan /\ DOMAIN plan = Plans
  BY Handled
<1>2. req' = [req EXCEPT ![r] = Free]
  BY DEF Release, Answer
<1>3. /\ \A q \in Requests \ {r} : req'[q] = req[q]
      /\ req'[r] = Free
  BY <1>1, <1>2
<1>4. /\ \A o \in Plans \ {p} : plan'[o] = plan[o]
      /\ plan'[p].home = plan[p].home
      /\ plan[p].home # "gone" => ~plan'[p].used
      /\ plan[p].home = "gone" => plan'[p] = plan[p]
  BY <1>1 DEF Release, Marked, Plan
<1>5. /\ \A o \in Plans : (saved'[o] = saved[o] \/ saved'[o] = Written(plan')[o]) /\ (o \in lost => o \in lost')
      /\ \/ plan[p].home = "agent" /\ saved'[p] = plan'[p]
         \/ saved' = saved /\ (plan[p].home = "agent" => p \in lost')
  <2>1. CASE lost' = lost /\ saved' = IF plan[p].home = "agent" THEN Written(plan') ELSE saved
    BY <1>1, <1>4, <2>1 DEF Written
  <2>2. CASE plan[p].home = "agent" /\ Lose(p) /\ saved' = saved
    BY <2>2 DEF Lose
  <2>. QED  BY <2>1, <2>2 DEF Release
<1>6. /\ reopened'[p] >= reopened[p] /\ reopened'[p] \in Nat
      /\ \A o \in Plans \ {p} : reopened'[o] = reopened[o]
      /\ Owes(req[r], p) \/ reopened'[p] = reopened[p] + 1
  BY <1>1 DEF IInv, TypeOK
<1>7. Open(p) \in {0, 1} /\ Open(p)' \in {0, 1}
  BY DEF Open
<1>8. ~Executes(req'[r], p) /\ ~Owes(req'[r], p)
  BY <1>3 DEF Executes, Owes
<1>9. /\ made'[p] + W(Owes(req'[r], p)) + Open(p)' + reopened[p]
           <= made[p] + W(Owes(req[r], p)) + Open(p) + reopened'[p]
      /\ ran'[p] + W(Executes(req'[r], p)) + Open(p)' + reopened[p]
           <= ran[p] + W(Executes(req[r], p)) + Open(p) + reopened'[p]
  BY <1>1, <1>6, <1>7, <1>8 DEF W
<1>10. plan'[p].home = "agent" =>
         /\ saved'[p].home = "agent" /\ ~plan'[p].used
         /\ saved'[p].used /\ ~plan'[p].used => p \in lost'
  BY <1>1, <1>4, <1>5 DEF PlanOf
<1>11. ~plan'[p].used
  BY <1>1, <1>4 DEF PlanOf
<1>12. made'[p] >= made[p]
  BY <1>1
<1>13. ASSUME NEW o \in Plans \ {p}
      PROVE  /\ plan'[o] = plan[o] /\ made'[o] = made[o]
             /\ ran'[o] = ran[o] /\ reopened'[o] = reopened[o]
             /\ (o \in lost => o \in lost')
             /\ (saved'[o] = saved[o] \/ saved'[o] = Written(plan')[o])
  BY <1>4, <1>5, <1>6
<1>14. plan'[p].home = "agent" =>
       /\ saved'[p].home = "agent"
       /\ saved'[p].used \/ ~plan'[p].used \/ (made'[p] <= reopened'[p] /\ ran'[p] <= reopened'[p])
       /\ saved'[p].used /\ ~plan'[p].used => p \in lost'
  BY <1>10
<1>15. (req'[r] # Free => req'[r].plan = p)
       /\ (req'[r] # Free =>
            /\ plan[p].home # "none"
            /\ plan[p].home = "agent" => plan'[p].used /\ saved'[p].used
            /\ req'[r].pc = "scan" \/ (req'[r].door = "guided" /\ req'[r].pc # "import") => made'[p] > 0)
  BY <1>3
<1>16. /\ p \in Plans /\ plan'[p].home = plan[p].home
       /\ plan'[p].home = "gone" => ~plan'[p].used
       /\ plan'[p].used /\ req'[r] = Free => Came(p)'
       /\ \A q \in Requests \ {r} : req'[q] = req[q]
  BY <1>1, <1>3, <1>4, <1>11
<1>. QED  BY <1>9, <1>12, <1>13, <1>14, <1>15, <1>16, OneMoves

LEMMA Goes ==
  ASSUME IInv, TypeOK', NEW r \in Requests, req[r] # Free, NEW p, p = req[r].plan, NEW pc, Go(r, pc),
         pc \notin {"import", "scan"}, req[r].pc # "import",
         plan' = plan, made' = made, ran' = ran, reopened' = reopened, lost' = lost,
         saved' = saved \/ saved' = Written(plan)
  PROVE  IInv'
<1>1. /\ p \in Plans /\ DOMAIN req = Requests /\ Executes(req[r], p) /\ RequestOf(r, p) /\ PlanOf(p)
      /\ made[p] \in Nat /\ ran[p] \in Nat /\ reopened[p] \in Nat
      /\ req[r] \in Handling
  BY Handled
<1>2. /\ \A q \in Requests \ {r} : req'[q] = req[q]
      /\ req'[r].plan = p /\ req'[r].door = req[r].door /\ req'[r].pc = pc
  BY <1>1 DEF Go, Handling
<1>3. req'[r] # Free
  BY <1>1, <1>2, HandlingType DEF Go, Handling, Free, IInv, TypeOK
<1>4. /\ \A o \in Plans : saved'[o] = saved[o] \/ saved'[o] = Written(plan')[o]
      /\ saved'[p] = saved[p] \/ (plan[p].home = "agent" /\ saved'[p] = plan[p])
  BY <1>1 DEF Written
<1>5. Open(p) \in {0, 1} /\ Open(p)' = Open(p)
  BY DEF Open
<1>6. (Owes(req'[r], p) => Owes(req[r], p)) /\ Executes(req'[r], p)
  BY <1>1, <1>2, <1>3 DEF Owes, Executes
<1>7. /\ made'[p] + W(Owes(req'[r], p)) + Open(p)' + reopened[p]
           <= made[p] + W(Owes(req[r], p)) + Open(p) + reopened'[p]
      /\ ran'[p] + W(Executes(req'[r], p)) + Open(p)' + reopened[p]
           <= ran[p] + W(Executes(req[r], p)) + Open(p) + reopened'[p]
  BY <1>1, <1>5, <1>6 DEF W
<1>8. plan[p].home = "agent" => plan[p].used /\ saved'[p].used /\ saved'[p].home = "agent"
  BY <1>1, <1>4 DEF RequestOf, PlanOf
<1>9. req'[r].door = "guided" => made'[p] > 0
  BY <1>1, <1>2 DEF RequestOf
<1>10. plan[p].home # "none" /\ (plan[p].home = "gone" => ~plan[p].used)
  BY <1>1 DEF RequestOf, PlanOf
<1>11. ASSUME NEW o \in Plans \ {p}
      PROVE  /\ plan'[o] = plan[o] /\ made'[o] = made[o]
             /\ ran'[o] = ran[o] /\ reopened'[o] = reopened[o]
             /\ (o \in lost => o \in lost')
             /\ (saved'[o] = saved[o] \/ saved'[o] = Written(plan')[o])
  BY <1>4
<1>12. plan'[p].home = "agent" =>
       /\ saved'[p].home = "agent"
       /\ saved'[p].used \/ ~plan'[p].used \/ (made'[p] <= reopened'[p] /\ ran'[p] <= reopened'[p])
       /\ saved'[p].used /\ ~plan'[p].used => p \in lost'
  BY <1>8
<1>13. req'[r] # Free =>
       /\ plan[p].home # "none"
       /\ plan[p].home = "agent" => plan'[p].used /\ saved'[p].used
       /\ req'[r].pc = "scan" \/ (req'[r].door = "guided" /\ req'[r].pc # "import") => made'[p] > 0
  BY <1>2, <1>8, <1>9, <1>10
<1>14. made'[p] >= made[p]
  BY <1>1
<1>. QED  BY <1>1, <1>2, <1>3, <1>7, <1>10, <1>11, <1>12, <1>13, <1>14, OneMoves

LEMMA Ends ==
  ASSUME IInv, TypeOK', NEW r \in Requests, req[r] # Free, NEW p, p = req[r].plan, Answer(r),
         plan' = plan, made' = made, reopened' = reopened, Came(p)',
         \A o \in Plans : o \in lost => o \in lost',
         ran' = ran \/ ran' = [ran EXCEPT ![p] = @ + 1],
         saved' = saved \/ saved' = Written(plan)
  PROVE  IInv'
<1>1. /\ p \in Plans /\ DOMAIN req = Requests /\ Executes(req[r], p) /\ RequestOf(r, p) /\ PlanOf(p)
      /\ made[p] \in Nat /\ ran[p] \in Nat /\ reopened[p] \in Nat
  BY Handled
<1>2. /\ \A q \in Requests \ {r} : req'[q] = req[q]
      /\ req'[r] = Free
  BY <1>1 DEF Answer
<1>3. /\ \A o \in Plans : saved'[o] = saved[o] \/ saved'[o] = Written(plan')[o]
      /\ saved'[p] = saved[p] \/ (plan[p].home = "agent" /\ saved'[p] = plan[p])
  BY <1>1 DEF Written
<1>4. Open(p) \in {0, 1} /\ Open(p)' = Open(p)
  BY DEF Open
<1>5. ~Executes(req'[r], p) /\ ~Owes(req'[r], p)
  BY <1>2 DEF Executes, Owes
<1>6. /\ ran'[p] \in {ran[p], ran[p] + 1}
      /\ \A o \in Plans \ {p} : ran'[o] = ran[o]
  BY <1>1 DEF IInv, TypeOK
<1>7. /\ made'[p] + W(Owes(req'[r], p)) + Open(p)' + reopened[p]
           <= made[p] + W(Owes(req[r], p)) + Open(p) + reopened'[p]
      /\ ran'[p] + W(Executes(req'[r], p)) + Open(p)' + reopened[p]
           <= ran[p] + W(Executes(req[r], p)) + Open(p) + reopened'[p]
  BY <1>1, <1>4, <1>5, <1>6 DEF W
<1>8. plan[p].home = "agent" => plan[p].used /\ saved'[p].used /\ saved'[p].home = "agent"
  BY <1>1, <1>3 DEF RequestOf, PlanOf
<1>9. plan[p].home = "gone" => ~plan[p].used
  BY <1>1 DEF PlanOf
<1>10. ASSUME NEW o \in Plans \ {p}
      PROVE  /\ plan'[o] = plan[o] /\ made'[o] = made[o]
             /\ ran'[o] = ran[o] /\ reopened'[o] = reopened[o]
             /\ (o \in lost => o \in lost')
             /\ (saved'[o] = saved[o] \/ saved'[o] = Written(plan')[o])
  BY <1>3, <1>6
<1>11. plan'[p].home = "agent" =>
       /\ saved'[p].home = "agent"
       /\ saved'[p].used \/ ~plan'[p].used \/ (made'[p] <= reopened'[p] /\ ran'[p] <= reopened'[p])
       /\ saved'[p].used /\ ~plan'[p].used => p \in lost'
  BY <1>8
<1>12. made'[p] >= made[p]
  BY <1>1
<1>13. (req'[r] # Free => req'[r].plan = p)
       /\ (req'[r] # Free =>
            /\ plan[p].home # "none"
            /\ plan[p].home = "agent" => plan'[p].used /\ saved'[p].used
            /\ req'[r].pc = "scan" \/ (req'[r].door = "guided" /\ req'[r].pc # "import") => made'[p] > 0)
  BY <1>2
<1>14. /\ p \in Plans /\ plan'[p].home = plan[p].home
       /\ plan'[p].home = "gone" => ~plan'[p].used
       /\ plan'[p].used /\ req'[r] = Free => Came(p)'
       /\ \A q \in Requests \ {r} : req'[q] = req[q]
  BY <1>1, <1>2, <1>9
<1>. QED  BY <1>7, <1>10, <1>11, <1>12, <1>13, <1>14, OneMoves

LEMMA Enters ==
  ASSUME IInv, TypeOK', NEW r \in Requests, NEW p \in Plans, req[r] = Free,
         NEW door, NEW pc, Enter(r, p, door, pc),
         pc # "scan", door = "guided" => pc = "import",
         plan[p].home \in {"copilot", "agent"}, ~plan[p].used, plan' = Marked(p, TRUE),
         plan[p].home = "agent" => saved' = Written(plan'), plan[p].home # "agent" => saved' = saved,
         made' = made, ran' = ran, reopened' = reopened, lost' = lost
  PROVE  IInv'
<1>1. /\ DOMAIN req = Requests /\ DOMAIN plan = Plans /\ plan[p] \in Plan
      /\ made[p] \in Nat /\ ran[p] \in Nat /\ reopened[p] \in Nat
  BY DEF IInv, TypeOK
<1>2. /\ \A q \in Requests \ {r} : req'[q] = req[q]
      /\ req'[r] = [pc |-> pc, plan |-> p, door |-> door]
  BY <1>1 DEF Enter
<1>3. req'[r].plan = p /\ req'[r].door = door /\ req'[r].pc = pc
  BY <1>2
<1>4. /\ \A o \in Plans \ {p} : plan'[o] = plan[o]
      /\ plan'[p].home = plan[p].home /\ plan'[p].used
  BY <1>1 DEF Marked, Plan
<1>5. /\ \A o \in Plans : saved'[o] = saved[o] \/ saved'[o] = Written(plan')[o]
      /\ plan[p].home = "agent" => saved'[p] = plan'[p]
  BY <1>4 DEF Written
<1>6. Open(p) = 1 /\ Open(p)' = 0
  BY <1>4 DEF Open
<1>7. ~Executes(req[r], p) /\ ~Owes(req[r], p)
  BY DEF Executes, Owes
<1>8. /\ made'[p] + W(Owes(req'[r], p)) + Open(p)' + reopened[p]
           <= made[p] + W(Owes(req[r], p)) + Open(p) + reopened'[p]
      /\ ran'[p] + W(Executes(req'[r], p)) + Open(p)' + reopened[p]
           <= ran[p] + W(Executes(req[r], p)) + Open(p) + reopened'[p]
  BY <1>1, <1>6, <1>7 DEF W
<1>9. req'[r] # Free
  BY <1>2 DEF Free
<1>10. ASSUME NEW o \in Plans \ {p}
      PROVE  /\ plan'[o] = plan[o] /\ made'[o] = made[o]
             /\ ran'[o] = ran[o] /\ reopened'[o] = reopened[o]
             /\ (o \in lost => o \in lost')
             /\ (saved'[o] = saved[o] \/ saved'[o] = Written(plan')[o])
  BY <1>4, <1>5
<1>11. plan'[p].home = "agent" =>
       /\ saved'[p].home = "agent"
       /\ saved'[p].used \/ ~plan'[p].used \/ (made'[p] <= reopened'[p] /\ ran'[p] <= reopened'[p])
       /\ saved'[p].used /\ ~plan'[p].used => p \in lost'
  BY <1>4, <1>5
<1>12. req'[r] # Free =>
       /\ plan[p].home # "none"
       /\ plan[p].home = "agent" => plan'[p].used /\ saved'[p].used
       /\ req'[r].pc = "scan" \/ (req'[r].door = "guided" /\ req'[r].pc # "import") => made'[p] > 0
  BY <1>3, <1>4, <1>5
<1>13. made'[p] >= made[p]
  BY <1>1
<1>14. plan'[p].home # "gone"
  BY <1>4
<1>. QED  BY <1>2, <1>3, <1>4, <1>8, <1>9, <1>10, <1>11, <1>12, <1>13, <1>14, OneMoves
-----------------------------------------------------------------------------
(* The invariant, action by action.                                        *)
LEMMA PlansStep ==
  ASSUME IInv, TypeOK', NEW p \in Plans,
         \/ \E home \in {"copilot", "agent"}, kind \in {"project", "translation", "dry_run"} :
              MakePlan(p, home, kind)
         \/ Expire(p) \/ ReleaseUnreserved(p) \/ DropExpired(p) \/ ConsumeInVain(p)
         \/ SaveSnapshot(p)
  PROVE  IInv'
<1>1. /\ PlanOf(p) /\ TokensOf(p) /\ TypeOK
      /\ made[p] \in Nat /\ ran[p] \in Nat /\ reopened[p] \in Nat
      /\ plan[p] \in Plan /\ saved[p] \in Plan /\ DOMAIN plan = Plans /\ DOMAIN saved = Plans
  BY DEF IInv, TypeOK
<1>2. plan[p].home # "gone" /\ ~plan[p].used => made[p] <= reopened[p] /\ ran[p] <= reopened[p]
  BY <1>1, Spare
<1>3. CASE \E home \in {"copilot", "agent"}, kind \in {"project", "translation", "dry_run"} :
             MakePlan(p, home, kind)
  <2>1. PICK home \in {"copilot", "agent"}, kind \in {"project", "translation", "dry_run"} :
          MakePlan(p, home, kind)
    BY <1>3
  <2>2. /\ plan[p].home = "none" /\ ~plan[p].used
        /\ plan'[p].home = home /\ ~plan'[p].used
        /\ \A o \in Plans \ {p} : plan'[o] = plan[o]
    BY <1>1, <2>1 DEF MakePlan, New, Unmade
  <2>3. /\ req' = req /\ made' = made /\ ran' = ran /\ reopened' = reopened /\ lost' = lost
        /\ \A o \in Plans : saved'[o] = saved[o] \/ saved'[o] = Written(plan')[o]
        /\ home = "agent" => saved'[p] = plan'[p]
    BY <2>1, <2>2 DEF MakePlan, Written, history
  <2>4. Open(p)' + reopened[p] <= Open(p) + reopened'[p] /\ reopened[p] <= reopened'[p]
    BY <1>1, <2>2, <2>3 DEF Open
  <2>5. PlanOf(p)'
    BY <1>2, <2>2, <2>3 DEF PlanOf
  <2>. QED  BY <2>2, <2>3, <2>4, <2>5, NoneMoves
<1>4. CASE Expire(p)
  <2>1. /\ plan'[p].home = plan[p].home /\ plan'[p].used = plan[p].used
        /\ saved'[p].home = saved[p].home /\ saved'[p].used = saved[p].used
        /\ \A o \in Plans \ {p} : plan'[o] = plan[o] /\ saved'[o] = saved[o]
    BY <1>1, <1>4 DEF Expire, Plan
  <2>2. /\ req' = req /\ made' = made /\ ran' = ran /\ reopened' = reopened /\ lost' = lost
    BY <1>4 DEF Expire, history
  <2>3. Open(p)' + reopened[p] <= Open(p) + reopened'[p] /\ reopened[p] <= reopened'[p]
    BY <1>1, <2>1, <2>2 DEF Open
  <2>4. PlanOf(p)'
    BY <1>1, <2>1, <2>2 DEF PlanOf, Came
  <2>. QED  BY <2>1, <2>2, <2>3, <2>4, NoneMoves
<1>5. CASE ReleaseUnreserved(p)
  <2>1. /\ plan[p].home = "copilot" /\ plan'[p].home = "copilot" /\ ~plan'[p].used
        /\ \A o \in Plans \ {p} : plan'[o] = plan[o]
    BY <1>1, <1>5 DEF ReleaseUnreserved, Marked, Plan
  <2>2. /\ req' = req /\ saved' = saved /\ made' = made /\ ran' = ran /\ lost' = lost
        /\ reopened'[p] = reopened[p] + (IF plan[p].used THEN 1 ELSE 0)
        /\ \A o \in Plans \ {p} : reopened'[o] = reopened[o]
    BY <1>1, <1>5 DEF ReleaseUnreserved, Send, TypeOK
  <2>3. Open(p)' + reopened[p] <= Open(p) + reopened'[p] /\ reopened[p] <= reopened'[p]
    BY <1>1, <2>1, <2>2 DEF Open
  <2>4. PlanOf(p)'
    BY <2>1 DEF PlanOf
  <2>. QED  BY <2>1, <2>2, <2>3, <2>4, NoneMoves
<1>6. CASE DropExpired(p)
  <2>1. /\ plan[p].home = "copilot" /\ plan'[p].home = "gone" /\ ~plan'[p].used
        /\ \A o \in Plans \ {p} : plan'[o] = plan[o]
    BY <1>1, <1>6 DEF DropExpired, Gone, Unmade
  <2>2. /\ req' = req /\ saved' = saved /\ made' = made /\ ran' = ran /\ lost' = lost
        /\ reopened' = reopened
    BY <1>6 DEF DropExpired, Send
  <2>3. Open(p)' + reopened[p] <= Open(p) + reopened'[p] /\ reopened[p] <= reopened'[p]
    BY <1>1, <2>1, <2>2 DEF Open
  <2>4. PlanOf(p)'
    BY <2>1 DEF PlanOf
  <2>. QED  BY <2>1, <2>2, <2>3, <2>4, NoneMoves
<1>7. CASE ConsumeInVain(p)
  <2>1. /\ plan[p].home = "agent" /\ plan'[p].home = "agent" /\ ~plan[p].used
        /\ \A o \in Plans \ {p} : plan'[o] = plan[o]
        /\ plan'[p].used => p \in lost'
    BY <1>1, <1>7 DEF ConsumeInVain, Marked, Plan, Lose
  <2>2. /\ req' = req /\ made' = made /\ ran' = ran /\ reopened' = reopened
        /\ \A o \in Plans : o \in lost => o \in lost'
    BY <1>7 DEF ConsumeInVain, Send, Lose
  <2>3. /\ \A o \in Plans \ {p} : saved'[o] = saved[o] \/ saved'[o] = Written(plan')[o]
        /\ saved'[p].home = "agent"
        /\ saved'[p].used /\ ~plan'[p].used => p \in lost'
    <3>1. CASE saved' = Written(plan) /\ plan' = plan
      BY <1>1, <2>1, <3>1 DEF Written
    <3>2. CASE saved' = saved /\ Lose(p)
      BY <1>1, <2>1, <3>2 DEF PlanOf, Lose
    <3>3. CASE saved' = Written(Marked(p, TRUE)) /\ Lose(p) /\ plan' = plan
      BY <1>1, <2>1, <3>3 DEF Written, Marked, Plan, Lose
    <3>. QED  BY <1>7, <3>1, <3>2, <3>3 DEF ConsumeInVain
  <2>4. Open(p)' + reopened[p] <= Open(p) + reopened'[p] /\ reopened[p] <= reopened'[p]
    BY <1>1, <2>1, <2>2 DEF Open
  <2>5. PlanOf(p)'
    BY <1>2, <2>1, <2>2, <2>3 DEF PlanOf, Came
  <2>. QED  BY <2>1, <2>2, <2>3, <2>4, <2>5, NoneMoves
<1>8. CASE SaveSnapshot(p)
  <2>1. /\ plan' = plan /\ req' = req /\ made' = made /\ ran' = ran /\ reopened' = reopened
        /\ lost' = lost /\ saved' = Written(plan') /\ plan[p].home = "agent"
    BY <1>8 DEF SaveSnapshot, process, history
  <2>2. PlanOf(p)'
    BY <2>1, SaveKeeps
  <2>3. plan[p].used => saved'[p].used
    BY <2>1 DEF Written
  <2>4. Open(p)' + reopened[p] <= Open(p) + reopened'[p] /\ reopened[p] <= reopened'[p]
    BY <1>1, <2>1 DEF Open
  <2>. QED  BY <2>1, <2>2, <2>3, <2>4, NoneMoves
<1>. QED  BY <1>3, <1>4, <1>5, <1>6, <1>7, <1>8

LEMMA ApproveStep ==
  ASSUME IInv, TypeOK', NEW r \in Requests, NEW p \in Plans, Approve(r, p)
  PROVE  IInv'
<1>1. req[r] = Free
  BY DEF Approve, Reserve, ReserveTranslation, Consume, ConsumeIf, At, Free, IInv, TypeOK, Handling
<1>2. ASSUME NEW door \in {"execute", "guided"}, Reserve(r, p, door)  PROVE IInv'
  BY <1>1, <1>2, Enters DEF Reserve, Approvable, Send
<1>3. ASSUME ReserveTranslation(r, p)  PROVE IInv'
  BY <1>1, <1>3, Enters DEF ReserveTranslation, Approvable, Send
<1>4. ASSUME NEW kind, NEW pc, pc # "scan", Consume(r, p, kind, pc)  PROVE IInv'
  <2>1. /\ plan[p].home = "agent" /\ ~plan[p].used /\ plan' = Marked(p, TRUE)
        /\ made' = made /\ ran' = ran /\ reopened' = reopened
    BY <1>4 DEF Consume, ConsumeIf, Approvable, Send
  <2>2. CASE saved' = Written(plan') /\ lost' = lost
             /\ Enter(r, p, IF kind = "project" THEN "projects" ELSE "jobs", pc)
    <3>1. PICK door : door = IF kind = "project" THEN "projects" ELSE "jobs"
      OBVIOUS
    <3>. QED  BY <1>1, <1>4, <2>1, <2>2, <3>1, Enters
  <2>3. CASE Lose(p) /\ saved' = saved /\ req' = req
    <3>1. /\ DOMAIN plan = Plans /\ plan[p] \in Plan /\ PlanOf(p) /\ TokensOf(p) /\ TypeOK
          /\ reopened[p] \in Nat
      BY DEF IInv, TypeOK
    <3>2. made[p] <= reopened[p] /\ ran[p] <= reopened[p]
      BY <2>1, <3>1, Spare
    <3>3. /\ \A o \in Plans \ {p} : plan'[o] = plan[o]
          /\ plan'[p].home = "agent" /\ plan'[p].used
      BY <2>1, <3>1 DEF Marked, Plan
    <3>4. p \in lost' /\ \A o \in Plans : o \in lost => o \in lost'
      BY <2>3 DEF Lose
    <3>5. Open(p)' + reopened[p] <= Open(p) + reopened'[p] /\ reopened[p] <= reopened'[p]
      BY <2>1, <3>1, <3>3 DEF Open
    <3>6. PlanOf(p)'
      BY <2>1, <2>3, <3>1, <3>2, <3>3, <3>4 DEF PlanOf, Came
    <3>. QED  BY <2>1, <2>3, <3>3, <3>4, <3>5, <3>6, NoneMoves
  <2>. QED  BY <1>4, <2>2, <2>3 DEF Consume, ConsumeIf
<1>. QED  BY <1>2, <1>3, <1>4 DEF Approve
LEMMA HandlerStep ==
  ASSUME IInv, TypeOK', NEW r \in Requests, Handler(r)
  PROVE  IInv'
<1>1. req[r] # Free
  BY DEF Handler, Import, ScanFails, ProjectMade, RefuseStart, StartWithoutFolder,
         Start, Sign, Reply, BeginWork, DryRun, At, Free
<1>2. PICK p : p = req[r].plan
  OBVIOUS
<1>3. /\ p \in Plans /\ req[r] \in Handling /\ DOMAIN req = Requests
      /\ RequestOf(r, p) /\ PlanOf(p) /\ Executes(req[r], p)
      /\ made[p] \in Nat /\ ran[p] \in Nat /\ reopened[p] \in Nat
      /\ DOMAIN made = Plans /\ DOMAIN ran = Plans
  BY <1>1, <1>2, Handled DEF IInv, TypeOK
<1>4. req[r].door \in IF req[r].pc \in {"import", "scan"} THEN {"execute", "guided", "projects"}
                                                        ELSE {"guided", "translate", "jobs"}
  BY <1>1 DEF IInv, TypeOK
<1>5. CASE Import(r)
  <2>1. CASE Release(r, 0) \/ Release(r, 1)
    <3>1. req[r].pc = "import" /\ Owes(req[r], p)
      BY <1>3, <1>5 DEF Import, At, Owes
    <3>2. made' = made /\ ran' = ran /\ reopened' = reopened
      BY <1>5, <2>1, <3>1, <1>3 DEF Import, Release, Answer, Go, Free, Handling
    <3>. QED  BY <1>1, <1>2, <2>1, <3>1, <3>2, Released
  <2>2. CASE made' = [made EXCEPT ![p] = @ + 1] /\ Go(r, "scan") /\ UNCHANGED <<plan, saved, lost>>
    <3>1. /\ \A q \in Requests \ {r} : req'[q] = req[q]
          /\ req'[r].plan = p /\ req'[r].door = req[r].door /\ req'[r].pc = "scan"
      BY <1>2, <1>3, <2>2 DEF Go, Handling
    <3>2. req'[r] # Free
      BY <3>1 DEF Free
    <3>3. /\ made'[p] = made[p] + 1 /\ ran' = ran /\ reopened' = reopened
          /\ \A o \in Plans \ {p} : made'[o] = made[o]
      BY <1>3, <1>5, <2>2 DEF Import
    <3>4. /\ Owes(req[r], p) /\ ~Owes(req'[r], p) /\ Executes(req'[r], p)
      BY <1>3, <1>4, <1>5, <3>1, <3>2 DEF Owes, Executes, Import, At
    <3>5. Open(p) \in {0, 1} /\ Open(p)' = Open(p)
      BY <2>2 DEF Open
    <3>6. /\ made'[p] + W(Owes(req'[r], p)) + Open(p)' + reopened[p]
               <= made[p] + W(Owes(req[r], p)) + Open(p) + reopened'[p]
          /\ ran'[p] + W(Executes(req'[r], p)) + Open(p)' + reopened[p]
               <= ran[p] + W(Executes(req[r], p)) + Open(p) + reopened'[p]
      BY <1>3, <3>3, <3>4, <3>5 DEF W
    <3>7. plan'[p].home = "agent" => plan'[p].used /\ saved'[p].used /\ saved'[p].home = "agent"
      BY <1>3, <2>2 DEF RequestOf, PlanOf
    <3>8. /\ plan'[p].home = "gone" => ~plan'[p].used
          /\ plan'[p].home = plan[p].home /\ plan[p].home # "none"
      BY <1>3, <2>2 DEF RequestOf, PlanOf
    <3>9. made'[p] > 0 /\ made'[p] >= made[p]
      BY <1>3, <3>3
    <3>10. plan'[p].home = "agent" =>
             /\ saved'[p].home = "agent"
             /\ saved'[p].used \/ ~plan'[p].used \/ (made'[p] <= reopened'[p] /\ ran'[p] <= reopened'[p])
             /\ saved'[p].used /\ ~plan'[p].used => p \in lost'
      BY <3>7
    <3>11. req'[r] # Free =>
             /\ plan[p].home # "none"
             /\ plan[p].home = "agent" => plan'[p].used /\ saved'[p].used
             /\ req'[r].pc = "scan" \/ (req'[r].door = "guided" /\ req'[r].pc # "import")
                  => made'[p] > 0
      BY <3>7, <3>8, <3>9
    <3>12. ASSUME NEW o \in Plans \ {p}
           PROVE  /\ plan'[o] = plan[o] /\ made'[o] = made[o]
                  /\ ran'[o] = ran[o] /\ reopened'[o] = reopened[o]
                  /\ (o \in lost => o \in lost')
                  /\ (saved'[o] = saved[o] \/ saved'[o] = Written(plan')[o])
      BY <2>2, <3>3
    <3>13. /\ p \in Plans /\ plan'[p].home = plan[p].home /\ made'[p] >= made[p]
           /\ plan'[p].home = "gone" => ~plan'[p].used
           /\ plan'[p].used /\ req'[r] = Free => Came(p)'
           /\ \A q \in Requests \ {r} : req'[q] = req[q]
           /\ req[r] # Free => req[r].plan = p
           /\ req'[r] # Free => req'[r].plan = p
      BY <1>2, <1>3, <3>1, <3>2, <3>8, <3>9
    <3>. QED  BY <1>1, <3>6, <3>10, <3>11, <3>12, <3>13, OneMoves
  <2>. QED  BY <1>2, <1>5, <2>1, <2>2 DEF Import
<1>6. CASE ScanFails(r)
  <2>1. /\ made' = made /\ ran' = ran /\ reopened' = [reopened EXCEPT ![p] = @ + 1]
        /\ Release(r, 0) \/ Release(r, 1)
    BY <1>2, <1>6 DEF ScanFails
  <2>. QED  BY <1>1, <1>2, <2>1, Released
<1>7. CASE ProjectMade(r)
  <2>1. /\ plan' = plan /\ made' = made /\ ran' = ran /\ reopened' = reopened /\ lost' = lost
        /\ saved' = saved \/ saved' = Written(plan)
        /\ req[r].pc = "scan" /\ (Go(r, "start") \/ Answer(r))
    BY <1>7 DEF ProjectMade, history, At
  <2>2. made[p] > 0
    BY <1>3, <2>1 DEF RequestOf
  <2>3. Came(p)'
    BY <2>1, <2>2 DEF Came
  <2>. QED  BY <1>1, <1>2, <2>1, <2>3, Goes, Ends
<1>8. CASE RefuseStart(r)
  <2>1. CASE req[r].door = "guided"
    <3>1. /\ Answer(r) /\ plan' = plan /\ saved' = saved /\ lost' = lost
          /\ made' = made /\ ran' = ran /\ reopened' = reopened /\ req[r].pc = "start"
      BY <1>8, <2>1 DEF RefuseStart, At
    <3>2. Came(p)'
      BY <1>3, <2>1, <3>1 DEF RequestOf, Came
    <3>. QED  BY <1>1, <1>2, <3>1, <3>2, Ends
  <2>2. CASE req[r].door # "guided"
    <3>1. /\ Release(r, 0) /\ made' = made /\ ran' = ran /\ reopened' = reopened
          /\ req[r].pc = "start"
      BY <1>8, <2>2 DEF RefuseStart, At
    <3>2. Owes(req[r], p)
      BY <1>3, <1>4, <2>2, <3>1 DEF Owes
    <3>. QED  BY <1>1, <1>2, <3>1, <3>2, Released
  <2>. QED  BY <2>1, <2>2
<1>9. CASE StartWithoutFolder(r)
  <2>1. /\ Release(r, 0) /\ made' = made /\ ran' = ran /\ reopened' = reopened
        /\ req[r].pc = "start" /\ req[r].door # "guided"
    BY <1>9 DEF StartWithoutFolder, At
  <2>2. Owes(req[r], p)
    BY <1>3, <1>4, <2>1 DEF Owes
  <2>. QED  BY <1>1, <1>2, <2>1, <2>2, Released
<1>10. CASE Start(r)
  <2>1. /\ plan' = plan /\ saved' = saved /\ made' = made /\ ran' = ran /\ reopened' = reopened
        /\ lost' = lost /\ req[r].pc = "start" /\ Go(r, "tail")
    BY <1>10 DEF Start, history, At
  <2>. QED  BY <1>1, <1>2, <2>1, Goes
<1>11. CASE Sign(r)
  <2>1. /\ plan' = plan /\ made' = made /\ ran' = ran /\ reopened' = reopened /\ req[r].pc = "tail"
        /\ saved' = saved \/ saved' = Written(plan)
        /\ \/ lost' = lost /\ (Go(r, "work") \/ Go(r, "reply"))
           \/ Answer(r) /\ Lose(p)
    BY <1>2, <1>11 DEF Sign, At
  <2>2. CASE lost' = lost /\ (Go(r, "work") \/ Go(r, "reply"))
    BY <1>1, <1>2, <2>1, <2>2, Goes
  <2>3. CASE Answer(r) /\ Lose(p)
    <3>1. Came(p)' /\ \A o \in Plans : o \in lost => o \in lost'
      BY <2>3 DEF Lose, Came
    <3>. QED  BY <1>1, <1>2, <2>1, <2>3, <3>1, Ends
  <2>. QED  BY <2>1, <2>2, <2>3
<1>12. CASE Reply(r)
  <2>1. /\ plan' = plan /\ made' = made /\ ran' = ran /\ reopened' = reopened /\ req[r].pc = "reply"
        /\ saved' = saved \/ saved' = Written(plan)
        /\ \/ lost' = lost /\ Go(r, "work")
           \/ Answer(r) /\ Lose(p)
    BY <1>2, <1>12 DEF Reply, At
  <2>2. CASE lost' = lost /\ Go(r, "work")
    BY <1>1, <1>2, <2>1, <2>2, Goes
  <2>3. CASE Answer(r) /\ Lose(p)
    <3>1. Came(p)' /\ \A o \in Plans : o \in lost => o \in lost'
      BY <2>3 DEF Lose, Came
    <3>. QED  BY <1>1, <1>2, <2>1, <2>3, <3>1, Ends
  <2>. QED  BY <2>1, <2>2, <2>3
<1>13. CASE BeginWork(r)
  <2>1. /\ plan' = plan /\ saved' = saved /\ made' = made /\ reopened' = reopened /\ lost' = lost
        /\ ran' = [ran EXCEPT ![p] = @ + 1] /\ Answer(r)
    BY <1>2, <1>13 DEF BeginWork
  <2>2. Came(p)'
    BY <1>3, <2>1 DEF Came
  <2>. QED  BY <1>1, <1>2, <2>1, <2>2, Ends
<1>14. CASE DryRun(r)
  <2>1. /\ plan' = plan /\ made' = made /\ reopened' = reopened /\ Answer(r)
        /\ saved' = saved \/ saved' = Written(plan)
        /\ \/ ran' = [ran EXCEPT ![p] = @ + 1] /\ (lost' = lost \/ Lose(p))
           \/ ran' = ran /\ Lose(p)
    BY <1>2, <1>14 DEF DryRun
  <2>2. Came(p)' /\ \A o \in Plans : o \in lost => o \in lost'
    BY <1>3, <2>1 DEF Came, Lose
  <2>. QED  BY <1>1, <1>2, <2>1, <2>2, Ends
<1>. QED  BY <1>5, <1>6, <1>7, <1>8, <1>9, <1>10, <1>11, <1>12, <1>13, <1>14 DEF Handler

(* A restart ends every handler and takes the agent's plans from the file. *)
LEMMA CrashStep ==
  ASSUME IInv, TypeOK', Crash
  PROVE  IInv'
<1>1. /\ made' = made /\ ran' = ran /\ reopened' = reopened /\ saved' = saved
      /\ \A r \in Requests : req'[r] = Free
      /\ \A o \in Plans : o \in lost => o \in lost'
  BY DEF Crash, disk
<1>2. \A r \in Requests, p \in Plans : ~Executes(req'[r], p) /\ ~Owes(req'[r], p)
  BY <1>1 DEF Executes, Owes
<1>3. ASSUME NEW p \in Plans  PROVE TokensOf(p)' /\ PlanOf(p)'
  <2>1. /\ made[p] \in Nat /\ ran[p] \in Nat /\ reopened[p] \in Nat
        /\ TokensOf(p) /\ PlanOf(p) /\ TypeOK
    BY DEF IInv, TypeOK
  <2>2. Owing(p)' = {} /\ Executing(p)' = {}
    BY <1>2 DEF Owing, Executing
  <2>3. Cardinality(Owing(p)') = 0 /\ Cardinality(Executing(p)') = 0
    BY <2>2, FS_EmptySet
  <2>4. Owing(p) \subseteq Requests /\ Executing(p) \subseteq Requests
    BY DEF Owing, Executing
  <2>5. Cardinality(Owing(p)) \in Nat /\ Cardinality(Executing(p)) \in Nat
    BY <2>4, PlanAssumption, FS_Subset, FS_CardinalityType
  <2>6. made[p] + Open(p) <= 1 + reopened[p] /\ ran[p] + Open(p) <= 1 + reopened[p]
    BY <2>1, <2>5 DEF TokensOf, Open
  <2>7. CASE plan[p].home = "copilot"
    <3>1. plan'[p] = Gone
      BY <2>7 DEF Crash
    <3>2. Open(p)' = 0
      BY <3>1 DEF Open, Gone, Unmade
    <3>3. TokensOf(p)'
      BY <1>1, <2>1, <2>3, <2>6, <3>2 DEF TokensOf, Open
    <3>. QED  BY <3>1, <3>3 DEF PlanOf, Gone, Unmade
  <2>8. CASE plan[p].home = "agent"
    <3>1. plan'[p] = saved[p] /\ saved[p].home = "agent"
      BY <2>1, <2>8 DEF Crash, PlanOf
    <3>2. ~saved[p].used => made[p] <= reopened[p] /\ ran[p] <= reopened[p]
      BY <2>1, <2>8 DEF PlanOf
    <3>3. saved[p].used => Open(p)' = 0
      BY <3>1 DEF Open
    <3>4. Open(p)' \in {0, 1}
      BY DEF Open
    <3>5. TokensOf(p)'
      BY <1>1, <2>1, <2>3, <2>6, <3>2, <3>3, <3>4 DEF TokensOf, Open
    <3>6. saved[p].used => Came(p)'
      <4>1. CASE \E r \in Requests : Executes(req[r], p)
        BY <4>1 DEF Executes, Crash, Came
      <4>2. CASE \A r \in Requests : ~Executes(req[r], p)
        BY <1>1, <2>1, <2>8, <4>2 DEF PlanOf, Came
      <4>. QED  BY <4>1, <4>2
    <3>. QED  BY <1>1, <3>1, <3>2, <3>5, <3>6 DEF PlanOf
  <2>9. CASE plan[p].home \notin {"copilot", "agent"}
    <3>1. plan'[p] = plan[p]
      BY <2>9 DEF Crash
    <3>2. Open(p)' = Open(p)
      BY <3>1 DEF Open
    <3>3. TokensOf(p)'
      BY <1>1, <2>1, <2>3, <2>6, <3>2 DEF TokensOf, Open
    <3>4. plan[p].used => Came(p)'
      <4>1. CASE \E r \in Requests : Executes(req[r], p)
        BY <4>1 DEF Executes, Crash, Came
      <4>2. CASE \A r \in Requests : ~Executes(req[r], p)
        BY <1>1, <2>1, <4>2 DEF PlanOf, Came
      <4>. QED  BY <4>1, <4>2
    <3>. QED  BY <1>1, <2>1, <2>9, <3>1, <3>3, <3>4 DEF PlanOf
  <2>. QED  BY <2>7, <2>8, <2>9
<1>. QED  BY <1>2, <1>3 DEF IInv

-----------------------------------------------------------------------------
(* The invariant holds: a plan has one token for everything it may still   *)
(* bring about.                                                            *)
THEOREM Invariant == Spec => []IInv
<1>1. Init => IInv
  <2>. SUFFICES ASSUME Init  PROVE IInv
    OBVIOUS
  <2>1. TypeOK
    BY DEF Init, TypeOK, Unmade, Plan, Ids
  <2>2. ASSUME NEW p \in Plans  PROVE TokensOf(p) /\ PlanOf(p)
    <3>1. Owing(p) = {} /\ Executing(p) = {}
      BY DEF Init, Owing, Executing, Owes, Executes
    <3>2. Cardinality(Owing(p)) = 0 /\ Cardinality(Executing(p)) = 0
      BY <3>1, FS_EmptySet
    <3>. QED  BY <3>2 DEF Init, TokensOf, PlanOf, Open, Ids, Unmade
  <2>3. \A r \in Requests, p \in Plans : ~Executes(req[r], p)
    BY DEF Init, Executes
  <2>. QED  BY <2>1, <2>2, <2>3 DEF IInv
<1>2. IInv /\ [Next]_vars => IInv'
  <2>. SUFFICES ASSUME IInv, [Next]_vars  PROVE IInv'
    OBVIOUS
  <2>1. TypeOK'
    BY TypeStep DEF IInv
  <2>2. CASE Crash
    BY <2>1, <2>2, CrashStep
  <2>3. CASE Lock \/ Unlock \/ UNCHANGED vars
    <3>1. /\ plan' = plan /\ req' = req /\ saved' = saved /\ made' = made /\ ran' = ran
          /\ reopened' = reopened /\ lost' = lost
      BY <2>3 DEF Lock, Unlock, vars, process, disk, history
    <3>. QED  BY <2>1, <3>1 DEF IInv, TokensOf, PlanOf, RequestOf, Owing, Executing, Open, Came
  <2>. QED  BY <2>1, <2>2, <2>3, PlansStep, ApproveStep, HandlerStep DEF Next
<1>. QED  BY <1>1, <1>2, PTL DEF Spec

(* However approvals of a plan, failures of their handlers, faults of the  *)
(* stores and restarts follow each other, it makes one project, and one    *)
(* more for each time it is given back after that (create_project,         *)
(* approve_and_execute_plan, consume_plan).                                *)
THEOREM OneProject == Spec => []OneProjectPerPlan
<1>1. IInv => OneProjectPerPlan
  <2>. SUFFICES ASSUME IInv, NEW p \in Plans  PROVE made[p] <= 1 + reopened[p]
    BY DEF OneProjectPerPlan
  <2>1. Owing(p) \subseteq Requests
    BY DEF Owing
  <2>2. Cardinality(Owing(p)) \in Nat
    BY <2>1, PlanAssumption, FS_Subset, FS_CardinalityType
  <2>3. made[p] \in Nat /\ reopened[p] \in Nat /\ TokensOf(p)
    BY DEF IInv, TypeOK
  <2>. QED  BY <2>2, <2>3 DEF TokensOf, Open
<1>. QED  BY <1>1, Invariant, PTL

(* And its work is begun once: no double approval and no retry after an    *)
(* error, a lost answer or a restart begins it again.                      *)
THEOREM OneRun == Spec => []OneRunPerPlan
<1>1. IInv => OneRunPerPlan
  <2>. SUFFICES ASSUME IInv, NEW p \in Plans  PROVE ran[p] <= 1 + reopened[p]
    BY DEF OneRunPerPlan
  <2>1. Executing(p) \subseteq Requests
    BY DEF Executing
  <2>2. Cardinality(Executing(p)) \in Nat
    BY <2>1, PlanAssumption, FS_Subset, FS_CardinalityType
  <2>3. ran[p] \in Nat /\ reopened[p] \in Nat /\ TokensOf(p)
    BY DEF IInv, TypeOK
  <2>. QED  BY <2>2, <2>3 DEF TokensOf, Open
<1>. QED  BY <1>1, Invariant, PTL

(* No handler ends with its plan used and nothing done, unless the process *)
(* or a write of the registry failed: every other way out releases it.     *)
THEOREM UsedIsDone == Spec => []UsedMeansDone
<1>1. IInv => UsedMeansDone
  BY DEF IInv, PlanOf, Came, Executes, UsedMeansDone
<1>. QED  BY <1>1, Invariant, PTL
=============================================================================
