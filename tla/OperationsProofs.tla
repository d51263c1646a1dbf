-------------------------- MODULE OperationsProofs --------------------------
(***************************************************************************)
(* Theorems about the part of the console that runs robots.                *)
(***************************************************************************)
EXTENDS Operations, SublistsProofs

(***************************************************************************)
(* The rows of the realtime monitor                                        *)
(***************************************************************************)
\* The page's record has its fields, and no refresh is under way, and nothing held,
\* while it shows no execution.
LineInv ==
    /\ line = [session |-> line.session, ids |-> line.ids, plan |-> line.plan,
               map |-> line.map, held |-> line.held]
    /\ NoGhostHolds

LEMMA LineInit == TimelineInit => LineInv
  BY DEF TimelineInit, LineInv, NoGhostHolds

LEMMA LinePage == ASSUME LineInv, PageSteps PROVE LineInv'
<1>1. CASE pollSession
  BY <1>1 DEF LineInv, NoGhostHolds, pollSession
<1>2. ASSUME NEW p \in polled, SessionPolled(p) PROVE LineInv'
  BY <1>2 DEF LineInv, NoGhostHolds, SessionPolled, CancelReads
<1>3. CASE RefreshTick
  BY <1>3 DEF LineInv, NoGhostHolds, RefreshTick
<1>4. ASSUME NEW r \in reads, ExecutionRead(r) PROVE LineInv'
  BY <1>4 DEF LineInv, NoGhostHolds, ExecutionRead
<1>5. ASSUME NEW r \in reads, RefreshDone(r) PROVE LineInv'
  BY <1>5 DEF LineInv, NoGhostHolds, RefreshDone
<1>6. CASE SessionGone
  BY <1>6 DEF LineInv, NoGhostHolds, SessionGone, CancelReads
<1> QED BY <1>1, <1>2, <1>3, <1>4, <1>5, <1>6 DEF PageSteps

LEMMA LineServer == ASSUME LineInv, ServerSteps PROVE LineInv'
<1>1. UNCHANGED <<line, reads>>
  BY DEF ServerSteps, startPlanExecution, runPlanExecution, dispatchStep, StepEnds,
         syncExecutions, StopSession
<1> QED BY <1>1 DEF LineInv, NoGhostHolds

\* Once the page shows no active execution it shows no resource as held, and no
\* answer under way can bring one back: refreshes are cancelled whenever the ids go.
THEOREM NoGhostHoldsCorrect == Spec => []NoGhostHolds
<1>1. Init => LineInv
  BY LineInit DEF Init
<1>2. LineInv /\ [Next]_vars => LineInv'
  <2> SUFFICES ASSUME LineInv, [Next]_vars PROVE LineInv'
    OBVIOUS
  <2>1. CASE UNCHANGED lineVars
    BY <2>1 DEF LineInv, NoGhostHolds, lineVars
  <2>2. CASE TimelineNext
    BY <2>2, LinePage, LineServer DEF TimelineNext
  <2> QED BY <2>1, <2>2 DEF Next, vars, lineVars
<1>3. LineInv => NoGhostHolds
  BY DEF LineInv
<1> QED BY <1>1, <1>2, <1>3, PTL DEF Spec

(***************************************************************************)
(* The rows of the realtime monitor: lists of blocks that sum up a set     *)
(***************************************************************************)
Jobs == {x.task : x \in UNION {PlanOf[e] : e \in Runs}}
\* What a step of an execution, an assignment and a block have in common.
StepRecs == [agent : Workers, task : Jobs, order : Nat, status : StepStatus]
Blocks == [task : Jobs, order : Nat, status : StepStatus, total : Nat, completed : Nat]

IsWork(s) == s.task \in Jobs /\ s.order \in Nat /\ s.status \in StepStatus
Weight(s) == sequenceStatusRank[s.status]

\* The blocks B stand for the work S: each has the order and the status of some of
\* it, and nothing in S comes before, or weighs more than, the block of its task.
Covers(b, s) == b.task = s.task /\ b.order <= s.order /\ Weight(s) <= Weight(b)
Sums(B, S) ==
    /\ \A b \in B : IsWork(b) /\ (\E s \in S : s.task = b.task /\ s.order = b.order)
                              /\ \E s \in S : s.task = b.task /\ s.status = b.status
    /\ \A s \in S : IsWork(s) /\ \E b \in B : Covers(b, s)

\* A task has one block.
Once(t) == \A i, j \in DOMAIN t : t[i].task = t[j].task => i = j

LEMMA Weights ==
    ASSUME NEW c \in StepStatus, NEW n \in StepStatus
    PROVE  /\ mergeSequenceStatus(c, n) \in {c, n} /\ mergeSequenceStatus(c, n) \in StepStatus
           /\ sequenceStatusRank[c] <= sequenceStatusRank[mergeSequenceStatus(c, n)]
           /\ sequenceStatusRank[n] <= sequenceStatusRank[mergeSequenceStatus(c, n)]
           /\ sequenceStatusRank[c] \in 1 .. 5
           /\ sequenceStatusRank[c] = 5 <=> c = "running"
<1>1. \A s \in StepStatus : sequenceStatusRank[s] \in 1 .. 5 /\ (sequenceStatusRank[s] = 5 <=> s = "running")
  BY DEF StepStatus, sequenceStatusRank
<1> QED BY <1>1 DEF mergeSequenceStatus

LEMMA LesserOf ==
    ASSUME NEW m \in Nat, NEW n \in Nat
    PROVE  Min({m, n}) \in {m, n} /\ Min({m, n}) <= m /\ Min({m, n}) <= n
<1> DEFINE I == {m, n}
<1>1. I \in SUBSET Nat /\ I # {}
  OBVIOUS
<1> HIDE DEF I
<1>2. Min(I) \in I /\ \A j \in I : Min(I) <= j
  BY <1>1, LeastOf
<1> QED BY <1>2 DEF I

LEMMA CoversOn ==
    ASSUME NEW b, NEW c, NEW s, IsWork(b), IsWork(c), IsWork(s), Covers(b, c), Covers(c, s)
    PROVE  Covers(b, s)
<1>1. Weight(b) \in 1 .. 5 /\ Weight(c) \in 1 .. 5 /\ Weight(s) \in 1 .. 5
  BY Weights DEF IsWork, Weight
<1> QED BY <1>1 DEF Covers, IsWork

\* What sums up a sum, and more, sums up all of it.
LEMMA SumsOn ==
    ASSUME NEW B, NEW C, NEW P, NEW S, Sums(B, P \cup C), Sums(C, S)
    PROVE  Sums(B, P \cup S)
<1>1. ASSUME NEW b \in B
      PROVE  /\ IsWork(b) /\ \E s \in P \cup S : s.task = b.task /\ s.order = b.order
             /\ \E s \in P \cup S : s.task = b.task /\ s.status = b.status
  <2>1. IsWork(b)
    BY DEF Sums
  <2>2. \E s \in P \cup S : s.task = b.task /\ s.order = b.order
    <3>1. PICK c \in P \cup C : c.task = b.task /\ c.order = b.order
      BY DEF Sums
    <3>2. CASE c \in C
      BY <3>1, <3>2 DEF Sums
    <3> QED BY <3>1, <3>2
  <2>3. \E s \in P \cup S : s.task = b.task /\ s.status = b.status
    <3>1. PICK c \in P \cup C : c.task = b.task /\ c.status = b.status
      BY DEF Sums
    <3>2. CASE c \in C
      BY <3>1, <3>2 DEF Sums
    <3> QED BY <3>1, <3>2
  <2> QED BY <2>1, <2>2, <2>3
<1>2. ASSUME NEW s \in P \cup S PROVE IsWork(s) /\ \E b \in B : Covers(b, s)
  <2>1. CASE s \in P
    BY <2>1 DEF Sums
  <2>2. CASE s \in S
    <3>1. PICK c \in C : IsWork(s) /\ Covers(c, s)
      BY <2>2 DEF Sums
    <3>2. PICK b \in B : Covers(b, c)
      BY DEF Sums
    <3>3. IsWork(b) /\ IsWork(c)
      BY DEF Sums
    <3> QED BY <3>1, <3>2, <3>3, CoversOn
  <2> QED BY <2>1, <2>2
<1> QED BY <1>1, <1>2 DEF Sums

LEMMA SumsItself == ASSUME NEW B, \A b \in B : IsWork(b) PROVE Sums(B, B)
<1>1. \A b \in B : Weight(b) \in 1 .. 5
  BY Weights DEF IsWork, Weight
<1> QED BY <1>1 DEF Sums, Covers, IsWork
\* A block that takes in another piece of work of its task.
LEMMA Joined ==
    ASSUME NEW b, IsWork(b), NEW s, IsWork(s), s.task = b.task,
           NEW c, c.task = b.task, c.order = Min({b.order, s.order}),
           c.status = mergeSequenceStatus(b.status, s.status)
    PROVE  /\ IsWork(c) /\ Covers(c, b) /\ Covers(c, s)
           /\ c.order \in {b.order, s.order} /\ c.status \in {b.status, s.status}
<1>1. /\ c.order \in {b.order, s.order} /\ c.order <= b.order /\ c.order <= s.order
  BY LesserOf DEF IsWork
<1>2. c.status \in {b.status, s.status} /\ Weight(b) <= Weight(c) /\ Weight(s) <= Weight(c)
  BY Weights DEF IsWork, Weight
<1>3. IsWork(c)
  BY <1>1, <1>2 DEF IsWork
<1> QED BY <1>1, <1>2, <1>3 DEF Covers

\* Some blocks joined by s, in D, and s in a block of D: the others stay.
LEMMA SumsJoined ==
    ASSUME NEW B, NEW S, Sums(B, S), NEW s, IsWork(s), NEW D,
           \A d \in D : \/ d \in B
                        \/ IsWork(d) /\ d.task = s.task /\ d.order = s.order /\ d.status = s.status
                        \/ \E b \in B : /\ b.task = s.task /\ d.task = b.task
                                        /\ d.order = Min({b.order, s.order})
                                        /\ d.status = mergeSequenceStatus(b.status, s.status),
           \A b \in B : \E d \in D : Covers(d, b),
           \E d \in D : Covers(d, s)
    PROVE  Sums(D, S \cup {s})
<1>1. ASSUME NEW d \in D
      PROVE  /\ IsWork(d) /\ \E u \in S \cup {s} : u.task = d.task /\ u.order = d.order
             /\ \E u \in S \cup {s} : u.task = d.task /\ u.status = d.status
  <2>1. CASE d \in B
    BY <2>1 DEF Sums
  <2>2. CASE IsWork(d) /\ d.task = s.task /\ d.order = s.order /\ d.status = s.status
    BY <2>2
  <2>3. ASSUME NEW b \in B, b.task = s.task, d.task = b.task, d.order = Min({b.order, s.order}),
               d.status = mergeSequenceStatus(b.status, s.status)
        PROVE  /\ IsWork(d) /\ \E u \in S \cup {s} : u.task = d.task /\ u.order = d.order
               /\ \E u \in S \cup {s} : u.task = d.task /\ u.status = d.status
    <3>1. IsWork(b) /\ (\E u \in S : u.task = b.task /\ u.order = b.order)
                    /\ \E u \in S : u.task = b.task /\ u.status = b.status
      BY DEF Sums
    <3>2. IsWork(d) /\ d.order \in {b.order, s.order} /\ d.status \in {b.status, s.status}
      BY <2>3, <3>1, Joined
    <3> QED BY <2>3, <3>1, <3>2
  <2> QED BY <2>1, <2>2, <2>3
<1>2. ASSUME NEW u \in S \cup {s} PROVE IsWork(u) /\ \E d \in D : Covers(d, u)
  <2>1. CASE u = s
    BY <2>1
  <2>2. CASE u \in S
    <3>1. PICK b \in B : IsWork(u) /\ Covers(b, u)
      BY <2>2 DEF Sums
    <3>2. PICK d \in D : Covers(d, b)
      OBVIOUS
    <3>3. IsWork(b) /\ IsWork(d)
      BY <1>1 DEF Sums
    <3> QED BY <3>1, <3>2, <3>3, CoversOn
  <2> QED BY <2>1, <2>2
<1> QED BY <1>1, <1>2 DEF Sums

LEMMA CoversSame == ASSUME NEW b, IsWork(b), NEW c, c.task = b.task, c.order = b.order, c.status = b.status PROVE Covers(c, b)
<1>1. Weight(b) \in 1 .. 5
  BY Weights DEF IsWork, Weight
<1> QED BY <1>1 DEF Covers, Weight, IsWork

LEMMA AppendSums ==
    ASSUME NEW t \in Seq(Blocks), NEW s \in StepRecs, NEW S, Sums(Elements(t), S)
    PROVE  AppendStep(t, s) \in Seq(Blocks) /\ Sums(Elements(AppendStep(t, s)), S \cup {s})
<1> DEFINE u == AppendStep(t, s)
           n == Len(t)
           b == t[n]
           o == Min({b.order, s.order})
           m == mergeSequenceStatus(b.status, s.status)
           k == IF s.status = "completed" THEN 1 ELSE 0
           c == [task |-> b.task, order |-> o, status |-> m, total |-> b.total + 1,
                 completed |-> b.completed + k]
           new == [task |-> s.task, order |-> s.order, status |-> s.status, total |-> 1, completed |-> k]
<1>0. /\ n \in Nat /\ DOMAIN t = 1 .. n /\ \A i \in 1 .. n : t[i] \in Blocks /\ t[i] \in Elements(t)
      /\ IsWork(s) /\ s.order \in Nat
  BY DEF Elements, StepRecs, IsWork
<1>1. CASE t # <<>> /\ b.task = s.task
  <2>0. n # 0
    BY <1>1
  <2>1. n \in 1 .. n /\ b \in Blocks /\ IsWork(b) /\ b \in Elements(t)
    <3>1. n \in 1 .. n
      BY <1>0, <2>0
    <3>2. b \in Blocks /\ b \in Elements(t)
      BY <1>0, <3>1
    <3> HIDE DEF b
    <3> QED BY <3>1, <3>2 DEF Blocks, IsWork
  <2>2. u = [t EXCEPT ![n] = c]
    <3>1. Last(t) = b
      BY DEF Last
    <3> QED BY <1>1, <3>1 DEF AppendStep
  <2> HIDE DEF b
  <2>3. b.total \in Nat /\ b.completed \in Nat /\ k \in Nat
    BY <2>1 DEF Blocks
  <2> HIDE DEF k
  <2>4. c.task = b.task /\ c.order = o /\ c.status = m
    OBVIOUS
  <2>5. IsWork(c) /\ Covers(c, b) /\ Covers(c, s)
    BY <1>0, <1>1, <2>1, <2>4, Joined
  <2>6. c \in Blocks
    <3>1. b.total + 1 \in Nat /\ b.completed + k \in Nat
      BY <2>3
    <3>2. b.task \in Jobs /\ o \in Nat /\ m \in StepStatus
      BY <2>4, <2>5 DEF IsWork
    <3> HIDE DEF o, m
    <3> QED BY <2>4, <3>1, <3>2 DEF Blocks
  <2> HIDE DEF c
  <2>7. u \in Seq(Blocks) /\ DOMAIN u = 1 .. n /\ u[n] = c /\ \A i \in 1 .. n : i # n => u[i] = t[i]
    BY <1>0, <2>1, <2>2, <2>6
  <2> HIDE DEF u
  <2>8. \A d \in Elements(u) : d \in Elements(t) \/ d = c
    BY <1>0, <2>7 DEF Elements
  <2>9. c \in Elements(u)
    BY <2>1, <2>7 DEF Elements
  <2>10. ASSUME NEW x \in Elements(t) PROVE \E d \in Elements(u) : Covers(d, x)
    <3>1. PICK i \in 1 .. n : x = t[i]
      BY <1>0 DEF Elements
    <3>2. CASE i = n
      BY <2>5, <2>9, <3>1, <3>2 DEF b
    <3>3. CASE i # n
      <4>1. x \in Elements(u)
        BY <2>7, <3>1, <3>3 DEF Elements
      <4>2. IsWork(x)
        BY DEF Sums
      <4> QED BY <4>1, <4>2, CoversSame
    <3> QED BY <3>2, <3>3
  <2>11. Sums(Elements(u), S \cup {s})
    <3>1. b \in Elements(t) /\ b.task = s.task
      BY <1>1, <2>1
    <3> QED BY <1>0, <2>4, <2>5, <2>8, <2>9, <2>10, <3>1, SumsJoined
  <2> QED BY <2>7, <2>11 DEF u
<1>2. CASE ~ (t # <<>> /\ b.task = s.task)
  <2>1. u = Append(t, new)
    BY <1>2 DEF AppendStep, Last
  <2>2. new \in Blocks /\ IsWork(new) /\ new.task = s.task /\ new.order = s.order /\ new.status = s.status
    BY DEF StepRecs, Blocks, IsWork
  <2> HIDE DEF new, b
  <2>3. u \in Seq(Blocks) /\ DOMAIN u = 1 .. n + 1 /\ u[n + 1] = new /\ \A i \in 1 .. n : u[i] = t[i]
    BY <1>0, <2>1, <2>2
  <2> HIDE DEF u
  <2>4. Elements(u) = Elements(t) \cup {new}
    <3>1. \A i \in 1 .. n + 1 : i \in 1 .. n \/ i = n + 1 BY <1>0
    <3>2. \A i \in 1 .. n : i \in 1 .. n + 1 BY <1>0
    <3>3. n + 1 \in 1 .. n + 1 BY <1>0
    <3> QED BY <1>0, <2>3, <3>1, <3>2, <3>3 DEF Elements
  <2>5. Covers(new, s)
    BY <1>0, <2>2, CoversSame
  <2>6. \A x \in Elements(t) : Covers(x, x)
    BY CoversSame DEF Sums
  <2>7. Sums(Elements(u), S \cup {s})
    BY <1>0, <2>2, <2>4, <2>5, <2>6, SumsJoined
  <2> QED BY <2>3, <2>7 DEF u
<1> QED BY <1>1, <1>2
LEMMA MergeSums ==
    ASSUME NEW t \in Seq(Blocks), NEW b \in Blocks, NEW S, Sums(Elements(t), S), Once(t)
    PROVE  /\ MergeBlock(t, b) \in Seq(Blocks) /\ Once(MergeBlock(t, b))
           /\ Sums(Elements(MergeBlock(t, b)), S \cup {b})
<1> DEFINE u == MergeBlock(t, b)
           n == Len(t)
           o(i) == Min({t[i].order, b.order})
           m(i) == mergeSequenceStatus(t[i].status, b.status)
           c(i) == [b EXCEPT !.order = o(i), !.status = m(i)]
<1>0. /\ n \in Nat /\ DOMAIN t = 1 .. n
      /\ \A i \in 1 .. n : t[i] \in Blocks /\ t[i] \in Elements(t) /\ IsWork(t[i])
      /\ IsWork(b)
  <2>1. \A x \in Blocks : IsWork(x)
    BY DEF Blocks, IsWork
  <2>2. n \in Nat /\ DOMAIN t = 1 .. n /\ \A i \in 1 .. n : t[i] \in Blocks
    OBVIOUS
  <2> QED BY <2>1, <2>2 DEF Elements
<1>1. CASE \E i \in DOMAIN t : t[i].task = b.task
  <2>1. u = [i \in 1 .. n |-> IF t[i].task # b.task THEN t[i] ELSE c(i)]
    BY <1>0, <1>1 DEF MergeBlock
  <2>2. ASSUME NEW i \in 1 .. n, t[i].task = b.task
        PROVE  /\ c(i) \in Blocks /\ IsWork(c(i)) /\ Covers(c(i), t[i]) /\ Covers(c(i), b)
               /\ c(i).task = b.task /\ c(i).order = o(i) /\ c(i).status = m(i)
    <3> DEFINE d == c(i)
               x == t[i]
    <3>1. x.order \in Nat /\ x.status \in StepStatus /\ IsWork(x)
      BY <1>0 DEF IsWork
    <3>2. d = [b EXCEPT !.order = Min({x.order, b.order}), !.status = mergeSequenceStatus(x.status, b.status)]
      OBVIOUS
    <3> HIDE DEF d, x
    <3>3. Min({x.order, b.order}) \in Nat /\ mergeSequenceStatus(x.status, b.status) \in StepStatus
      BY <1>0, <3>1, LesserOf, Weights DEF IsWork
    <3>4. /\ d.task = b.task /\ d.order = Min({x.order, b.order})
          /\ d.status = mergeSequenceStatus(x.status, b.status) /\ d \in Blocks
      BY <3>2, <3>3 DEF Blocks
    <3>5. IsWork(d) /\ Covers(d, x) /\ Covers(d, b)
      <4>1. x.task = b.task
        BY <2>2 DEF x
      <4> QED BY <1>0, <3>1, <3>4, <4>1, Joined
    <3> QED BY <3>4, <3>5 DEF d, x
  <2> HIDE DEF c, u
  <2>3. /\ u \in Seq(Blocks) /\ DOMAIN u = 1 .. n
        /\ \A i \in 1 .. n : u[i].task = t[i].task
    <3>1. \A i \in 1 .. n : u[i] \in Blocks /\ u[i].task = t[i].task
      <4> SUFFICES ASSUME NEW i \in 1 .. n PROVE u[i] \in Blocks /\ u[i].task = t[i].task
        OBVIOUS
      <4>1. CASE t[i].task = b.task
        BY <2>1, <2>2, <4>1
      <4>2. CASE t[i].task # b.task
        BY <1>0, <2>1, <4>2
      <4> QED BY <4>1, <4>2
    <3>2. u = [i \in 1 .. n |-> u[i]]
      BY <2>1
    <3>3. u \in [1 .. n -> Blocks]
      BY <3>1, <3>2
    <3> QED BY <1>0, <3>1, <3>3
  <2>4. Once(u)
    BY <1>0, <2>3 DEF Once
  <2>5. ASSUME NEW d \in Elements(u)
        PROVE  d \in Elements(t) \/ \E i \in 1 .. n : t[i].task = b.task /\ d = c(i)
    <3>1. PICK i \in 1 .. n : d = u[i]
      BY <2>3 DEF Elements
    <3> QED BY <1>0, <2>1, <3>1
  <2>6. ASSUME NEW x \in Elements(t) PROVE \E d \in Elements(u) : Covers(d, x)
    <3>1. PICK i \in 1 .. n : x = t[i]
      BY <1>0 DEF Elements
    <3>2. u[i] \in Elements(u)
      BY <2>3 DEF Elements
    <3>3. CASE t[i].task # b.task
      <4>1. Covers(x, x) /\ u[i] = x
        BY <1>0, <2>1, <3>1, <3>3, CoversSame
      <4> QED BY <3>2, <4>1
    <3>4. CASE t[i].task = b.task
      <4>1. u[i] = c(i)
        BY <2>1, <3>4
      <4> QED BY <2>2, <3>1, <3>2, <3>4, <4>1
    <3> QED BY <3>3, <3>4
  <2>7. \E d \in Elements(u) : Covers(d, b)
    <3>1. PICK i \in 1 .. n : t[i].task = b.task
      BY <1>0, <1>1
    <3>2. u[i] = c(i) /\ u[i] \in Elements(u)
      BY <2>1, <2>3, <3>1 DEF Elements
    <3> QED BY <2>2, <3>1, <3>2
  <2>8. \A d \in Elements(u) :
          \/ d \in Elements(t)
          \/ \E x \in Elements(t) : /\ x.task = b.task /\ d.task = x.task
                                    /\ d.order = Min({x.order, b.order})
                                    /\ d.status = mergeSequenceStatus(x.status, b.status)
    BY <1>0, <2>2, <2>5
  <2>9. Sums(Elements(u), S \cup {b})
    BY <1>0, <2>6, <2>7, <2>8, SumsJoined
  <2> QED BY <2>3, <2>4, <2>9 DEF u
<1>2. CASE ~ \E i \in DOMAIN t : t[i].task = b.task
  <2>1. u = Append(t, b)
    BY <1>2 DEF MergeBlock
  <2>2. u \in Seq(Blocks) /\ DOMAIN u = 1 .. n + 1 /\ u[n + 1] = b /\ \A i \in 1 .. n : u[i] = t[i]
    BY <1>0, <2>1
  <2> HIDE DEF u
  <2>3. /\ \A i \in 1 .. n + 1 : i \in 1 .. n \/ i = n + 1
        /\ \A i \in 1 .. n : i \in 1 .. n + 1
        /\ n + 1 \in 1 .. n + 1
    BY <1>0
  <2>4. Elements(u) = Elements(t) \cup {b}
    BY <1>0, <2>2, <2>3 DEF Elements
  <2>5. Once(u)
    <3>1. ASSUME NEW i \in DOMAIN u, NEW j \in DOMAIN u, u[i].task = u[j].task PROVE i = j
      <4>1. \A k \in 1 .. n : u[k].task # b.task
        BY <1>0, <1>2, <2>2
      <4>2. CASE i \in 1 .. n /\ j \in 1 .. n
        BY <1>0, <2>2, <3>1, <4>2 DEF Once
      <4>3. CASE i = n + 1 \/ j = n + 1
        BY <2>2, <2>3, <3>1, <4>1, <4>3
      <4> QED BY <2>2, <2>3, <4>2, <4>3
    <3> QED BY <3>1 DEF Once
  <2>6. Covers(b, b) /\ \A x \in Elements(t) : Covers(x, x)
    BY <1>0, CoversSame DEF Sums
  <2>7. Sums(Elements(u), S \cup {b})
    BY <1>0, <2>4, <2>6, SumsJoined
  <2> QED BY <2>2, <2>5, <2>7 DEF u
<1> QED BY <1>1, <1>2
LEMMA OfItself == \A t \in Seq(Blocks) : Sums(Elements(t), Elements(t))
<1> SUFFICES ASSUME NEW t \in Seq(Blocks) PROVE Sums(Elements(t), Elements(t))
  OBVIOUS
<1>1. \A b \in Blocks : IsWork(b)
  BY DEF Blocks, IsWork
<1>2. \A b \in Elements(t) : b \in Blocks
  BY DEF Elements
<1> QED BY <1>1, <1>2, SumsItself

(***************************************************************************)
(* The rows of an agent                                                    *)
(***************************************************************************)
LineTyped ==
    /\ line.ids \in Seq(Runs) /\ line.plan \in Runs \cup {NoRun} /\ DOMAIN line.map \subseteq Runs
    /\ \A e \in DOMAIN line.map : line.map[e] \in Seq(StepRecs)

StepsOf(a) == {s \in Elements(effectiveExecutionSteps) : s.agent = a}
PlannedFor(a) == {x \in Elements(Assignments) : x.agent = a}

LEMMA StepsTyped == ASSUME LineTyped PROVE effectiveExecutionSteps \in Seq(StepRecs)
<1> DEFINE Of(e) == IF e \in DOMAIN line.map THEN line.map[e] ELSE <<>>
           s == [i \in DOMAIN line.ids |-> Of(line.ids[i])]
<1>1. \A e : Of(e) \in Seq(StepRecs)
  BY DEF LineTyped
<1>2. Len(line.ids) \in Nat /\ DOMAIN line.ids = 1 .. Len(line.ids)
  BY DEF LineTyped
<1> HIDE DEF Of
<1>3. s \in Seq(Seq(StepRecs))
  BY <1>1, <1>2
<1>4. effectiveExecutionSteps = Flatten(s)
  BY DEF effectiveExecutionSteps, Of
<1> HIDE DEF s
<1> QED BY <1>3, <1>4, FlattenPositions

\* What is left of a list for an agent.
Own(s, a) == At(s, {i \in DOMAIN s : s[i].agent = a})

LEMMA OwnIs ==
    ASSUME NEW S, NEW s \in Seq(S), NEW a
    PROVE  /\ Own(s, a) \in Seq(S) /\ Elements(Own(s, a)) = {x \in Elements(s) : x.agent = a}
           /\ NoRepeats(s) => NoRepeats(Own(s, a))
<1> DEFINE I == {i \in DOMAIN s : s[i].agent = a}
<1>1. I \in SUBSET DOMAIN s
  OBVIOUS
<1>2. {s[i] : i \in I} = {x \in Elements(s) : x.agent = a}
  BY DEF Elements
<1> SUFFICES /\ At(s, I) \in Seq(S) /\ Elements(At(s, I)) = {x \in Elements(s) : x.agent = a}
             /\ NoRepeats(s) => NoRepeats(At(s, I))
  BY DEF Own
<1> HIDE DEF I
<1> QED BY <1>1, <1>2, AtPositions, AtElements, AtRising

LEMMA ByOrderRises ==
    ASSUME NEW S, \A x \in S : x.order \in Nat, NEW s \in Seq(S)
    PROVE  /\ ByOrder(s) \in Seq(S) /\ Elements(ByOrder(s)) = Elements(s)
           /\ \A i, j \in DOMAIN ByOrder(s) : i < j => ByOrder(s)[i].order <= ByOrder(s)[j].order
           /\ NoRepeats(s) => NoRepeats(ByOrder(s))
<1> DEFINE key == [b \in Elements(s) |-> b.order]
           t == SortedBy(s, key)
<1>1. \A x \in Elements(s) : x \in S /\ key[x] = x.order
  BY DEF Elements
<1>2. Key(s, key)
  BY <1>1 DEF Key
<1> HIDE DEF key
<1>3. t \in Seq(S) /\ Elements(t) = Elements(s) /\ Rising(t, key) /\ (NoRepeats(s) => NoRepeats(t))
  BY <1>2, SortedByRises
<1>4. ByOrder(s) = t
  BY DEF ByOrder, key
<1> HIDE DEF t
<1>5. ASSUME NEW i \in DOMAIN t, NEW j \in DOMAIN t, i < j PROVE t[i].order <= t[j].order
  <2>1. key[t[i]] = t[i].order /\ key[t[j]] = t[j].order
    BY <1>1, <1>3 DEF Elements
  <2> QED BY <1>3, <1>5, <2>1 DEF Rising
<1> QED BY <1>3, <1>4, <1>5

\* Counting up to n.
LEMMA UpToSet ==
    ASSUME NEW n \in Nat, NEW T \in SUBSET (0 .. n), 0 \in T, \A i \in 1 .. n : i - 1 \in T => i \in T
    PROVE  T = 0 .. n
<1> DEFINE R == {i \in Nat : i <= n => i \in T}
<1>1. 0 \in R /\ \A i \in R : i + 1 \in R
  <2>1. ASSUME NEW i \in R, i + 1 <= n PROVE i + 1 \in T
    <3>1. i \in Nat /\ i <= n /\ i + 1 \in 1 .. n /\ (i + 1) - 1 = i
      BY <2>1
    <3> QED BY <2>1, <3>1
  <2> QED BY <2>1
<1>2. R = Nat
  <2>1. R \in SUBSET Nat
    OBVIOUS
  <2> HIDE DEF R
  <2> QED BY <1>1, <2>1, NumberSet
<1>3. \A i \in 0 .. n : i \in R /\ i <= n
  BY <1>2
<1> QED BY <1>3

\* The blocks of an agent's steps sum them up.
LEMMA BlocksSum ==
    ASSUME LineTyped, NEW a
    PROVE  /\ executionTaskBlocksByAgent(a) \in Seq(Blocks)
           /\ Sums(Elements(executionTaskBlocksByAgent(a)), StepsOf(a))
<1> DEFINE all == effectiveExecutionSteps
           own == Own(all, a)
           n == Len(own)
           A == Seq(Blocks)
           step == [i \in 1 .. n |-> [q \in A |-> AppendStep(q, own[i])]]
           Is(f) == f = [i \in 0 .. Len(own) |-> IF i = 0 THEN <<>> ELSE AppendStep(f[i - 1], own[i])]
           F == CHOOSE f : Is(f)
<1>1. own \in Seq(StepRecs) /\ Elements(own) = StepsOf(a)
  <2> StepsOf(a) = {s \in Elements(all) : s.agent = a}
    BY DEF StepsOf
  <2> HIDE DEF all
  <2>1. all \in Seq(StepRecs)
    BY StepsTyped DEF all
  <2> QED BY <2>1, OwnIs
<1>2. executionTaskBlocksByAgent(a) = ByOrder(F[n])
  BY DEF executionTaskBlocksByAgent, Filter, Own
<1> HIDE DEF own
<1>3. n \in Nat /\ DOMAIN own = 1 .. n /\ \A i \in 1 .. n : own[i] \in StepRecs
  BY <1>1
<1>4. ASSUME NEW q \in A, NEW i \in 1 .. n PROVE AppendStep(q, own[i]) \in A
  <2>1. q \in Seq(Blocks) /\ own[i] \in StepRecs
    BY <1>3
  <2>2. AppendStep(q, own[i]) \in Seq(Blocks)
    BY <2>1, OfItself, AppendSums
  <2> QED BY <2>2
<1>5. step \in [1 .. n -> [A -> A]] /\ <<>> \in A
  <2>1. <<>> \in A
    OBVIOUS
  <2> HIDE DEF A
  <2> QED BY <1>4, <2>1
<1>6. PICK g \in [0 .. n -> A] : g[0] = <<>> /\ \A i \in 1 .. n : g[i] = step[i][g[i - 1]]
  <2> HIDE DEF A, step, n
  <2>1. \E f : Climbs(f, n, A, <<>>, step)
    BY <1>3, <1>5, UpToRecursion
  <2> QED BY <2>1 DEF Climbs
<1> HIDE DEF A
<1>7. \A i \in 1 .. n : g[i] = AppendStep(g[i - 1], own[i])
  <2> SUFFICES ASSUME NEW i \in 1 .. n PROVE g[i] = AppendStep(g[i - 1], own[i])
    OBVIOUS
  <2>1. g[i - 1] \in A
    BY <1>3, <1>6
  <2>2. step[i][g[i - 1]] = AppendStep(g[i - 1], own[i])
    BY <2>1
  <2> QED BY <1>6, <2>2
<1>8. Is(g)
  <2>1. ASSUME NEW i \in 0 .. n
        PROVE  g[i] = IF i = 0 THEN <<>> ELSE AppendStep(g[i - 1], own[i])
    <3>1. i = 0 \/ i \in 1 .. n BY <1>3
    <3>2. \A k \in 1 .. n : k # 0 OBVIOUS
    <3> QED BY <1>6, <1>7, <3>1, <3>2
  <2> QED BY <1>6, <2>1, Zenon
<1>9. Is(F)
  <2> HIDE DEF Is
  <2> QED BY <1>8
<1>10. F[0] = <<>> /\ \A i \in 1 .. n : F[i] = AppendStep(F[i - 1], own[i])
  <2> HIDE DEF F
  <2>1. F = [i \in 0 .. n |-> IF i = 0 THEN <<>> ELSE AppendStep(F[i - 1], own[i])]
    BY <1>9
  <2>2. \A i \in 1 .. n : i # 0 /\ i \in 0 .. n
    BY <1>3
  <2>3. 0 \in 0 .. n
    BY <1>3
  <2> HIDE DEF Is, n
  <2> QED BY <2>1, <2>2, <2>3
<1> HIDE DEF F, Is, step
<1> DEFINE First(i) == {own[j] : j \in 1 .. i}
           T == {i \in 0 .. n : F[i] \in Seq(Blocks) /\ Sums(Elements(F[i]), First(i))}
<1>11. 0 \in T
  <2>1. Elements(<<>>) = {} /\ <<>> \in Seq(Blocks)
    BY DEF Elements
  <2>2. First(0) = {}
    OBVIOUS
  <2>3. Sums({}, {})
    BY DEF Sums
  <2>4. F[0] \in Seq(Blocks) /\ Sums(Elements(F[0]), First(0))
    <3> HIDE DEF First
    <3> QED BY <1>10, <2>1, <2>2, <2>3
  <2> HIDE DEF First
  <2> QED BY <1>3, <2>4
<1>12. ASSUME NEW i \in 1 .. n, i - 1 \in T PROVE i \in T
  <2>1. First(i) = First(i - 1) \cup {own[i]}
    <3>1. \A j \in 1 .. i : j \in 1 .. i - 1 \/ j = i BY <1>3
    <3>2. \A j \in 1 .. i - 1 : j \in 1 .. i BY <1>3
    <3>3. i \in 1 .. i BY <1>3
    <3> QED BY <3>1, <3>2, <3>3
  <2>2. F[i - 1] \in Seq(Blocks) /\ Sums(Elements(F[i - 1]), First(i - 1))
    BY <1>12
  <2> HIDE DEF First
  <2>3. /\ AppendStep(F[i - 1], own[i]) \in Seq(Blocks)
        /\ Sums(Elements(AppendStep(F[i - 1], own[i])), First(i - 1) \cup {own[i]})
    BY <1>3, <2>2, AppendSums
  <2>4. i \in 0 .. n
    BY <1>3
  <2> HIDE DEF n
  <2> QED BY <1>10, <2>1, <2>3, <2>4
<1>13. n \in T
  <2>1. T \in SUBSET (0 .. n)
    OBVIOUS
  <2> HIDE DEF T
  <2>2. T = 0 .. n
    BY <1>3, <1>11, <1>12, <2>1, UpToSet
  <2> QED BY <1>3, <2>2
<1>14. First(n) = StepsOf(a)
  BY <1>1, <1>3 DEF Elements
<1>15. F[n] \in Seq(Blocks) /\ Sums(Elements(F[n]), StepsOf(a))
  BY <1>13, <1>14
<1>16. \A b \in Blocks : b.order \in Nat
  BY DEF Blocks
<1> QED BY <1>2, <1>15, <1>16, ByOrderRises
\* A sort leaves one block to each task.
LEMMA OnceSorted ==
    ASSUME NEW t \in Seq(Blocks), Once(t)
    PROVE  /\ ByOrder(t) \in Seq(Blocks) /\ Elements(ByOrder(t)) = Elements(t) /\ Once(ByOrder(t))
           /\ \A i, j \in DOMAIN ByOrder(t) : i < j => ByOrder(t)[i].order <= ByOrder(t)[j].order
<1> DEFINE u == ByOrder(t)
<1>1. \A x \in Blocks : x.order \in Nat
  BY DEF Blocks
<1>2. NoRepeats(t)
  BY DEF Once, NoRepeats
<1>3. /\ u \in Seq(Blocks) /\ Elements(u) = Elements(t) /\ NoRepeats(u)
      /\ \A i, j \in DOMAIN u : i < j => u[i].order <= u[j].order
  BY <1>1, <1>2, ByOrderRises
<1> HIDE DEF u
<1>4. ASSUME NEW i \in DOMAIN u, NEW j \in DOMAIN u, u[i].task = u[j].task PROVE i = j
  <2>1. u[i] \in Elements(t) /\ u[j] \in Elements(t)
    BY <1>3 DEF Elements
  <2>2. PICK k \in DOMAIN t, l \in DOMAIN t : u[i] = t[k] /\ u[j] = t[l]
    BY <2>1 DEF Elements
  <2>3. u[i] = u[j]
    BY <1>4, <2>2 DEF Once
  <2> QED BY <1>3, <2>3 DEF NoRepeats
<1> QED BY <1>3, <1>4 DEF Once, u

\* The assignments of one plan, each once.
LEMMA AssignmentsTyped ==
    ASSUME LineTyped
    PROVE  \E S : /\ Assignments \in Seq(S) /\ NoRepeats(Assignments)
                  /\ \A x \in S : x.task \in Jobs /\ x.order \in Nat
                  /\ \A x, y \in S : x.task = y.task => x = y
<1>1. CASE line.plan = NoRun
  <2>1. Assignments = <<>>
    BY <1>1 DEF Assignments
  <2>2. Assignments \in Seq({}) /\ NoRepeats(Assignments)
    BY <2>1 DEF NoRepeats
  <2> QED BY <2>2
<1>2. CASE line.plan # NoRun
  <2> DEFINE S == PlanOf[line.plan]
  <2>1. /\ line.plan \in Runs /\ IsFiniteSet(S) /\ \A x \in S : x.task \in Jobs /\ x.order \in Nat
        /\ \A x, y \in S : x.task = y.task => x = y
    BY <1>2, TimelineAssumption DEF LineTyped, Jobs
  <2>2. Assignments = ByOrder(SetToSeq(S))
    BY <1>2 DEF Assignments
  <2> HIDE DEF S
  <2>3. SetToSeq(S) \in Seq(S) /\ NoRepeats(SetToSeq(S))
    BY <2>1, SetToSeqOnce DEF NoRepeats
  <2>4. Assignments \in Seq(S) /\ NoRepeats(Assignments)
    BY <2>1, <2>2, <2>3, ByOrderRises
  <2> QED BY <2>1, <2>4
<1> QED BY <1>1, <1>2

\* The blocks that wait: one for each assignment.
LEMMA PlannedIs ==
    ASSUME LineTyped, NEW a
    PROVE  LET p == plannedTaskBlocksByAgent(a)
           IN /\ p \in Seq(Blocks) /\ Once(p)
              /\ \A b \in Elements(p) : /\ b.status = "pending"
                                        /\ \E x \in PlannedFor(a) : x.task = b.task /\ x.order = b.order
              /\ \A x \in PlannedFor(a) :
                    \E b \in Elements(p) : b.task = x.task /\ b.order = x.order /\ b.status = "pending"
<1>1. PICK S : /\ Assignments \in Seq(S) /\ NoRepeats(Assignments)
               /\ \A x \in S : x.task \in Jobs /\ x.order \in Nat
               /\ \A x, y \in S : x.task = y.task => x = y
  BY AssignmentsTyped
<1> DEFINE own == Own(Assignments, a)
           n == Len(own)
           t == [i \in DOMAIN own |-> [task |-> own[i].task, order |-> own[i].order,
                                       status |-> "pending", total |-> 0, completed |-> 0]]
<1>2. own \in Seq(S) /\ Elements(own) = PlannedFor(a) /\ NoRepeats(own)
  BY <1>1, OwnIs DEF PlannedFor
<1>3. plannedTaskBlocksByAgent(a) = ByOrder(t)
  BY DEF plannedTaskBlocksByAgent, Filter, Own
<1> HIDE DEF own
<1>4. n \in Nat /\ DOMAIN own = 1 .. n /\ \A i \in 1 .. n : own[i] \in S
  BY <1>2
<1>5. \A i \in 1 .. n : t[i] \in Blocks /\ t[i].task = own[i].task /\ t[i].order = own[i].order /\ t[i].status = "pending"
  BY <1>1, <1>4 DEF Blocks, StepStatus
<1>6. t \in Seq(Blocks) /\ DOMAIN t = 1 .. n
  <2>1. t = [i \in 1 .. n |-> t[i]]
    BY <1>4
  <2> HIDE DEF t
  <2>2. t \in [1 .. n -> Blocks]
    BY <1>5, <2>1
  <2> QED BY <1>4, <2>2
<1> HIDE DEF t
<1>7. Once(t)
  <2> SUFFICES ASSUME NEW i \in 1 .. n, NEW j \in 1 .. n, t[i].task = t[j].task PROVE i = j
    BY <1>6 DEF Once
  <2>1. own[i] = own[j]
    BY <1>1, <1>4, <1>5
  <2> QED BY <1>2, <1>4, <2>1 DEF NoRepeats
<1>8. ASSUME NEW b \in Elements(t)
      PROVE  b.status = "pending" /\ \E x \in PlannedFor(a) : x.task = b.task /\ x.order = b.order
  <2>1. PICK i \in 1 .. n : b = t[i]
    BY <1>6 DEF Elements
  <2>2. own[i] \in PlannedFor(a)
    BY <1>2, <1>4 DEF Elements
  <2> QED BY <1>5, <2>1, <2>2
<1>9. ASSUME NEW x \in PlannedFor(a)
      PROVE  \E b \in Elements(t) : b.task = x.task /\ b.order = x.order /\ b.status = "pending"
  <2>1. PICK i \in 1 .. n : x = own[i]
    BY <1>2, <1>4 DEF Elements
  <2>2. t[i] \in Elements(t)
    BY <1>6 DEF Elements
  <2> QED BY <1>5, <2>1, <2>2
<1>10. /\ ByOrder(t) \in Seq(Blocks) /\ Once(ByOrder(t)) /\ Elements(ByOrder(t)) = Elements(t)
  BY <1>6, <1>7, OnceSorted
<1> QED BY <1>3, <1>8, <1>9, <1>10

\* The row of an agent: one block to a task, which sums up what was planned and
\* what the steps say.
LEMMA RowSums ==
    ASSUME LineTyped, NEW a
    PROVE  /\ timeline(a) \in Seq(Blocks) /\ Once(timeline(a))
           /\ Sums(Elements(timeline(a)), Elements(plannedTaskBlocksByAgent(a)) \cup StepsOf(a))
           /\ \A i, j \in DOMAIN timeline(a) : i < j => timeline(a)[i].order <= timeline(a)[j].order
<1> DEFINE own == executionTaskBlocksByAgent(a)
           p == plannedTaskBlocksByAgent(a)
           n == Len(own)
           A == {t \in Seq(Blocks) : Once(t)}
           step == [i \in 1 .. n |-> [q \in A |-> MergeBlock(q, own[i])]]
           Is(f) == f = [i \in 0 .. Len(own) |-> IF i = 0 THEN p ELSE MergeBlock(f[i - 1], own[i])]
           F == CHOOSE f : Is(f)
<1>1. own \in Seq(Blocks) /\ Sums(Elements(own), StepsOf(a))
  BY BlocksSum
<1>2. timeline(a) = ByOrder(F[n])
  BY DEF timeline
<1>3. p \in Seq(Blocks) /\ Once(p)
  BY PlannedIs
<1> HIDE DEF own, p
<1>4. n \in Nat /\ DOMAIN own = 1 .. n /\ \A i \in 1 .. n : own[i] \in Blocks
  BY <1>1
<1>5. ASSUME NEW q \in A, NEW i \in 1 .. n PROVE MergeBlock(q, own[i]) \in A
  <2>1. q \in Seq(Blocks) /\ Once(q) /\ own[i] \in Blocks
    BY <1>4
  <2>2. MergeBlock(q, own[i]) \in Seq(Blocks) /\ Once(MergeBlock(q, own[i]))
    BY <2>1, OfItself, MergeSums
  <2> QED BY <2>2
<1>6. step \in [1 .. n -> [A -> A]] /\ p \in A
  <2>1. p \in A
    BY <1>3
  <2> HIDE DEF A
  <2> QED BY <1>5, <2>1
<1>7. PICK g \in [0 .. n -> A] : g[0] = p /\ \A i \in 1 .. n : g[i] = step[i][g[i - 1]]
  <2> HIDE DEF A, step, n
  <2>1. \E f : Climbs(f, n, A, p, step)
    BY <1>4, <1>6, UpToRecursion
  <2> QED BY <2>1 DEF Climbs
<1> HIDE DEF A
<1>8. \A i \in 1 .. n : g[i] = MergeBlock(g[i - 1], own[i])
  <2> SUFFICES ASSUME NEW i \in 1 .. n PROVE g[i] = MergeBlock(g[i - 1], own[i])
    OBVIOUS
  <2>1. g[i - 1] \in A
    BY <1>4, <1>7
  <2>2. step[i][g[i - 1]] = MergeBlock(g[i - 1], own[i])
    BY <2>1
  <2> QED BY <1>7, <2>2
<1>9. Is(g)
  <2>1. ASSUME NEW i \in 0 .. n
        PROVE  g[i] = IF i = 0 THEN p ELSE MergeBlock(g[i - 1], own[i])
    <3>1. i = 0 \/ i \in 1 .. n BY <1>4
    <3>2. \A k \in 1 .. n : k # 0 OBVIOUS
    <3> QED BY <1>7, <1>8, <3>1, <3>2
  <2> QED BY <1>7, <2>1, Zenon
<1>10. Is(F)
  <2> HIDE DEF Is
  <2> QED BY <1>9
<1>11. F[0] = p /\ \A i \in 1 .. n : F[i] = MergeBlock(F[i - 1], own[i])
  <2> HIDE DEF F
  <2>1. F = [i \in 0 .. n |-> IF i = 0 THEN p ELSE MergeBlock(F[i - 1], own[i])]
    BY <1>10
  <2>2. \A i \in 1 .. n : i # 0 /\ i \in 0 .. n
    BY <1>4
  <2>3. 0 \in 0 .. n
    BY <1>4
  <2> HIDE DEF Is, n
  <2> QED BY <2>1, <2>2, <2>3
<1> HIDE DEF F, Is, step
<1> DEFINE First(i) == {own[j] : j \in 1 .. i}
           Fine(i) == /\ F[i] \in Seq(Blocks) /\ Once(F[i])
                      /\ Sums(Elements(F[i]), Elements(p) \cup First(i))
           T == {i \in 0 .. n : Fine(i)}
<1>12. 0 \in T
  <2>1. First(0) = {}
    OBVIOUS
  <2>2. Sums(Elements(p), Elements(p))
    BY <1>3, OfItself
  <2>3. Fine(0)
    <3> HIDE DEF First
    <3> QED BY <1>3, <1>11, <2>1, <2>2
  <2> HIDE DEF Fine
  <2> QED BY <1>4, <2>3
<1>13. ASSUME NEW i \in 1 .. n, i - 1 \in T PROVE i \in T
  <2>1. First(i) = First(i - 1) \cup {own[i]}
    <3>1. \A j \in 1 .. i : j \in 1 .. i - 1 \/ j = i BY <1>4
    <3>2. \A j \in 1 .. i - 1 : j \in 1 .. i BY <1>4
    <3>3. i \in 1 .. i BY <1>4
    <3> QED BY <3>1, <3>2, <3>3
  <2>2. /\ F[i - 1] \in Seq(Blocks) /\ Once(F[i - 1])
        /\ Sums(Elements(F[i - 1]), Elements(p) \cup First(i - 1))
    BY <1>13
  <2> HIDE DEF First
  <2>3. /\ MergeBlock(F[i - 1], own[i]) \in Seq(Blocks) /\ Once(MergeBlock(F[i - 1], own[i]))
        /\ Sums(Elements(MergeBlock(F[i - 1], own[i])), (Elements(p) \cup First(i - 1)) \cup {own[i]})
    BY <1>4, <2>2, MergeSums
  <2>4. (Elements(p) \cup First(i - 1)) \cup {own[i]} = Elements(p) \cup First(i)
    BY <2>1
  <2>5. i \in 0 .. n
    BY <1>4
  <2>6. Fine(i)
    <3> HIDE DEF n
    <3> QED BY <1>11, <2>3, <2>4
  <2> HIDE DEF n, Fine
  <2> QED BY <2>5, <2>6
<1>14. Fine(n)
  <2>1. T \in SUBSET (0 .. n)
    OBVIOUS
  <2> HIDE DEF T
  <2>2. T = 0 .. n
    BY <1>4, <1>12, <1>13, <2>1, UpToSet
  <2>3. n \in T
    BY <1>4, <2>2
  <2> QED BY <2>3 DEF T
<1>15. First(n) = Elements(own)
  BY <1>4 DEF Elements
<1>16. F[n] \in Seq(Blocks) /\ Once(F[n]) /\ Sums(Elements(F[n]), Elements(p) \cup StepsOf(a))
  <2>1. Sums(Elements(F[n]), Elements(p) \cup Elements(own))
    BY <1>14, <1>15
  <2> QED BY <1>1, <1>14, <2>1, SumsOn
<1> HIDE DEF n
<1>17. /\ ByOrder(F[n]) \in Seq(Blocks) /\ Elements(ByOrder(F[n])) = Elements(F[n]) /\ Once(ByOrder(F[n]))
       /\ \A i, j \in DOMAIN ByOrder(F[n]) : i < j => ByOrder(F[n])[i].order <= ByOrder(F[n])[j].order
  BY <1>16, OnceSorted
<1> QED BY <1>2, <1>16, <1>17 DEF p
\* Of the blocks of a sum, that of a task has the least order and the weightiest status.
IsBlockOf(i, t, S, k) ==
    /\ t[i].task = k /\ \A j \in DOMAIN t : t[j].task = k => i = j
    /\ \E s \in S : s.task = k /\ s.order = t[i].order
    /\ \E s \in S : s.task = k /\ s.status = t[i].status
    /\ \A s \in S : s.task = k => t[i].order <= s.order /\ Weight(s) <= Weight(t[i])

LEMMA RowBlock ==
    ASSUME NEW t \in Seq(Blocks), Once(t), NEW S, Sums(Elements(t), S), NEW u \in S
    PROVE  \E i \in DOMAIN t : IsBlockOf(i, t, S, u.task)
<1>1. PICK b \in Elements(t) : Covers(b, u)
  BY DEF Sums
<1>2. PICK i \in DOMAIN t : b = t[i]
  BY DEF Elements
<1>3. t[i].task = u.task /\ \A j \in DOMAIN t : t[j].task = u.task => i = j
  BY <1>1, <1>2 DEF Covers, Once
<1>4. ASSUME NEW s \in S, s.task = u.task PROVE t[i].order <= s.order /\ Weight(s) <= Weight(t[i])
  <2>1. PICK c \in Elements(t) : Covers(c, s)
    BY DEF Sums
  <2>2. PICK j \in DOMAIN t : c = t[j]
    BY DEF Elements
  <2>3. j = i
    BY <1>3, <1>4, <2>1, <2>2 DEF Covers
  <2> QED BY <2>1, <2>2, <2>3 DEF Covers
<1>5. /\ \E s \in S : s.task = u.task /\ s.order = t[i].order
      /\ \E s \in S : s.task = u.task /\ s.status = t[i].status
  <2>1. t[i] \in Elements(t)
    BY <1>2
  <2>2. /\ \E s \in S : s.task = t[i].task /\ s.order = t[i].order
        /\ \E s \in S : s.task = t[i].task /\ s.status = t[i].status
    BY <2>1 DEF Sums
  <2> QED BY <1>3, <2>2
<1> QED BY <1>3, <1>4, <1>5 DEF IsBlockOf

\* The block shown as current runs if any does.
LEMMA BadgeIs ==
    ASSUME NEW t \in Seq(Blocks)
    PROVE  LiveBadge(t) <=> \E i \in DOMAIN t : t[i].status = "running"
<1> DEFINE With(status) == {i \in DOMAIN t : t[i].status = status}
           R == With("running")
           W == With("pending")
<1>1. R \in SUBSET Nat /\ W \in SUBSET Nat
  <2>1. Len(t) \in Nat /\ DOMAIN t = 1 .. Len(t)
    OBVIOUS
  <2> QED BY <2>1
<1>2. CASE R # {}
  <2>1. CurrentBlock(t) = t[Min(R)]
    BY <1>2 DEF CurrentBlock
  <2>2. Min(R) \in R
    <3> HIDE DEF R
    <3> QED BY <1>1, <1>2, LeastOf
  <2>3. t[Min(R)].status = "running"
    BY <2>2
  <2> QED BY <1>2, <2>1, <2>3 DEF LiveBadge
<1>3. CASE R = {} /\ W # {}
  <2>1. CurrentBlock(t) = t[Min(W)]
    BY <1>3 DEF CurrentBlock
  <2>2. Min(W) \in W
    <3> HIDE DEF W
    <3> QED BY <1>1, <1>3, LeastOf
  <2>3. t[Min(W)].status = "pending"
    BY <2>2
  <2> QED BY <1>3, <2>1, <2>3 DEF LiveBadge
<1>4. CASE R = {} /\ W = {}
  <2>1. CurrentBlock(t) = [status |-> "none"]
    BY <1>4 DEF CurrentBlock
  <2> QED BY <1>4, <2>1 DEF LiveBadge
<1> QED BY <1>2, <1>3, <1>4

\* The step of an agent that is shown first runs if any does.
LEMMA DispatchIs ==
    ASSUME LineTyped, NEW a, StepsOf(a) # {}
    PROVE  (\E s \in StepsOf(a) : s.status = "running") <=> agentDispatch(a)[1].status = "running"
<1> DEFINE all == effectiveExecutionSteps
           own == Own(all, a)
           key == [s \in Elements(own) |-> DispatchRank[s.status]]
           d == SortedBy(ByOrder(own), key)
<1>1. own \in Seq(StepRecs) /\ Elements(own) = StepsOf(a)
  <2> StepsOf(a) = {s \in Elements(all) : s.agent = a}
    BY DEF StepsOf
  <2> HIDE DEF all
  <2>1. all \in Seq(StepRecs)
    BY StepsTyped DEF all
  <2> QED BY <2>1, OwnIs
<1>2. agentDispatch(a) = d
  BY DEF agentDispatch, Filter, Own
<1> HIDE DEF own, all
<1>3. ByOrder(own) \in Seq(StepRecs) /\ Elements(ByOrder(own)) = StepsOf(a)
  <2>1. \A x \in StepRecs : x.order \in Nat
    BY DEF StepRecs
  <2> QED BY <1>1, <2>1, ByOrderRises
<1>4. \A s \in StepStatus : DispatchRank[s] \in Nat /\ (DispatchRank[s] = 0 <=> s = "running")
  BY DEF StepStatus, DispatchRank
<1>5. \A s \in StepsOf(a) : key[s] \in Nat /\ (key[s] = 0 <=> s.status = "running")
  <2> SUFFICES ASSUME NEW s \in StepsOf(a) PROVE key[s] \in Nat /\ (key[s] = 0 <=> s.status = "running")
    OBVIOUS
  <2>1. s \in StepRecs
    BY <1>1 DEF Elements
  <2>2. s.status \in StepStatus /\ key[s] = DispatchRank[s.status]
    BY <1>1, <2>1 DEF StepRecs
  <2> QED BY <1>4, <2>2
<1> HIDE DEF key
<1>6. d \in Seq(StepRecs) /\ Elements(d) = StepsOf(a) /\ Rising(d, key)
  <2>1. Key(ByOrder(own), key)
    BY <1>3, <1>5 DEF Key
  <2> QED BY <1>3, <2>1, SortedByRises
<1> HIDE DEF d
<1>7. 1 \in DOMAIN d /\ d[1] \in StepsOf(a)
  <2>1. Len(d) \in Nat /\ DOMAIN d = 1 .. Len(d) /\ DOMAIN d # {}
    BY <1>6 DEF Elements
  <2>2. 1 \in DOMAIN d
    BY <2>1
  <2> QED BY <1>6, <2>2 DEF Elements
<1>8. ASSUME NEW s \in StepsOf(a) PROVE key[d[1]] <= key[s]
  <2>1. PICK i \in DOMAIN d : s = d[i]
    BY <1>6 DEF Elements
  <2>2. i = 1 \/ 1 < i
    BY <1>6
  <2> QED BY <1>5, <1>6, <1>7, <2>1, <2>2 DEF Rising
<1> QED BY <1>2, <1>5, <1>7, <1>8

\* The status of a block whose task the plan may list is one that its steps have,
\* unless they have none but "completed".
LEMMA PlanHides ==
    ASSUME NEW T \in SUBSET StepStatus, NEW P \in BOOLEAN,
           NEW x \in T \cup IF P THEN {"pending"} ELSE {},
           \A s \in T \cup IF P THEN {"pending"} ELSE {} : sequenceStatusRank[s] <= sequenceStatusRank[x]
    PROVE  IF T \subseteq {"completed"} /\ P THEN x = "pending"
           ELSE x \in T /\ \A s \in T : sequenceStatusRank[s] <= sequenceStatusRank[x]
<1>1. \A s \in StepStatus : sequenceStatusRank[s] <= 2 => s \in {"pending", "completed"}
  BY DEF StepStatus, sequenceStatusRank
<1>2. sequenceStatusRank["pending"] = 2 /\ sequenceStatusRank["completed"] = 1
  BY DEF sequenceStatusRank
<1>3. CASE T \subseteq {"completed"} /\ P
  BY <1>2, <1>3
<1>4. CASE ~ (T \subseteq {"completed"} /\ P)
  <2>1. x \in T
    <3> SUFFICES ASSUME x \notin T PROVE FALSE
      OBVIOUS
    <3>1. P /\ x = "pending"
      OBVIOUS
    <3>2. PICK s \in T : s # "completed"
      BY <1>4, <3>1
    <3> QED BY <1>1, <1>2, <3>1, <3>2
  <2> QED BY <1>4, <2>1
<1> QED BY <1>3, <1>4

LEMMA LineSound == LineTyped => TimelineSound
<1> SUFFICES ASSUME LineTyped, NEW a PROVE
        LET t == timeline(a)
            planned == {x \in Range(Assignments) : x.agent = a}
            steps == {s \in Range(effectiveExecutionSteps) : s.agent = a}
            Of(k) == {s \in planned \cup steps : s.task = k}
            Told(k) == {s.status : s \in {u \in steps : u.task = k}}
            Highest(status, k) ==
                /\ status \in Told(k)
                /\ \A s \in Told(k) : sequenceStatusRank[s] <= sequenceStatusRank[status]
            Hidden(k) == Told(k) \subseteq {"completed"} /\ \E x \in planned : x.task = k
            running == \E s \in steps : s.status = "running"
        IN /\ \A k \in {s.task : s \in planned \cup steps} :
                \E i \in DOMAIN t :
                    /\ t[i].task = k /\ \A j \in DOMAIN t : t[j].task = k => i = j
                    /\ t[i].order = Min({s.order : s \in Of(k)})
                    /\ IF Hidden(k) THEN t[i].status = "pending" ELSE Highest(t[i].status, k)
           /\ \A i, j \in DOMAIN t : i < j => t[i].order <= t[j].order
           /\ LiveBadge(t) <=> running
           /\ steps # {} => (running <=> agentDispatch(a)[1].status = "running")
  BY DEF TimelineSound
<1> DEFINE t == timeline(a)
           planned == {x \in Range(Assignments) : x.agent = a}
           steps == {s \in Range(effectiveExecutionSteps) : s.agent = a}
           Of(k) == {s \in planned \cup steps : s.task = k}
           Told(k) == {s.status : s \in {u \in steps : u.task = k}}
           Highest(status, k) ==
               /\ status \in Told(k)
               /\ \A s \in Told(k) : sequenceStatusRank[s] <= sequenceStatusRank[status]
           Hidden(k) == Told(k) \subseteq {"completed"} /\ \E x \in planned : x.task = k
           StatusesOf(k) == Told(k) \cup IF \E x \in planned : x.task = k THEN {"pending"} ELSE {}
           running == \E s \in steps : s.status = "running"
           P == Elements(plannedTaskBlocksByAgent(a))
           S == P \cup steps
<1>1. planned = PlannedFor(a) /\ steps = StepsOf(a)
  BY DEF PlannedFor, StepsOf, Elements, Range
<1>2. /\ t \in Seq(Blocks) /\ Once(t) /\ Sums(Elements(t), S)
      /\ \A i, j \in DOMAIN t : i < j => t[i].order <= t[j].order
  BY <1>1, RowSums
<1>3. /\ \A b \in P : b.status = "pending" /\ \E x \in planned : x.task = b.task /\ x.order = b.order
      /\ \A x \in planned : \E b \in P : b.task = x.task /\ b.order = x.order /\ b.status = "pending"
  BY <1>1, PlannedIs
<1>4. LiveBadge(t) <=> \E i \in DOMAIN t : t[i].status = "running"
  BY <1>2, BadgeIs
<1>5. steps # {} => (running <=> agentDispatch(a)[1].status = "running")
  BY <1>1, DispatchIs
<1> HIDE DEF t, planned, steps, P
<1>6. ASSUME NEW k \in {s.task : s \in planned \cup steps}
      PROVE  \E i \in DOMAIN t :
                /\ t[i].task = k /\ \A j \in DOMAIN t : t[j].task = k => i = j
                /\ t[i].order = Min({s.order : s \in Of(k)})
                /\ IF Hidden(k) THEN t[i].status = "pending" ELSE Highest(t[i].status, k)
  <2>1. PICK u \in S : u.task = k
    BY <1>3
  <2> HIDE DEF S
  <2>0. \E i \in DOMAIN t : IsBlockOf(i, t, S, u.task)
    BY <1>2, RowBlock
  <2>2. PICK i \in DOMAIN t :
             /\ t[i].task = k /\ \A j \in DOMAIN t : t[j].task = k => i = j
             /\ \E s \in S : s.task = k /\ s.order = t[i].order
             /\ \E s \in S : s.task = k /\ s.status = t[i].status
             /\ \A s \in S : s.task = k => t[i].order <= s.order /\ Weight(s) <= Weight(t[i])
    BY <2>0, <2>1 DEF IsBlockOf
  <2> USE DEF S
  <2>3. \A s \in S : s.order \in Nat
    BY <1>2 DEF Sums, IsWork
  <2>4. t[i].order = Min({s.order : s \in Of(k)})
    <3> DEFINE N == {s.order : s \in Of(k)}
    <3>1. t[i].order \in N
      BY <1>3, <2>2
    <3>2. ASSUME NEW s \in Of(k) PROVE s.order \in Nat /\ t[i].order <= s.order
      <4>1. CASE s \in steps
        BY <2>2, <2>3, <4>1, <3>2
      <4>2. CASE s \in planned
        <5>1. PICK b \in P : b.task = s.task /\ b.order = s.order
          BY <1>3, <4>2
        <5> QED BY <2>2, <2>3, <3>2, <5>1
      <4> QED BY <3>2, <4>1, <4>2
    <3>3. N \in SUBSET Nat /\ N # {} /\ \A m \in N : t[i].order <= m
      BY <3>1, <3>2
    <3> HIDE DEF N
    <3>4. Min(N) \in N /\ \A m \in N : Min(N) <= m
      BY <3>3, LeastOf
    <3>5. t[i].order = Min(N)
      BY <3>1, <3>3, <3>4
    <3> QED BY <3>5 DEF N
  <2>5. t[i].status \in StatusesOf(k)
    <3>1. PICK s \in S : s.task = k /\ s.status = t[i].status
      BY <2>2
    <3>2. CASE s \in steps
      BY <3>1, <3>2
    <3>3. CASE s \in P
      <4>1. s.status = "pending" /\ \E x \in planned : x.task = k
        BY <1>3, <3>1, <3>3
      <4> QED BY <3>1, <4>1
    <3> QED BY <3>2, <3>3
  <2>6. ASSUME NEW s \in StatusesOf(k) PROVE sequenceStatusRank[s] <= sequenceStatusRank[t[i].status]
    <3>1. CASE \E u2 \in steps : u2.task = k /\ s = u2.status
      BY <2>2, <3>1 DEF Weight
    <3>2. CASE s = "pending" /\ \E x \in planned : x.task = k
      <4>1. PICK b \in P : b.task = k /\ b.status = "pending"
        BY <1>3, <3>2
      <4> QED BY <2>2, <3>2, <4>1 DEF Weight
    <3> QED BY <2>6, <3>1, <3>2
  <2>7. IF Hidden(k) THEN t[i].status = "pending" ELSE Highest(t[i].status, k)
    <3> DEFINE InPlan == \E x \in planned : x.task = k
               Heard == Told(k)
    <3>1. Heard \in SUBSET StepStatus
      BY <1>2 DEF Sums, IsWork
    <3>2. /\ InPlan \in BOOLEAN /\ t[i].status \in Heard \cup IF InPlan THEN {"pending"} ELSE {}
          /\ \A s \in Heard \cup IF InPlan THEN {"pending"} ELSE {} :
                sequenceStatusRank[s] <= sequenceStatusRank[t[i].status]
      BY <2>5, <2>6
    <3> HIDE DEF InPlan, Heard
    <3>3. IF Heard \subseteq {"completed"} /\ InPlan THEN t[i].status = "pending"
          ELSE t[i].status \in Heard /\ \A s \in Heard : sequenceStatusRank[s] <= sequenceStatusRank[t[i].status]
      BY <3>1, <3>2, PlanHides
    <3> QED BY <3>3 DEF InPlan, Heard
  <2> QED BY <2>2, <2>4, <2>5, <2>6, <2>7
<1>7. (\E i \in DOMAIN t : t[i].status = "running") <=> running
  <2>1. ASSUME NEW i \in DOMAIN t, t[i].status = "running" PROVE running
    <3>1. t[i] \in Elements(t)
      BY DEF Elements
    <3>2. PICK s \in S : s.status = t[i].status
      BY <1>2, <3>1 DEF Sums
    <3>3. s \in steps
      BY <1>3, <2>1, <3>2
    <3> QED BY <2>1, <3>2, <3>3
  <2>2. ASSUME NEW s \in steps, s.status = "running" PROVE \E i \in DOMAIN t : t[i].status = "running"
    <3>1. PICK b \in Elements(t) : Covers(b, s) /\ IsWork(b) /\ IsWork(s)
      BY <1>2 DEF Sums
    <3>2. Weight(s) = 5 /\ Weight(b) \in 1 .. 5 /\ (Weight(b) = 5 <=> b.status = "running")
      BY <2>2, <3>1, Weights DEF IsWork, Weight
    <3>3. b.status = "running"
      BY <3>1, <3>2 DEF Covers
    <3> QED BY <3>3 DEF Elements
  <2> QED BY <2>1, <2>2
<1>8. LiveBadge(t) <=> running
  BY <1>4, <1>7
<1> SUFFICES
        /\ \A k \in {s.task : s \in planned \cup steps} :
                \E i \in DOMAIN t :
                    /\ t[i].task = k /\ \A j \in DOMAIN t : t[j].task = k => i = j
                    /\ t[i].order = Min({s.order : s \in Of(k)})
                    /\ IF Hidden(k) THEN t[i].status = "pending" ELSE Highest(t[i].status, k)
        /\ \A i, j \in DOMAIN t : i < j => t[i].order <= t[j].order
        /\ LiveBadge(t) <=> running
        /\ steps # {} => (running <=> agentDispatch(a)[1].status = "running")
  BY DEF t, planned, steps
<1> HIDE DEF Of, Hidden, Highest, running
<1> QED BY <1>2, <1>5, <1>6, <1>8
(***************************************************************************)
(* The types of the monitor                                                *)
(***************************************************************************)
TasksOf(e) == {x.task : x \in PlanOf[e]}
RunStatus == {"none", "running"} \cup Over
RunOK(e, r) ==
    /\ r = [status |-> r.status, step |-> r.step] /\ r.status \in RunStatus
    /\ r.step \in [TasksOf(e) -> StepStatus]
ServerTyped ==
    /\ runs = [e \in Runs |-> runs[e]] /\ \A e \in Runs : RunOK(e, runs[e])
    /\ session = [open |-> session.open, live |-> session.live, last |-> session.last]
    /\ session.live \subseteq Runs /\ session.last \in Runs \cup {NoRun}

\* A poll and a refresh under way, and the answers that one has had.
PollOK(p) == p.ids \in Seq(Runs) /\ p.plan \in Runs \cup {NoRun}
AnswerOK(g) == g # NoRun => g.steps \in Seq(StepRecs)
ReadOK(r) ==
    /\ r = [ids |-> r.ids, got |-> r.got] /\ r.ids \in Seq(Runs)
    /\ r.got # <<>> => r.got = [i \in DOMAIN r.ids |-> r.got[i]] /\ \A i \in DOMAIN r.ids : AnswerOK(r.got[i])
UnderWay ==
    /\ IsFiniteSet(polled) /\ Cardinality(polled) <= MaxPolled /\ \A p \in polled : PollOK(p)
    /\ IsFiniteSet(reads) /\ Cardinality(reads) <= MaxReads /\ \A r \in reads : ReadOK(r)

MonitorInv ==
    /\ LineTyped /\ line = [session |-> line.session, ids |-> line.ids, plan |-> line.plan,
                            map |-> line.map, held |-> line.held]
    /\ ServerTyped /\ UnderWay /\ rounds \in 0 .. MaxRounds

LEMMA MonitorTyped == MonitorInv => TimelineTypeOK
<1> SUFFICES ASSUME MonitorInv PROVE TimelineTypeOK
  OBVIOUS
<1>1. runs \in [Runs -> [status : RunStatus, step : UNION {[TasksOf(e) -> StepStatus] : e \in Runs}]]
  BY DEF MonitorInv, ServerTyped, RunOK
<1>2. Range(line.ids) \subseteq Runs
  BY DEF MonitorInv, LineTyped, Range
<1> QED BY <1>1, <1>2 DEF MonitorInv, LineTyped, UnderWay, TimelineTypeOK, TasksOf, RunStatus

LEMMA MonitorInit == TimelineInit => MonitorInv
<1> SUFFICES ASSUME TimelineInit PROVE MonitorInv
  OBVIOUS
<1>1. LineTyped /\ line = [session |-> line.session, ids |-> line.ids, plan |-> line.plan,
                           map |-> line.map, held |-> line.held]
  BY DEF TimelineInit, LineTyped
<1>2. ServerTyped
  <2>1. \A e \in Runs : RunOK(e, runs[e])
    BY DEF TimelineInit, RunOK, TasksOf, RunStatus, StepStatus
  <2> QED BY <2>1 DEF TimelineInit, ServerTyped
<1>3. UnderWay
  BY FS_EmptySet, TimelineAssumption DEF TimelineInit, UnderWay
<1> QED BY <1>1, <1>2, <1>3, TimelineAssumption DEF TimelineInit, MonitorInv

LEMMA MonitorServer == ASSUME MonitorInv, ServerSteps PROVE MonitorInv'
<1>0. ServerTyped
  BY DEF MonitorInv
<1>1. ASSUME NEW e \in Runs, NEW r, RunOK(e, r), runs' = [runs EXCEPT ![e] = r], session' = session
      PROVE  ServerTyped'
  BY <1>0, <1>1 DEF ServerTyped
<1>2. ASSUME NEW e \in Runs, NEW s \in RunStatus
      PROVE  RunOK(e, [runs[e] EXCEPT !.status = s])
  BY <1>0 DEF ServerTyped, RunOK
<1>3. ASSUME NEW e \in Runs, NEW x \in PlanOf[e], NEW s \in StepStatus
      PROVE  RunOK(e, [runs[e] EXCEPT !.step[x.task] = s])
  <2>1. [runs[e].step EXCEPT ![x.task] = s] \in [TasksOf(e) -> StepStatus]
    BY <1>0 DEF ServerTyped, RunOK
  <2>2. [runs[e] EXCEPT !.step[x.task] = s] = [runs[e] EXCEPT !.step = [runs[e].step EXCEPT ![x.task] = s]]
    OBVIOUS
  <2> QED BY <1>0, <2>1, <2>2 DEF ServerTyped, RunOK
<1>4. UNCHANGED <<line, polled, reads, rounds>>
  BY DEF ServerSteps, startPlanExecution, runPlanExecution, dispatchStep, StepEnds,
         syncExecutions, StopSession
<1>5. ASSUME NEW e \in Runs, startPlanExecution(e) PROVE ServerTyped'
  <2> DEFINE r == [runs[e] EXCEPT !.status = "running"]
  <2>1. runs' = [runs EXCEPT ![e] = r]
    BY <1>5 DEF startPlanExecution
  <2>2. RunOK(e, r)
    BY <1>2 DEF RunStatus
  <2> HIDE DEF r
  <2>3. /\ runs' = [x \in Runs |-> runs'[x]] /\ \A x \in Runs : RunOK(x, runs'[x])
    BY <1>0, <2>1, <2>2 DEF ServerTyped
  <2>4. session' = [session EXCEPT !.live = @ \cup {e}, !.last = e]
    BY <1>5 DEF startPlanExecution
  <2>5. /\ session' = [open |-> session'.open, live |-> session'.live, last |-> session'.last]
        /\ session'.live \subseteq Runs /\ session'.last \in Runs \cup {NoRun}
    BY <1>0, <2>4 DEF ServerTyped
  <2> QED BY <2>3, <2>5 DEF ServerTyped
<1>6. ASSUME NEW e \in Runs, runPlanExecution(e) PROVE ServerTyped'
  <2>1. PICK s \in {"completed", "failed"} : runs' = [runs EXCEPT ![e].status = s]
    BY <1>6 DEF runPlanExecution
  <2>2. RunOK(e, [runs[e] EXCEPT !.status = s])
    BY <1>2 DEF RunStatus, Over
  <2> QED BY <1>1, <1>6, <2>1, <2>2 DEF runPlanExecution
<1>7. ASSUME NEW e \in Runs, NEW x \in PlanOf[e],
             dispatchStep(e, x) \/ \E o \in {"completed", "failed"} : StepEnds(e, x, o)
      PROVE  ServerTyped'
  <2>1. PICK s \in StepStatus : runs' = [runs EXCEPT ![e].step[x.task] = s] /\ session' = session
    BY <1>7 DEF dispatchStep, StepEnds, StepStatus
  <2>2. RunOK(e, [runs[e] EXCEPT !.step[x.task] = s])
    BY <1>3
  <2> QED BY <1>1, <2>1, <2>2
<1>8. ASSUME syncExecutions PROVE ServerTyped'
  <2> DEFINE L == {e \in session.live : runs[e].status = "running"}
  <2>1. session' = [session EXCEPT !.live = L] /\ runs' = runs
    BY <1>8 DEF syncExecutions
  <2>2. L \subseteq Runs
    BY <1>0 DEF ServerTyped
  <2> HIDE DEF L
  <2>3. /\ session' = [open |-> session'.open, live |-> session'.live, last |-> session'.last]
        /\ session'.live \subseteq Runs /\ session'.last \in Runs \cup {NoRun}
    BY <1>0, <2>1, <2>2 DEF ServerTyped
  <2> QED BY <1>0, <2>1, <2>3 DEF ServerTyped
<1>9. ASSUME StopSession PROVE ServerTyped'
  <2>1. runs' = [e \in Runs |-> IF e \in session.live THEN [runs[e] EXCEPT !.status = "cancelled"] ELSE runs[e]]
    BY <1>9 DEF StopSession
  <2>2. ASSUME NEW e \in Runs PROVE RunOK(e, runs'[e])
    <3>1. RunOK(e, [runs[e] EXCEPT !.status = "cancelled"]) /\ RunOK(e, runs[e])
      BY <1>0, <1>2 DEF ServerTyped, RunStatus, Over
    <3> QED BY <2>1, <3>1
  <2>3. session' = [session EXCEPT !.open = FALSE, !.live = {}]
    BY <1>9 DEF StopSession
  <2>4. /\ session' = [open |-> session'.open, live |-> session'.live, last |-> session'.last]
        /\ session'.live \subseteq Runs /\ session'.last \in Runs \cup {NoRun}
    BY <1>0, <2>3 DEF ServerTyped
  <2>5. runs' = [e \in Runs |-> runs'[e]]
    BY <2>1
  <2> QED BY <2>2, <2>4, <2>5 DEF ServerTyped
<1>10. ServerTyped'
  <2>1. CASE syncExecutions \/ StopSession
    BY <1>8, <1>9, <2>1
  <2>2. CASE ~ (syncExecutions \/ StopSession)
    <3>1. PICK e \in Runs : \/ startPlanExecution(e) \/ runPlanExecution(e)
                            \/ \E x \in PlanOf[e] : \/ dispatchStep(e, x)
                                                    \/ \E o \in {"completed", "failed"} : StepEnds(e, x, o)
      BY <2>2 DEF ServerSteps
    <3> QED BY <1>5, <1>6, <1>7, <3>1
  <2> QED BY <2>1, <2>2
<1>11. /\ LineTyped' /\ UnderWay'
  BY <1>4 DEF MonitorInv, LineTyped, UnderWay
<1> QED BY <1>4, <1>10, <1>11 DEF MonitorInv
\* The executions of a poll.
LEMMA LiveTyped == ASSUME ServerTyped PROVE Live \in Seq(Runs)
<1> DEFINE s == [e \in Runs |-> e]
           L == session.live
<1>1. s \in Seq(Runs) /\ DOMAIN s = Runs
  BY TimelineAssumption
<1>2. L \in SUBSET DOMAIN s
  BY <1>1 DEF ServerTyped
<1>3. Live = At(s, L)
  BY DEF Live
<1> HIDE DEF s, L
<1> QED BY <1>1, <1>2, <1>3, AtPositions

\* What is read of one execution: its steps in some order.
LEMMA SnapshotTyped ==
    ASSUME ServerTyped, NEW e \in Runs, NEW g \in Snapshots(e)
    PROVE  g.steps \in Seq(StepRecs)
<1> DEFINE InOrder(p) == [i \in DOMAIN p |-> [agent |-> p[i].agent, task |-> p[i].task,
                                             order |-> p[i].order, status |-> runs[e].step[p[i].task]]]
<1>1. PICK p \in SetToSeqs(PlanOf[e]) : g.steps = InOrder(p)
  <2> DEFINE A == {InOrder(p) : p \in SetToSeqs(PlanOf[e])}
             B == {{[resource |-> x.task, holder |-> x.agent] :
                       x \in {y \in PlanOf[e] : runs[e].step[y.task] = "running"}}}
  <2>1. g \in {[status |-> runs[e].status, resources |-> Held, steps |-> s] : s \in A, Held \in B}
    BY DEF Snapshots
  <2> HIDE DEF A, B
  <2>2. g.steps \in A
    BY <2>1
  <2> HIDE DEF InOrder
  <2> QED BY <2>2 DEF A
<1>2. Cardinality(PlanOf[e]) \in Nat
  BY TimelineAssumption, FS_CardinalityType
<1> DEFINE n == Cardinality(PlanOf[e])
<1>3. p \in [1 .. n -> PlanOf[e]]
  BY <1>1 DEF SetToSeqs
<1>4. ASSUME NEW i \in 1 .. n PROVE InOrder(p)[i] \in StepRecs
  <2> DEFINE x == p[i]
             st == runs[e].step[x.task]
  <2>1. x \in PlanOf[e]
    BY <1>3
  <2>2. x.agent \in Workers /\ x.task \in Jobs /\ x.order \in Nat /\ x.task \in TasksOf(e)
    BY <2>1, TimelineAssumption DEF Workers, Jobs, TasksOf
  <2>3. st \in StepStatus
    BY <2>2 DEF ServerTyped, RunOK
  <2>4. InOrder(p)[i] = [agent |-> x.agent, task |-> x.task, order |-> x.order, status |-> st]
    BY <1>3
  <2> HIDE DEF x, st
  <2> QED BY <2>2, <2>3, <2>4 DEF StepRecs
<1>5. InOrder(p) = [i \in 1 .. n |-> InOrder(p)[i]]
  BY <1>3
<1> HIDE DEF InOrder
<1>6. InOrder(p) \in [1 .. n -> StepRecs]
  BY <1>4, <1>5
<1> QED BY <1>1, <1>2, <1>6

\* What a complete refresh shows.
LEMMA FetchedTyped ==
    ASSUME NEW r, ReadOK(r), Len(r.got) = Len(r.ids)
    PROVE  /\ DOMAIN Fetched(r).map \subseteq Runs
           /\ \A e \in DOMAIN Fetched(r).map : Fetched(r).map[e] \in Seq(StepRecs)
<1> DEFINE kept == {i \in DOMAIN r.ids : r.got[i] # NoRun /\ r.got[i].status \notin Over}
           map == [e \in {r.ids[i] : i \in kept} |-> r.got[CHOOSE i \in kept : r.ids[i] = e].steps]
<1>1. Fetched(r).map = map
  BY DEF Fetched
<1>2. \A i \in DOMAIN r.ids : AnswerOK(r.got[i])
  <2>1. Len(r.ids) \in Nat /\ DOMAIN r.ids = 1 .. Len(r.ids)
    BY DEF ReadOK
  <2>2. CASE r.got = <<>>
    <3>1. Len(r.ids) = 0
      BY <2>2
    <3>2. DOMAIN r.ids = {}
      BY <2>1, <3>1
    <3> QED BY <3>2
  <2> QED BY <2>2 DEF ReadOK
<1>3. DOMAIN map = {r.ids[i] : i \in kept} /\ DOMAIN map \subseteq Runs
  BY DEF ReadOK
<1>4. ASSUME NEW e \in DOMAIN map PROVE map[e] \in Seq(StepRecs)
  <2> DEFINE k == CHOOSE i \in kept : r.ids[i] = e
  <2>1. k \in kept
    BY <1>3
  <2>2. map[e] = r.got[k].steps
    BY <1>3
  <2> HIDE DEF k, map
  <2> QED BY <1>2, <2>1, <2>2 DEF AnswerOK
<1> HIDE DEF map
<1> QED BY <1>1, <1>3, <1>4

LEMMA MonitorPage == ASSUME MonitorInv, PageSteps PROVE MonitorInv'
<1> DEFINE Shape(l) == l = [session |-> l.session, ids |-> l.ids, plan |-> l.plan, map |-> l.map, held |-> l.held]
           MapOK(m) == DOMAIN m \subseteq Runs /\ \A e \in DOMAIN m : m[e] \in Seq(StepRecs)
           LineOK(l) == Shape(l) /\ l.ids \in Seq(Runs) /\ l.plan \in Runs \cup {NoRun} /\ MapOK(l.map)
           PollsOK(P) == IsFiniteSet(P) /\ Cardinality(P) <= MaxPolled /\ \A p \in P : PollOK(p)
           ReadsOK(R) == IsFiniteSet(R) /\ Cardinality(R) <= MaxReads /\ \A r \in R : ReadOK(r)
<1>0. /\ LineOK(line) /\ PollsOK(polled) /\ ReadsOK(reads) /\ ServerTyped /\ rounds \in 0 .. MaxRounds
      /\ MaxReads \in Nat \ {0} /\ MaxPolled \in Nat /\ MaxRounds \in Nat
  BY TimelineAssumption DEF MonitorInv, LineTyped, UnderWay
<1>1. UNCHANGED <<runs, session>>
  BY DEF PageSteps, pollSession, SessionPolled, RefreshTick, ExecutionRead, RefreshDone, SessionGone
<1>2. ServerTyped'
  BY <1>0, <1>1 DEF ServerTyped
<1>3. SUFFICES LineOK(line') /\ PollsOK(polled') /\ ReadsOK(reads') /\ rounds' \in 0 .. MaxRounds
  BY <1>2 DEF MonitorInv, LineTyped, UnderWay
<1> HIDE DEF Shape, MapOK
<1>4. PollsOK({}) /\ ReadsOK({})
  BY <1>0, FS_EmptySet
<1>5. ASSUME NEW R, IsFiniteSet(R), NEW x
      PROVE  /\ IsFiniteSet(R \cup {x}) /\ IsFiniteSet(R \ {x}) /\ Cardinality(R) \in Nat
             /\ Cardinality(R \cup {x}) \in Nat /\ Cardinality(R \ {x}) \in Nat
             /\ Cardinality(R \cup {x}) <= Cardinality(R) + 1 /\ Cardinality(R \ {x}) <= Cardinality(R)
             /\ x \in R => Cardinality((R \ {x})) + 1 = Cardinality(R)
  <2>1. /\ IsFiniteSet(R \cup {x}) /\ Cardinality(R) \in Nat
        /\ Cardinality(R \cup {x}) = IF x \in R THEN Cardinality(R) ELSE Cardinality(R) + 1
    BY <1>5, FS_AddElement, FS_CardinalityType
  <2>2. /\ IsFiniteSet(R \ {x})
        /\ Cardinality(R \ {x}) = IF x \in R THEN Cardinality(R) - 1 ELSE Cardinality(R)
    BY <1>5, FS_RemoveElement
  <2> QED BY <2>1, <2>2, FS_CardinalityType
<1>6. ASSUME NEW ids \in Seq(Runs) PROVE ReadOK(refreshRealtimeExecutions(ids))
  BY DEF ReadOK, refreshRealtimeExecutions
<1>7. CASE pollSession
  <2> DEFINE p == [ids |-> Live, plan |-> session.last]
  <2>1. PollOK(p)
    BY <1>0, LiveTyped DEF PollOK, ServerTyped
  <2>2. /\ polled' = polled \cup {p} /\ Cardinality(polled) < MaxPolled /\ line' = line /\ reads' = reads
        /\ rounds < MaxRounds /\ rounds' = rounds + 1
    BY <1>7 DEF pollSession, PollOnce
  <2> HIDE DEF p
  <2>3. IsFiniteSet(polled') /\ Cardinality(polled') <= MaxPolled
    <3>1. /\ IsFiniteSet(polled \cup {p}) /\ Cardinality(polled) \in Nat
          /\ Cardinality(polled \cup {p}) \in Nat
          /\ Cardinality(polled \cup {p}) <= Cardinality(polled) + 1
      BY <1>0, <1>5
    <3>2. Cardinality(polled \cup {p}) <= MaxPolled
      BY <1>0, <3>1, <2>2
    <3> QED BY <3>1, <3>2, <2>2
  <2> QED BY <1>0, <2>1, <2>2, <2>3
<1>8. ASSUME NEW p \in polled, SessionPolled(p)
      PROVE  LineOK(line') /\ PollsOK(polled') /\ ReadsOK(reads') /\ rounds' \in 0 .. MaxRounds
  <2> DEFINE rerun == line.ids # <<>> \/ p.ids # <<>>
             empty == rerun /\ p.ids = <<>>
             m == IF empty THEN <<>> ELSE line.map
             h == IF empty THEN <<>> ELSE line.held
             fresh == IF p.ids = <<>> THEN {} ELSE {refreshRealtimeExecutions(p.ids)}
  <2>1. /\ polled' = polled \ {p} /\ rounds' = rounds
        /\ line' = [line EXCEPT !.ids = p.ids, !.plan = p.plan, !.map = m, !.held = h]
        /\ reads' = (IF rerun THEN {} ELSE reads) \cup fresh
    BY <1>8 DEF SessionPolled, CancelReads
  <2>2. PollOK(p)
    BY <1>0
  <2>3. MapOK(m)
    BY <1>0 DEF MapOK
  <2>4. ReadsOK(reads')
    <3>1. CASE p.ids = <<>>
      <4>1. reads' = {} \/ reads' = reads
        BY <2>1, <3>1
      <4> QED BY <1>0, <1>4, <4>1
    <3>2. CASE p.ids # <<>>
      <4> DEFINE r == refreshRealtimeExecutions(p.ids)
      <4>1. reads' = {r}
        BY <2>1, <3>2
      <4>2. ReadOK(r)
        BY <1>6, <2>2 DEF PollOK
      <4> HIDE DEF r
      <4>3. IsFiniteSet({r}) /\ Cardinality({r}) = 1
        BY FS_Singleton
      <4> QED BY <1>0, <4>1, <4>2, <4>3
    <3> QED BY <3>1, <3>2
  <2>5. PollsOK(polled')
    <3>1. IsFiniteSet(polled') /\ Cardinality(polled') <= Cardinality(polled) /\ Cardinality(polled) \in Nat
      BY <1>0, <1>5, <2>1
    <3>2. Cardinality(polled') \in Nat
      BY <3>1, FS_CardinalityType
    <3> QED BY <1>0, <2>1, <3>1, <3>2
  <2> HIDE DEF m, h
  <2>6. LineOK(line')
    BY <1>0, <2>1, <2>2, <2>3 DEF Shape, PollOK
  <2> QED BY <1>0, <2>1, <2>4, <2>5, <2>6
<1>9. CASE RefreshTick
  <2> DEFINE r == refreshRealtimeExecutions(line.ids)
  <2>1. /\ reads' = reads \cup {r} /\ Cardinality(reads) < MaxReads /\ line' = line /\ polled' = polled
        /\ rounds < MaxRounds /\ rounds' = rounds + 1
    BY <1>9 DEF RefreshTick, PollOnce
  <2>2. ReadOK(r)
    BY <1>0, <1>6
  <2> HIDE DEF r
  <2>3. IsFiniteSet(reads') /\ Cardinality(reads') <= MaxReads
    <3>1. /\ IsFiniteSet(reads \cup {r}) /\ Cardinality(reads) \in Nat
          /\ Cardinality(reads \cup {r}) \in Nat
          /\ Cardinality(reads \cup {r}) <= Cardinality(reads) + 1
      BY <1>0, <1>5
    <3>2. Cardinality(reads \cup {r}) <= MaxReads
      BY <1>0, <3>1, <2>1
    <3> QED BY <3>1, <3>2, <2>1
  <2> QED BY <1>0, <2>1, <2>2, <2>3
<1>10. ASSUME NEW r \in reads, ExecutionRead(r)
       PROVE  LineOK(line') /\ PollsOK(polled') /\ ReadsOK(reads') /\ rounds' \in 0 .. MaxRounds
  <2>1. PICK answer \in [DOMAIN r.ids -> UNION {Snapshots(e) : e \in Range(r.ids)} \cup {NoRun}] :
          /\ \A i \in DOMAIN r.ids : answer[i] \in Snapshots(r.ids[i]) \cup {NoRun}
          /\ reads' = (reads \ {r}) \cup {[r EXCEPT !.got = answer]}
    BY <1>10 DEF ExecutionRead
  <2> DEFINE q == [r EXCEPT !.got = answer]
  <2>2. ReadOK(r)
    BY <1>0
  <2>3. q = [ids |-> r.ids, got |-> answer] /\ q.ids = r.ids /\ q.got = answer
    BY <2>2 DEF ReadOK
  <2>4. \A i \in DOMAIN r.ids : AnswerOK(answer[i])
    <3> SUFFICES ASSUME NEW i \in DOMAIN r.ids, answer[i] # NoRun PROVE answer[i].steps \in Seq(StepRecs)
      BY DEF AnswerOK
    <3>1. r.ids[i] \in Runs /\ answer[i] \in Snapshots(r.ids[i])
      BY <2>1, <2>2 DEF ReadOK
    <3> QED BY <1>0, <3>1, SnapshotTyped
  <2>5. ReadOK(q)
    BY <2>1, <2>2, <2>3, <2>4 DEF ReadOK
  <2> HIDE DEF q
  <2> DEFINE R == reads \ {r}
  <2>6. IsFiniteSet(R) /\ Cardinality(R) + 1 = Cardinality(reads) /\ Cardinality(R) \in Nat
    <3>1. IsFiniteSet(R) /\ Cardinality(R) + 1 = Cardinality(reads)
      BY <1>0, <1>5
    <3> QED BY <3>1, FS_CardinalityType
  <2>7. reads' = R \cup {q}
    BY <2>1 DEF q
  <2> HIDE DEF R
  <2>8. IsFiniteSet(reads') /\ Cardinality(reads') <= Cardinality(R) + 1 /\ Cardinality(reads') \in Nat
    <3>1. IsFiniteSet(reads') /\ Cardinality(reads') <= Cardinality(R) + 1
      BY <1>5, <2>6, <2>7
    <3> QED BY <3>1, FS_CardinalityType
  <2>9. ReadsOK(reads')
    <3>1. \A x \in reads' : ReadOK(x)
      BY <1>0, <2>5, <2>7 DEF R
    <3>2. Cardinality(reads') <= MaxReads
      BY <1>0, <2>6, <2>8
    <3> QED BY <2>8, <3>1, <3>2
  <2> QED BY <1>0, <1>10, <2>9 DEF ExecutionRead
<1>11. ASSUME NEW r \in reads, RefreshDone(r)
       PROVE  LineOK(line') /\ PollsOK(polled') /\ ReadsOK(reads') /\ rounds' \in 0 .. MaxRounds
  <2> DEFINE m == Fetched(r).map
             h == Fetched(r).held
  <2>1. /\ Len(r.got) = Len(r.ids) /\ reads' = reads \ {r} /\ polled' = polled /\ rounds' = rounds
        /\ line' = [line EXCEPT !.map = m, !.held = h]
    BY <1>11 DEF RefreshDone
  <2>2. MapOK(m)
    BY <1>0, <2>1, FetchedTyped DEF MapOK
  <2> HIDE DEF m, h
  <2>3. LineOK(line')
    BY <1>0, <2>1, <2>2 DEF Shape
  <2>4. ReadsOK(reads')
    <3>1. IsFiniteSet(reads') /\ Cardinality(reads') <= Cardinality(reads) /\ Cardinality(reads) \in Nat
      BY <1>0, <1>5, <2>1
    <3>2. Cardinality(reads') \in Nat
      BY <3>1, FS_CardinalityType
    <3> QED BY <1>0, <2>1, <3>1, <3>2
  <2> QED BY <1>0, <2>1, <2>3, <2>4
<1>12. CASE SessionGone
  <2> DEFINE h == IF line.ids # <<>> THEN <<>> ELSE line.held
  <2>1. /\ line' = [line EXCEPT !.session = FALSE, !.ids = <<>>, !.plan = NoRun, !.map = <<>>, !.held = h]
        /\ polled' = {} /\ (reads' = {} \/ reads' = reads) /\ rounds' = rounds
    BY <1>12 DEF SessionGone, CancelReads
  <2>2. MapOK(<<>>) /\ <<>> \in Seq(Runs)
    BY DEF MapOK
  <2> HIDE DEF h
  <2>3. LineOK(line')
    BY <1>0, <2>1, <2>2 DEF Shape
  <2> QED BY <1>0, <1>4, <2>1, <2>3
<1> QED BY <1>7, <1>8, <1>9, <1>10, <1>11, <1>12 DEF PageSteps

LEMMA MonitorAlways == Spec => []MonitorInv
<1>1. Init => MonitorInv
  BY MonitorInit DEF Init
<1>2. MonitorInv /\ [Next]_vars => MonitorInv'
  <2> SUFFICES ASSUME MonitorInv, [Next]_vars PROVE MonitorInv'
    OBVIOUS
  <2>1. CASE UNCHANGED lineVars
    BY <2>1 DEF MonitorInv, LineTyped, ServerTyped, UnderWay, lineVars
  <2>2. CASE TimelineNext
    BY <2>2, MonitorServer, MonitorPage DEF TimelineNext
  <2> QED BY <2>1, <2>2 DEF Next, vars, lineVars
<1> QED BY <1>1, <1>2, PTL DEF Spec

\* The monitor, what it has asked for and the server it asks keep their types.
THEOREM TimelineTyped == Spec => []TimelineTypeOK
<1> QED BY MonitorTyped, MonitorAlways, PTL

\* In whatever order the answers list the steps of the executions, each row has one block
\* per task with the highest status the page was told, unless the plan's own "pending" hides
\* that the task is completed, and its badge, its live step and its steps agree.
THEOREM TimelineSoundCorrect == Spec => []TimelineSound
<1>1. MonitorInv => TimelineSound
  BY LineSound DEF MonitorInv
<1> QED BY <1>1, MonitorAlways, PTL

(***************************************************************************)
(* The agent page                                                          *)
(***************************************************************************)
\* The fields of the records.
IsDash(d) ==
    d = [agent |-> d.agent, robot |-> d.robot, graph |-> d.graph, filter |-> d.filter,
         tab |-> d.tab, notice |-> d.notice, isDeployingAll |-> d.isDeployingAll]
IsCache(c) ==
    c = [agents |-> c.agents, online |-> c.online, saved |-> c.saved, live |-> c.live,
         assigned |-> c.assigned, robots |-> c.robots, loaded |-> c.loaded,
         executable |-> c.executable]
IsFleet(f) ==
    f = [rows |-> f.rows, online |-> f.online, saved |-> f.saved, trees |-> f.trees,
         assigned |-> f.assigned, task |-> f.task]
IsCall(m) ==
    m = [op |-> m.op, graph |-> m.graph, agent |-> m.agent, status |-> m.status,
         sure |-> m.sure, left |-> m.left, counts |-> m.counts]

\* SelectionCoherent of a page and the caches it shows.
Coherent(d, c) ==
    /\ d.agent # Nobody => d.agent \in filteredAgents(c, d.filter)
    /\ d.robot \in {d.agent, Nobody}
    /\ d.graph = Nobody <=> Listed(c, d.agent) = {}
    /\ d.graph # Nobody => d.graph \in Listed(c, d.agent)

CacheTyped(c) ==
    IsCache(c) /\ c.agents \subseteq Agents /\ c.loaded \subseteq Graphs /\ c.assigned \in [Agents -> Rows]
FleetTyped(f) ==
    /\ IsFleet(f) /\ f.rows \subseteq Agents
    /\ f.assigned \in [Agents -> Rows] /\ f.task \in [Agents -> Graphs \cup {Nobody}]

\* A call addresses an agent; while it starts a tree it names one, and it asks for the
\* start itself only when the status it found was ready or vouched for since.
StartOps == {"refresh", "deploy", "recheck", "execute"}
CallOK(m) ==
    /\ IsCall(m) /\ m.agent \in Agents
    /\ m.op \in StartOps => m.graph \in Graphs \cup {Nobody}
    /\ m.op = "execute" /\ m.status \in Deployable => m.sure

AgentInv ==
    /\ IsDash(dash) /\ Coherent(dash, cache)
    /\ CacheTyped(cache) /\ FleetTyped(fleet)
    /\ \A m \in calls : CallOK(m)

\* The effects leave a coherent page, whatever page and caches they are given.
LEMMA SettlesCoherent ==
  ASSUME NEW old, NEW d, NEW c, IsDash(d), NEW p \in Settles(old, d, c)
  PROVE  IsDash(p) /\ Coherent(p, c)
<1> DEFINE e == [d EXCEPT !.agent = KeepAgent(d, c)]
           moved == e.agent # old.agent
<1>1. PICK g \in KeepGraph(e, c) :
        p = [e EXCEPT !.robot = KeepRobot(e, c), !.graph = g,
                      !.tab = IF moved THEN "actions" ELSE @,
                      !.notice = @ /\ ~ moved]
  BY DEF Settles
<1>2. /\ e.agent = KeepAgent(d, c) /\ e.filter = d.filter
      /\ IsDash(e)
  BY DEF IsDash
<1> HIDE DEF e, moved
<1>3. /\ IsDash(p) /\ p.agent = e.agent /\ p.filter = e.filter /\ p.graph = g
      /\ p.robot = KeepRobot(e, c)
  BY <1>1, <1>2 DEF IsDash
<1>4. p.agent # Nobody => p.agent \in filteredAgents(c, p.filter)
  BY <1>2, <1>3 DEF KeepAgent
<1>5. p.robot \in {p.agent, Nobody}
  BY <1>3 DEF KeepRobot
<1>6. Listed(c, p.agent) \subseteq Graphs /\ Nobody \notin Listed(c, p.agent)
  BY AgentPageAssumption DEF Listed
<1>7. Listed(c, p.agent) = {} => g = Nobody
  BY <1>3 DEF KeepGraph
<1>8. Listed(c, p.agent) # {} => g \in Listed(c, p.agent)
  BY <1>3 DEF KeepGraph, FirstOf
<1> QED BY <1>3, <1>4, <1>5, <1>6, <1>7, <1>8 DEF Coherent

\* What a coherent page shows is an agent, a tree or nothing.
LEMMA CoherentTyped ==
  ASSUME NEW d, NEW c, Coherent(d, c), c.agents \subseteq Agents
  PROVE  /\ d.agent \in Agents \cup {Nobody} /\ d.graph \in Graphs \cup {Nobody}
         /\ Listed(c, Nobody) = {} /\ (d.graph # Nobody => d.agent \in Agents)
         /\ (d.robot # Nobody => d.robot = d.agent /\ d.agent \in Agents)
<1>1. Listed(c, Nobody) = {}
  BY DEF Listed, assignedGraphs, NoRows
<1>2. \A f : filteredAgents(c, f) \subseteq Agents
  BY DEF filteredAgents
<1> QED BY <1>1, <1>2 DEF Coherent, Listed

LEMMA AgentInitOK == AgentInit => AgentInv
<1> SUFFICES ASSUME AgentInit PROVE AgentInv
  OBVIOUS
<1>1. /\ \A a \in Agents : cache.assigned[a] = NoRows
      /\ cache.assigned \in [Agents -> Rows] /\ NoRows \in Rows
  BY DEF AgentInit, NoRows, Rows
<1>2. CacheTyped(cache)
  BY <1>1 DEF AgentInit, CacheTyped, IsCache
<1>3. IsDash(dash) /\ Coherent(dash, cache)
  BY AgentPageAssumption DEF AgentInit, IsDash, Coherent, Listed, assignedGraphs, NoRows
<1>4. FleetTyped(fleet)
  <2>1. \A g : [NoRows EXCEPT ![g] = "outdated"] \in Rows
    BY <1>1 DEF Rows, Statuses, Rank
  <2>2. [h \in Graphs |-> "pending"] \in Rows
    BY DEF Rows, Statuses, Rank
  <2>3. \A x, g : [[b \in Agents |-> [NoRows EXCEPT ![g] = "outdated"]]
                      EXCEPT ![x] = [h \in Graphs |-> "pending"]] \in [Agents -> Rows]
    BY <2>1, <2>2
  <2> DEFINE y == [[b \in Agents |-> [NoRows EXCEPT ![CHOOSE g \in Graphs : TRUE] = "outdated"]]
                      EXCEPT ![CHOOSE a \in Agents : TRUE] = [h \in Graphs |-> "pending"]]
  <2>4. /\ y \in [Agents -> Rows]
        /\ SomeFleet = [rows |-> Agents, online |-> Agents, saved |-> {}, trees |-> Graphs,
                        assigned |-> y, task |-> [a \in Agents |-> Nobody]]
    <3>1. y \in [Agents -> Rows]
      BY <2>3
    <3>2. SomeFleet = [rows |-> Agents, online |-> Agents, saved |-> {}, trees |-> Graphs,
                       assigned |-> y, task |-> [a \in Agents |-> Nobody]]
      BY Zenon DEF SomeFleet
    <3> QED BY <3>1, <3>2
  <2> HIDE DEF y
  <2>5. fleet = SomeFleet
    BY DEF AgentInit
  <2>6. [a \in Agents |-> Nobody] \in [Agents -> Graphs \cup {Nobody}]
    OBVIOUS
  <2>7. IsFleet(fleet)
    BY <2>4, <2>5 DEF IsFleet
  <2> QED BY <2>4, <2>5, <2>6, <2>7 DEF FleetTyped
<1> QED BY <1>2, <1>3, <1>4 DEF AgentInv, AgentInit

\* A step that only shows another page.
LEMMA ShowStep ==
  ASSUME AgentInv, NEW d, IsDash(d), Show(d), UNCHANGED cache
  PROVE  IsDash(dash)' /\ Coherent(dash, cache)'
<1>1. IsDash(dash') /\ Coherent(dash', cache)
  BY SettlesCoherent DEF Show
<1> QED BY <1>1

LEMMA SelectStep ==
  ASSUME AgentInv,
         setStatusFilter \/ setSelectedAgentId \/ setDetailViewTab \/ setSelectedGraphId
  PROVE  AgentInv'
<1>1. /\ \A f : IsDash([dash EXCEPT !.filter = f])
      /\ \A a : IsDash([dash EXCEPT !.agent = a])
      /\ \A v : IsDash([dash EXCEPT !.tab = v])
      /\ \A g : IsDash([dash EXCEPT !.graph = g])
  BY DEF AgentInv, IsDash
<1>2. /\ \E d : IsDash(d) /\ Show(d)
      /\ UNCHANGED <<cache, calls, fleet>>
  BY <1>1 DEF setStatusFilter, setSelectedAgentId, setDetailViewTab, setSelectedGraphId
<1>3. IsDash(dash)' /\ Coherent(dash, cache)'
  BY <1>2, ShowStep
<1> QED BY <1>2, <1>3 DEF AgentInv

LEMMA RefreshStep ==
  ASSUME AgentInv, NEW c, Refresh(c), CacheTyped(c)
  PROVE  AgentInv'
<1>1. IsDash(dash)' /\ Coherent(dash', c)
  BY SettlesCoherent DEF Refresh, Learn, AgentInv
<1>2. Coherent(dash', cache')
  BY <1>1 DEF Refresh, Learn
<1> QED BY <1>1, <1>2 DEF Refresh, Learn, AgentInv

LEMMA CacheListed ==
  ASSUME NEW c, CacheTyped(c), NEW x, x \subseteq Agents, NEW y, NEW z
  PROVE  CacheTyped([c EXCEPT !.agents = x, !.online = y, !.saved = z])
<1> DEFINE d == [c EXCEPT !.agents = x]
           e == [d EXCEPT !.online = y]
           f == [e EXCEPT !.saved = z]
<1>1. CacheTyped(d)
  BY DEF CacheTyped, IsCache
<1> HIDE DEF d
<1>2. CacheTyped(e)
  BY <1>1 DEF CacheTyped, IsCache
<1> HIDE DEF e
<1>3. CacheTyped(f)
  BY <1>2 DEF CacheTyped, IsCache
<1> QED BY <1>3 DEF d, e

LEMMA QueryStep == ASSUME AgentInv, AgentQueries PROVE AgentInv'
<1>0. /\ IsDash(dash) /\ Coherent(dash, cache)
      /\ CacheTyped(cache) /\ FleetTyped(fleet)
  BY DEF AgentInv
<1>1. CASE FetchAgents
  <2>0. fleet.rows \subseteq Agents
    BY <1>0 DEF FleetTyped
  <2>1. PICK shown \in SUBSET fleet.rows :
          Refresh([cache EXCEPT !.agents = shown, !.online = fleet.online \cap shown,
                                !.saved = fleet.saved \cap shown])
    BY <1>1 DEF FetchAgents
  <2>2. CacheTyped([cache EXCEPT !.agents = shown, !.online = fleet.online \cap shown,
                                 !.saved = fleet.saved \cap shown])
    <3>1. shown \subseteq Agents
      BY <2>0
    <3> QED BY <1>0, <3>1, CacheListed
  <2> QED BY <2>1, <2>2, RefreshStep
<1>2. CASE FetchConnections
  <2>1. \A x : CacheTyped([cache EXCEPT !.live = x])
    BY <1>0 DEF CacheTyped, IsCache
  <2> QED BY <1>2, <2>1, RefreshStep DEF FetchConnections
<1>3. CASE FetchAssigned
  <2>1. CacheTyped([cache EXCEPT !.assigned[dash.agent] = fleet.assigned[dash.agent]])
    <3>1. dash.agent \in Agents
      BY <1>0, <1>3, CoherentTyped DEF FetchAssigned, CacheTyped
    <3>2. fleet.assigned[dash.agent] \in Rows
      BY <1>0, <3>1 DEF FleetTyped
    <3> QED BY <1>0, <3>1, <3>2 DEF CacheTyped, IsCache
  <2> QED BY <1>3, <2>1, RefreshStep DEF FetchAssigned
<1>4. CASE FetchRobots
  <2>1. \A x, y : CacheTyped([cache EXCEPT !.robots[x] = y])
    BY <1>0 DEF CacheTyped, IsCache
  <2> QED BY <1>4, <2>1, RefreshStep DEF FetchRobots
<1>5. CASE FetchExecutability
  <2>1. \A x : CacheTyped([cache EXCEPT !.executable = x])
    BY <1>0 DEF CacheTyped, IsCache
  <2>2. PICK x : Refresh([cache EXCEPT !.executable = x])
    BY <1>5 DEF FetchExecutability
  <2> QED BY <2>1, <2>2, RefreshStep
<1>6. CASE FetchGraph
  <2>1. dash.graph \in Graphs
    BY <1>0, <1>6, CoherentTyped DEF FetchGraph, CacheTyped
  <2>2. CASE dash.graph \in fleet.trees
    <3>1. CacheTyped([cache EXCEPT !.loaded = @ \cup {dash.graph}])
      BY <1>0, <2>1 DEF CacheTyped, IsCache
    <3> QED BY <1>6, <2>2, <3>1, RefreshStep DEF FetchGraph
  <2>3. CASE dash.graph \notin fleet.trees
    <3>1. PICK g : dash' \in Settles(dash, [dash EXCEPT !.graph = g], cache)
      BY <1>6, <2>3 DEF FetchGraph
    <3>2. IsDash([dash EXCEPT !.graph = g])
      BY <1>0 DEF IsDash
    <3>3. IsDash(dash') /\ Coherent(dash', cache)
      BY <3>1, <3>2, SettlesCoherent
    <3>4. cache' = [cache EXCEPT !.loaded = @ \ {dash.graph}] /\ UNCHANGED <<calls, fleet>>
      BY <1>6, <2>3 DEF FetchGraph
    <3>5. CacheTyped(cache')
      BY <1>0, <3>4 DEF CacheTyped, IsCache
    <3>6. /\ cache'.agents = cache.agents /\ cache'.online = cache.online
          /\ cache'.saved = cache.saved /\ cache'.live = cache.live
          /\ cache'.assigned = cache.assigned
      BY <1>0, <3>4 DEF CacheTyped, IsCache
    <3>7. /\ filteredAgents(cache', dash'.filter) = filteredAgents(cache, dash'.filter)
          /\ Listed(cache', dash'.agent) = Listed(cache, dash'.agent)
      BY <3>6 DEF filteredAgents, isAgentAlive, Listed, assignedGraphs
    <3>8. Coherent(dash', cache')
      BY <3>3, <3>7 DEF Coherent
    <3> QED BY <3>3, <3>4, <3>5, <3>8 DEF AgentInv
  <2> QED BY <2>2, <2>3
<1> QED BY <1>1, <1>2, <1>3, <1>4, <1>5, <1>6 DEF AgentQueries

\* A call that is added, or that takes the place of another, keeps the rest.
LEMMA CallOf ==
  ASSUME NEW op, NEW g, NEW a \in Agents, op \in StartOps => g \in Graphs \cup {Nobody},
         op # "execute"
  PROVE  CallOK(Call(op, g, a))
  BY DEF CallOK, Call, IsCall

LEMMA NewCall ==
  ASSUME AgentInv, NEW m, CallOK(m), calls' = calls \cup {m}, UNCHANGED <<dash, cache, fleet>>
  PROVE  AgentInv'
<1>1. \A n \in calls' : CallOK(n)
  BY DEF AgentInv
<1> QED BY <1>1 DEF AgentInv

LEMMA ButtonStep ==
  ASSUME AgentInv,
         \/ executeGraph \/ pauseTask \/ cancelTask \/ resetState \/ deployGraph
         \/ removeAssignedGraph \/ deleteAgent
  PROVE  AgentInv'
<1>1. /\ dash.graph \in Graphs \cup {Nobody} /\ Listed(cache, Nobody) = {}
      /\ dash.graph # Nobody => dash.agent \in Agents
      /\ dash.robot # Nobody => dash.robot = dash.agent /\ dash.agent \in Agents
  BY CoherentTyped DEF AgentInv, CacheTyped
<1>2. TreeShown(dash) => dash.agent \in Agents
  BY <1>1, AgentPageAssumption DEF TreeShown, AgentInv, CacheTyped
<1>3. CASE executeGraph
  <2> DEFINE c == Call("refresh", dash.graph, dash.robot)
             s == assignedGraphs(cache, dash.agent)[dash.graph]
  <2>1. CallOK(c) /\ c.op = "refresh"
    <3>1. dash.robot \in Agents
      BY <1>1, <1>3 DEF executeGraph, StartButton
    <3>2. CallOK(c)
      BY <1>1, <3>1, CallOf
    <3> QED BY <3>2 DEF Call
  <2> HIDE DEF c, s
  <2>2. CallOK([c EXCEPT !.status = s])
    BY <2>1 DEF CallOK, IsCall
  <2>3. calls' = calls \cup {[c EXCEPT !.status = s]} /\ UNCHANGED <<dash, cache, fleet>>
    BY <1>3 DEF executeGraph, c, s
  <2> QED BY <2>2, <2>3, NewCall
<1>4. CASE pauseTask \/ cancelTask
  <2>1. dash.robot \in Agents
    BY <1>1, <1>4 DEF pauseTask, cancelTask, StopButtons
  <2>2. \A g : CallOK(Call("pause", g, dash.robot)) /\ CallOK(Call("cancel", g, dash.robot))
    BY <2>1, CallOf DEF StartOps
  <2> QED BY <1>4, <2>2, NewCall DEF pauseTask, cancelTask
<1>5. CASE resetState
  <2>1. CallOK(Call("reset", dash.graph, dash.agent))
    BY <1>1, <1>5, CallOf DEF resetState, ResetButton, StartOps
  <2> QED BY <1>5, <2>1, NewCall DEF resetState
<1>6. CASE deployGraph
  <2>1. CallOK(Call("deployOne", dash.graph, dash.agent))
    BY <1>2, <1>6, CallOf DEF deployGraph, StartOps
  <2> QED BY <1>6, <2>1, NewCall DEF deployGraph
<1>7. CASE removeAssignedGraph
  <2>1. \A g : CallOK(Call("remove", g, dash.agent))
    BY <1>2, <1>7, CallOf DEF removeAssignedGraph, StartOps
  <2> QED BY <1>7, <2>1, NewCall DEF removeAssignedGraph
<1>8. CASE deleteAgent
  <2>1. \A a \in filteredAgents(cache, dash.filter) : a \in Agents
    BY DEF filteredAgents, AgentInv, CacheTyped
  <2>2. \A a \in filteredAgents(cache, dash.filter) : CallOK(Call("deleteAgent", Nobody, a))
    BY <2>1, CallOf DEF StartOps
  <2> QED BY <1>8, <2>2, NewCall DEF deleteAgent
<1> QED BY <1>3, <1>4, <1>5, <1>6, <1>7, <1>8

\* Deploying all touches only the flag and the notice of the page.
LEMMA FlagsStep ==
  ASSUME AgentInv, NEW b, NEW n, dash' = [dash EXCEPT !.isDeployingAll = b, !.notice = n],
         UNCHANGED cache
  PROVE  IsDash(dash)' /\ Coherent(dash, cache)'
<1>1. /\ dash'.agent = dash.agent /\ dash'.robot = dash.robot /\ dash'.graph = dash.graph
      /\ dash'.filter = dash.filter /\ IsDash(dash')
  BY DEF AgentInv, IsDash
<1> QED BY <1>1 DEF AgentInv, Coherent

LEMMA DeployAllStart == ASSUME AgentInv, handleDeployUpdateAll PROVE AgentInv'
<1> DEFINE c == Call("deployAll", Nobody, dash.agent)
           m == [c EXCEPT !.left = deployableGraphTargets(cache, dash.agent)]
<1>1. dash.agent \in Agents
  <2>1. dash.graph # Nobody
    BY AgentPageAssumption DEF handleDeployUpdateAll, TreeShown, AgentInv, CacheTyped
  <2> QED BY <2>1, CoherentTyped DEF AgentInv, CacheTyped
<1>2. CallOK(c) /\ c.op = "deployAll"
  <2>1. CallOK(c)
    BY <1>1, CallOf DEF StartOps
  <2> QED BY <2>1 DEF Call
<1>3. IsDash(dash)' /\ Coherent(dash, cache)'
  BY FlagsStep DEF handleDeployUpdateAll
<1>4. calls' = calls \cup {m} /\ UNCHANGED <<cache, fleet>>
  BY DEF handleDeployUpdateAll
<1> HIDE DEF c
<1>5. CallOK(m)
  BY <1>2 DEF CallOK, IsCall, StartOps
<1> HIDE DEF m
<1>6. \A n \in calls' : CallOK(n)
  BY <1>4, <1>5 DEF AgentInv
<1> QED BY <1>3, <1>4, <1>6 DEF AgentInv

LEMMA SaveStep == ASSUME AgentInv, saveCapabilityTemplate PROVE AgentInv'
<1>1. PICK x : fleet' = [fleet EXCEPT !.saved = x]
  BY DEF saveCapabilityTemplate
<1>2. FleetTyped(fleet')
  BY <1>1 DEF AgentInv, FleetTyped, IsFleet
<1> QED BY <1>2 DEF AgentInv, saveCapabilityTemplate

\* Changes of one row, of one task, and of the sets of the fleet.
LEMMA FleetRow ==
  ASSUME NEW f, FleetTyped(f), NEW a, NEW g, NEW s \in Statuses \cup {"none"}
  PROVE  FleetTyped([f EXCEPT !.assigned[a][g] = s])
<1> DEFINE x == [f.assigned EXCEPT ![a][g] = s]
<1>1. x \in [Agents -> Rows]
  BY DEF FleetTyped, Rows
<1>2. [f EXCEPT !.assigned[a][g] = s] = [f EXCEPT !.assigned = x]
  OBVIOUS
<1> HIDE DEF x
<1>3. FleetTyped([f EXCEPT !.assigned = x])
  BY <1>1 DEF FleetTyped, IsFleet
<1> QED BY <1>2, <1>3

LEMMA FleetTask ==
  ASSUME NEW f, FleetTyped(f), NEW a, NEW t \in Graphs \cup {Nobody}
  PROVE  FleetTyped([f EXCEPT !.task[a] = t])
<1> DEFINE x == [f.task EXCEPT ![a] = t]
<1>1. x \in [Agents -> Graphs \cup {Nobody}]
  BY DEF FleetTyped
<1>2. [f EXCEPT !.task[a] = t] = [f EXCEPT !.task = x]
  OBVIOUS
<1> HIDE DEF x
<1>3. FleetTyped([f EXCEPT !.task = x])
  BY <1>1 DEF FleetTyped, IsFleet
<1> QED BY <1>2, <1>3

LEMMA DeployFleet ==
  ASSUME AgentInv, NEW m, NEW s \in Statuses, deployActionGraph(m, s)
  PROVE  FleetTyped(fleet)'
<1>1. FleetTyped(fleet)
  BY DEF AgentInv
<1>2. FleetTyped([fleet EXCEPT !.assigned[m.agent][m.graph] = s])
  BY <1>1, FleetRow
<1>3. \/ fleet' = [fleet EXCEPT !.assigned[m.agent][m.graph] = s]
      \/ fleet' = fleet
  BY DEF deployActionGraph
<1> QED BY <1>1, <1>2, <1>3

\* An answer that ends a call, or moves it on.
LEMMA AnswerStep ==
  ASSUME AgentInv, NEW m \in calls, UNCHANGED <<dash, cache>>, FleetTyped(fleet)',
         \/ Finish(m)
         \/ \E n : CallOK(n) /\ Replace(m, n)
  PROVE  AgentInv'
<1>1. \A n \in calls' : CallOK(n)
  BY DEF AgentInv, Finish, Replace
<1> QED BY <1>1 DEF AgentInv

\* A start that is vouched for goes on, one that is not may ask again.
LEMMA Vouched ==
  ASSUME NEW m, CallOK(m), m.op \in StartOps
  PROVE  CallOK([m EXCEPT !.op = "execute", !.sure = TRUE]) /\ CallOK([m EXCEPT !.op = "recheck"])
<1> DEFINE n == [m EXCEPT !.op = "execute"]
           o == [n EXCEPT !.sure = TRUE]
<1>1. IsCall(n) /\ n.agent = m.agent /\ n.graph = m.graph /\ n.op = "execute"
  BY DEF CallOK, IsCall
<1> HIDE DEF n
<1>2. \A b : /\ IsCall([n EXCEPT !.sure = b])
             /\ [n EXCEPT !.sure = b].agent = m.agent /\ [n EXCEPT !.sure = b].graph = m.graph
             /\ [n EXCEPT !.sure = b].sure = b
  BY <1>1 DEF IsCall
<1> HIDE DEF o
<1>3. CallOK(o)
  <2>1. m.agent \in Agents /\ m.graph \in Graphs \cup {Nobody}
    BY DEF CallOK
  <2>2. IsCall(o) /\ o.agent = m.agent /\ o.graph = m.graph /\ o.sure
    BY <1>2 DEF o
  <2> QED BY <2>1, <2>2 DEF CallOK
<1>4. CallOK([m EXCEPT !.op = "recheck"])
  BY DEF CallOK, IsCall, StartOps
<1> QED BY <1>3, <1>4 DEF n, o

LEMMA StartingStep ==
  ASSUME AgentInv, NEW m \in calls,
         StatusRefreshed(m) \/ Deployed(m) \/ Rechecked(m) \/ Started(m)
  PROVE  AgentInv'
<1>0. CallOK(m) /\ FleetTyped(fleet)
  BY DEF AgentInv
<1>1. CASE StatusRefreshed(m)
  <2>1. PICK s : Replace(m, [m EXCEPT !.status = s, !.op = IF s \in Ready THEN "execute" ELSE "deploy",
                                !.sure = s \in Ready /\ s = fleet.assigned[m.agent][m.graph]])
    BY <1>1 DEF StatusRefreshed
  <2>2. ASSUME NEW op \in {"execute", "deploy"}, NEW b, op = "execute" => s \in Ready
        PROVE  CallOK([m EXCEPT !.status = s, !.op = op, !.sure = b])
    <3> DEFINE n == [m EXCEPT !.status = s]
               o == [n EXCEPT !.op = op]
               p == [o EXCEPT !.sure = b]
    <3>1. IsCall(n) /\ n.agent = m.agent /\ n.graph = m.graph /\ n.status = s
      BY <1>0 DEF CallOK, IsCall
    <3> HIDE DEF n
    <3>2. IsCall(o) /\ o.agent = m.agent /\ o.graph = m.graph /\ o.status = s /\ o.op = op
      BY <3>1 DEF IsCall
    <3> HIDE DEF o
    <3>3. IsCall(p) /\ p.agent = m.agent /\ p.graph = m.graph /\ p.status = s /\ p.op = op
      BY <3>2 DEF IsCall
    <3> HIDE DEF p
    <3>4. m.agent \in Agents /\ m.graph \in Graphs \cup {Nobody}
      BY <1>0, <1>1 DEF CallOK, StartOps, StatusRefreshed
    <3>5. CallOK(p)
      BY <2>2, <3>3, <3>4 DEF CallOK, Ready, Deployable
    <3> QED BY <3>5 DEF n, o, p
  <2>3. CallOK([m EXCEPT !.status = s, !.op = IF s \in Ready THEN "execute" ELSE "deploy",
                         !.sure = s \in Ready /\ s = fleet.assigned[m.agent][m.graph]])
    BY <2>2
  <2> QED BY <1>0, <1>1, <2>1, <2>3, AnswerStep DEF StatusRefreshed
<1>2. CASE Deployed(m)
  <2>1. PICK s \in Statuses, answered \in BOOLEAN :
          /\ deployActionGraph(m, s)
          /\ Replace(m, IF answered /\ s = "deployed" THEN [m EXCEPT !.op = "execute", !.sure = TRUE]
                        ELSE [m EXCEPT !.op = "recheck"])
    BY <1>2 DEF Deployed
  <2>2. CallOK([m EXCEPT !.op = "execute", !.sure = TRUE]) /\ CallOK([m EXCEPT !.op = "recheck"])
    BY <1>0, <1>2, Vouched DEF StartOps, Deployed
  <2>3. FleetTyped(fleet)'
    BY <2>1, DeployFleet
  <2> QED BY <1>2, <2>1, <2>2, <2>3, AnswerStep DEF Deployed
<1>3. CASE Rechecked(m)
  <2>1. CallOK([m EXCEPT !.op = "execute", !.sure = TRUE])
    BY <1>0, <1>3, Vouched DEF StartOps, Rechecked
  <2> QED BY <1>0, <1>3, <2>1, AnswerStep DEF Rechecked
<1>4. CASE Started(m)
  <2>1. FleetTyped(fleet)'
    <3>1. CASE UNCHANGED fleet
      BY <1>0, <3>1
    <3>2. CASE fleet' = [fleet EXCEPT !.assigned[m.agent][m.graph] = "deployed",
                                      !.task[m.agent] = IF @ = Nobody THEN m.graph ELSE @]
      <4> DEFINE f == [fleet EXCEPT !.assigned[m.agent][m.graph] = "deployed"]
                 t == IF f.task[m.agent] = Nobody THEN m.graph ELSE f.task[m.agent]
      <4>1. FleetTyped(f)
        BY <1>0, FleetRow DEF Statuses, Rank
      <4>2. f.task = fleet.task
        BY <1>0 DEF FleetTyped, IsFleet
      <4>3. t \in Graphs \cup {Nobody}
        BY <1>0, <1>4, <4>2 DEF FleetTyped, CallOK, Started, StartOps
      <4>4. fleet' = [f EXCEPT !.task[m.agent] = t]
        BY <3>2, <4>2
      <4> HIDE DEF f, t
      <4> QED BY <4>1, <4>3, <4>4, FleetTask
    <3> QED BY <1>4, <3>1, <3>2 DEF Started
  <2> QED BY <1>4, <2>1, AnswerStep DEF Started
<1> QED BY <1>1, <1>2, <1>3, <1>4

LEMMA OtherAnswerStep ==
  ASSUME AgentInv, NEW m \in calls,
         \/ Controlled(m) \/ OneDeployed(m) \/ Removed(m) \/ DeployAllStep(m) \/ DeployAllDone(m)
         \/ AgentDeleted(m)
  PROVE  AgentInv'
<1>0. CallOK(m) /\ FleetTyped(fleet) /\ IsFleet(fleet) /\ IsDash(dash)
  BY DEF AgentInv, FleetTyped
<1>1. CASE Controlled(m)
  <2>1. FleetTyped([fleet EXCEPT !.task[m.agent] = Nobody])
    BY <1>0, FleetTask
  <2>2. FleetTyped(fleet)' /\ Finish(m) /\ UNCHANGED <<dash, cache>>
    BY <1>0, <1>1, <2>1 DEF Controlled
  <2> QED BY <2>2, AnswerStep
<1>2. CASE OneDeployed(m)
  <2>1. FleetTyped(fleet)'
    BY <1>2, DeployFleet DEF OneDeployed
  <2> QED BY <1>2, <2>1, AnswerStep DEF OneDeployed
<1>3. CASE Removed(m)
  <2>1. FleetTyped([fleet EXCEPT !.assigned[m.agent][m.graph] = "none"])
    BY <1>0, FleetRow
  <2> QED BY <1>3, <2>1, AnswerStep DEF Removed
<1>4. CASE DeployAllStep(m)
  <2>1. PICK g, n :
          /\ n \in {[[m EXCEPT !.left = @ \ {g}] EXCEPT !.counts.skipped = @ + 1],
                    [[m EXCEPT !.left = @ \ {g}] EXCEPT !.counts.ok = @ + 1],
                    [[m EXCEPT !.left = @ \ {g}] EXCEPT !.counts.failed = @ + 1]}
          /\ Replace(m, n)
          /\ \/ UNCHANGED fleet
             \/ \E s \in Statuses : deployActionGraph([m EXCEPT !.graph = g], s)
    BY <1>4 DEF DeployAllStep
  <2>2. CallOK(n)
    <3> DEFINE r == [m EXCEPT !.left = @ \ {g}]
    <3>1. IsCall(r) /\ r.op = m.op /\ r.agent = m.agent
      BY <1>0 DEF CallOK, IsCall
    <3> HIDE DEF r
    <3>2. PICK x : n = [r EXCEPT !.counts = x]
      BY <2>1 DEF r
    <3>3. IsCall(n) /\ n.op = m.op /\ n.agent = m.agent
      BY <3>1, <3>2 DEF IsCall
    <3> QED BY <1>0, <1>4, <3>3 DEF CallOK, DeployAllStep, StartOps
  <2>3. FleetTyped(fleet)'
    BY <1>0, <2>1, DeployFleet
  <2> QED BY <1>4, <2>1, <2>2, <2>3, AnswerStep DEF DeployAllStep
<1>5. CASE DeployAllDone(m)
  <2>1. IsDash(dash)' /\ Coherent(dash, cache)'
    BY <1>5, FlagsStep DEF DeployAllDone
  <2>2. \A n \in calls' : CallOK(n)
    BY <1>5 DEF DeployAllDone, Finish, AgentInv
  <2> QED BY <1>5, <2>1, <2>2 DEF AgentInv, DeployAllDone
<1>6. CASE AgentDeleted(m)
  <2> DEFINE d == IF dash.agent = m.agent THEN [dash EXCEPT !.agent = Nobody] ELSE dash
  <2>1. IsDash(d)
    BY <1>0 DEF IsDash
  <2>2. Show(d) /\ UNCHANGED cache
    BY <1>6 DEF AgentDeleted
  <2>3. IsDash(dash)' /\ Coherent(dash, cache)'
    BY <2>1, <2>2, ShowStep
  <2>4. FleetTyped(fleet')
    <3> DEFINE x == [fleet.assigned EXCEPT ![m.agent] = NoRows]
               f == [fleet EXCEPT !.rows = @ \ {m.agent}]
               h == [f EXCEPT !.saved = @ \ {m.agent}]
    <3>1. NoRows \in Rows
      BY DEF NoRows, Rows
    <3>2. x \in [Agents -> Rows]
      BY <1>0, <3>1 DEF FleetTyped
    <3>3. FleetTyped(f) /\ f.assigned = fleet.assigned
      BY <1>0 DEF FleetTyped, IsFleet
    <3>4. fleet' = [h EXCEPT !.assigned = x]
      BY <1>0, <1>6 DEF AgentDeleted, FleetTyped, IsFleet
    <3> HIDE DEF f, x
    <3>5. FleetTyped(h) /\ h.assigned = fleet.assigned
      BY <3>3 DEF FleetTyped, IsFleet
    <3> HIDE DEF h
    <3>6. FleetTyped([h EXCEPT !.assigned = x])
      BY <3>2, <3>5 DEF FleetTyped, IsFleet
    <3> QED BY <3>4, <3>6
  <2>5. \A n \in calls' : CallOK(n)
    BY <1>6 DEF AgentDeleted, Finish, AgentInv
  <2> QED BY <2>2, <2>3, <2>4, <2>5 DEF AgentInv
<1> QED BY <1>1, <1>2, <1>3, <1>4, <1>5, <1>6

LEMMA FleetSets ==
    ASSUME NEW f, FleetTyped(f), NEW x
    PROVE  /\ FleetTyped([f EXCEPT !.online = x])
           /\ FleetTyped([f EXCEPT !.trees = x])
           /\ x \subseteq Agents => FleetTyped([f EXCEPT !.rows = x])
<1>1. FleetTyped([f EXCEPT !.online = x])
  BY DEF FleetTyped, IsFleet
<1>2. FleetTyped([f EXCEPT !.trees = x])
  BY DEF FleetTyped, IsFleet
<1>3. ASSUME x \subseteq Agents PROVE FleetTyped([f EXCEPT !.rows = x])
  BY <1>3 DEF FleetTyped, IsFleet
<1> QED BY <1>1, <1>2, <1>3

LEMMA FleetStep == ASSUME AgentInv, FleetChanges PROVE AgentInv'
<1>0. FleetTyped(fleet)
  BY DEF AgentInv
<1>1. \A a \in Agents : FleetTyped([fleet EXCEPT !.online = @ \ {a}])
  BY <1>0, FleetSets
<1>2. ASSUME NEW a \in Agents
      PROVE  FleetTyped([fleet EXCEPT !.online = @ \cup {a}, !.rows = @ \cup {a}])
  <2> DEFINE f == [fleet EXCEPT !.online = @ \cup {a}]
             x == f.rows \cup {a}
  <2>1. FleetTyped(f)
    BY <1>0, FleetSets
  <2> HIDE DEF f
  <2>2. x \subseteq Agents
    BY <2>1 DEF FleetTyped
  <2> HIDE DEF x
  <2>3. FleetTyped([f EXCEPT !.rows = x])
    BY <2>1, <2>2, FleetSets
  <2> QED BY <2>3 DEF f, x
<1>3. \A g : FleetTyped([fleet EXCEPT !.trees = @ \ {g}])
  BY <1>0, FleetSets
<1>4. \A a : FleetTyped([fleet EXCEPT !.task[a] = Nobody])
  BY <1>0, FleetTask
<1>5. \A a, g : \A s \in {"deployed", "failed"} : FleetTyped([fleet EXCEPT !.assigned[a][g] = s])
  BY <1>0, FleetRow DEF Statuses, Rank
<1>6. \/ \E a \in Agents : fleet' = [fleet EXCEPT !.online = @ \ {a}]
      \/ \E a \in Agents : fleet' = [fleet EXCEPT !.online = @ \cup {a}, !.rows = @ \cup {a}]
      \/ \E g \in fleet.trees : fleet' = [fleet EXCEPT !.trees = @ \ {g}]
      \/ \E a \in Agents : fleet' = [fleet EXCEPT !.task[a] = Nobody]
      \/ \E a \in Agents, g \in Graphs : \E s \in {"deployed", "failed"} :
            fleet' = [fleet EXCEPT !.assigned[a][g] = s]
  BY DEF FleetChanges
<1>7. FleetTyped(fleet')
  <2>1. CASE \E a \in Agents : fleet' = [fleet EXCEPT !.online = @ \ {a}]
    BY <1>1, <2>1
  <2>2. CASE \E a \in Agents : fleet' = [fleet EXCEPT !.online = @ \cup {a}, !.rows = @ \cup {a}]
    BY <1>2, <2>2
  <2>3. CASE \E g \in fleet.trees : fleet' = [fleet EXCEPT !.trees = @ \ {g}]
    BY <1>3, <2>3
  <2>4. CASE \E a \in Agents : fleet' = [fleet EXCEPT !.task[a] = Nobody]
    <3>1. PICK a \in Agents : fleet' = [fleet EXCEPT !.task[a] = Nobody]
      BY <2>4
    <3>2. FleetTyped([fleet EXCEPT !.task[a] = Nobody])
      BY <1>4
    <3> QED BY <3>1, <3>2
  <2>5. CASE \E a \in Agents, g \in Graphs : \E s \in {"deployed", "failed"} :
                fleet' = [fleet EXCEPT !.assigned[a][g] = s]
    <3>1. PICK a \in Agents, g \in Graphs, s \in {"deployed", "failed"} :
                fleet' = [fleet EXCEPT !.assigned[a][g] = s]
      BY <2>5
    <3>2. FleetTyped([fleet EXCEPT !.assigned[a][g] = s])
      BY <1>5
    <3> QED BY <3>1, <3>2
  <2> QED BY <1>6, <2>1, <2>2, <2>3, <2>4, <2>5
<1> QED BY <1>7 DEF AgentInv, FleetChanges

LEMMA AgentStep == ASSUME AgentInv, [AgentNext]_dashVars PROVE AgentInv'
<1>1. CASE UNCHANGED dashVars
  BY <1>1 DEF AgentInv, dashVars
<1>2. CASE AgentUser
  BY <1>2, SelectStep, ButtonStep, DeployAllStart, SaveStep DEF AgentUser
<1>3. CASE AgentAnswers
  BY <1>3, StartingStep, OtherAnswerStep DEF AgentAnswers
<1> QED BY <1>1, <1>2, <1>3, QueryStep, FleetStep DEF AgentNext

LEMMA AgentAlways == Spec => []AgentInv
<1>1. Init => AgentInv
  BY AgentInitOK DEF Init
<1>2. AgentInv /\ [Next]_vars => AgentInv'
  <2> SUFFICES ASSUME AgentInv, [Next]_vars PROVE AgentInv'
    OBVIOUS
  <2>1. [AgentNext]_dashVars
    BY DEF Next, vars, dashVars
  <2> QED BY <2>1, AgentStep
<1> QED BY <1>1, <1>2, PTL DEF Spec

\* Whatever list, status or assignment arrives, and whatever is deleted, removed or
\* filtered away meanwhile, the agent shown is a listed one, the robot addressed is
\* that agent's and the tree to start is assigned to it: the effects restore it alone.
THEOREM SelectionCoherentCorrect == Spec => []SelectionCoherent
<1>1. AgentInv => SelectionCoherent
  BY DEF AgentInv, Coherent, SelectionCoherent
<1> QED BY <1>1, AgentAlways, PTL

\* No start is sent on over a status that asked for a deploy unless that deploy, or
\* the server after it, vouched for the tree.
THEOREM StartVouchedCorrect == Spec => []StartVouched
<1>1. AgentInv => StartVouched
  BY DEF AgentInv, CallOK, StartVouched
<1> QED BY <1>1, AgentAlways, PTL

\* The agent page, its caches, its calls and the fleet keep their types.
THEOREM AgentTyped == Spec => []AgentTypeOK
<1>1. AgentInv => AgentTypeOK
  BY CoherentTyped DEF AgentInv, AgentTypeOK, CallOK, CacheTyped, FleetTyped
<1> QED BY <1>1, AgentAlways, PTL

(***************************************************************************)
(* The planning page: one round of its effects                             *)
(***************************************************************************)
\* The planning page and its draft as functions of their fields.
PageFields ==
    {"td", "draft", "treeList", "distributors", "agents", "memo", "execution", "session", "polling",
     "isSolving", "isStarting", "isStopping", "skipReset", "restoredKey", "isApplying", "autoSelected"}
DraftFields ==
    {"selectedBTIds", "selectedAgentIds", "goalState", "plan", "executionId", "realtimeGoals",
     "realtimeSessionId"}
IsPage(q) == q = [f \in PageFields |-> q[f]]
IsDraft(d) == d = [f \in DraftFields |-> d[f]]

\* A round keeps the fields that no effect sets, and sets the others once.
LEMMA RoundIs ==
  ASSUME NEW r, IsPage(r.new)
  PROVE  /\ Round(r).old = r.new /\ Round(r).loaded = FALSE
         /\ Round(r).store = PersistDraft(r) /\ Round(r).net = CancelPolls(r)
         /\ IsPage(Round(r).new)
         /\ Round(r).new.td = r.new.td /\ Round(r).new.treeList = r.new.treeList
         /\ Round(r).new.draft = ResetSelection(r, AutoSelectTask(r.new, DropUnknown(r, r.new.draft)))
         /\ Round(r).new.isApplying <=> r.new.isApplying /\ ~ Changed(r)
         /\ Round(r).new.autoSelected <=> \/ r.new.autoSelected \/ r.new.draft.selectedBTIds # <<>>
                                          \/ r.new.treeList # {}
         /\ Round(r).new.polling <=> IF r.old.draft.executionId # r.new.draft.executionId
                                     THEN r.new.draft.executionId # 0 ELSE r.new.polling
         /\ Round(r).new.execution = IF KeyOf(r.old) # KeyOf(r.new) /\ ~ Kept(r)
                                     THEN NoExecution ELSE r.new.execution
         /\ Round(r).new.skipReset <=> r.new.skipReset /\ KeyOf(r.old) = KeyOf(r.new)
<1> DEFINE q == r.new
           dr == ResetSelection(r, AutoSelectTask(q, DropUnknown(r, q.draft)))
           me == IF Changed(r) THEN Resolved(q) ELSE q.memo
           ap == q.isApplying /\ ~ Changed(r)
           au == q.autoSelected \/ q.draft.selectedBTIds # <<>> \/ q.treeList # {}
           po == IF r.old.draft.executionId # q.draft.executionId
                 THEN q.draft.executionId # 0 ELSE q.polling
           se == IF r.old.draft.realtimeSessionId # 0 /\ q.draft.realtimeSessionId = 0
                 THEN NoSession ELSE q.session
           ex == IF KeyOf(r.old) # KeyOf(q) /\ ~ Kept(r) THEN NoExecution ELSE q.execution
           sk == q.skipReset /\ ~ (KeyOf(r.old) # KeyOf(q))
           ke == IF KeyOf(r.old) # KeyOf(q) /\ ~ q.skipReset /\ q.restoredKey = KeyOf(q)
                 THEN Null ELSE q.restoredKey
           p == [q EXCEPT !.draft = dr, !.memo = me, !.isApplying = ap, !.autoSelected = au,
                          !.polling = po]
           n == [p EXCEPT !.session = se, !.execution = ex, !.skipReset = sk, !.restoredKey = ke]
<1>1. RunEffects(r) = n
  BY Zenon DEF RunEffects
<1> HIDE DEF dr, me, ap, au, po, se, ex, sk, ke
<1>0. /\ IsPage(p) /\ p.td = q.td /\ p.treeList = q.treeList
      /\ p.draft = dr /\ p.isApplying = ap /\ p.autoSelected = au /\ p.polling = po
  BY DEF IsPage, PageFields
<1> HIDE DEF p
<1>2. /\ IsPage(n) /\ n.td = q.td /\ n.treeList = q.treeList
      /\ n.draft = dr /\ n.isApplying = ap /\ n.autoSelected = au /\ n.polling = po
      /\ n.execution = ex /\ n.skipReset = sk
  BY <1>0 DEF IsPage, PageFields
<1> HIDE DEF n
<1>3. /\ Round(r).old = q /\ Round(r).loaded = FALSE /\ Round(r).store = PersistDraft(r)
      /\ Round(r).net = CancelPolls(r) /\ Round(r).new = n
  BY <1>1 DEF Round
<1>4. (ap <=> q.isApplying /\ ~ Changed(r)) /\ (sk <=> q.skipReset /\ KeyOf(r.old) = KeyOf(q))
  BY DEF ap, sk
<1>5. au <=> q.autoSelected \/ q.draft.selectedBTIds # <<>> \/ q.treeList # {}
  BY DEF au
<1>6. po <=> IF r.old.draft.executionId # q.draft.executionId
             THEN q.draft.executionId # 0 ELSE q.polling
  BY DEF po
<1>7. dr = ResetSelection(r, AutoSelectTask(q, DropUnknown(r, q.draft)))
  BY DEF dr
<1>8. ex = IF KeyOf(r.old) # KeyOf(q) /\ ~ Kept(r) THEN NoExecution ELSE q.execution
  BY DEF ex
<1> QED BY <1>2, <1>3, <1>4, <1>5, <1>6, <1>7, <1>8

LEMMA DropIs ==
  ASSUME NEW r, NEW d
  PROVE  /\ r.loaded = FALSE \/ r.new.treeList = {} => DropUnknown(r, d) = d
         /\ \E ids : DropUnknown(r, d) = [d EXCEPT !.selectedBTIds = ids] \/ DropUnknown(r, d) = d
  BY DEF DropUnknown

LEMMA AutoIs ==
  ASSUME NEW q, NEW d
  PROVE  /\ \/ q.autoSelected \/ q.draft.selectedBTIds # <<>> \/ q.treeList = {}
            => AutoSelectTask(q, d) = d
         /\ \E ids : AutoSelectTask(q, d) = [d EXCEPT !.selectedBTIds = ids] \/ AutoSelectTask(q, d) = d
  BY DEF AutoSelectTask

\* What a reset leaves of the draft.
LEMMA ResetIs ==
  ASSUME NEW r, NEW d, IsDraft(d)
  PROVE  LET e == ResetSelection(r, d)
             kept == KeyOf(r.old) = KeyOf(r.new) \/ Kept(r)
         IN /\ IsDraft(e) /\ e.selectedBTIds = d.selectedBTIds
            /\ kept => e = d
            /\ ~ kept => e.goalState = Null /\ e.executionId = 0
  BY DEF ResetSelection, IsDraft, DraftFields

\* What the effects leave of the draft: only a reset touches the goal and the execution.
LEMMA RoundDraft ==
  ASSUME NEW r, IsPage(r.new), IsDraft(r.new.draft)
  PROVE  LET e == Round(r).new.draft
             kept == KeyOf(r.old) = KeyOf(r.new) \/ Kept(r)
         IN /\ IsDraft(e)
            /\ kept => e.goalState = r.new.draft.goalState /\ e.executionId = r.new.draft.executionId
            /\ ~ kept => e.goalState = Null /\ e.executionId = 0
<1> DEFINE d == DropUnknown(r, r.new.draft)
           a == AutoSelectTask(r.new, d)
<1>1. IsDraft(d) /\ d.goalState = r.new.draft.goalState /\ d.executionId = r.new.draft.executionId
  <2>1. PICK ids : d = [r.new.draft EXCEPT !.selectedBTIds = ids] \/ d = r.new.draft
    BY Zenon, DropIs
  <2> HIDE DEF d
  <2>2. CASE d = [r.new.draft EXCEPT !.selectedBTIds = ids]
    BY <2>2 DEF IsDraft, DraftFields
  <2> QED BY <2>1, <2>2
<1> HIDE DEF d
<1>2. IsDraft(a) /\ a.goalState = d.goalState /\ a.executionId = d.executionId
  <2>1. PICK ids : a = [d EXCEPT !.selectedBTIds = ids] \/ a = d
    BY Zenon, AutoIs
  <2> HIDE DEF a
  <2>2. CASE a = [d EXCEPT !.selectedBTIds = ids]
    BY <1>1, <2>2 DEF IsDraft, DraftFields
  <2> QED BY <1>1, <2>1, <2>2
<1> HIDE DEF a
<1>3. Round(r).new.draft = ResetSelection(r, a)
  BY RoundIs DEF a, d
<1> QED BY <1>1, <1>2, <1>3, ResetIs

\* Nothing is selected any more by itself; and the selection has settled.
Quiet(r) ==
    /\ r.loaded = FALSE
    /\ r.new.autoSelected \/ (r.new.draft.selectedBTIds = <<>> /\ r.new.treeList = {})
Still(r) == Quiet(r) /\ KeyOf(r.old) = KeyOf(r.new)

LEMMA RoundQuiet ==
  ASSUME NEW r, IsPage(r.new), IsDraft(r.new.draft)
  PROVE  Quiet(Round(r))
<1> DEFINE q == r.new
<1>1. /\ Round(r).loaded = FALSE /\ Round(r).new.treeList = q.treeList
      /\ Round(r).new.draft = ResetSelection(r, AutoSelectTask(q, DropUnknown(r, q.draft)))
      /\ Round(r).new.autoSelected <=> \/ q.autoSelected \/ q.draft.selectedBTIds # <<>>
                                       \/ q.treeList # {}
  BY RoundIs
<1>2. CASE q.draft.selectedBTIds # <<>> \/ q.treeList # {}
  <2>1. Round(r).new.autoSelected
    BY <1>1, <1>2
  <2> QED BY <1>1, <2>1 DEF Quiet
<1>3. CASE q.draft.selectedBTIds = <<>> /\ q.treeList = {}
  <2>1. AutoSelectTask(q, DropUnknown(r, q.draft)) = q.draft
    BY <1>3, DropIs, AutoIs
  <2>2. Round(r).new.draft.selectedBTIds = <<>>
    BY <1>1, <1>3, <2>1, ResetIs
  <2> QED BY <1>1, <1>3, <2>2 DEF Quiet
<1> QED BY <1>2, <1>3

LEMMA QuietRound ==
  ASSUME NEW r, IsPage(r.new), IsDraft(r.new.draft), Quiet(r)
  PROVE  /\ Still(Round(r))
         /\ Still(r) => Round(r).new.draft = r.new.draft
<1> DEFINE q == r.new
<1>1. DropUnknown(r, q.draft) = q.draft
  BY DropIs DEF Quiet
<1>2. AutoSelectTask(q, q.draft) = q.draft
  BY AutoIs DEF Quiet
<1>3. /\ Round(r).new.draft = ResetSelection(r, q.draft)
      /\ Round(r).old = q /\ Round(r).new.td = q.td
  BY <1>1, <1>2, RoundIs
<1>4. Round(r).new.draft.selectedBTIds = q.draft.selectedBTIds
  BY <1>3, ResetIs
<1>5. KeyOf(Round(r).old) = KeyOf(Round(r).new)
  BY <1>3, <1>4 DEF KeyOf
<1>6. Still(r) => Round(r).new.draft = q.draft
  BY <1>3, ResetIs DEF Still
<1> QED BY <1>5, <1>6, RoundQuiet DEF Still

(***************************************************************************)
(* localStorage and the requests                                           *)
(***************************************************************************)
PageTyped(q) == IsPage(q) /\ IsDraft(q.draft) /\ q.td \in Scopes
StoreTyped(s) ==
    /\ s = [drafts |-> s.drafts, last |-> s.last] /\ s.last \in Scopes
    /\ s.drafts = [td \in Scopes |-> s.drafts[td]]
    /\ \A td \in Scopes : s.drafts[td] # Null => IsDraft(s.drafts[td])

\* Requests that keep the page of their click, and those that keep its distributor.
RequestFields == {"op", "id", "status", "cancelled", "saw"}
PageKept == {"createTd", "deleteTd"}
RequestTyped(m) ==
    /\ m = [f \in RequestFields |-> m[f]]
    /\ m.op \in PageKept => PageTyped(m.saw)
    /\ m.op = "toggle" => m.id \in Tasks /\ m.saw \in Scopes
NetTyped(n) == \A m \in n : RequestTyped(m)

\* Goals of a page, of the drafts but that of x, and of the pages that requests keep.
GoalAt(q) == q.draft.goalState \in {q.td, Null}
DraftGoal(s, td) == s.drafts[td] # Null => s.drafts[td].goalState \in {td, Null}
GoalsBut(s, x) == \A td \in Scopes \ {x} : DraftGoal(s, td)
StoreGoals(s) == \A td \in Scopes : DraftGoal(s, td)
NetGoals(n) == \A m \in n : m.op \in PageKept => GoalAt(m.saw)

\* A poll that is not cancelled asks for the execution of the page.
PollsFit(n, e) == \A m \in n : m.op = "poll" /\ ~ m.cancelled => m.id = e /\ e # 0

LEMMA WriteIs ==
  ASSUME NEW s, StoreTyped(s), NEW td \in Scopes, NEW d, IsDraft(d)
  PROVE  LET w == writeStoredDraft(s, td, d)
         IN /\ StoreTyped(w) /\ w.drafts[td] = d
            /\ \A x \in Scopes \ {td} : w.drafts[x] = s.drafts[x]
<1> DEFINE w == writeStoredDraft(s, td, d)
<1>1. w = [drafts |-> [s.drafts EXCEPT ![td] = d], last |-> IF td = Null THEN s.last ELSE td]
  BY DEF writeStoredDraft
<1>2. /\ w.drafts = [s.drafts EXCEPT ![td] = d] /\ w.last \in Scopes
      /\ w = [drafts |-> w.drafts, last |-> w.last]
  BY <1>1 DEF StoreTyped
<1> HIDE DEF w
<1>3. /\ w.drafts = [x \in Scopes |-> w.drafts[x]] /\ w.drafts[td] = d
      /\ \A x \in Scopes \ {td} : w.drafts[x] = s.drafts[x]
  BY <1>2 DEF StoreTyped
<1>4. \A x \in Scopes : w.drafts[x] # Null => IsDraft(w.drafts[x])
  BY <1>3 DEF StoreTyped
<1>5. StoreTyped(w)
  BY <1>2, <1>3, <1>4 DEF StoreTyped
<1> QED BY <1>3, <1>5 DEF w

LEMMA PersistIs ==
  ASSUME NEW r, PageTyped(r.new), StoreTyped(r.store)
  PROVE  LET p == PersistDraft(r)
             td == r.new.td
         IN /\ StoreTyped(p) /\ \A x \in Scopes \ {td} : p.drafts[x] = r.store.drafts[x]
            /\ ~ Changed(r) \/ r.new.isApplying => p = r.store
            /\ Changed(r) /\ ~ r.new.isApplying => p.drafts[td].goalState = r.new.draft.goalState
<1> DEFINE d == [r.new.draft EXCEPT !.selectedAgentIds = Resolved(r.new)]
<1>1. \A a : LET e == [r.new.draft EXCEPT !.selectedAgentIds = a]
             IN IsDraft(e) /\ e.goalState = r.new.draft.goalState
  BY DEF PageTyped, IsDraft, DraftFields
<1>2. IsDraft(d) /\ d.goalState = r.new.draft.goalState
  BY <1>1
<1> HIDE DEF d
<1>3. PersistDraft(r) = IF Changed(r) /\ ~ r.new.isApplying
                        THEN writeStoredDraft(r.store, r.new.td, d) ELSE r.store
  BY DEF PersistDraft, d
<1> QED BY <1>2, <1>3, WriteIs DEF PageTyped

LEMMA CancelIs ==
  ASSUME NEW r, NetTyped(r.net)
  PROVE  /\ NetTyped(CancelPolls(r))
         /\ NetGoals(r.net) => NetGoals(CancelPolls(r))
         /\ PollsFit(r.net, r.old.draft.executionId)
               => PollsFit(CancelPolls(r), r.new.draft.executionId)
<1>1. ASSUME NEW n \in CancelPolls(r)
      PROVE  \E m \in r.net :
               /\ RequestTyped(n) /\ n.op = m.op /\ n.saw = m.saw /\ n.id = m.id
               /\ n.op = "poll" /\ ~ n.cancelled =>
                     ~ m.cancelled /\ r.old.draft.executionId = r.new.draft.executionId
  <2>1. PICK m \in r.net :
          n = IF \/ m.op = "poll" /\ r.old.draft.executionId # r.new.draft.executionId
                 \/ m.op = "session"
                    /\ r.old.draft.realtimeSessionId # r.new.draft.realtimeSessionId
              THEN [m EXCEPT !.cancelled = TRUE] ELSE m
    BY DEF CancelPolls
  <2>2. \A b : LET c == [m EXCEPT !.cancelled = b]
               IN /\ c = [f \in RequestFields |-> c[f]] /\ c.op = m.op /\ c.saw = m.saw
                  /\ c.id = m.id /\ c.cancelled = b
    BY DEF NetTyped, RequestTyped, RequestFields
  <2>3. CASE n = [m EXCEPT !.cancelled = TRUE]
    <3>1. /\ n = [f \in RequestFields |-> n[f]] /\ n.op = m.op /\ n.saw = m.saw
          /\ n.id = m.id /\ n.cancelled
      BY <2>2, <2>3
    <3> QED BY <3>1 DEF NetTyped, RequestTyped
  <2>4. CASE n = m /\ (n.op = "poll" => r.old.draft.executionId = r.new.draft.executionId)
    BY <2>4 DEF NetTyped
  <2> QED BY <2>1, <2>3, <2>4
<1> QED BY <1>1 DEF NetTyped, NetGoals, PollsFit

(***************************************************************************)
(* What every render keeps                                                 *)
(***************************************************************************)
NoGhostAt(q) == q.execution # NoExecution => q.draft.executionId # 0

RoundTyped(r) == PageTyped(r.new) /\ StoreTyped(r.store) /\ NetTyped(r.net)

\* Polls and the interval belong to the execution of the page before the render.
RoundFits(r) ==
    /\ NoGhostAt(r.new)
    /\ r.new.polling => r.old.draft.executionId # 0
    /\ PollsFit(r.net, r.old.draft.executionId)

\* A draft may hold the goal of another scope only as long as the next render
\* writes it again.
RoundGoals(r) ==
    /\ GoalAt(r.new) /\ NetGoals(r.net)
    /\ \/ StoreGoals(r.store)
       \/ GoalsBut(r.store, r.new.td) /\ Changed(r) /\ ~ r.new.isApplying

LEMMA RoundTypes == ASSUME NEW r, RoundTyped(r) PROVE RoundTyped(Round(r))
<1>1. IsPage(r.new) /\ IsDraft(r.new.draft)
  BY DEF RoundTyped, PageTyped
<1>2. PageTyped(Round(r).new)
  BY <1>1, RoundIs, RoundDraft DEF RoundTyped, PageTyped
<1>3. StoreTyped(Round(r).store)
  <2>1. Round(r).store = PersistDraft(r)
    BY <1>1, RoundIs
  <2>2. StoreTyped(PersistDraft(r))
    BY PersistIs DEF RoundTyped
  <2> QED BY <2>1, <2>2
<1>4. NetTyped(Round(r).net)
  BY <1>1, RoundIs, CancelIs DEF RoundTyped
<1> QED BY <1>2, <1>3, <1>4 DEF RoundTyped

LEMMA RoundFit == ASSUME NEW r, RoundTyped(r), RoundFits(r) PROVE RoundFits(Round(r))
<1> DEFINE n == Round(r).new
           kept == KeyOf(r.old) = KeyOf(r.new) \/ Kept(r)
<1>0. IsPage(r.new) /\ IsDraft(r.new.draft)
  BY DEF RoundTyped, PageTyped
<1>1. /\ kept => n.draft.executionId = r.new.draft.executionId /\ n.execution = r.new.execution
      /\ ~ kept => n.execution = NoExecution
  BY <1>0, RoundIs, RoundDraft
<1>2. NoGhostAt(n)
  BY <1>1 DEF NoGhostAt, RoundFits
<1>3. n.polling => r.new.draft.executionId # 0
  <2>1. n.polling <=> IF r.old.draft.executionId # r.new.draft.executionId
                      THEN r.new.draft.executionId # 0 ELSE r.new.polling
    BY <1>0, RoundIs
  <2> QED BY <2>1 DEF RoundFits
<1>4. PollsFit(CancelPolls(r), r.new.draft.executionId)
  BY CancelIs DEF RoundFits, RoundTyped
<1>5. Round(r).old = r.new /\ Round(r).net = CancelPolls(r)
  BY <1>0, RoundIs
<1> QED BY <1>2, <1>3, <1>4, <1>5 DEF RoundFits

\* The render after a page whose goals fit leaves them in their scopes, on the page
\* and in every draft.
LEMMA RoundGoal ==
  ASSUME NEW r, RoundTyped(r), RoundGoals(r)
  PROVE  RoundGoals(Round(r)) /\ StoreGoals(Round(r).store)
<1>0. IsPage(r.new) /\ IsDraft(r.new.draft) /\ r.new.td \in Scopes
  BY DEF RoundTyped, PageTyped
<1>1. Round(r).new.td = r.new.td /\ Round(r).new.draft.goalState \in {r.new.draft.goalState, Null}
  BY <1>0, RoundIs, RoundDraft
<1>2. GoalAt(Round(r).new)
  BY <1>1 DEF GoalAt, RoundGoals
<1>3. NetGoals(Round(r).net)
  <2>1. Round(r).net = CancelPolls(r)
    BY <1>0, RoundIs
  <2>2. NetGoals(CancelPolls(r))
    BY CancelIs DEF RoundGoals, RoundTyped
  <2> QED BY <2>1, <2>2
<1>4. StoreGoals(PersistDraft(r))
  <2> DEFINE p == PersistDraft(r)
             td == r.new.td
  <2>1. /\ \A x \in Scopes \ {td} : p.drafts[x] = r.store.drafts[x]
        /\ ~ Changed(r) \/ r.new.isApplying => p = r.store
        /\ Changed(r) /\ ~ r.new.isApplying => p.drafts[td].goalState = r.new.draft.goalState
    BY PersistIs DEF RoundTyped
  <2>2. CASE Changed(r) /\ ~ r.new.isApplying
    <3>1. \A x \in Scopes \ {td} : DraftGoal(p, x)
      BY <2>1 DEF RoundGoals, StoreGoals, GoalsBut, DraftGoal
    <3>2. DraftGoal(p, td)
      BY <2>1, <2>2 DEF DraftGoal, RoundGoals, GoalAt
    <3> QED BY <3>1, <3>2 DEF StoreGoals
  <2>3. CASE ~ Changed(r) \/ r.new.isApplying
    BY <2>1, <2>3 DEF RoundGoals
  <2> QED BY <2>2, <2>3
<1>5. Round(r).store = PersistDraft(r)
  BY <1>0, RoundIs
<1> QED BY <1>2, <1>3, <1>4, <1>5 DEF RoundGoals

\* A page that came to another distributor without its draft is reset: what the
\* persist effect wrote of it under the new scope is written again.
LEMMA RoundSwitch ==
  ASSUME NEW r, RoundTyped(r), NetGoals(r.net), StoreGoals(r.store),
         r.new.td # r.old.td, ~ r.new.skipReset, r.new.restoredKey # KeyOf(r.new)
  PROVE  RoundGoals(Round(r))
<1> DEFINE n == Round(r).new
           p == PersistDraft(r)
<1>0. IsPage(r.new) /\ IsDraft(r.new.draft) /\ r.new.td \in Scopes
  BY DEF RoundTyped, PageTyped
<1>1. /\ n.td = r.new.td /\ Round(r).store = p /\ Round(r).net = CancelPolls(r)
      /\ Round(r).old = r.new
      /\ n.isApplying <=> r.new.isApplying /\ ~ Changed(r)
  BY <1>0, RoundIs
<1>2. Changed(r)
  BY DEF Changed
<1>3. KeyOf(r.old) # KeyOf(r.new) /\ ~ Kept(r)
  BY DEF KeyOf, SelectionKey, Kept
<1>4. n.draft.goalState = Null
  BY <1>0, <1>3, RoundDraft
<1>5. GoalAt(n) /\ NetGoals(Round(r).net)
  BY <1>1, <1>4, CancelIs DEF GoalAt, RoundTyped
<1>6. CASE r.new.isApplying
  <2>1. p = r.store
    BY <1>6, PersistIs DEF RoundTyped
  <2> QED BY <1>1, <1>5, <2>1 DEF RoundGoals
<1>7. CASE ~ r.new.isApplying
  <2>1. /\ \A x \in Scopes \ {r.new.td} : p.drafts[x] = r.store.drafts[x]
        /\ p.drafts[r.new.td].goalState = r.new.draft.goalState
    BY <1>2, <1>7, PersistIs DEF RoundTyped
  <2>2. GoalsBut(p, n.td)
    BY <1>1, <2>1 DEF GoalsBut, StoreGoals, DraftGoal
  <2>3. CASE r.new.draft.goalState = Null
    <3>1. StoreGoals(p)
      BY <1>1, <2>1, <2>2, <2>3 DEF StoreGoals, GoalsBut, DraftGoal
    <3> QED BY <1>1, <1>5, <3>1 DEF RoundGoals
  <2>4. CASE r.new.draft.goalState # Null
    <3>1. Changed(Round(r))
      BY <1>1, <1>4, <2>4 DEF Changed
    <3>2. ~ n.isApplying
      BY <1>1, <1>7
    <3> QED BY <1>1, <1>5, <2>2, <3>1, <3>2 DEF RoundGoals
  <2> QED BY <2>3, <2>4
<1> QED BY <1>6, <1>7

\* The page, localStorage and the requests when the renders have settled.
\* left: one of the two refs has spared a reset.
Shown(q, s, n, left) ==
    /\ PageTyped(q) /\ StoreTyped(s) /\ NetTyped(n)
    /\ NoGhostAt(q) /\ (q.polling => q.draft.executionId # 0)
    /\ PollsFit(n, q.draft.executionId)
    /\ ~ left => ~ q.skipReset /\ GoalAt(q) /\ StoreGoals(s) /\ NetGoals(n)

LEMMA SettledTyped ==
  ASSUME NEW old, NEW q, PageTyped(q), NEW s, StoreTyped(s), NEW m, NetTyped(m), NEW loaded,
         NoGhostAt(q), q.polling => old.draft.executionId # 0, PollsFit(m, old.draft.executionId)
  PROVE  LET r == Settled(old, q, s, m, loaded)
         IN /\ PageTyped(r.new) /\ StoreTyped(r.store) /\ NetTyped(r.net)
            /\ NoGhostAt(r.new) /\ (r.new.polling => r.new.draft.executionId # 0)
            /\ PollsFit(r.net, r.new.draft.executionId)
<1> DEFINE r0 == [old |-> old, new |-> q, store |-> s, net |-> m, loaded |-> loaded]
           r1 == Round(r0)
           r2 == Round(r1)
           r3 == Round(r2)
           r4 == Round(r3)
<1>0. Settled(old, q, s, m, loaded) = r4
  BY DEF Settled
<1>1. RoundTyped(r0) /\ RoundFits(r0)
  BY DEF RoundTyped, RoundFits
<1> HIDE DEF r0
<1>2. RoundTyped(r1) /\ RoundFits(r1) /\ Quiet(r1)
  BY <1>1, RoundTypes, RoundFit, RoundQuiet DEF RoundTyped, PageTyped
<1> HIDE DEF r1
<1>3. RoundTyped(r2) /\ RoundFits(r2) /\ Still(r2)
  BY <1>2, RoundTypes, RoundFit, QuietRound DEF RoundTyped, PageTyped
<1> HIDE DEF r2
<1>4. RoundTyped(r3) /\ RoundFits(r3) /\ Still(r3)
  BY <1>3, RoundTypes, RoundFit, QuietRound DEF RoundTyped, PageTyped, Still
<1> HIDE DEF r3
<1>5. RoundTyped(r4) /\ RoundFits(r4) /\ r4.new.draft = r3.new.draft /\ r4.old = r3.new
  BY <1>4, RoundTypes, RoundFit, QuietRound, RoundIs DEF RoundTyped, PageTyped, Still
<1> HIDE DEF r4
<1> QED BY <1>0, <1>5 DEF RoundTyped, RoundFits

LEMMA SettledGoals ==
  ASSUME NEW old, NEW q, PageTyped(q), NEW s, StoreTyped(s), NEW m, NetTyped(m), NEW loaded,
         StoreGoals(s), NetGoals(m),
         \/ GoalAt(q)
         \/ q.td # old.td /\ ~ q.skipReset /\ q.restoredKey # KeyOf(q)
  PROVE  LET r == Settled(old, q, s, m, loaded)
         IN GoalAt(r.new) /\ StoreGoals(r.store) /\ NetGoals(r.net)
<1> DEFINE r0 == [old |-> old, new |-> q, store |-> s, net |-> m, loaded |-> loaded]
           r1 == Round(r0)
           r2 == Round(r1)
           r3 == Round(r2)
           r4 == Round(r3)
<1>0. Settled(old, q, s, m, loaded) = r4
  BY DEF Settled
<1>1. /\ RoundTyped(r0) /\ r0.old = old /\ r0.new = q /\ r0.store = s /\ r0.net = m
  BY DEF RoundTyped
<1> HIDE DEF r0
<1>2. RoundTyped(r1) /\ RoundGoals(r1)
  <2>1. CASE GoalAt(q)
    <3>1. RoundGoals(r0)
      BY <1>1, <2>1 DEF RoundGoals
    <3> QED BY <1>1, <3>1, RoundTypes, RoundGoal
  <2>2. CASE q.td # old.td /\ ~ q.skipReset /\ q.restoredKey # KeyOf(q)
    BY <1>1, <2>2, RoundTypes, RoundSwitch
  <2> QED BY <2>1, <2>2
<1> HIDE DEF r1
<1>3. RoundTyped(r2) /\ RoundGoals(r2)
  BY <1>2, RoundTypes, RoundGoal
<1> HIDE DEF r2
<1>4. RoundTyped(r3) /\ RoundGoals(r3)
  BY <1>3, RoundTypes, RoundGoal
<1> HIDE DEF r3
<1>5. RoundGoals(r4) /\ StoreGoals(r4.store)
  BY <1>4, RoundGoal
<1> HIDE DEF r4
<1> QED BY <1>0, <1>5 DEF RoundGoals

LEMMA SettledSkip ==
  ASSUME NEW old, NEW q, PageTyped(q), NEW s, StoreTyped(s), NEW m, NetTyped(m), NEW loaded,
         ~ q.skipReset
  PROVE  ~ Settled(old, q, s, m, loaded).new.skipReset
<1> DEFINE r0 == [old |-> old, new |-> q, store |-> s, net |-> m, loaded |-> loaded]
           r1 == Round(r0)
           r2 == Round(r1)
           r3 == Round(r2)
<1>1. RoundTyped(r0) /\ ~ r0.new.skipReset
  BY DEF RoundTyped
<1> HIDE DEF r0
<1>2. ASSUME NEW r, RoundTyped(r), ~ r.new.skipReset
      PROVE  RoundTyped(Round(r)) /\ ~ Round(r).new.skipReset
  BY <1>2, RoundTypes, RoundIs DEF RoundTyped, PageTyped
<1>3. RoundTyped(r1) /\ ~ r1.new.skipReset
  BY <1>1, <1>2
<1> HIDE DEF r1
<1>4. RoundTyped(r2) /\ ~ r2.new.skipReset
  BY <1>2, <1>3
<1> HIDE DEF r2
<1>5. RoundTyped(r3) /\ ~ r3.new.skipReset
  BY <1>2, <1>4
<1> HIDE DEF r3
<1> QED BY <1>2, <1>5 DEF Settled, r0, r1, r2, r3

\* What a handler may set, store and leave under way.
Follows(q) ==
    /\ PageTyped(q) /\ NoGhostAt(q) /\ (q.polling => pg.draft.executionId # 0)
    /\ ~ skipLeft => GoalAt(q) \/ (q.td # pg.td /\ ~ q.skipReset)
StoreOK(s) == StoreTyped(s) /\ (~ skipLeft => StoreGoals(s))
NetOK(n) ==
    /\ NetTyped(n) /\ PollsFit(n, pg.draft.executionId)
    /\ ~ skipLeft => NetGoals(n)

LEMMA SettleStep ==
  ASSUME NEW q, Follows(q), NEW s, StoreOK(s), NEW m, NetOK(m), NEW loaded,
         Settle(pg, q, s, m, loaded)
  PROVE  Shown(pg', store', net', skipLeft')
<1> DEFINE r == Settled(pg, q, s, m, loaded)
<1>1. /\ pg' = r.new /\ store' = r.store /\ net' = r.net
      /\ ~ skipLeft' => ~ skipLeft /\ ~ r.new.skipReset /\ ~ KeySpares(pg, q)
  BY DEF Settle
<1>2. /\ PageTyped(q) /\ StoreTyped(s) /\ NetTyped(m) /\ NoGhostAt(q)
      /\ (q.polling => pg.draft.executionId # 0) /\ PollsFit(m, pg.draft.executionId)
  BY DEF Follows, StoreOK, NetOK
<1>3. /\ PageTyped(r.new) /\ StoreTyped(r.store) /\ NetTyped(r.net)
      /\ NoGhostAt(r.new) /\ (r.new.polling => r.new.draft.executionId # 0)
      /\ PollsFit(r.net, r.new.draft.executionId)
  BY <1>2, SettledTyped
<1>4. ASSUME ~ skipLeft' PROVE GoalAt(r.new) /\ StoreGoals(r.store) /\ NetGoals(r.net)
  <2>1. /\ StoreGoals(s) /\ NetGoals(m)
        /\ GoalAt(q) \/ (q.td # pg.td /\ ~ q.skipReset /\ q.restoredKey # KeyOf(q))
    BY <1>1, <1>4 DEF Follows, StoreOK, NetOK, KeySpares
  <2> QED BY <1>2, <2>1, SettledGoals
<1> HIDE DEF r
<1> QED BY <1>1, <1>3, <1>4 DEF Shown

\* A page that a stored draft was applied to.
LEMMA AppliedIs ==
  ASSUME NEW q, IsPage(q), NEW td, NEW d
  PROVE  LET a == applyStoredDraft(q, td, d)
         IN /\ IsPage(a) /\ a.draft = d /\ a.td = td /\ a.execution = NoExecution
            /\ a.polling = q.polling
  BY DEF applyStoredDraft, IsPage, PageFields

LEMMA MountedShown ==
  ASSUME NEW s, StoreTyped(s), NEW left, ~ left => StoreGoals(s)
  PROVE  Shown(Mounted(s).new, Mounted(s).store, Mounted(s).net, left)
<1>0. /\ PageTyped(FreshPage) /\ IsDraft(EmptyDraft) /\ GoalAt(FreshPage)
      /\ FreshPage.draft.executionId = 0 /\ ~ FreshPage.polling /\ ~ FreshPage.skipReset
      /\ FreshPage.execution = NoExecution /\ EmptyDraft.goalState = Null
  BY DEF PageTyped, IsPage, PageFields, IsDraft, DraftFields, FreshPage, EmptyDraft, Scopes,
         GoalAt, NoExecution
<1>1. ASSUME NEW q, PageTyped(q), q.execution = NoExecution, ~ q.polling, ~ q.skipReset,
             GoalAt(q) \/ left, NEW w, StoreTyped(w), ~ left => StoreGoals(w)
      PROVE  LET r == Settled(FreshPage, q, w, {}, FALSE)
             IN Shown(r.new, r.store, r.net, left)
  <2> DEFINE r == Settled(FreshPage, q, w, {}, FALSE)
  <2>1. NetTyped({}) /\ NetGoals({}) /\ \A e : PollsFit({}, e)
    BY DEF NetTyped, NetGoals, PollsFit
  <2>2. NoGhostAt(q)
    BY <1>1 DEF NoGhostAt
  <2>3. /\ PageTyped(r.new) /\ StoreTyped(r.store) /\ NetTyped(r.net)
        /\ NoGhostAt(r.new) /\ (r.new.polling => r.new.draft.executionId # 0)
        /\ PollsFit(r.net, r.new.draft.executionId)
    BY <1>1, <2>1, <2>2, SettledTyped
  <2>4. ~ r.new.skipReset
    BY <1>1, <2>1, SettledSkip
  <2>5. ASSUME ~ left PROVE GoalAt(r.new) /\ StoreGoals(r.store) /\ NetGoals(r.net)
    BY <1>1, <2>1, <2>5, SettledGoals
  <2> HIDE DEF r
  <2>6. Shown(r.new, r.store, r.net, left)
    BY <2>3, <2>4, <2>5 DEF Shown
  <2> QED BY <2>6 DEF r
<1>2. CASE s.drafts[s.last] # Null
  <2> DEFINE d == s.drafts[s.last]
             a == applyStoredDraft(FreshPage, s.last, d)
             q == [a EXCEPT !.isApplying = FALSE, !.skipReset = FALSE]
  <2>1. IsDraft(d) /\ s.last \in Scopes /\ (~ left => d.goalState \in {s.last, Null})
    BY <1>2 DEF StoreTyped, StoreGoals, DraftGoal
  <2>2. PageTyped(a) /\ a.draft = d /\ a.td = s.last /\ a.execution = NoExecution /\ ~ a.polling
    BY <1>0, <2>1, AppliedIs DEF PageTyped
  <2> HIDE DEF a, d
  <2>3. /\ PageTyped(q) /\ q.draft = d /\ q.td = s.last /\ q.execution = NoExecution
        /\ ~ q.polling /\ ~ q.skipReset
    BY <2>2 DEF PageTyped, IsPage, PageFields
  <2>4. Mounted(s) = Settled(FreshPage, q, s, {}, FALSE)
    BY <1>2 DEF Mounted, a, d
  <2> HIDE DEF q
  <2>5. GoalAt(q) \/ left
    BY <2>1, <2>3 DEF GoalAt
  <2> QED BY <1>1, <2>3, <2>4, <2>5
<1>3. CASE s.drafts[s.last] = Null
  <2> DEFINE q == [FreshPage EXCEPT !.td = s.last]
             w == writeStoredDraft(s, Null, EmptyDraft)
  <2>1. s.last \in Scopes /\ Null \in Scopes
    BY DEF StoreTyped, Scopes
  <2>2. /\ PageTyped(q) /\ q.draft = FreshPage.draft /\ q.td = s.last
        /\ q.execution = NoExecution /\ ~ q.polling /\ ~ q.skipReset
    BY <1>0, <2>1 DEF PageTyped, IsPage, PageFields
  <2>3. StoreTyped(w) /\ (~ left => StoreGoals(w))
    BY <1>0, <2>1, WriteIs DEF StoreGoals, DraftGoal
  <2>4. Mounted(s) = Settled(FreshPage, q, w, {}, FALSE)
    BY <1>3 DEF Mounted
  <2>5. GoalAt(q)
    BY <1>0, <2>2 DEF GoalAt, FreshPage
  <2> HIDE DEF q, w
  <2> QED BY <1>1, <2>2, <2>3, <2>4, <2>5
<1> QED BY <1>2, <1>3

(***************************************************************************)
(* The handlers                                                            *)
(***************************************************************************)
SrvTyped(v) ==
    /\ v = [trees |-> v.trees, tds |-> v.tds, owner |-> v.owner, runs |-> v.runs, sessions |-> v.sessions]
    /\ v.owner \in [Tasks -> Scopes]

PddlInv == Shown(pg, store, net, skipLeft) /\ SrvTyped(srv)

\* The page, localStorage and any of the requests are what a handler may leave.
LEMMA InvFollows ==
  ASSUME PddlInv
  PROVE  Follows(pg) /\ StoreOK(store) /\ \A n \in SUBSET net : NetOK(n)
  BY DEF PddlInv, Shown, Follows, StoreOK, NetOK, NetTyped, PollsFit, NetGoals

\* A handler that keeps the distributor, the execution and its id, and a goal of the scope.
LEMMA SameFollows ==
  ASSUME PddlInv, NEW q, PageTyped(q), q.td = pg.td, q.draft.goalState \in {pg.draft.goalState, pg.td, Null},
         q.execution = pg.execution, q.draft.executionId = pg.draft.executionId, q.polling = pg.polling
  PROVE  Follows(q)
  BY DEF PddlInv, Shown, Follows, NoGhostAt, GoalAt

LEMMA RequestIs ==
  ASSUME NEW op, NEW id
  PROVE  /\ Request(op, id) = [f \in RequestFields |-> Request(op, id)[f]]
         /\ Request(op, id).op = op /\ Request(op, id).id = id
         /\ \A x : LET m == [Request(op, id) EXCEPT !.saw = x]
                  IN m = [f \in RequestFields |-> m[f]] /\ m.op = op /\ m.id = id /\ m.saw = x
         /\ \A x : LET m == [Request(op, id) EXCEPT !.status = x]
                  IN m = [f \in RequestFields |-> m[f]] /\ m.op = op /\ m.id = id
  BY DEF Request, RequestFields

\* A request of one of the other kinds asks for nothing that is kept.
LEMMA NetAdded ==
  ASSUME PddlInv, NEW m, RequestTyped(m), m.op = "poll" => m.id = pg.draft.executionId /\ m.id # 0,
         m.op \in PageKept => GoalAt(m.saw) \/ skipLeft
  PROVE  NetOK(net \cup {m})
  BY DEF PddlInv, Shown, NetOK, NetTyped, PollsFit, NetGoals

LEMMA PlainRequest ==
  ASSUME PddlInv, NEW m, m = [f \in RequestFields |-> m[f]], m.op \notin PageKept \cup {"toggle", "poll"}
  PROVE  NetOK(net \cup {m})
<1>1. RequestTyped(m)
  BY DEF RequestTyped
<1> QED BY <1>1, NetAdded

\* Another request, or one that is done, with the rest as it was.
LEMMA NetStep ==
  ASSUME PddlInv, NetOK(net'), UNCHANGED <<pg, store, skipLeft>>
  PROVE  Shown(pg', store', net', skipLeft')
  BY DEF PddlInv, Shown, NetOK

\* A page with other fields than those that the invariant is about.
LEMMA PageIs ==
  ASSUME PddlInv
  PROVE  /\ PageTyped(pg) /\ IsPage(pg) /\ IsDraft(pg.draft) /\ pg.td \in Scopes /\ SrvTyped(srv)
         /\ StoreTyped(store) /\ \A m \in net : RequestTyped(m)
  BY DEF PddlInv, Shown, PageTyped, NetTyped

LEMMA LoadStep ==
  ASSUME PddlInv, Reload \/ loadData \/ loadDistributors
  PROVE  PddlInv'
<1>0. StoreOK(store) /\ NetOK(net) /\ SrvTyped(srv)
  BY InvFollows, PageIs
<1>1. CASE Reload
  <2>1. /\ pg' = Mounted(store).new /\ store' = Mounted(store).store /\ net' = Mounted(store).net
        /\ UNCHANGED <<srv, skipLeft>>
    BY <1>1 DEF Reload
  <2>2. Shown(Mounted(store).new, Mounted(store).store, Mounted(store).net, skipLeft)
    BY <1>0, MountedShown DEF StoreOK
  <2> QED BY <1>0, <2>1, <2>2 DEF PddlInv
<1>2. CASE loadData
  <2> DEFINE q == [pg EXCEPT !.treeList = srv.trees, !.agents = TRUE]
  <2>1. /\ PageTyped(q) /\ q.td = pg.td /\ q.draft = pg.draft /\ q.execution = pg.execution
        /\ q.polling = pg.polling
    BY PageIs DEF PageTyped, IsPage, PageFields
  <2>2. Settle(pg, q, store, net, TRUE) /\ UNCHANGED srv
    BY <1>2 DEF loadData
  <2> HIDE DEF q
  <2>3. Follows(q)
    BY <2>1, SameFollows
  <2> QED BY <1>0, <2>2, <2>3, SettleStep DEF PddlInv
<1>3. CASE loadDistributors
  <2> DEFINE q == [pg EXCEPT !.distributors = srv.tds]
  <2>1. /\ PageTyped(q) /\ q.td = pg.td /\ q.draft = pg.draft /\ q.execution = pg.execution
        /\ q.polling = pg.polling
    BY PageIs DEF PageTyped, IsPage, PageFields
  <2>2. Settle(pg, q, store, net, FALSE) /\ UNCHANGED srv
    BY <1>3 DEF loadDistributors, Render
  <2> HIDE DEF q
  <2>3. Follows(q)
    BY <2>1, SameFollows
  <2> QED BY <1>0, <2>2, <2>3, SettleStep DEF PddlInv
<1> QED BY <1>1, <1>2, <1>3

\* Changes of one field of the draft that the invariant is not about.
LEMMA DraftFollows ==
  ASSUME PddlInv, NEW x
  PROVE  /\ Follows([pg EXCEPT !.draft.selectedBTIds = x])
         /\ Follows([pg EXCEPT !.draft.selectedAgentIds = x])
         /\ Follows([pg EXCEPT !.draft.realtimeGoals = x])
         /\ x \in {pg.td, Null} => Follows([pg EXCEPT !.draft.goalState = x])
<1>0. /\ IsPage(pg) /\ IsDraft(pg.draft) /\ pg.td \in Scopes
  BY PageIs
<1>1. ASSUME NEW d, IsDraft(d), d.goalState \in {pg.draft.goalState, pg.td, Null},
             d.executionId = pg.draft.executionId
      PROVE  Follows([pg EXCEPT !.draft = d])
  <2> DEFINE q == [pg EXCEPT !.draft = d]
  <2>1. /\ PageTyped(q) /\ q.td = pg.td /\ q.draft = d /\ q.execution = pg.execution
        /\ q.polling = pg.polling
    BY <1>0, <1>1 DEF PageTyped, IsPage, PageFields
  <2> HIDE DEF q
  <2>2. Follows(q)
    BY <1>1, <2>1, SameFollows
  <2> QED BY <2>2 DEF q
<1>2. LET d == [pg.draft EXCEPT !.selectedBTIds = x]
      IN IsDraft(d) /\ d.goalState = pg.draft.goalState /\ d.executionId = pg.draft.executionId
  BY <1>0 DEF IsDraft, DraftFields
<1>3. LET d == [pg.draft EXCEPT !.selectedAgentIds = x]
      IN IsDraft(d) /\ d.goalState = pg.draft.goalState /\ d.executionId = pg.draft.executionId
  BY <1>0 DEF IsDraft, DraftFields
<1>4. LET d == [pg.draft EXCEPT !.realtimeGoals = x]
      IN IsDraft(d) /\ d.goalState = pg.draft.goalState /\ d.executionId = pg.draft.executionId
  BY <1>0 DEF IsDraft, DraftFields
<1>5. LET d == [pg.draft EXCEPT !.goalState = x]
      IN IsDraft(d) /\ d.goalState = x /\ d.executionId = pg.draft.executionId
  BY <1>0 DEF IsDraft, DraftFields
<1>6. Follows([pg EXCEPT !.draft = [pg.draft EXCEPT !.selectedBTIds = x]])
  BY <1>1, <1>2
<1>7. Follows([pg EXCEPT !.draft = [pg.draft EXCEPT !.selectedAgentIds = x]])
  BY <1>1, <1>3
<1>8. Follows([pg EXCEPT !.draft = [pg.draft EXCEPT !.realtimeGoals = x]])
  BY <1>1, <1>4
<1>9. x \in {pg.td, Null} => Follows([pg EXCEPT !.draft = [pg.draft EXCEPT !.goalState = x]])
  BY <1>1, <1>5
<1> QED BY <1>6, <1>7, <1>8, <1>9

LEMMA EditStep ==
  ASSUME PddlInv,
         toggleAgent \/ setRealtimeGoals \/ (\E g \in Scopes : setGoalState(g))
  PROVE  PddlInv'
<1>1. PICK q : Follows(q) /\ Settle(pg, q, store, net, FALSE) /\ UNCHANGED srv
  <2>1. CASE toggleAgent
    BY <2>1, DraftFollows DEF toggleAgent, Render
  <2>2. CASE setRealtimeGoals
    BY <2>2, DraftFollows DEF setRealtimeGoals, Render
  <2>3. ASSUME NEW g \in Scopes, setGoalState(g) 
        PROVE  \E q : Follows(q) /\ Settle(pg, q, store, net, FALSE) /\ UNCHANGED srv
    BY <2>3, DraftFollows DEF setGoalState, Render
  <2> QED BY <2>1, <2>2, <2>3
<1> QED BY <1>1, InvFollows, SettleStep, PageIs DEF PddlInv

\* Every change of the scope leaves the goals in theirs, even with the page of an
\* earlier render: what it stores and what it applies are drafts of their scopes.
LEMMA SwitchOK ==
  ASSUME PddlInv, NEW q, IsPage(q), q.polling = pg.polling,
         NEW c, PageTyped(c), ~ skipLeft => GoalAt(c), NEW td \in Scopes
  PROVE  /\ Follows(switchDistributorScope(q, c, td).page)
         /\ StoreOK(switchDistributorScope(q, c, td).store)
<1> DEFINE b == buildCurrentDraft(c)
           s == writeStoredDraft(store, c.td, b)
           d == readStoredDraft(s, td)
           a == applyStoredDraft(q, td, d)
<1>0. c.td \in Scopes /\ IsDraft(c.draft)
  BY DEF PageTyped
<1>1. IsDraft(b) /\ b.goalState = c.draft.goalState
  <2>1. \A x : LET e == [c.draft EXCEPT !.selectedAgentIds = x]
               IN IsDraft(e) /\ e.goalState = c.draft.goalState
    BY <1>0 DEF IsDraft, DraftFields
  <2> QED BY <2>1 DEF buildCurrentDraft
<1>2. /\ switchDistributorScope(q, c, td).page = a
      /\ switchDistributorScope(q, c, td).store = s
  BY DEF switchDistributorScope
<1> HIDE DEF b
<1>3. /\ StoreTyped(s) /\ s.drafts[c.td] = b
      /\ \A x \in Scopes \ {c.td} : s.drafts[x] = store.drafts[x]
  <2>1. StoreTyped(store)
    BY PageIs
  <2>2. c.td \in Scopes /\ IsDraft(b)
    BY <1>0, <1>1
  <2> QED BY <2>1, <2>2, WriteIs, SMTT(30)
<1> HIDE DEF s
<1>4. ~ skipLeft => StoreGoals(s)
  <2>1. ASSUME ~ skipLeft, NEW x \in Scopes PROVE DraftGoal(s, x)
    <3>1. CASE x = c.td
      BY <1>1, <1>3, <2>1, <3>1 DEF DraftGoal, GoalAt
    <3>2. CASE x # c.td
      <4>1. DraftGoal(store, x)
        BY <2>1 DEF PddlInv, Shown, StoreGoals
      <4> QED BY <1>3, <3>2, <4>1 DEF DraftGoal
    <3> QED BY <3>1, <3>2
  <2> QED BY <2>1 DEF StoreGoals
<1>5. IsDraft(d) /\ (~ skipLeft => d.goalState \in {td, Null})
  <2>1. IsDraft(EmptyDraft) /\ EmptyDraft.goalState = Null
    BY DEF EmptyDraft, IsDraft, DraftFields
  <2>2. s.drafts[td] # Null => IsDraft(s.drafts[td])
    BY <1>3 DEF StoreTyped
  <2>3. ~ skipLeft => DraftGoal(s, td)
    BY <1>4 DEF StoreGoals
  <2> QED BY <2>1, <2>2, <2>3 DEF readStoredDraft, DraftGoal
<1> HIDE DEF d
<1>6. /\ IsPage(a) /\ a.draft = d /\ a.td = td /\ a.execution = NoExecution
      /\ a.polling = q.polling
  BY AppliedIs
<1> HIDE DEF a
<1>7. Follows(a)
  BY <1>5, <1>6 DEF Follows, PageTyped, NoGhostAt, GoalAt, PddlInv, Shown
<1> QED BY <1>2, <1>3, <1>4, <1>7 DEF StoreOK

LEMMA ToggleStep ==
  ASSUME PddlInv, NEW t \in Tasks, handleToggleBT(t)
  PROVE  PddlInv'
<1>1. UNCHANGED srv /\ SrvTyped(srv)
  BY PageIs DEF handleToggleBT
<1>2. CASE t \in Range(pg.draft.selectedBTIds)
  <2>1. PICK x : Render([pg EXCEPT !.draft.selectedBTIds = x])
    BY <1>2 DEF handleToggleBT
  <2>2. PICK q : Follows(q) /\ Settle(pg, q, store, net, FALSE)
    BY <2>1, DraftFollows DEF Render
  <2> QED BY <1>1, <2>2, InvFollows, SettleStep DEF PddlInv
<1>3. CASE t \notin Range(pg.draft.selectedBTIds)
  <2> DEFINE m == [Request("toggle", t) EXCEPT !.saw = pg.td]
  <2>1. net' = net \cup {m} /\ UNCHANGED <<pg, store, skipLeft>>
    BY <1>3 DEF handleToggleBT, Send
  <2>2. m = [f \in RequestFields |-> m[f]] /\ m.op = "toggle" /\ m.id = t /\ m.saw = pg.td
    BY RequestIs
  <2> HIDE DEF m
  <2>3. RequestTyped(m)
    BY <2>2, PageIs DEF RequestTyped, PageKept
  <2>4. NetOK(net')
    BY <2>1, <2>2, <2>3, NetAdded DEF PageKept
  <2> QED BY <1>1, <2>1, <2>4, NetStep DEF PddlInv
<1> QED BY <1>2, <1>3

LEMMA FetchedStep ==
  ASSUME PddlInv, NEW m \in net, TaskFetched(m)
  PROVE  PddlInv'
<1> DEFINE owner == srv.owner[m.id]
           x == Append(pg.draft.selectedBTIds, m.id)
           d == [pg.draft EXCEPT !.selectedBTIds = x]
           q == [pg EXCEPT !.draft = d]
           p == [q EXCEPT !.td = owner]
<1>0. m.id \in Tasks /\ m.saw \in Scopes /\ owner \in Scopes
  BY PageIs DEF TaskFetched, Sent, RequestTyped, SrvTyped
<1>1. SrvTyped(srv')
  <2>1. SrvTyped([srv EXCEPT !.owner[m.id] = m.saw])
    BY <1>0, PageIs DEF SrvTyped
  <2> QED BY <2>1, PageIs DEF TaskFetched
<1>2. Settle(pg, IF owner # Null /\ m.saw = Null THEN p ELSE q, store, net \ {m}, FALSE)
  BY DEF TaskFetched, Done
<1> HIDE DEF owner, x
<1>3. IsDraft(d) /\ d.goalState = pg.draft.goalState /\ d.executionId = pg.draft.executionId
  BY PageIs DEF IsDraft, DraftFields
<1> HIDE DEF d
<1>4. /\ IsPage(q) /\ q.draft = d /\ q.td = pg.td /\ q.execution = pg.execution
      /\ q.polling = pg.polling /\ q.skipReset = pg.skipReset
  BY PageIs DEF IsPage, PageFields
<1> HIDE DEF q
<1>5. /\ IsPage(p) /\ p.draft = d /\ p.td = owner /\ p.execution = pg.execution
      /\ p.polling = pg.polling /\ p.skipReset = pg.skipReset
  BY <1>4 DEF IsPage, PageFields
<1> HIDE DEF p
<1>6. Follows(q)
  BY <1>3, <1>4, PageIs, SameFollows DEF PageTyped
<1>7. Follows(p)
  <2>1. PageTyped(p) /\ NoGhostAt(p) /\ (p.polling => pg.draft.executionId # 0)
    BY <1>0, <1>3, <1>5 DEF PageTyped, NoGhostAt, PddlInv, Shown
  <2>2. ~ skipLeft => GoalAt(p) \/ (p.td # pg.td /\ ~ p.skipReset)
    BY <1>3, <1>5 DEF PddlInv, Shown, GoalAt
  <2> QED BY <2>1, <2>2 DEF Follows
<1>8. Shown(pg', store', net', skipLeft')
  BY <1>2, <1>6, <1>7, InvFollows, SettleStep
<1> QED BY <1>1, <1>8 DEF PddlInv

LEMMA SelectScopeStep ==
  ASSUME PddlInv, NEW td \in Distributors, handleSelectDistributor(td)
  PROVE  PddlInv'
<1>1. SrvTyped(srv')
  <2> DEFINE o == [t \in Tasks |-> IF t \in SelectedTasks(pg) THEN td ELSE srv.owner[t]]
  <2>1. o \in [Tasks -> Scopes]
    BY PageIs DEF SrvTyped, Scopes
  <2>2. srv' \in {srv, [srv EXCEPT !.owner = o]}
    BY DEF handleSelectDistributor
  <2> HIDE DEF o
  <2>3. SrvTyped([srv EXCEPT !.owner = o])
    BY <2>1, PageIs DEF SrvTyped
  <2> QED BY <2>2, <2>3, PageIs
<1>2. CASE td = pg.td
  <2>1. UNCHANGED <<pg, store, skipLeft, net>>
    BY <1>2 DEF handleSelectDistributor
  <2> QED BY <1>1, <2>1 DEF PddlInv
<1>3. CASE td # pg.td
  <2> DEFINE w == switchDistributorScope(pg, pg, td)
  <2>1. Settle(pg, w.page, w.store, net, FALSE)
    BY <1>3 DEF handleSelectDistributor
  <2>2. td \in Scopes /\ (~ skipLeft => GoalAt(pg))
    BY DEF Scopes, PddlInv, Shown
  <2>3. Follows(w.page) /\ StoreOK(w.store)
    BY <2>2, PageIs, SwitchOK
  <2> HIDE DEF w
  <2>4. Shown(pg', store', net', skipLeft')
    BY <2>1, <2>3, InvFollows, SettleStep
  <2> QED BY <1>1, <2>4 DEF PddlInv
<1> QED BY <1>2, <1>3

LEMMA DistributorStep ==
  ASSUME PddlInv,
         \/ handleCreateTd
         \/ \E td \in Distributors : handleDeleteTd(td)
         \/ \E m \in net : TdCreated(m) \/ TdDeleted(m)
  PROVE  PddlInv'
<1>0. SrvTyped(srv) /\ PageTyped(pg) /\ \A n \in SUBSET net : NetOK(n)
  BY PageIs, InvFollows
<1>1. CASE handleCreateTd \/ \E td \in Distributors : handleDeleteTd(td)
  <2>1. PICK m : /\ net' = net \cup {m} /\ UNCHANGED <<pg, store, skipLeft, srv>>
                 /\ m = [f \in RequestFields |-> m[f]] /\ m.op \in PageKept /\ m.saw = pg
    <3>1. ASSUME NEW op \in PageKept, NEW id, UNCHANGED <<pg, store, skipLeft, srv>>,
                 net' = net \cup {[Request(op, id) EXCEPT !.saw = pg]}
          PROVE  \E m : /\ net' = net \cup {m} /\ UNCHANGED <<pg, store, skipLeft, srv>>
                        /\ m = [f \in RequestFields |-> m[f]] /\ m.op \in PageKept /\ m.saw = pg
      <4> DEFINE m == [Request(op, id) EXCEPT !.saw = pg]
      <4>1. m = [f \in RequestFields |-> m[f]] /\ m.op = op /\ m.saw = pg
        BY RequestIs
      <4>2. net' = net \cup {m}
        BY <3>1
      <4> HIDE DEF m
      <4> QED BY <3>1, <4>1, <4>2
    <3>2. PICK op \in PageKept, id \in {0} \cup Distributors :
             /\ UNCHANGED <<pg, store, skipLeft, srv>>
             /\ net' = net \cup {[Request(op, id) EXCEPT !.saw = pg]}
      BY <1>1 DEF handleCreateTd, handleDeleteTd, Send, PageKept
    <3> QED BY <3>1, <3>2
  <2>2. RequestTyped(m)
    BY <1>0, <2>1 DEF RequestTyped, PageKept
  <2>3. NetOK(net')
    <3>1. m.op # "poll"
      BY <2>1 DEF PageKept
    <3>2. GoalAt(m.saw) \/ skipLeft
      BY <2>1 DEF PddlInv, Shown
    <3> QED BY <2>1, <2>2, <3>1, <3>2, NetAdded
  <2> QED BY <1>0, <2>1, <2>3, NetStep DEF PddlInv
<1>2. ASSUME NEW m \in net, m.op \in PageKept
      PROVE  PageTyped(m.saw) /\ (~ skipLeft => GoalAt(m.saw))
  BY <1>2, PageIs DEF RequestTyped, PddlInv, Shown, NetGoals
<1>3. ASSUME NEW m \in net, TdCreated(m) PROVE PddlInv'
  <2>1. PICK td \in Distributors :
          /\ srv' = [srv EXCEPT !.tds = @ \cup {td}]
          /\ LET w == switchDistributorScope([pg EXCEPT !.distributors = srv.tds \cup {td}], m.saw, td)
             IN Settle(pg, w.page, w.store, net \ {m}, FALSE)
    BY <1>3 DEF TdCreated, Done
  <2> DEFINE q == [pg EXCEPT !.distributors = srv.tds \cup {td}]
             w == switchDistributorScope(q, m.saw, td)
  <2>2. IsPage(q) /\ q.polling = pg.polling
    BY PageIs DEF IsPage, PageFields
  <2>3. m.op \in PageKept /\ td \in Scopes
    BY <1>3 DEF TdCreated, Sent, PageKept, Scopes
  <2>4. Settle(pg, w.page, w.store, net \ {m}, FALSE)
    BY <2>1
  <2> HIDE DEF q
  <2>5. Follows(w.page) /\ StoreOK(w.store)
    BY <1>2, <2>2, <2>3, SwitchOK
  <2> HIDE DEF w
  <2>6. Shown(pg', store', net', skipLeft')
    BY <1>0, <2>4, <2>5, SettleStep
  <2>7. SrvTyped(srv')
    BY <1>0, <2>1 DEF SrvTyped
  <2> QED BY <2>6, <2>7 DEF PddlInv
<1>4. ASSUME NEW m \in net, TdDeleted(m) PROVE PddlInv'
  <2>1. srv' = [srv EXCEPT !.tds = @ \ {m.id}] /\ SrvTyped(srv')
    BY <1>0, <1>4 DEF TdDeleted, SrvTyped
  <2>2. CASE m.saw.td = m.id
    <3> DEFINE w == switchDistributorScope(pg, m.saw, Null)
    <3>1. Settle(pg, w.page, w.store, net \ {m}, FALSE)
      BY <1>4, <2>2 DEF TdDeleted, Done
    <3>2. m.op \in PageKept /\ Null \in Scopes /\ IsPage(pg)
      BY <1>4, PageIs DEF TdDeleted, Sent, PageKept, Scopes
    <3>3. Follows(w.page) /\ StoreOK(w.store)
      BY <1>2, <3>2, SwitchOK
    <3> HIDE DEF w
    <3>4. Shown(pg', store', net', skipLeft')
      BY <1>0, <3>1, <3>3, SettleStep
    <3> QED BY <2>1, <3>4 DEF PddlInv
  <2>3. CASE m.saw.td # m.id
    <3>1. net' = net \ {m} /\ UNCHANGED <<pg, store, skipLeft>>
      BY <1>4, <2>3 DEF TdDeleted, Done
    <3> QED BY <1>0, <2>1, <3>1, NetStep DEF PddlInv
  <2> QED BY <2>2, <2>3
<1> QED BY <1>1, <1>3, <1>4

LEMMA ImportStep ==
  ASSUME PddlInv, NEW td \in Distributors, NEW ids, ImportApplied(td, ids)
  PROVE  PddlInv'
<1> DEFINE k == SelectionKey(ids, td)
           d == [EmptyDraft EXCEPT !.selectedBTIds = ids, !.goalState = td]
           p == [pg EXCEPT !.td = td, !.skipReset = TRUE, !.restoredKey = k]
           q == [p EXCEPT !.execution = NoExecution, !.session = NoSession, !.draft = d]
<1>1. Settle(pg, q, store, net, FALSE) /\ UNCHANGED srv
  BY DEF ImportApplied, Render
<1> HIDE DEF k
<1>2. IsDraft(d) /\ d.goalState = td
  BY DEF EmptyDraft, IsDraft, DraftFields
<1> HIDE DEF d
<1>3. IsPage(p) /\ p.td = td /\ p.polling = pg.polling
  BY PageIs DEF IsPage, PageFields
<1> HIDE DEF p
<1>4. /\ IsPage(q) /\ q.td = td /\ q.draft = d /\ q.execution = NoExecution
      /\ q.polling = pg.polling
  BY <1>3 DEF IsPage, PageFields
<1> HIDE DEF q
<1>5. Follows(q)
  BY <1>2, <1>4 DEF Follows, PageTyped, Scopes, NoGhostAt, GoalAt, PddlInv, Shown
<1> QED BY <1>1, <1>5, InvFollows, SettleStep, PageIs DEF PddlInv

\* What the answers and the buttons set besides: the plan, the execution's id, and
\* the flags of the page.
LEMMA FlagFollows ==
  ASSUME PddlInv, NEW q, PageTyped(q), q.td = pg.td, q.execution = pg.execution,
         q.polling = pg.polling, q.draft = pg.draft, NEW x
  PROVE  /\ Follows(q)
         /\ Follows([q EXCEPT !.draft.plan = x])
         /\ Follows([q EXCEPT !.draft.selectedAgentIds = x])
         /\ Follows([q EXCEPT !.draft.realtimeSessionId = x])
<1>1. ASSUME NEW d, IsDraft(d), d.goalState = pg.draft.goalState,
             d.executionId = pg.draft.executionId
      PROVE  Follows([q EXCEPT !.draft = d])
  <2> DEFINE p == [q EXCEPT !.draft = d]
  <2>1. /\ PageTyped(p) /\ p.td = pg.td /\ p.draft = d /\ p.execution = pg.execution
        /\ p.polling = pg.polling
    BY <1>1 DEF PageTyped, IsPage, PageFields
  <2> HIDE DEF p
  <2>2. Follows(p)
    BY <1>1, <2>1, SameFollows
  <2> QED BY <2>2 DEF p
<1>2. LET d == [q.draft EXCEPT !.plan = x]
      IN IsDraft(d) /\ d.goalState = q.draft.goalState /\ d.executionId = q.draft.executionId
  BY DEF PageTyped, IsDraft, DraftFields
<1>3. LET d == [q.draft EXCEPT !.selectedAgentIds = x]
      IN IsDraft(d) /\ d.goalState = q.draft.goalState /\ d.executionId = q.draft.executionId
  BY DEF PageTyped, IsDraft, DraftFields
<1>4. LET d == [q.draft EXCEPT !.realtimeSessionId = x]
      IN IsDraft(d) /\ d.goalState = q.draft.goalState /\ d.executionId = q.draft.executionId
  BY DEF PageTyped, IsDraft, DraftFields
<1>5. Follows([q EXCEPT !.draft = [q.draft EXCEPT !.plan = x]])
  BY <1>1, <1>2
<1>6. Follows([q EXCEPT !.draft = [q.draft EXCEPT !.selectedAgentIds = x]])
  BY <1>1, <1>3
<1>7. Follows([q EXCEPT !.draft = [q.draft EXCEPT !.realtimeSessionId = x]])
  BY <1>1, <1>4
<1>8. Follows(q)
  BY SameFollows
<1> QED BY <1>5, <1>6, <1>7, <1>8

LEMMA SolveStep ==
  ASSUME PddlInv, handleSolve \/ (\E m \in net : Solved(m)) \/ handleExecute
  PROVE  PddlInv'
<1>0. SrvTyped(srv) /\ StoreOK(store) /\ \A n \in SUBSET net : NetOK(n)
  BY PageIs, InvFollows
<1>1. CASE handleSolve
  <2> DEFINE f == ForgetPlan(pg)
             q == [f EXCEPT !.isSolving = TRUE]
             m == [Request("solve", 0) EXCEPT !.saw = pg.td]
  <2>1. Settle(pg, q, store, net \cup {m}, FALSE) /\ UNCHANGED srv
    BY <1>1 DEF handleSolve
  <2>2. NetOK(net \cup {m})
    <3>1. m = [g \in RequestFields |-> m[g]] /\ m.op = "solve"
      BY RequestIs
    <3> HIDE DEF m
    <3> QED BY <3>1, PlainRequest DEF PageKept
  <2> HIDE DEF m
  <2>3. /\ PageTyped(f) /\ f.td = pg.td /\ f.draft.goalState = pg.draft.goalState
        /\ f.execution = NoExecution /\ f.polling = pg.polling /\ f.skipReset = pg.skipReset
    <3> DEFINE a == Resolved(pg)
               d1 == [pg.draft EXCEPT !.plan = Null, !.executionId = 0]
               d == [d1 EXCEPT !.selectedAgentIds = a]
               g == [pg EXCEPT !.execution = NoExecution, !.draft = d]
    <3>1. f = g
      BY PageIs DEF ForgetPlan, IsPage, PageFields
    <3> HIDE DEF a, f
    <3>2. IsDraft(d) /\ d.goalState = pg.draft.goalState
      BY PageIs DEF IsDraft, DraftFields
    <3> HIDE DEF d
    <3>3. /\ IsPage(g) /\ g.td = pg.td /\ g.draft = d /\ g.execution = NoExecution
          /\ g.polling = pg.polling /\ g.skipReset = pg.skipReset
      BY PageIs DEF IsPage, PageFields
    <3> HIDE DEF g
    <3> QED BY <3>1, <3>2, <3>3, PageIs DEF PageTyped
  <2> HIDE DEF f
  <2>4. /\ PageTyped(q) /\ q.td = pg.td /\ q.draft = f.draft
        /\ q.execution = NoExecution /\ q.polling = pg.polling
    BY <2>3 DEF PageTyped, IsPage, PageFields
  <2> HIDE DEF q
  <2>5. Follows(q)
    BY <2>3, <2>4 DEF Follows, NoGhostAt, GoalAt, PddlInv, Shown
  <2> QED BY <1>0, <2>1, <2>2, <2>5, SettleStep DEF PddlInv
<1>2. ASSUME NEW m \in net, Solved(m) PROVE PddlInv'
  <2> DEFINE q == [pg EXCEPT !.isSolving = FALSE]
  <2>1. PICK ok \in BOOLEAN :
          Settle(pg, [q EXCEPT !.draft.plan = [td |-> m.saw, is_valid |-> ok]], store, net \ {m}, FALSE)
    BY <1>2 DEF Solved, Done
  <2>2. /\ PageTyped(q) /\ q.td = pg.td /\ q.draft = pg.draft
        /\ q.execution = pg.execution /\ q.polling = pg.polling
    BY PageIs DEF PageTyped, IsPage, PageFields
  <2> HIDE DEF q
  <2>3. Follows([q EXCEPT !.draft.plan = [td |-> m.saw, is_valid |-> ok]])
    BY <2>2, FlagFollows
  <2>4. UNCHANGED srv
    BY <1>2 DEF Solved
  <2> QED BY <1>0, <2>1, <2>3, <2>4, SettleStep DEF PddlInv
<1>3. CASE handleExecute
  <2> DEFINE m == Request("execute", pddlOps)
  <2>1. /\ Settle(pg, [pg EXCEPT !.draft.selectedAgentIds = Resolved(pg)], store, net \cup {m}, FALSE)
        /\ UNCHANGED srv
    BY <1>3 DEF handleExecute
  <2>2. NetOK(net \cup {m})
    BY RequestIs, PlainRequest DEF PageKept
  <2>3. Follows([pg EXCEPT !.draft.selectedAgentIds = Resolved(pg)])
    BY DraftFollows
  <2> HIDE DEF m
  <2> QED BY <1>0, <2>1, <2>2, <2>3, SettleStep DEF PddlInv
<1> QED BY <1>1, <1>2, <1>3

LEMMA RunNumber == Cardinality({i \in 1 .. MaxRuns : srv.runs[i] # "none"}) + 1 # 0
<1> DEFINE R == {i \in 1 .. MaxRuns : srv.runs[i] # "none"}
<1>1. IsFiniteSet(1 .. MaxRuns)
  BY FS_Interval, PddlAssumption
<1>2. Cardinality(R) \in Nat
  <2>1. R \subseteq 1 .. MaxRuns
    OBVIOUS
  <2> QED BY <1>1, <2>1, FS_Subset, FS_CardinalityType
<1> QED BY <1>2

LEMMA ExecutionStep ==
  ASSUME PddlInv,
         \/ \E m \in net : Executed(m) \/ ExecutionPolled(m)
         \/ handleCancelExecution \/ pollExecution
  PROVE  PddlInv'
<1>0. SrvTyped(srv) /\ StoreOK(store) /\ \A n \in SUBSET net : NetOK(n)
  BY PageIs, InvFollows
<1>1. ASSUME NEW m \in net, Executed(m) PROVE PddlInv'
  <2>1. CASE net' = net \ {m} /\ UNCHANGED <<pg, store, skipLeft, srv>>
    BY <1>0, <2>1, NetStep DEF PddlInv
  <2> DEFINE e == Cardinality({i \in 1 .. MaxRuns : srv.runs[i] # "none"}) + 1
             d == [pg.draft EXCEPT !.executionId = e]
             q == [pg EXCEPT !.draft = d]
  <2>2. CASE /\ srv' = [srv EXCEPT !.runs[e] = "running"]
             /\ Settle(pg, q, store, net \ {m}, FALSE)
    <3>1. e # 0
      BY RunNumber
    <3>2. SrvTyped(srv')
      BY <1>0, <2>2 DEF SrvTyped
    <3> HIDE DEF e
    <3>3. IsDraft(d) /\ d.goalState = pg.draft.goalState /\ d.executionId = e
      BY PageIs DEF IsDraft, DraftFields
    <3> HIDE DEF d
    <3>4. /\ IsPage(q) /\ q.td = pg.td /\ q.draft = d /\ q.polling = pg.polling
      BY PageIs DEF IsPage, PageFields
    <3>5. Settle(pg, q, store, net \ {m}, FALSE)
      BY <2>2
    <3> HIDE DEF q
    <3>6. Follows(q)
      BY <3>1, <3>3, <3>4, PageIs DEF Follows, PageTyped, NoGhostAt, GoalAt, PddlInv, Shown
    <3>7. Shown(pg', store', net', skipLeft')
      BY <1>0, <3>5, <3>6, SettleStep
    <3> QED BY <3>2, <3>7 DEF PddlInv
  <2> QED BY <1>1, <2>1, <2>2 DEF Executed, Done
<1>2. ASSUME NEW m \in net, ExecutionPolled(m) PROVE PddlInv'
  <2>0. UNCHANGED srv
    BY <1>2 DEF ExecutionPolled
  <2>1. CASE m.cancelled
    <3>1. net' = net \ {m} /\ UNCHANGED <<pg, store, skipLeft>>
      BY <1>2, <2>1 DEF ExecutionPolled, Done
    <3> QED BY <1>0, <2>0, <3>1, NetStep DEF PddlInv
  <2>2. CASE ~ m.cancelled
    <3>1. pg.draft.executionId # 0
      BY <1>2, <2>2 DEF ExecutionPolled, Sent, PddlInv, Shown, PollsFit
    <3> DEFINE x == [id |-> m.id, status |-> m.status]
    <3>2. PICK stop \in BOOLEAN :
            Settle(pg, [pg EXCEPT !.execution = x, !.polling = @ /\ ~ stop, !.agents = TRUE],
                   store, net \ {m}, FALSE)
      BY <1>2, <2>2 DEF ExecutionPolled, Done
    <3> DEFINE b == pg.polling /\ ~ stop
               q == [pg EXCEPT !.execution = x, !.polling = b, !.agents = TRUE]
    <3>3. Settle(pg, q, store, net \ {m}, FALSE)
      BY <3>2
    <3> HIDE DEF b, x
    <3>4. /\ PageTyped(q) /\ q.td = pg.td /\ q.draft = pg.draft
      BY PageIs DEF PageTyped, IsPage, PageFields
    <3> HIDE DEF q
    <3>5. Follows(q)
      BY <3>1, <3>4 DEF Follows, NoGhostAt, GoalAt, PddlInv, Shown
    <3> QED BY <1>0, <2>0, <3>3, <3>5, SettleStep DEF PddlInv
  <2> QED BY <2>1, <2>2
<1>3. CASE handleCancelExecution
  <2>1. SrvTyped(srv')
    BY <1>0, <1>3 DEF handleCancelExecution, SrvTyped
  <2> QED BY <1>3, <2>1 DEF handleCancelExecution, PddlInv
<1>4. CASE pollExecution
  <2> DEFINE m == [Request("poll", pg.draft.executionId)
                     EXCEPT !.status = srv.runs[pg.draft.executionId]]
  <2>1. net' = net \cup {m} /\ UNCHANGED <<pg, store, skipLeft, srv>> /\ pg.polling
    BY <1>4 DEF pollExecution, Send
  <2>2. m = [f \in RequestFields |-> m[f]] /\ m.op = "poll" /\ m.id = pg.draft.executionId
    BY RequestIs
  <2> HIDE DEF m
  <2>3. RequestTyped(m) /\ m.op \notin PageKept
    BY <2>2 DEF RequestTyped, PageKept
  <2>4. pg.draft.executionId # 0
    BY <2>1 DEF PddlInv, Shown
  <2>5. NetOK(net')
    BY <2>1, <2>2, <2>3, <2>4, NetAdded
  <2> QED BY <1>0, <2>1, <2>5, NetStep DEF PddlInv
<1> QED BY <1>1, <1>2, <1>3, <1>4
\* What the buttons and answers of a realtime session set: its id in the draft, the
\* agents that are there, and fields that the invariant is not about.
LEMMA SessionFollows ==
  ASSUME PddlInv, NEW a, NEW c, NEW x
  PROVE  /\ Follows([pg EXCEPT !.isStarting = a])
         /\ Follows([pg EXCEPT !.isStopping = a])
         /\ Follows([pg EXCEPT !.session = c])
         /\ Follows([pg EXCEPT !.isStarting = a, !.draft.selectedAgentIds = x])
         /\ Follows([pg EXCEPT !.isStarting = a, !.draft.realtimeSessionId = x, !.session = c])
         /\ Follows([pg EXCEPT !.isStopping = a, !.draft.realtimeSessionId = x, !.session = c])
         /\ Follows([pg EXCEPT !.session = c, !.draft.realtimeSessionId = x])
<1>0. IsPage(pg) /\ IsDraft(pg.draft) /\ pg.td \in Scopes
  BY PageIs
<1> DEFINE da == [pg.draft EXCEPT !.selectedAgentIds = x]
           ds == [pg.draft EXCEPT !.realtimeSessionId = x]
           Same(q) == q.td = pg.td /\ q.execution = pg.execution /\ q.polling = pg.polling
<1>1. /\ IsDraft(da) /\ da.goalState = pg.draft.goalState
      /\ da.executionId = pg.draft.executionId
  BY <1>0 DEF IsDraft, DraftFields
<1>2. /\ IsDraft(ds) /\ ds.goalState = pg.draft.goalState
      /\ ds.executionId = pg.draft.executionId
  BY <1>0 DEF IsDraft, DraftFields
<1>3. /\ [pg EXCEPT !.isStarting = a, !.draft.selectedAgentIds = x]
           = [pg EXCEPT !.isStarting = a, !.draft = da]
      /\ [pg EXCEPT !.isStarting = a, !.draft.realtimeSessionId = x, !.session = c]
           = [pg EXCEPT !.isStarting = a, !.draft = ds, !.session = c]
      /\ [pg EXCEPT !.isStopping = a, !.draft.realtimeSessionId = x, !.session = c]
           = [pg EXCEPT !.isStopping = a, !.draft = ds, !.session = c]
      /\ [pg EXCEPT !.session = c, !.draft.realtimeSessionId = x]
           = [pg EXCEPT !.session = c, !.draft = ds]
  BY Zenon DEF da, ds
<1> HIDE DEF da, ds
<1>4. ASSUME NEW d, IsDraft(d), d.goalState = pg.draft.goalState,
             d.executionId = pg.draft.executionId,
             NEW q, IsPage(q), q.draft = d, Same(q)
      PROVE  Follows(q)
  BY <1>0, <1>4, SameFollows DEF PageTyped
<1>5. LET q == [pg EXCEPT !.isStarting = a]
      IN IsPage(q) /\ q.draft = pg.draft /\ Same(q)
  BY <1>0 DEF IsPage, PageFields
<1>6. LET q == [pg EXCEPT !.isStopping = a]
      IN IsPage(q) /\ q.draft = pg.draft /\ Same(q)
  BY <1>0 DEF IsPage, PageFields
<1>7. LET q == [pg EXCEPT !.session = c]
      IN IsPage(q) /\ q.draft = pg.draft /\ Same(q)
  BY <1>0 DEF IsPage, PageFields
<1>8. LET q == [pg EXCEPT !.isStarting = a, !.draft = da]
      IN IsPage(q) /\ q.draft = da /\ Same(q)
  BY <1>0 DEF IsPage, PageFields
<1>9. LET q == [pg EXCEPT !.isStarting = a, !.draft = ds, !.session = c]
      IN IsPage(q) /\ q.draft = ds /\ Same(q)
  BY <1>0 DEF IsPage, PageFields
<1>10. LET q == [pg EXCEPT !.isStopping = a, !.draft = ds, !.session = c]
       IN IsPage(q) /\ q.draft = ds /\ Same(q)
  BY <1>0 DEF IsPage, PageFields
<1>11. LET q == [pg EXCEPT !.session = c, !.draft = ds]
       IN IsPage(q) /\ q.draft = ds /\ Same(q)
  BY <1>0 DEF IsPage, PageFields
<1> HIDE DEF Same
<1>12. /\ Follows([pg EXCEPT !.isStarting = a])
       /\ Follows([pg EXCEPT !.isStopping = a])
       /\ Follows([pg EXCEPT !.session = c])
  BY <1>0, <1>4, <1>5, <1>6, <1>7
<1>13. Follows([pg EXCEPT !.isStarting = a, !.draft.selectedAgentIds = x])
  BY <1>1, <1>3, <1>4, <1>8
<1>14. Follows([pg EXCEPT !.isStarting = a, !.draft.realtimeSessionId = x, !.session = c])
  BY <1>2, <1>3, <1>4, <1>9
<1>15. Follows([pg EXCEPT !.isStopping = a, !.draft.realtimeSessionId = x, !.session = c])
  BY <1>2, <1>3, <1>4, <1>10
<1>16. Follows([pg EXCEPT !.session = c, !.draft.realtimeSessionId = x])
  BY <1>2, <1>3, <1>4, <1>11
<1> QED BY <1>12, <1>13, <1>14, <1>15, <1>16

LEMMA SessionAsked ==
  ASSUME PddlInv,
         \/ handleStartRealtime \/ handleStopRealtime \/ pollRealtime
         \/ handleResetRealtimeMonitorCard
  PROVE  PddlInv'
<1>0. SrvTyped(srv) /\ StoreOK(store)
  BY PageIs, InvFollows
<1>1. ASSUME NEW op \in {"start", "stop", "reset"}, NEW id
      PROVE  NetOK(net \cup {Request(op, id)})
  BY RequestIs, PlainRequest DEF PageKept
<1>2. CASE handleStartRealtime
  <2>1. /\ Settle(pg, [pg EXCEPT !.isStarting = TRUE, !.draft.selectedAgentIds = Resolved(pg)],
                  store, net \cup {Request("start", 0)}, FALSE)
        /\ UNCHANGED srv
    BY <1>2 DEF handleStartRealtime
  <2>2. Follows([pg EXCEPT !.isStarting = TRUE, !.draft.selectedAgentIds = Resolved(pg)])
    BY Zenon, SessionFollows
  <2>3. NetOK(net \cup {Request("start", 0)})
    BY <1>1
  <2> QED BY <1>0, <2>1, <2>2, <2>3, SettleStep DEF PddlInv
<1>3. CASE handleStopRealtime
  <2>1. /\ Settle(pg, [pg EXCEPT !.isStopping = TRUE], store,
                  net \cup {Request("stop", pg.draft.realtimeSessionId)}, FALSE)
        /\ UNCHANGED srv
    BY <1>3 DEF handleStopRealtime
  <2>2. Follows([pg EXCEPT !.isStopping = TRUE])
    BY Zenon, SessionFollows
  <2>3. NetOK(net \cup {Request("stop", pg.draft.realtimeSessionId)})
    BY <1>1
  <2> QED BY <1>0, <2>1, <2>2, <2>3, SettleStep DEF PddlInv
<1>4. CASE pollRealtime
  <2> DEFINE m == [Request("session", pg.draft.realtimeSessionId)
                     EXCEPT !.status = srv.sessions[pg.draft.realtimeSessionId]]
  <2>1. net' = net \cup {m} /\ UNCHANGED <<pg, store, skipLeft, srv>>
    BY <1>4 DEF pollRealtime, Send
  <2>2. m = [f \in RequestFields |-> m[f]] /\ m.op = "session"
    BY RequestIs
  <2> HIDE DEF m
  <2>3. NetOK(net')
    BY <2>1, <2>2, PlainRequest DEF PageKept
  <2> QED BY <1>0, <2>1, <2>3, NetStep DEF PddlInv
<1>5. CASE handleResetRealtimeMonitorCard
  <2>1. /\ net' = net \cup {Request("reset", pg.draft.realtimeSessionId)}
        /\ UNCHANGED <<pg, store, skipLeft, srv>>
    BY <1>5 DEF handleResetRealtimeMonitorCard, Send
  <2>2. NetOK(net')
    BY <1>1, <2>1
  <2> QED BY <1>0, <2>1, <2>2, NetStep DEF PddlInv
<1> QED BY <1>2, <1>3, <1>4, <1>5

LEMMA SessionAnswered ==
  ASSUME PddlInv, NEW m \in net,
         RealtimeStarted(m) \/ RealtimeStopped(m) \/ RealtimePolled(m) \/ MonitorCardReset(m)
  PROVE  PddlInv'
<1>0. SrvTyped(srv) /\ StoreOK(store) /\ NetOK(net \ {m})
  BY PageIs, InvFollows
<1>1. ASSUME NEW q, Follows(q), Settle(pg, q, store, net \ {m}, FALSE), SrvTyped(srv')
      PROVE  PddlInv'
  BY <1>0, <1>1, SettleStep DEF PddlInv
<1>2. ASSUME NEW k, NEW v PROVE SrvTyped([srv EXCEPT !.sessions[k] = v])
  BY <1>0 DEF SrvTyped
<1>3. CASE net' = net \ {m} /\ UNCHANGED <<pg, store, skipLeft, srv>>
  BY <1>0, <1>3, NetStep DEF PddlInv
<1>4. CASE RealtimeStarted(m)
  <2>1. CASE UNCHANGED srv /\ Settle(pg, [pg EXCEPT !.isStarting = FALSE], store, net \ {m}, FALSE)
    <3>1. Follows([pg EXCEPT !.isStarting = FALSE])
      BY Zenon, SessionFollows
    <3> QED BY <1>0, <1>1, <2>1, <3>1
  <2> DEFINE i == Cardinality({j \in 1 .. MaxSessions : srv.sessions[j] # "none"}) + 1
             c == [id |-> i, status |-> "running"]
             q == [pg EXCEPT !.isStarting = FALSE, !.draft.realtimeSessionId = i, !.session = c]
  <2>2. CASE /\ srv' = [srv EXCEPT !.sessions[i] = "running"]
             /\ Settle(pg, q, store, net \ {m}, FALSE)
    <3>1. Follows(q)
      BY Zenon, SessionFollows
    <3> HIDE DEF i, q
    <3> QED BY <1>1, <1>2, <2>2, <3>1
  <2>3. \/ UNCHANGED srv /\ Settle(pg, [pg EXCEPT !.isStarting = FALSE], store, net \ {m}, FALSE)
        \/ /\ srv' = [srv EXCEPT !.sessions[i] = "running"]
           /\ Settle(pg, q, store, net \ {m}, FALSE)
    BY <1>4 DEF RealtimeStarted, Done
  <2> QED BY <2>1, <2>2, <2>3
<1>5. CASE RealtimeStopped(m)
  <2>1. CASE UNCHANGED srv /\ Settle(pg, [pg EXCEPT !.isStopping = FALSE], store, net \ {m}, FALSE)
    <3>1. Follows([pg EXCEPT !.isStopping = FALSE])
      BY Zenon, SessionFollows
    <3> QED BY <1>0, <1>1, <2>1, <3>1
  <2> DEFINE v == IF srv.sessions[m.id] = "gone" THEN srv.sessions[m.id] ELSE "stopped"
             c == IF srv.sessions[m.id] = "gone" THEN NoSession
                  ELSE [id |-> m.id, status |-> "stopped"]
             q == [pg EXCEPT !.isStopping = FALSE, !.draft.realtimeSessionId = 0, !.session = c]
  <2>2. CASE srv' = [srv EXCEPT !.sessions[m.id] = v] /\ Settle(pg, q, store, net \ {m}, FALSE)
    <3>1. Follows(q)
      BY Zenon, SessionFollows
    <3> HIDE DEF v, q
    <3> QED BY <1>1, <1>2, <2>2, <3>1
  <2>3. \/ UNCHANGED srv /\ Settle(pg, [pg EXCEPT !.isStopping = FALSE], store, net \ {m}, FALSE)
        \/ srv' = [srv EXCEPT !.sessions[m.id] = v] /\ Settle(pg, q, store, net \ {m}, FALSE)
    BY <1>5 DEF RealtimeStopped, Done
  <2> QED BY <2>1, <2>2, <2>3
<1>6. CASE RealtimePolled(m) /\ ~ m.cancelled
  <2>1. UNCHANGED srv
    BY <1>6 DEF RealtimePolled
  <2>2. CASE Settle(pg, [pg EXCEPT !.session = NoSession, !.draft.realtimeSessionId = 0],
                    store, net \ {m}, FALSE)
    <3>1. Follows([pg EXCEPT !.session = NoSession, !.draft.realtimeSessionId = 0])
      BY Zenon, SessionFollows
    <3> QED BY <1>0, <1>1, <2>1, <2>2, <3>1
  <2>3. CASE Settle(pg, [pg EXCEPT !.session = [id |-> m.id, status |-> m.status]],
                    store, net \ {m}, FALSE)
    <3>1. Follows([pg EXCEPT !.session = [id |-> m.id, status |-> m.status]])
      BY Zenon, SessionFollows
    <3> QED BY <1>0, <1>1, <2>1, <2>3, <3>1
  <2> QED BY <1>6, <2>2, <2>3 DEF RealtimePolled, Done
<1>7. CASE MonitorCardReset(m) /\ srv.sessions[m.id] # "gone"
  <2>1. /\ UNCHANGED srv
        /\ Settle(pg, [pg EXCEPT !.session = [id |-> m.id, status |-> srv.sessions[m.id]]],
                  store, net \ {m}, FALSE)
    BY <1>7 DEF MonitorCardReset, Done
  <2>2. Follows([pg EXCEPT !.session = [id |-> m.id, status |-> srv.sessions[m.id]]])
    BY Zenon, SessionFollows
  <2> QED BY <1>0, <1>1, <2>1, <2>2
<1> QED BY <1>3, <1>4, <1>5, <1>6, <1>7 DEF RealtimePolled, MonitorCardReset, Done

LEMMA ServerStep ==
  ASSUME PddlInv, RunEnds \/ ServerRestarts \/ TaskDeleted
  PROVE  PddlInv'
<1>1. SrvTyped(srv')
  BY PageIs DEF RunEnds, ServerRestarts, TaskDeleted, SrvTyped
<1>2. UNCHANGED <<pg, store, skipLeft, net>>
  BY DEF RunEnds, ServerRestarts, TaskDeleted
<1> QED BY <1>1, <1>2 DEF PddlInv

LEMMA PddlStep == PddlInv /\ PddlNext => PddlInv'
<1> SUFFICES ASSUME PddlInv, PddlNext PROVE PddlInv'
  OBVIOUS
<1>1. CASE PddlUser
  <2>1. ASSUME NEW t \in Tasks, handleToggleBT(t) PROVE PddlInv'
    BY <2>1, ToggleStep
  <2>2. ASSUME NEW td \in Distributors, handleSelectDistributor(td) PROVE PddlInv'
    BY <2>2, SelectScopeStep
  <2>3. ASSUME NEW td \in Distributors, NEW t \in Tasks, ImportApplied(td, <<t>>) PROVE PddlInv'
    BY <2>3, ImportStep
  <2> QED BY <1>1, <2>1, <2>2, <2>3, LoadStep, EditStep, DistributorStep, SolveStep, ExecutionStep,
             SessionAsked DEF PddlUser
<1>2. CASE PddlAnswer
  BY <1>2, FetchedStep, DistributorStep, SolveStep, ExecutionStep, SessionAnswered DEF PddlAnswer
<1> QED BY <1>1, <1>2, LoadStep, ExecutionStep, SessionAsked, ServerStep DEF PddlNext

LEMMA PddlStarts == PddlInit => PddlInv
<1> SUFFICES ASSUME PddlInit PROVE PddlInv
  OBVIOUS
<1>1. PICK owner \in [Tasks -> Scopes] :
        srv = [trees |-> Tasks, tds |-> Range(owner) \ {Null}, owner |-> owner,
               runs |-> [i \in 1 .. MaxRuns |-> "none"],
               sessions |-> [i \in 1 .. MaxSessions |-> "none"]]
  BY DEF PddlInit
<1>2. srv.owner \in [Tasks -> Scopes] /\ SrvTyped(srv)
  BY <1>1 DEF SrvTyped
<1>3. PICK s \in {NoDrafts} \cup {EarlierVisit(srv.owner[t], t) : t \in {u \in Tasks : srv.owner[u] # Null}} :
        pg = Mounted(s).new /\ store = Mounted(s).store /\ net = Mounted(s).net
  BY DEF PddlInit
<1>4. StoreTyped(NoDrafts) /\ StoreGoals(NoDrafts)
  BY DEF NoDrafts, StoreTyped, StoreGoals, DraftGoal, Scopes
<1>5. StoreTyped(s) /\ StoreGoals(s)
  <2>1. ASSUME NEW t \in Tasks, srv.owner[t] # Null
        PROVE  /\ StoreTyped(EarlierVisit(srv.owner[t], t))
               /\ StoreGoals(EarlierVisit(srv.owner[t], t))
    <3> DEFINE td == srv.owner[t]
               p == [td |-> td, is_valid |-> TRUE]
               d == [EmptyDraft EXCEPT !.selectedBTIds = <<t>>, !.selectedAgentIds = TRUE,
                                       !.goalState = td, !.plan = p, !.realtimeGoals = TRUE]
    <3>1. td \in Scopes
      BY <1>2
    <3>2. EarlierVisit(td, t) = writeStoredDraft(NoDrafts, td, d)
      BY DEF EarlierVisit
    <3> HIDE DEF p, td
    <3>3. IsDraft(d) /\ d.goalState = td
      BY DEF EmptyDraft, IsDraft, DraftFields
    <3> HIDE DEF d
    <3>4. StoreTyped(EarlierVisit(td, t)) /\ StoreGoals(EarlierVisit(td, t))
      BY <1>4, <3>1, <3>2, <3>3, WriteIs DEF StoreGoals, DraftGoal
    <3> QED BY <3>4 DEF td
  <2> QED BY <1>3, <1>4, <2>1
<1>6. skipLeft = FALSE
  BY DEF PddlInit
<1> QED BY <1>2, <1>3, <1>5, <1>6, MountedShown DEF PddlInv

LEMMA PddlAlways == Spec => []PddlInv
<1>1. Init => PddlInv
  BY PddlStarts DEF Init
<1>2. PddlInv /\ [Next]_vars => PddlInv'
  <2> SUFFICES ASSUME PddlInv, [Next]_vars PROVE PddlInv'
    OBVIOUS
  <2>1. PddlNext \/ UNCHANGED pddlVars
    BY DEF Next, vars
  <2>2. CASE UNCHANGED pddlVars
    <3>1. UNCHANGED <<pg, store, net, skipLeft, srv>>
      BY <2>2 DEF pddlVars
    <3> QED BY <3>1 DEF PddlInv
  <2> QED BY <2>1, <2>2, PddlStep
<1> QED BY <1>1, <1>2, PTL DEF Spec

\* Whatever is selected, solved, executed, switched or polled, and in whatever order
\* the answers come, the page shows no execution once it let go of its id: every
\* poll that is not cancelled belongs to the execution whose id the draft has.
THEOREM NoGhostExecutionCorrect == Spec => []NoGhostExecution
<1>1. PddlInv => NoGhostExecution
  BY DEF PddlInv, Shown, NoGhostAt, NoGhostExecution
<1> QED BY <1>1, PddlAlways, PTL

\* As long as neither of the two refs has spared a reset, no goal stands or is stored
\* in a scope it was not typed for: between two renders a draft may hold the goal of
\* another scope, and the next render writes it again.
THEOREM GoalsStayInScopeCorrect == Spec => []GoalsStayInScope
<1>1. PddlInv => GoalsStayInScope
  BY DEF PddlInv, Shown, GoalAt, StoreGoals, DraftGoal, GoalsStayInScope
<1> QED BY <1>1, PddlAlways, PTL

(***************************************************************************)
(* The types of the planning page                                          *)
(***************************************************************************)
\* A part of a sequence is no longer than the whole.
LEMMA AtShorter ==
  ASSUME NEW S, NEW s \in Seq(S), NEW I \in SUBSET DOMAIN s
  PROVE  Len(At(s, I)) \in Nat /\ Len(At(s, I)) <= Len(s)
<1>1. PICK g : Picks(At(s, I), s, I, g)
  BY AtPositions
<1>2. At(s, I) \in Seq(S)
  BY AtPositions
<1> DEFINE k == Len(At(s, I))
           n == Len(s)
<1>3. k \in Nat /\ n \in Nat /\ DOMAIN s = 1 .. n
  BY <1>2
<1> HIDE DEF k, n
<1>4. /\ g \in [1 .. k -> 1 .. n] /\ \A i, j \in 1 .. k : i < j => g[i] < g[j]
  BY <1>1, <1>3 DEF Picks, k
<1>5. IsInjective(g)
  <2>1. ASSUME NEW i \in 1 .. k, NEW j \in 1 .. k, g[i] = g[j] PROVE i = j
    <3>1. g[i] \in 1 .. n /\ g[j] \in 1 .. n
      BY <1>4
    <3>2. ~ (i < j) /\ ~ (j < i)
      BY <1>3, <1>4, <2>1, <3>1
    <3> QED BY <1>3, <3>2
  <2> QED BY <1>4, <2>1 DEF IsInjective
<1>6. g \in Injection(1 .. k, 1 .. n)
  BY <1>4, <1>5 DEF Injection
<1>7. IsFiniteSet(1 .. n) /\ Cardinality(1 .. n) = n /\ Cardinality(1 .. k) = k
  BY <1>3, FS_Interval
<1>8. Cardinality(1 .. k) <= Cardinality(1 .. n)
  BY <1>6, <1>7, FS_Injection
<1> QED BY <1>3, <1>7, <1>8 DEF k, n

\* Selections of tasks, no longer than MaxSelected.
Selections == UNION {[1 .. n -> Tasks] : n \in 0 .. MaxSelected}

LEMMA SelectionIs ==
  ASSUME NEW ids
  PROVE  ids \in Selections <=> ids \in Seq(Tasks) /\ Len(ids) <= MaxSelected
<1>0. MaxSelected \in Nat
  BY PddlAssumption
<1>1. ASSUME ids \in Selections PROVE ids \in Seq(Tasks) /\ Len(ids) <= MaxSelected
  <2>1. PICK n \in 0 .. MaxSelected : ids \in [1 .. n -> Tasks]
    BY <1>1 DEF Selections
  <2>2. n \in Nat /\ n <= MaxSelected
    BY <1>0
  <2> QED BY <2>1, <2>2
<1>2. ASSUME ids \in Seq(Tasks), Len(ids) <= MaxSelected PROVE ids \in Selections
  <2>1. Len(ids) \in Nat /\ ids \in [1 .. Len(ids) -> Tasks]
    BY <1>2
  <2>2. Len(ids) \in 0 .. MaxSelected
    BY <1>0, <1>2, <2>1
  <2> QED BY <2>1, <2>2 DEF Selections
<1> QED BY <1>1, <1>2

\* A selection filtered, with one more, with one only, with none.
LEMMA SelectionKeeps ==
  /\ <<>> \in Selections /\ \A t \in Tasks : <<t>> \in Selections
  /\ \A ids \in Selections : \A I \in SUBSET DOMAIN ids : At(ids, I) \in Selections
  /\ \A ids \in Selections, t \in Tasks :
        Len(ids) < MaxSelected => Append(ids, t) \in Selections
<1>0. MaxSelected \in Nat /\ MaxSelected >= 1
  BY PddlAssumption
<1>1. <<>> \in Selections
  <2>1. <<>> \in Seq(Tasks) /\ Len(<<>>) = 0
    OBVIOUS
  <2>2. Len(<<>>) <= MaxSelected
    BY <1>0, <2>1
  <2> QED BY <2>1, <2>2, SelectionIs
<1>2. ASSUME NEW t \in Tasks PROVE <<t>> \in Selections
  <2>1. <<t>> \in Seq(Tasks) /\ Len(<<t>>) = 1
    OBVIOUS
  <2> HIDE DEF Selections
  <2> QED BY <1>0, <2>1, SelectionIs
<1>3. ASSUME NEW ids \in Selections, NEW I \in SUBSET DOMAIN ids
      PROVE  At(ids, I) \in Selections
  <2>1. ids \in Seq(Tasks) /\ Len(ids) <= MaxSelected
    BY SelectionIs
  <2>2. At(ids, I) \in Seq(Tasks) /\ Len(At(ids, I)) <= Len(ids) /\ Len(At(ids, I)) \in Nat
    BY <1>3, <2>1, AtPositions, AtShorter
  <2>3. Len(At(ids, I)) <= MaxSelected
    BY <1>0, <2>1, <2>2
  <2> QED BY <2>2, <2>3, SelectionIs
<1>4. ASSUME NEW ids \in Selections, NEW t \in Tasks, Len(ids) < MaxSelected
      PROVE  Append(ids, t) \in Selections
  <2>1. ids \in Seq(Tasks) /\ Len(ids) <= MaxSelected
    BY SelectionIs
  <2>2. Append(ids, t) \in Seq(Tasks) /\ Len(Append(ids, t)) = Len(ids) + 1
    BY <2>1
  <2>3. Len(Append(ids, t)) <= MaxSelected
    BY <1>0, <1>4, <2>1, <2>2
  <2> QED BY <2>2, <2>3, SelectionIs
<1> QED BY <1>1, <1>2, <1>3, <1>4

\* Drafts and pages whose fields have their types, and the fields of which the
\* invariant says nothing more.
PageFull(q) ==
    /\ IsPage(q) /\ q.td \in Scopes /\ q.draft \in PDDLDraftState
    /\ q.treeList \subseteq Tasks /\ q.distributors \subseteq Distributors
    /\ q.agents \in BOOLEAN /\ q.memo \in BOOLEAN
FreeFields ==
    {"execution", "session", "polling", "isSolving", "isStarting", "isStopping", "skipReset",
     "restoredKey", "isApplying", "autoSelected"}

LEMMA DraftSets ==
  ASSUME NEW d \in PDDLDraftState, NEW x
  PROVE  /\ x \in Selections => [d EXCEPT !.selectedBTIds = x] \in PDDLDraftState
         /\ x \in BOOLEAN => [d EXCEPT !.selectedAgentIds = x] \in PDDLDraftState
         /\ x \in BOOLEAN => [d EXCEPT !.realtimeGoals = x] \in PDDLDraftState
         /\ x \in Scopes => [d EXCEPT !.goalState = x] \in PDDLDraftState
         /\ x \in PlanResult \cup {Null} => [d EXCEPT !.plan = x] \in PDDLDraftState
         /\ x \in 0 .. MaxRuns => [d EXCEPT !.executionId = x] \in PDDLDraftState
         /\ x \in 0 .. MaxSessions => [d EXCEPT !.realtimeSessionId = x] \in PDDLDraftState
  BY DEF PDDLDraftState, Selections

LEMMA DraftParts ==
  ASSUME NEW d \in PDDLDraftState
  PROVE  /\ d.selectedBTIds \in Selections /\ d.selectedAgentIds \in BOOLEAN
         /\ d.realtimeGoals \in BOOLEAN /\ d.goalState \in Scopes /\ d.plan \in PlanResult \cup {Null}
         /\ d.executionId \in 0 .. MaxRuns /\ d.realtimeSessionId \in 0 .. MaxSessions
  BY DEF PDDLDraftState, Selections

LEMMA FewestOf == 0 \in 0 .. MaxRuns /\ 0 \in 0 .. MaxSessions
  BY PddlAssumption

LEMMA EmptyFull == EmptyDraft \in PDDLDraftState
  BY SelectionKeeps, FewestOf DEF EmptyDraft, PDDLDraftState, Selections, Scopes

LEMMA PageSets ==
  ASSUME NEW q, PageFull(q), NEW x
  PROVE  /\ \A f \in FreeFields : PageFull([q EXCEPT ![f] = x])
         /\ x \in Scopes => PageFull([q EXCEPT !.td = x])
         /\ x \in PDDLDraftState => PageFull([q EXCEPT !.draft = x])
         /\ x \subseteq Tasks => PageFull([q EXCEPT !.treeList = x])
         /\ x \subseteq Distributors => PageFull([q EXCEPT !.distributors = x])
         /\ x \in BOOLEAN => PageFull([q EXCEPT !.agents = x])
         /\ x \in BOOLEAN => PageFull([q EXCEPT !.memo = x])
<1>1. ASSUME NEW f \in FreeFields PROVE PageFull([q EXCEPT ![f] = x])
  BY DEF PageFull, IsPage, PageFields, FreeFields
<1>2. ASSUME x \in Scopes PROVE PageFull([q EXCEPT !.td = x])
  BY <1>2 DEF PageFull, IsPage, PageFields
<1>3. ASSUME x \in PDDLDraftState PROVE PageFull([q EXCEPT !.draft = x])
  BY <1>3 DEF PageFull, IsPage, PageFields
<1>4. ASSUME x \subseteq Tasks PROVE PageFull([q EXCEPT !.treeList = x])
  BY <1>4 DEF PageFull, IsPage, PageFields
<1>5. ASSUME x \subseteq Distributors PROVE PageFull([q EXCEPT !.distributors = x])
  BY <1>5 DEF PageFull, IsPage, PageFields
<1>6. ASSUME x \in BOOLEAN PROVE PageFull([q EXCEPT !.agents = x])
  BY <1>6 DEF PageFull, IsPage, PageFields
<1>7. ASSUME x \in BOOLEAN PROVE PageFull([q EXCEPT !.memo = x])
  BY <1>7 DEF PageFull, IsPage, PageFields
<1> QED BY <1>1, <1>2, <1>3, <1>4, <1>5, <1>6, <1>7

\* What a round keeps of the lists of the page, and its memo.
LEMMA RoundKeeps ==
  ASSUME NEW r, IsPage(r.new)
  PROVE  /\ Round(r).new.distributors = r.new.distributors
         /\ Round(r).new.agents = r.new.agents
         /\ Round(r).new.memo = IF Changed(r) THEN Resolved(r.new) ELSE r.new.memo
<1> DEFINE q == r.new
           dr == ResetSelection(r, AutoSelectTask(q, DropUnknown(r, q.draft)))
           me == IF Changed(r) THEN Resolved(q) ELSE q.memo
           ap == q.isApplying /\ ~ Changed(r)
           au == q.autoSelected \/ q.draft.selectedBTIds # <<>> \/ q.treeList # {}
           po == IF r.old.draft.executionId # q.draft.executionId
                 THEN q.draft.executionId # 0 ELSE q.polling
           se == IF r.old.draft.realtimeSessionId # 0 /\ q.draft.realtimeSessionId = 0
                 THEN NoSession ELSE q.session
           ex == IF KeyOf(r.old) # KeyOf(q) /\ ~ Kept(r) THEN NoExecution ELSE q.execution
           sk == q.skipReset /\ ~ (KeyOf(r.old) # KeyOf(q))
           ke == IF KeyOf(r.old) # KeyOf(q) /\ ~ q.skipReset /\ q.restoredKey = KeyOf(q)
                 THEN Null ELSE q.restoredKey
           p == [q EXCEPT !.draft = dr, !.memo = me, !.isApplying = ap, !.autoSelected = au,
                          !.polling = po]
           n == [p EXCEPT !.session = se, !.execution = ex, !.skipReset = sk, !.restoredKey = ke]
<1>1. RunEffects(r) = n
  BY Zenon DEF RunEffects
<1> HIDE DEF dr, me, ap, au, po, se, ex, sk, ke
<1>2. IsPage(p) /\ p.distributors = q.distributors /\ p.agents = q.agents /\ p.memo = me
  BY DEF IsPage, PageFields
<1> HIDE DEF p
<1>3. n.distributors = q.distributors /\ n.agents = q.agents /\ n.memo = me
  BY <1>2 DEF IsPage, PageFields
<1> HIDE DEF n
<1>4. Round(r).new = n
  BY <1>1 DEF Round
<1> QED BY <1>3, <1>4 DEF me

(***************************************************************************)
(* A render keeps the types                                                *)
(***************************************************************************)
StoreFull(s) ==
    /\ s = [drafts |-> s.drafts, last |-> s.last] /\ s.last \in Scopes
    /\ s.drafts \in [Scopes -> PDDLDraftState \cup {Null}]
RequestFull(m) ==
    /\ m = [f \in RequestFields |-> m[f]]
    /\ m.op \in PageKept => PageFull(m.saw)
    /\ m.op = "toggle" => m.id \in Tasks /\ m.saw \in Scopes
    /\ m.op = "solve" => m.saw \in Scopes
NetFull(n) == \A m \in n : RequestFull(m)
RoundIsFull(r) == PageFull(r.new) /\ StoreFull(r.store) /\ NetFull(r.net)

LEMMA WriteFull ==
  ASSUME NEW s, StoreFull(s), NEW td \in Scopes, NEW d \in PDDLDraftState
  PROVE  StoreFull(writeStoredDraft(s, td, d))
<1> DEFINE w == writeStoredDraft(s, td, d)
<1>1. w = [drafts |-> [s.drafts EXCEPT ![td] = d], last |-> IF td = Null THEN s.last ELSE td]
  BY DEF writeStoredDraft
<1>2. /\ w.drafts = [s.drafts EXCEPT ![td] = d] /\ w.last \in Scopes
      /\ w = [drafts |-> w.drafts, last |-> w.last]
  BY <1>1 DEF StoreFull
<1> HIDE DEF w
<1>3. w.drafts \in [Scopes -> PDDLDraftState \cup {Null}]
  BY <1>2 DEF StoreFull
<1> QED BY <1>2, <1>3 DEF StoreFull, w

LEMMA ReadFull ==
  ASSUME NEW s, StoreFull(s), NEW td \in Scopes
  PROVE  readStoredDraft(s, td) \in PDDLDraftState
<1>1. s.drafts[td] \in PDDLDraftState \cup {Null}
  BY DEF StoreFull
<1> QED BY <1>1, EmptyFull DEF readStoredDraft

LEMMA RoundFull ==
  ASSUME NEW r, RoundIsFull(r)
  PROVE  RoundIsFull(Round(r)) /\ Round(r).old = r.new
<1> DEFINE q == r.new
           d == DropUnknown(r, q.draft)
           a == AutoSelectTask(q, d)
           e == ResetSelection(r, a)
<1>0. PageFull(q) /\ IsPage(q) /\ q.draft \in PDDLDraftState /\ q.td \in Scopes /\ q.treeList \subseteq Tasks
  BY DEF RoundIsFull, PageFull
<1>1. d \in PDDLDraftState
  <2> DEFINE ids == q.draft.selectedBTIds
             I == {i \in DOMAIN ids : ids[i] \in q.treeList}
  <2>1. ids \in Selections /\ I \in SUBSET DOMAIN ids
    BY <1>0, DraftParts
  <2>2. At(ids, I) \in Selections
    BY <2>1, SelectionKeeps
  <2>3. d = [q.draft EXCEPT !.selectedBTIds = At(ids, I)] \/ d = q.draft
    BY DEF DropUnknown, Filter
  <2> HIDE DEF d, I, ids
  <2> QED BY <1>0, <2>2, <2>3, DraftSets
<1> HIDE DEF d
<1>2. a \in PDDLDraftState
  <2> DEFINE t == CHOOSE t \in q.treeList : TRUE
  <2>1. a = d \/ (q.treeList # {} /\ a = [d EXCEPT !.selectedBTIds = <<t>>])
    BY DEF AutoSelectTask
  <2>2. q.treeList # {} => t \in Tasks
    BY <1>0
  <2> HIDE DEF t, a
  <2>3. q.treeList # {} => <<t>> \in Selections
    BY <2>2, SelectionKeeps
  <2> QED BY <1>1, <2>1, <2>3, DraftSets
<1> HIDE DEF a
<1>3. e \in PDDLDraftState
  <2> DEFINE b == [a EXCEPT !.goalState = Null]
             c == [b EXCEPT !.plan = Null]
             f == [c EXCEPT !.executionId = 0]
  <2>1. e = a \/ e = f
    BY DEF ResetSelection
  <2>2. Null \in Scopes /\ Null \in PlanResult \cup {Null} /\ 0 \in 0 .. MaxRuns
    BY FewestOf DEF Scopes
  <2>3. b \in PDDLDraftState
    BY <1>2, <2>2, DraftSets
  <2> HIDE DEF b
  <2>4. c \in PDDLDraftState
    BY <2>2, <2>3, DraftSets
  <2> HIDE DEF c
  <2>5. f \in PDDLDraftState
    BY <2>2, <2>4, DraftSets
  <2> HIDE DEF e, f
  <2> QED BY <1>2, <2>1, <2>5
<1> HIDE DEF e
<1>4. /\ Round(r).old = q /\ Round(r).store = PersistDraft(r) /\ Round(r).net = CancelPolls(r)
      /\ IsPage(Round(r).new) /\ Round(r).new.td = q.td /\ Round(r).new.treeList = q.treeList
      /\ Round(r).new.draft = e
  <2>1. e = ResetSelection(r, AutoSelectTask(r.new, DropUnknown(r, r.new.draft)))
    BY DEF a, d, e
  <2> HIDE DEF q
  <2> QED BY <1>0, <2>1, RoundIs DEF q
<1>5. /\ Round(r).new.distributors = q.distributors /\ Round(r).new.agents = q.agents
      /\ Round(r).new.memo \in BOOLEAN
  <2>1. Resolved(q) \in BOOLEAN
    BY DEF Resolved
  <2>2. q.memo \in BOOLEAN
    BY <1>0 DEF PageFull
  <2> QED BY <1>0, <2>1, <2>2, RoundKeeps
<1>6. PageFull(Round(r).new)
  BY <1>0, <1>3, <1>4, <1>5 DEF PageFull
<1>7. StoreFull(PersistDraft(r))
  <2> DEFINE x == Resolved(q)
             f == [q.draft EXCEPT !.selectedAgentIds = x]
  <2>1. x \in BOOLEAN
    BY DEF Resolved
  <2> HIDE DEF x
  <2>2. f \in PDDLDraftState
    BY <1>0, <2>1, DraftSets
  <2>3. PersistDraft(r) = writeStoredDraft(r.store, q.td, f) \/ PersistDraft(r) = r.store
    BY DEF PersistDraft, x
  <2> HIDE DEF f
  <2> QED BY <1>0, <2>2, <2>3, WriteFull DEF RoundIsFull
<1>8. NetFull(CancelPolls(r))
  <2>1. ASSUME NEW m, RequestFull(m) PROVE RequestFull([m EXCEPT !.cancelled = TRUE])
    <3> DEFINE c == [m EXCEPT !.cancelled = TRUE]
    <3>1. c = [f \in RequestFields |-> c[f]] /\ c.op = m.op /\ c.saw = m.saw /\ c.id = m.id
      BY <2>1 DEF RequestFull, RequestFields
    <3> HIDE DEF c
    <3>2. RequestFull(c)
      BY <2>1, <3>1 DEF RequestFull
    <3> QED BY <3>2 DEF c
  <2>2. ASSUME NEW n \in CancelPolls(r)
        PROVE  \E m \in r.net : n = m \/ n = [m EXCEPT !.cancelled = TRUE]
    BY DEF CancelPolls
  <2> QED BY <2>1, <2>2 DEF RoundIsFull, NetFull
<1> QED BY <1>4, <1>6, <1>7, <1>8 DEF RoundIsFull

LEMMA SettledFull ==
  ASSUME NEW old, NEW q, PageFull(q), NEW s, StoreFull(s), NEW m, NetFull(m), NEW loaded
  PROVE  RoundIsFull(Settled(old, q, s, m, loaded))
<1> DEFINE r0 == [old |-> old, new |-> q, store |-> s, net |-> m, loaded |-> loaded]
           r1 == Round(r0)
           r2 == Round(r1)
           r3 == Round(r2)
<1>1. RoundIsFull(r0)
  BY DEF RoundIsFull
<1> HIDE DEF r0
<1>2. RoundIsFull(r1)
  BY <1>1, RoundFull
<1> HIDE DEF r1
<1>3. RoundIsFull(r2)
  BY <1>2, RoundFull
<1> HIDE DEF r2
<1>4. RoundIsFull(r3)
  BY <1>3, RoundFull
<1> HIDE DEF r3
<1>5. RoundIsFull(Round(r3))
  BY <1>4, RoundFull
<1> QED BY <1>5 DEF Settled, r0, r1, r2, r3

LEMMA AppliedFull ==
  ASSUME NEW q, PageFull(q), NEW td \in Scopes, NEW d \in PDDLDraftState
  PROVE  PageFull(applyStoredDraft(q, td, d))
<1> DEFINE k == SelectionKey(d.selectedBTIds, td)
           q1 == [q EXCEPT !.td = td]
           q2 == [q1 EXCEPT !.draft = d]
           q3 == [q2 EXCEPT !.execution = NoExecution]
           q4 == [q3 EXCEPT !.session = NoSession]
           q5 == [q4 EXCEPT !.skipReset = TRUE]
           q6 == [q5 EXCEPT !.isApplying = TRUE]
           q7 == [q6 EXCEPT !.restoredKey = k]
<1>1. applyStoredDraft(q, td, d) = q7
  BY DEF applyStoredDraft
<1> HIDE DEF k
<1>2. PageFull(q2)
  <2>1. PageFull(q1)
    BY PageSets
  <2> HIDE DEF q1
  <2> QED BY <2>1, PageSets
<1> HIDE DEF q2
<1>3. PageFull(q3)
  BY <1>2, PageSets DEF FreeFields
<1> HIDE DEF q3
<1>4. PageFull(q4)
  BY <1>3, PageSets DEF FreeFields
<1> HIDE DEF q4
<1>5. PageFull(q5)
  BY <1>4, PageSets DEF FreeFields
<1> HIDE DEF q5
<1>6. PageFull(q6)
  BY <1>5, PageSets DEF FreeFields
<1> HIDE DEF q6
<1>7. PageFull(q7)
  BY <1>6, PageSets DEF FreeFields
<1> HIDE DEF q7
<1> QED BY <1>1, <1>7

LEMMA FreshFull == PageFull(FreshPage) /\ NetFull({})
<1>1. PageFull(FreshPage)
  BY EmptyFull DEF PageFull, IsPage, PageFields, FreshPage, Scopes
<1> QED BY <1>1 DEF NetFull

LEMMA MountedFull == ASSUME NEW s, StoreFull(s) PROVE RoundIsFull(Mounted(s))
<1>0. s.last \in Scopes /\ s.drafts[s.last] \in PDDLDraftState \cup {Null} /\ Null \in Scopes
  BY DEF StoreFull, Scopes
<1>1. CASE s.drafts[s.last] # Null
  <2> DEFINE a == applyStoredDraft(FreshPage, s.last, s.drafts[s.last])
             b == [a EXCEPT !.isApplying = FALSE]
             q == [b EXCEPT !.skipReset = FALSE]
  <2>1. Mounted(s) = Settled(FreshPage, q, s, {}, FALSE)
    BY <1>1 DEF Mounted
  <2>2. PageFull(a)
    BY <1>0, <1>1, FreshFull, AppliedFull
  <2> HIDE DEF a
  <2>3. PageFull(b)
    BY <2>2, PageSets DEF FreeFields
  <2> HIDE DEF b
  <2>4. PageFull(q)
    BY <2>3, PageSets DEF FreeFields
  <2> HIDE DEF q
  <2> QED BY <2>1, <2>4, FreshFull, SettledFull
<1>2. CASE s.drafts[s.last] = Null
  <2> DEFINE q == [FreshPage EXCEPT !.td = s.last]
             w == writeStoredDraft(s, Null, EmptyDraft)
  <2>1. Mounted(s) = Settled(FreshPage, q, w, {}, FALSE)
    BY <1>2 DEF Mounted
  <2>2. PageFull(q)
    BY <1>0, FreshFull, PageSets
  <2>3. StoreFull(w)
    BY <1>0, EmptyFull, WriteFull
  <2> HIDE DEF q, w
  <2> QED BY <2>1, <2>2, <2>3, FreshFull, SettledFull
<1> QED BY <1>1, <1>2

(***************************************************************************)
(* The handlers keep the types                                             *)
(***************************************************************************)
SrvFull(v) == SrvTyped(v) /\ v.trees \subseteq Tasks /\ v.tds \subseteq Distributors
ShownFull == PageFull(pg) /\ StoreFull(store) /\ NetFull(net)
PddlFull == ShownFull /\ SrvFull(srv) /\ pddlOps \in 0 .. MaxPddlOps

LEMMA SettleFull ==
  ASSUME NEW q, PageFull(q), NEW s, StoreFull(s), NEW m, NetFull(m), NEW loaded,
         Settle(pg, q, s, m, loaded)
  PROVE  ShownFull'
<1>1. RoundIsFull(Settled(pg, q, s, m, loaded))
  BY SettledFull
<1>2. /\ pg' = Settled(pg, q, s, m, loaded).new /\ store' = Settled(pg, q, s, m, loaded).store
      /\ net' = Settled(pg, q, s, m, loaded).net
  BY DEF Settle
<1> QED BY <1>1, <1>2 DEF RoundIsFull, ShownFull

\* Requests sent and answered.
LEMMA NetFulls ==
  ASSUME NEW n, NetFull(n)
  PROVE  /\ \A m : NetFull(n \ {m})
         /\ \A m : RequestFull(m) => NetFull(n \cup {m})
         /\ \A op, id : op \notin PageKept \cup {"toggle", "solve"} =>
               /\ NetFull(n \cup {Request(op, id)})
               /\ \A x : NetFull(n \cup {[Request(op, id) EXCEPT !.status = x]})
<1>1. ASSUME NEW m, RequestFull(m) PROVE NetFull(n \cup {m})
  BY <1>1 DEF NetFull
<1>2. ASSUME NEW op, NEW id, op \notin PageKept \cup {"toggle", "solve"}
      PROVE  /\ RequestFull(Request(op, id))
             /\ \A x : RequestFull([Request(op, id) EXCEPT !.status = x])
  <2>1. RequestFull(Request(op, id))
    BY <1>2, RequestIs DEF RequestFull
  <2>2. ASSUME NEW x PROVE RequestFull([Request(op, id) EXCEPT !.status = x])
    <3> DEFINE m == [Request(op, id) EXCEPT !.status = x]
    <3>1. m = [f \in RequestFields |-> m[f]] /\ m.op = op /\ m.id = id
      BY RequestIs
    <3> HIDE DEF m
    <3>2. RequestFull(m)
      BY <1>2, <3>1 DEF RequestFull
    <3> QED BY <3>2 DEF m
  <2> QED BY <2>1, <2>2
<1>3. \A m : NetFull(n \ {m})
  BY DEF NetFull
<1> QED BY <1>1, <1>2, <1>3

\* A request that keeps what its answer uses.
LEMMA KeptRequest ==
  ASSUME NEW op, NEW id, NEW x,
         op \in PageKept => PageFull(x), op = "toggle" => id \in Tasks /\ x \in Scopes,
         op = "solve" => x \in Scopes
  PROVE  RequestFull([Request(op, id) EXCEPT !.saw = x])
<1> DEFINE m == [Request(op, id) EXCEPT !.saw = x]
<1>1. m = [f \in RequestFields |-> m[f]] /\ m.op = op /\ m.id = id /\ m.saw = x
  BY RequestIs
<1> HIDE DEF m
<1>2. RequestFull(m)
  BY <1>1 DEF RequestFull
<1> QED BY <1>2 DEF m

LEMMA PageDrafts ==
  ASSUME NEW q, PageFull(q), NEW x
  PROVE  /\ x \in Selections => PageFull([q EXCEPT !.draft.selectedBTIds = x])
         /\ x \in BOOLEAN => PageFull([q EXCEPT !.draft.selectedAgentIds = x])
         /\ x \in BOOLEAN => PageFull([q EXCEPT !.draft.realtimeGoals = x])
         /\ x \in Scopes => PageFull([q EXCEPT !.draft.goalState = x])
         /\ x \in PlanResult \cup {Null} => PageFull([q EXCEPT !.draft.plan = x])
         /\ x \in 0 .. MaxRuns => PageFull([q EXCEPT !.draft.executionId = x])
         /\ x \in 0 .. MaxSessions => PageFull([q EXCEPT !.draft.realtimeSessionId = x])
<1>0. q.draft \in PDDLDraftState
  BY DEF PageFull
<1>1. ASSUME NEW d \in PDDLDraftState PROVE PageFull([q EXCEPT !.draft = d])
  BY PageSets
<1>2. x \in Selections => PageFull([q EXCEPT !.draft = [q.draft EXCEPT !.selectedBTIds = x]])
  BY <1>0, <1>1, DraftSets
<1>3. x \in BOOLEAN => PageFull([q EXCEPT !.draft = [q.draft EXCEPT !.selectedAgentIds = x]])
  BY <1>0, <1>1, DraftSets
<1>4. x \in BOOLEAN => PageFull([q EXCEPT !.draft = [q.draft EXCEPT !.realtimeGoals = x]])
  BY <1>0, <1>1, DraftSets
<1>5. x \in Scopes => PageFull([q EXCEPT !.draft = [q.draft EXCEPT !.goalState = x]])
  BY <1>0, <1>1, DraftSets
<1>6. x \in PlanResult \cup {Null} => PageFull([q EXCEPT !.draft = [q.draft EXCEPT !.plan = x]])
  BY <1>0, <1>1, DraftSets
<1>7. x \in 0 .. MaxRuns => PageFull([q EXCEPT !.draft = [q.draft EXCEPT !.executionId = x]])
  BY <1>0, <1>1, DraftSets
<1>8. x \in 0 .. MaxSessions =>
          PageFull([q EXCEPT !.draft = [q.draft EXCEPT !.realtimeSessionId = x]])
  BY <1>0, <1>1, DraftSets
<1> QED BY <1>2, <1>3, <1>4, <1>5, <1>6, <1>7, <1>8

LEMMA SrvSets ==
  ASSUME NEW v, SrvFull(v), NEW x
  PROVE  /\ x \in [Tasks -> Scopes] => SrvFull([v EXCEPT !.owner = x])
         /\ \A t : x \in Scopes => SrvFull([v EXCEPT !.owner[t] = x])
         /\ x \subseteq Tasks => SrvFull([v EXCEPT !.trees = x])
         /\ x \subseteq Distributors => SrvFull([v EXCEPT !.tds = x])
         /\ SrvFull([v EXCEPT !.sessions = x])
         /\ \A i : SrvFull([v EXCEPT !.runs[i] = x]) /\ SrvFull([v EXCEPT !.sessions[i] = x])
<1>1. x \in [Tasks -> Scopes] => SrvFull([v EXCEPT !.owner = x])
  BY DEF SrvFull, SrvTyped
<1>2. ASSUME NEW t, x \in Scopes PROVE SrvFull([v EXCEPT !.owner[t] = x])
  <2> DEFINE o == [v.owner EXCEPT ![t] = x]
  <2>1. o \in [Tasks -> Scopes]
    BY <1>2 DEF SrvFull, SrvTyped
  <2> HIDE DEF o
  <2>2. SrvFull([v EXCEPT !.owner = o])
    BY <2>1 DEF SrvFull, SrvTyped
  <2> QED BY <2>2 DEF o
<1>3. x \subseteq Tasks => SrvFull([v EXCEPT !.trees = x])
  BY DEF SrvFull, SrvTyped
<1>4. x \subseteq Distributors => SrvFull([v EXCEPT !.tds = x])
  BY DEF SrvFull, SrvTyped
<1>5. SrvFull([v EXCEPT !.sessions = x])
  BY DEF SrvFull, SrvTyped
<1>6. \A i : SrvFull([v EXCEPT !.runs[i] = x])
  BY DEF SrvFull, SrvTyped
<1>7. \A i : SrvFull([v EXCEPT !.sessions[i] = x])
  BY DEF SrvFull, SrvTyped
<1> QED BY <1>1, <1>2, <1>3, <1>4, <1>5, <1>6, <1>7

LEMMA SwitchFull ==
  ASSUME NEW q, PageFull(q), NEW c, PageFull(c), NEW td \in Scopes, StoreFull(store)
  PROVE  /\ PageFull(switchDistributorScope(q, c, td).page)
         /\ StoreFull(switchDistributorScope(q, c, td).store)
<1> DEFINE b == buildCurrentDraft(c)
           s == writeStoredDraft(store, c.td, b)
           d == readStoredDraft(s, td)
<1>1. /\ switchDistributorScope(q, c, td).page = applyStoredDraft(q, td, d)
      /\ switchDistributorScope(q, c, td).store = s
  BY DEF switchDistributorScope
<1>2. b \in PDDLDraftState
  BY DraftSets DEF PageFull, buildCurrentDraft
<1> HIDE DEF b
<1>3. StoreFull(s)
  BY <1>2, WriteFull DEF PageFull
<1> HIDE DEF s
<1>4. d \in PDDLDraftState
  BY <1>3, ReadFull
<1> HIDE DEF d
<1> QED BY <1>1, <1>3, <1>4, AppliedFull

\* Every operation of the user and of other clients counts.
LEMMA OpsCount == ASSUME pddlOps \in 0 .. MaxPddlOps, Op \/ UNCHANGED pddlOps
                  PROVE  pddlOps' \in 0 .. MaxPddlOps
  BY PddlAssumption DEF Op

LEMMA NowFull ==
  ASSUME PddlFull
  PROVE  /\ PageFull(pg) /\ StoreFull(store) /\ NetFull(net) /\ SrvFull(srv) /\ ShownFull
         /\ pddlOps \in 0 .. MaxPddlOps /\ \A n \in SUBSET net : NetFull(n)
         /\ pg.td \in Scopes /\ pg.draft \in PDDLDraftState /\ pg.draft.selectedBTIds \in Selections
         /\ srv.trees \subseteq Tasks /\ srv.tds \subseteq Distributors
         /\ srv.owner \in [Tasks -> Scopes]
         /\ \A m \in net : RequestFull(m) /\ Done(m) \in SUBSET net
  BY DraftParts DEF PddlFull, ShownFull, PageFull, SrvFull, SrvTyped, NetFull, Done

LEMMA StayFull == ASSUME PddlFull, NetFull(net'), UNCHANGED <<pg, store>> PROVE ShownFull'
  BY NowFull DEF ShownFull

LEMMA LoadFull ==
  ASSUME PddlFull, Reload \/ loadData \/ loadDistributors
  PROVE  ShownFull' /\ SrvFull(srv')
<1>0. SrvFull(srv')
  BY NowFull DEF Reload, loadData, loadDistributors
<1>1. CASE Reload
  <2>1. /\ pg' = Mounted(store).new /\ store' = Mounted(store).store /\ net' = Mounted(store).net
    BY <1>1 DEF Reload
  <2>2. RoundIsFull(Mounted(store))
    BY NowFull, MountedFull
  <2> QED BY <1>0, <2>1, <2>2 DEF ShownFull, RoundIsFull
<1>2. CASE loadData
  <2> DEFINE p == [pg EXCEPT !.treeList = srv.trees]
             q == [p EXCEPT !.agents = TRUE]
  <2>1. Settle(pg, q, store, net, TRUE)
    BY <1>2 DEF loadData
  <2>2. PageFull(p)
    BY NowFull, PageSets
  <2> HIDE DEF p
  <2>3. PageFull(q)
    BY <2>2, PageSets
  <2> HIDE DEF q
  <2> QED BY <1>0, <2>1, <2>3, NowFull, SettleFull
<1>3. CASE loadDistributors
  <2> DEFINE q == [pg EXCEPT !.distributors = srv.tds]
  <2>1. Settle(pg, q, store, net, FALSE)
    BY <1>3 DEF loadDistributors, Render
  <2>2. PageFull(q)
    BY NowFull, PageSets
  <2> HIDE DEF q
  <2> QED BY <1>0, <2>1, <2>2, NowFull, SettleFull
<1> QED BY <1>1, <1>2, <1>3

LEMMA EditFull ==
  ASSUME PddlFull, toggleAgent \/ setRealtimeGoals \/ (\E g \in Scopes : setGoalState(g))
  PROVE  ShownFull' /\ SrvFull(srv')
<1>1. PICK q : PageFull(q) /\ Settle(pg, q, store, net, FALSE) /\ UNCHANGED srv
  <2>1. CASE toggleAgent
    <3> DEFINE x == ~ pg.draft.selectedAgentIds
    <3>1. Settle(pg, [pg EXCEPT !.draft.selectedAgentIds = x], store, net, FALSE) /\ UNCHANGED srv
      BY <2>1 DEF toggleAgent, Render
    <3>2. PageFull([pg EXCEPT !.draft.selectedAgentIds = x])
      BY NowFull, PageDrafts
    <3> QED BY <3>1, <3>2
  <2>2. CASE setRealtimeGoals
    <3> DEFINE x == ~ pg.draft.realtimeGoals
    <3>1. Settle(pg, [pg EXCEPT !.draft.realtimeGoals = x], store, net, FALSE) /\ UNCHANGED srv
      BY <2>2 DEF setRealtimeGoals, Render
    <3>2. PageFull([pg EXCEPT !.draft.realtimeGoals = x])
      BY NowFull, PageDrafts
    <3> QED BY <3>1, <3>2
  <2>3. ASSUME NEW g \in Scopes, setGoalState(g)
        PROVE  \E q : PageFull(q) /\ Settle(pg, q, store, net, FALSE) /\ UNCHANGED srv
    <3>1. Settle(pg, [pg EXCEPT !.draft.goalState = g], store, net, FALSE) /\ UNCHANGED srv
      BY <2>3 DEF setGoalState, Render
    <3>2. PageFull([pg EXCEPT !.draft.goalState = g])
      BY NowFull, PageDrafts
    <3> QED BY <3>1, <3>2
  <2> QED BY <2>1, <2>2, <2>3
<1> QED BY <1>1, NowFull, SettleFull

LEMMA ToggleFull ==
  ASSUME PddlFull, NEW t \in Tasks, handleToggleBT(t)
  PROVE  ShownFull' /\ SrvFull(srv')
<1>0. SrvFull(srv')
  BY NowFull DEF handleToggleBT
<1>1. CASE t \in Range(pg.draft.selectedBTIds)
  <2> DEFINE ids == pg.draft.selectedBTIds
             I == {i \in DOMAIN ids : ids[i] # t}
             q == [pg EXCEPT !.draft.selectedBTIds = At(ids, I)]
  <2>1. Settle(pg, q, store, net, FALSE)
    BY <1>1 DEF handleToggleBT, Render, Filter
  <2>2. ids \in Selections /\ I \in SUBSET DOMAIN ids
    BY NowFull
  <2>3. At(ids, I) \in Selections
    BY <2>2, SelectionKeeps
  <2>4. PageFull(q)
    BY <2>3, NowFull, PageDrafts
  <2> HIDE DEF q
  <2> QED BY <1>0, <2>1, <2>4, NowFull, SettleFull
<1>2. CASE t \notin Range(pg.draft.selectedBTIds)
  <2> DEFINE m == [Request("toggle", t) EXCEPT !.saw = pg.td]
  <2>1. net' = net \cup {m} /\ UNCHANGED <<pg, store>>
    BY <1>2 DEF handleToggleBT, Send
  <2>2. RequestFull(m)
    BY NowFull, KeptRequest DEF PageKept
  <2> HIDE DEF m
  <2>3. NetFull(net')
    BY <2>1, <2>2, NowFull, NetFulls
  <2> QED BY <1>0, <2>1, <2>3, StayFull
<1> QED BY <1>1, <1>2

LEMMA FetchedFull ==
  ASSUME PddlFull, NEW m \in net, TaskFetched(m)
  PROVE  ShownFull' /\ SrvFull(srv')
<1> DEFINE owner == srv.owner[m.id]
           x == Append(pg.draft.selectedBTIds, m.id)
           q == [pg EXCEPT !.draft.selectedBTIds = x]
           p == [q EXCEPT !.td = owner]
<1>0. m.id \in Tasks /\ m.saw \in Scopes /\ owner \in Scopes
  BY NowFull DEF TaskFetched, Sent, RequestFull
<1>1. SrvFull(srv')
  <2>1. SrvFull([srv EXCEPT !.owner[m.id] = m.saw])
    BY <1>0, NowFull, SrvSets
  <2> QED BY <2>1, NowFull DEF TaskFetched
<1>2. Settle(pg, IF owner # Null /\ m.saw = Null THEN p ELSE q, store, Done(m), FALSE)
  BY DEF TaskFetched
<1>3. x \in Selections
  <2>1. Len(pg.draft.selectedBTIds) < MaxSelected
    BY DEF TaskFetched
  <2> QED BY <1>0, <2>1, NowFull, SelectionKeeps
<1> HIDE DEF owner, x
<1>4. PageFull(q)
  BY <1>3, NowFull, PageDrafts
<1> HIDE DEF q
<1>5. PageFull(p)
  BY <1>0, <1>4, PageSets
<1> HIDE DEF p
<1> QED BY <1>1, <1>2, <1>4, <1>5, NowFull, SettleFull

LEMMA SelectFull ==
  ASSUME PddlFull, NEW td \in Distributors, handleSelectDistributor(td)
  PROVE  ShownFull' /\ SrvFull(srv')
<1>1. SrvFull(srv')
  <2> DEFINE o == [t \in Tasks |-> IF t \in SelectedTasks(pg) THEN td ELSE srv.owner[t]]
  <2>1. o \in [Tasks -> Scopes]
    BY NowFull DEF Scopes
  <2>2. srv' \in {srv, [srv EXCEPT !.owner = o]}
    BY DEF handleSelectDistributor
  <2> HIDE DEF o
  <2>3. SrvFull([srv EXCEPT !.owner = o])
    BY <2>1, NowFull, SrvSets
  <2> QED BY <2>2, <2>3, NowFull
<1>2. CASE td = pg.td
  BY <1>1, <1>2, NowFull, StayFull DEF handleSelectDistributor
<1>3. CASE td # pg.td
  <2> DEFINE w == switchDistributorScope(pg, pg, td)
  <2>1. Settle(pg, w.page, w.store, net, FALSE)
    BY <1>3 DEF handleSelectDistributor
  <2>2. PageFull(w.page) /\ StoreFull(w.store)
    BY NowFull, SwitchFull DEF Scopes
  <2> HIDE DEF w
  <2> QED BY <1>1, <2>1, <2>2, NowFull, SettleFull
<1> QED BY <1>2, <1>3

LEMMA DistributorFull ==
  ASSUME PddlFull,
         \/ handleCreateTd
         \/ \E td \in Distributors : handleDeleteTd(td)
         \/ \E m \in net : TdCreated(m) \/ TdDeleted(m)
  PROVE  ShownFull' /\ SrvFull(srv')
<1>0. Null \in Scopes /\ Distributors \subseteq Scopes
  BY DEF Scopes
<1>1. ASSUME NEW op \in PageKept, NEW id, UNCHANGED <<pg, store, srv>>,
             net' = net \cup {[Request(op, id) EXCEPT !.saw = pg]}
      PROVE  ShownFull' /\ SrvFull(srv')
  <2> DEFINE m == [Request(op, id) EXCEPT !.saw = pg]
  <2>1. RequestFull(m)
    BY NowFull, KeptRequest DEF PageKept
  <2> HIDE DEF m
  <2>2. NetFull(net \cup {m})
    BY <2>1, NowFull, NetFulls
  <2> QED BY <1>1, <2>2, NowFull, StayFull DEF m
<1>2. CASE handleCreateTd
  BY <1>1, <1>2 DEF handleCreateTd, Send, PageKept
<1>3. CASE \E td \in Distributors : handleDeleteTd(td)
  BY <1>1, <1>3 DEF handleDeleteTd, Send, PageKept
<1>4. ASSUME NEW m \in net, TdCreated(m) PROVE ShownFull' /\ SrvFull(srv')
  <2>1. PICK td \in Distributors :
          /\ srv' = [srv EXCEPT !.tds = @ \cup {td}]
          /\ LET w == switchDistributorScope([pg EXCEPT !.distributors = srv.tds \cup {td}], m.saw, td)
             IN Settle(pg, w.page, w.store, Done(m), FALSE)
    BY <1>4 DEF TdCreated
  <2> DEFINE x == srv.tds \cup {td}
             q == [pg EXCEPT !.distributors = x]
             w == switchDistributorScope(q, m.saw, td)
  <2>2. Settle(pg, w.page, w.store, Done(m), FALSE)
    BY <2>1
  <2>3. x \subseteq Distributors
    BY NowFull
  <2>4. srv' = [srv EXCEPT !.tds = x]
    BY <2>1
  <2> HIDE DEF x
  <2>5. PageFull(q) /\ SrvFull([srv EXCEPT !.tds = x])
    BY <2>3, NowFull, PageSets, SrvSets
  <2> HIDE DEF q
  <2>6. PageFull(m.saw)
    BY <1>4, NowFull DEF TdCreated, Sent, PageKept, RequestFull
  <2>7. PageFull(w.page) /\ StoreFull(w.store)
    BY <1>0, <2>5, <2>6, NowFull, SwitchFull
  <2> HIDE DEF w
  <2> QED BY <2>2, <2>4, <2>5, <2>7, NowFull, SettleFull
<1>5. ASSUME NEW m \in net, TdDeleted(m) PROVE ShownFull' /\ SrvFull(srv')
  <2> DEFINE x == srv.tds \ {m.id}
  <2>1. srv' = [srv EXCEPT !.tds = x]
    BY <1>5 DEF TdDeleted
  <2>2. x \subseteq Distributors
    BY NowFull
  <2> HIDE DEF x
  <2>3. SrvFull(srv')
    BY <2>1, <2>2, NowFull, SrvSets
  <2>4. CASE m.saw.td = m.id
    <3> DEFINE w == switchDistributorScope(pg, m.saw, Null)
    <3>1. Settle(pg, w.page, w.store, Done(m), FALSE)
      BY <1>5, <2>4 DEF TdDeleted
    <3>2. PageFull(m.saw)
      BY <1>5, NowFull DEF TdDeleted, Sent, PageKept, RequestFull
    <3>3. PageFull(w.page) /\ StoreFull(w.store)
      BY <1>0, <3>2, NowFull, SwitchFull
    <3> HIDE DEF w
    <3> QED BY <2>3, <3>1, <3>3, NowFull, SettleFull
  <2>5. CASE m.saw.td # m.id
    BY <1>5, <2>3, <2>5, NowFull, StayFull DEF TdDeleted
  <2> QED BY <2>4, <2>5
<1> QED BY <1>2, <1>3, <1>4, <1>5

LEMMA ImportFull ==
  ASSUME PddlFull, NEW td \in Distributors, NEW t \in Tasks, ImportApplied(td, <<t>>)
  PROVE  ShownFull' /\ SrvFull(srv')
<1> DEFINE ids == <<t>>
           k == SelectionKey(ids, td)
           d1 == [EmptyDraft EXCEPT !.selectedBTIds = ids]
           d == [d1 EXCEPT !.goalState = td]
           q1 == [pg EXCEPT !.td = td]
           q2 == [q1 EXCEPT !.skipReset = TRUE]
           q3 == [q2 EXCEPT !.restoredKey = k]
           q4 == [q3 EXCEPT !.execution = NoExecution]
           q5 == [q4 EXCEPT !.session = NoSession]
           q6 == [q5 EXCEPT !.draft = d]
<1>1. Settle(pg, q6, store, net, FALSE) /\ UNCHANGED srv
  BY DEF ImportApplied, Render
<1>2. ids \in Selections /\ td \in Scopes
  BY SelectionKeeps DEF Scopes
<1> HIDE DEF ids, k
<1>3. d1 \in PDDLDraftState
  BY <1>2, EmptyFull, DraftSets
<1> HIDE DEF d1
<1>4. d \in PDDLDraftState
  BY <1>2, <1>3, DraftSets
<1> HIDE DEF d
<1>5. PageFull(q1)
  BY <1>2, NowFull, PageSets
<1> HIDE DEF q1
<1>6. PageFull(q2)
  BY <1>5, PageSets DEF FreeFields
<1> HIDE DEF q2
<1>7. PageFull(q3)
  BY <1>6, PageSets DEF FreeFields
<1> HIDE DEF q3
<1>8. PageFull(q4)
  BY <1>7, PageSets DEF FreeFields
<1> HIDE DEF q4
<1>9. PageFull(q5)
  BY <1>8, PageSets DEF FreeFields
<1> HIDE DEF q5
<1>10. PageFull(q6)
  BY <1>4, <1>9, PageSets
<1> HIDE DEF q6
<1> QED BY <1>1, <1>10, NowFull, SettleFull

LEMMA ForgetFull == ASSUME NEW q, PageFull(q) PROVE PageFull(ForgetPlan(q))
<1> DEFINE x == Resolved(q)
           d1 == [q.draft EXCEPT !.plan = Null]
           d2 == [d1 EXCEPT !.executionId = 0]
           d == [d2 EXCEPT !.selectedAgentIds = x]
           p == [q EXCEPT !.execution = NoExecution]
           f == [p EXCEPT !.draft = d]
<1>0. IsPage(q) /\ q.draft \in PDDLDraftState
  BY DEF PageFull
<1>1. ForgetPlan(q) = f
  <2>1. ForgetPlan(q) = [q EXCEPT !.draft = d, !.execution = NoExecution]
    BY <1>0 DEF ForgetPlan, IsPage, PageFields
  <2> HIDE DEF d
  <2> QED BY <1>0, <2>1 DEF IsPage, PageFields
<1>2. x \in BOOLEAN
  BY DEF Resolved
<1> HIDE DEF x
<1>3. d1 \in PDDLDraftState
  BY <1>0, DraftSets
<1> HIDE DEF d1
<1>4. d2 \in PDDLDraftState
  BY <1>3, FewestOf, DraftSets
<1> HIDE DEF d2
<1>5. d \in PDDLDraftState
  BY <1>2, <1>4, DraftSets
<1> HIDE DEF d
<1>6. PageFull(p)
  BY PageSets DEF FreeFields
<1> HIDE DEF p
<1>7. PageFull(f)
  BY <1>5, <1>6, PageSets
<1> HIDE DEF f
<1> QED BY <1>1, <1>7

LEMMA SolveFull ==
  ASSUME PddlFull, handleSolve \/ (\E m \in net : Solved(m)) \/ handleExecute
  PROVE  ShownFull' /\ SrvFull(srv')
<1>0. SrvFull(srv')
  BY NowFull DEF handleSolve, Solved, handleExecute
<1>1. CASE handleSolve
  <2> DEFINE f == ForgetPlan(pg)
             q == [f EXCEPT !.isSolving = TRUE]
             m == [Request("solve", 0) EXCEPT !.saw = pg.td]
  <2>1. Settle(pg, q, store, net \cup {m}, FALSE)
    BY <1>1 DEF handleSolve
  <2>2. RequestFull(m)
    BY NowFull, KeptRequest DEF PageKept
  <2> HIDE DEF m
  <2>3. NetFull(net \cup {m})
    BY <2>2, NowFull, NetFulls
  <2>4. PageFull(f)
    BY NowFull, ForgetFull
  <2> HIDE DEF f
  <2>5. PageFull(q)
    BY <2>4, PageSets DEF FreeFields
  <2> HIDE DEF q
  <2> QED BY <1>0, <2>1, <2>3, <2>5, NowFull, SettleFull
<1>2. ASSUME NEW m \in net, Solved(m) PROVE ShownFull'
  <2> DEFINE q == [pg EXCEPT !.isSolving = FALSE]
  <2>1. PICK ok \in BOOLEAN :
          Settle(pg, [q EXCEPT !.draft.plan = [td |-> m.saw, is_valid |-> ok]], store, Done(m), FALSE)
    BY <1>2 DEF Solved
  <2> DEFINE x == [td |-> m.saw, is_valid |-> ok]
  <2>2. m.saw \in Scopes
    BY <1>2, NowFull DEF Solved, Sent, RequestFull
  <2>3. x \in PlanResult \cup {Null}
    BY <2>2 DEF PlanResult
  <2>4. Settle(pg, [q EXCEPT !.draft.plan = x], store, Done(m), FALSE)
    BY <2>1
  <2> HIDE DEF x
  <2>5. PageFull(q)
    BY NowFull, PageSets DEF FreeFields
  <2> HIDE DEF q
  <2>6. PageFull([q EXCEPT !.draft.plan = x])
    BY <2>3, <2>5, PageDrafts
  <2> QED BY <2>4, <2>6, NowFull, SettleFull
<1>3. CASE handleExecute
  <2> DEFINE m == Request("execute", pddlOps)
             x == Resolved(pg)
             q == [pg EXCEPT !.draft.selectedAgentIds = x]
  <2>1. Settle(pg, q, store, net \cup {m}, FALSE)
    BY <1>3 DEF handleExecute
  <2>2. NetFull(net \cup {m})
    BY NowFull, NetFulls DEF PageKept
  <2>3. x \in BOOLEAN
    BY DEF Resolved
  <2> HIDE DEF m, x
  <2>4. PageFull(q)
    BY <2>3, NowFull, PageDrafts
  <2> HIDE DEF q
  <2> QED BY <1>0, <2>1, <2>2, <2>4, NowFull, SettleFull
<1> QED BY <1>0, <1>1, <1>2, <1>3

\* The next number of a run or a session is one.
LEMMA NextNumber ==
  ASSUME NEW n \in Nat, NEW S \in SUBSET (1 .. n), Cardinality(S) + 1 <= n
  PROVE  Cardinality(S) + 1 \in 0 .. n
<1>1. IsFiniteSet(1 .. n)
  BY FS_Interval
<1>2. Cardinality(S) \in Nat
  BY <1>1, FS_Subset, FS_CardinalityType
<1> QED BY <1>2

LEMMA ExecutionFull ==
  ASSUME PddlFull,
         \/ \E m \in net : Executed(m) \/ ExecutionPolled(m)
         \/ handleCancelExecution \/ pollExecution
  PROVE  ShownFull' /\ SrvFull(srv')
<1>1. ASSUME NEW m \in net, Executed(m) PROVE ShownFull' /\ SrvFull(srv')
  <2>1. CASE net' = Done(m) /\ UNCHANGED <<pg, store, skipLeft, srv>>
    BY <2>1, NowFull, StayFull
  <2> DEFINE R == {i \in 1 .. MaxRuns : srv.runs[i] # "none"}
             e == Cardinality(R) + 1
             q == [pg EXCEPT !.draft.executionId = e]
  <2>2. CASE /\ e <= MaxRuns /\ srv' = [srv EXCEPT !.runs[e] = "running"]
             /\ Settle(pg, q, store, Done(m), FALSE)
    <3>1. e \in 0 .. MaxRuns
      <4>1. R \in SUBSET (1 .. MaxRuns) /\ MaxRuns \in Nat
        BY PddlAssumption
      <4> HIDE DEF R
      <4> QED BY <2>2, <4>1, NextNumber
    <3> HIDE DEF e
    <3>2. PageFull(q)
      BY <3>1, NowFull, PageDrafts
    <3> HIDE DEF q
    <3>3. SrvFull(srv')
      BY <2>2, NowFull, SrvSets
    <3> QED BY <2>2, <3>2, <3>3, NowFull, SettleFull
  <2> QED BY <1>1, <2>1, <2>2 DEF Executed
<1>2. ASSUME NEW m \in net, ExecutionPolled(m) PROVE ShownFull' /\ SrvFull(srv')
  <2>0. UNCHANGED srv
    BY <1>2 DEF ExecutionPolled
  <2>1. CASE m.cancelled
    BY <1>2, <2>0, <2>1, NowFull, StayFull DEF ExecutionPolled
  <2>2. CASE ~ m.cancelled
    <3> DEFINE x == [id |-> m.id, status |-> m.status]
    <3>1. PICK stop \in BOOLEAN :
            Settle(pg, [pg EXCEPT !.execution = x, !.polling = @ /\ ~ stop, !.agents = TRUE],
                   store, Done(m), FALSE)
      BY <1>2, <2>2 DEF ExecutionPolled
    <3> DEFINE b == pg.polling /\ ~ stop
               p == [pg EXCEPT !.execution = x]
               o == [p EXCEPT !.polling = b]
               q == [o EXCEPT !.agents = TRUE]
    <3>2. Settle(pg, q, store, Done(m), FALSE)
      <4>1. q = [pg EXCEPT !.execution = x, !.polling = pg.polling /\ ~ stop, !.agents = TRUE]
        OBVIOUS
      <4> HIDE DEF q
      <4> QED BY <3>1, <4>1
    <3> HIDE DEF b, x
    <3>3. PageFull(p)
      BY NowFull, PageSets DEF FreeFields
    <3> HIDE DEF p
    <3>5. PageFull(o)
      BY <3>3, PageSets DEF FreeFields
    <3> HIDE DEF o
    <3>4. PageFull(q)
      BY <3>5, PageSets DEF FreeFields
    <3> HIDE DEF q
    <3> QED BY <2>0, <3>2, <3>4, NowFull, SettleFull
  <2> QED BY <2>1, <2>2
<1>3. CASE handleCancelExecution
  <2>1. UNCHANGED <<pg, store, net>> /\ srv' = [srv EXCEPT !.runs[pg.draft.executionId] = "done"]
    BY <1>3 DEF handleCancelExecution
  <2>2. SrvFull(srv')
    BY <2>1, NowFull, SrvSets
  <2> QED BY <2>1, <2>2, NowFull, StayFull
<1>4. CASE pollExecution
  <2> DEFINE m == [Request("poll", pg.draft.executionId)
                     EXCEPT !.status = srv.runs[pg.draft.executionId]]
  <2>1. net' = net \cup {m} /\ UNCHANGED <<pg, store, srv>>
    BY <1>4 DEF pollExecution, Send
  <2>2. NetFull(net \cup {m})
    BY NowFull, NetFulls DEF PageKept
  <2> HIDE DEF m
  <2> QED BY <2>1, <2>2, NowFull, StayFull
<1> QED BY <1>1, <1>2, <1>3, <1>4

LEMMA SessionAskedFull ==
  ASSUME PddlFull,
         \/ handleStartRealtime \/ handleStopRealtime \/ pollRealtime
         \/ handleResetRealtimeMonitorCard
  PROVE  ShownFull' /\ SrvFull(srv')
<1>0. SrvFull(srv')
  BY NowFull DEF handleStartRealtime, handleStopRealtime, pollRealtime,
                 handleResetRealtimeMonitorCard
<1>1. ASSUME NEW op \in {"start", "stop", "reset"}, NEW id
      PROVE  NetFull(net \cup {Request(op, id)})
  BY NowFull, NetFulls DEF PageKept
<1>2. CASE handleStartRealtime
  <2> DEFINE x == Resolved(pg)
             p == [pg EXCEPT !.isStarting = TRUE]
             q == [p EXCEPT !.draft.selectedAgentIds = x]
  <2>1. Settle(pg, q, store, net \cup {Request("start", 0)}, FALSE)
    BY <1>2, NowFull DEF handleStartRealtime, PageFull, IsPage, PageFields
  <2>2. x \in BOOLEAN
    BY DEF Resolved
  <2> HIDE DEF x
  <2>3. PageFull(p)
    BY NowFull, PageSets DEF FreeFields
  <2> HIDE DEF p
  <2>4. PageFull(q)
    BY <2>2, <2>3, PageDrafts
  <2> HIDE DEF q
  <2>5. NetFull(net \cup {Request("start", 0)})
    BY <1>1
  <2> QED BY <1>0, <2>1, <2>4, <2>5, NowFull, SettleFull
<1>3. CASE handleStopRealtime
  <2> DEFINE q == [pg EXCEPT !.isStopping = TRUE]
             n == net \cup {Request("stop", pg.draft.realtimeSessionId)}
  <2>1. Settle(pg, q, store, n, FALSE)
    BY <1>3 DEF handleStopRealtime
  <2>2. NetFull(n)
    BY <1>1
  <2>3. PageFull(q)
    BY NowFull, PageSets DEF FreeFields
  <2> HIDE DEF q, n
  <2> QED BY <1>0, <2>1, <2>2, <2>3, NowFull, SettleFull
<1>4. CASE pollRealtime
  <2> DEFINE m == [Request("session", pg.draft.realtimeSessionId)
                     EXCEPT !.status = srv.sessions[pg.draft.realtimeSessionId]]
  <2>1. net' = net \cup {m} /\ UNCHANGED <<pg, store>>
    BY <1>4 DEF pollRealtime, Send
  <2>2. NetFull(net \cup {m})
    BY NowFull, NetFulls DEF PageKept
  <2> HIDE DEF m
  <2> QED BY <1>0, <2>1, <2>2, NowFull, StayFull
<1>5. CASE handleResetRealtimeMonitorCard
  <2>1. /\ net' = net \cup {Request("reset", pg.draft.realtimeSessionId)}
        /\ UNCHANGED <<pg, store>>
    BY <1>5 DEF handleResetRealtimeMonitorCard, Send
  <2>2. NetFull(net \cup {Request("reset", pg.draft.realtimeSessionId)})
    BY <1>1
  <2> QED BY <1>0, <2>1, <2>2, NowFull, StayFull
<1> QED BY <1>2, <1>3, <1>4, <1>5

LEMMA SessionAnsweredFull ==
  ASSUME PddlFull, NEW m \in net,
         RealtimeStarted(m) \/ RealtimeStopped(m) \/ RealtimePolled(m) \/ MonitorCardReset(m)
  PROVE  ShownFull' /\ SrvFull(srv')
<1>0. MaxSessions \in Nat /\ 0 \in 0 .. MaxSessions
  BY PddlAssumption, FewestOf
<1>1. ASSUME NEW a, NEW c, NEW k \in 0 .. MaxSessions
      PROVE  /\ PageFull([pg EXCEPT !.isStarting = a])
             /\ PageFull([pg EXCEPT !.isStopping = a])
             /\ PageFull([pg EXCEPT !.session = c])
             /\ PageFull([pg EXCEPT !.isStarting = a, !.draft.realtimeSessionId = k, !.session = c])
             /\ PageFull([pg EXCEPT !.isStopping = a, !.draft.realtimeSessionId = k, !.session = c])
             /\ PageFull([pg EXCEPT !.session = c, !.draft.realtimeSessionId = k])
  <2> DEFINE ps == [pg EXCEPT !.session = c]
             d == [pg.draft EXCEPT !.realtimeSessionId = k]
             pd == [ps EXCEPT !.draft = d]
  <2>1. PageFull(ps)
    BY NowFull, PageSets DEF FreeFields
  <2>2. d \in PDDLDraftState
    BY NowFull, DraftSets
  <2>3. [pg EXCEPT !.session = c, !.draft.realtimeSessionId = k] = [pg EXCEPT !.session = c, !.draft = d]
    BY Zenon
  <2>4. /\ [pg EXCEPT !.isStarting = a, !.draft.realtimeSessionId = k, !.session = c]
             = [pg EXCEPT !.isStarting = a, !.draft = d, !.session = c]
        /\ [pg EXCEPT !.isStopping = a, !.draft.realtimeSessionId = k, !.session = c]
             = [pg EXCEPT !.isStopping = a, !.draft = d, !.session = c]
    BY Zenon
  <2> HIDE DEF d
  <2>5. IsPage(pg)
    BY NowFull DEF PageFull
  <2>6. [pg EXCEPT !.session = c, !.draft = d] = pd
    BY <2>5 DEF IsPage, PageFields
  <2>7. /\ [pg EXCEPT !.isStarting = a, !.draft = d, !.session = c] = [pd EXCEPT !.isStarting = a]
        /\ [pg EXCEPT !.isStopping = a, !.draft = d, !.session = c] = [pd EXCEPT !.isStopping = a]
    BY <2>5 DEF IsPage, PageFields
  <2> HIDE DEF ps
  <2>8. PageFull(pd)
    BY <2>1, <2>2, PageSets
  <2> HIDE DEF pd
  <2>9. PageFull([pd EXCEPT !.isStarting = a]) /\ PageFull([pd EXCEPT !.isStopping = a])
    BY <2>8, PageSets DEF FreeFields
  <2>10. PageFull([pg EXCEPT !.isStarting = a]) /\ PageFull([pg EXCEPT !.isStopping = a])
    BY NowFull, PageSets DEF FreeFields
  <2> QED BY <2>1, <2>3, <2>4, <2>6, <2>7, <2>8, <2>9, <2>10 DEF ps
<1>2. ASSUME NEW q, PageFull(q), Settle(pg, q, store, Done(m), FALSE)
      PROVE  ShownFull'
  BY <1>2, NowFull, SettleFull
<1>3. ASSUME net' = Done(m), UNCHANGED <<pg, store>> PROVE ShownFull'
  BY <1>3, NowFull, StayFull
<1>4. CASE RealtimeStarted(m)
  <2> DEFINE S == {j \in 1 .. MaxSessions : srv.sessions[j] # "none"}
             i == Cardinality(S) + 1
             c == [id |-> i, status |-> "running"]
             q == [pg EXCEPT !.isStarting = FALSE, !.draft.realtimeSessionId = i, !.session = c]
             p == [pg EXCEPT !.isStarting = FALSE]
  <2>1. \/ UNCHANGED srv /\ Settle(pg, p, store, Done(m), FALSE)
        \/ /\ i <= MaxSessions /\ srv' = [srv EXCEPT !.sessions[i] = "running"]
           /\ Settle(pg, q, store, Done(m), FALSE)
    BY <1>4 DEF RealtimeStarted
  <2>2. i <= MaxSessions => i \in 0 .. MaxSessions
    <3>1. S \in SUBSET (1 .. MaxSessions)
      OBVIOUS
    <3> HIDE DEF S
    <3> QED BY <1>0, <3>1, NextNumber
  <2> HIDE DEF i, c
  <2>3. PageFull(p) /\ (i <= MaxSessions => PageFull(q))
    BY <1>0, <1>1, <2>2
  <2> HIDE DEF p, q
  <2>4. SrvFull([srv EXCEPT !.sessions[i] = "running"])
    BY NowFull, SrvSets
  <2> QED BY <1>2, <2>1, <2>3, <2>4, NowFull
<1>5. CASE RealtimeStopped(m)
  <2> DEFINE v == IF srv.sessions[m.id] = "gone" THEN srv.sessions[m.id] ELSE "stopped"
             c == IF srv.sessions[m.id] = "gone" THEN NoSession
                  ELSE [id |-> m.id, status |-> "stopped"]
             q == [pg EXCEPT !.isStopping = FALSE, !.draft.realtimeSessionId = 0, !.session = c]
             p == [pg EXCEPT !.isStopping = FALSE]
  <2>1. \/ UNCHANGED srv /\ Settle(pg, p, store, Done(m), FALSE)
        \/ /\ srv' = [srv EXCEPT !.sessions[m.id] = v]
           /\ Settle(pg, q, store, Done(m), FALSE)
    BY <1>5 DEF RealtimeStopped
  <2> HIDE DEF v, c
  <2>2. PageFull(p) /\ PageFull(q)
    BY <1>0, <1>1
  <2> HIDE DEF p, q
  <2>3. SrvFull([srv EXCEPT !.sessions[m.id] = v])
    BY NowFull, SrvSets
  <2> QED BY <1>2, <2>1, <2>2, <2>3, NowFull
<1>6. CASE RealtimePolled(m)
  <2> DEFINE c == [id |-> m.id, status |-> m.status]
             q == [pg EXCEPT !.session = NoSession, !.draft.realtimeSessionId = 0]
             p == [pg EXCEPT !.session = c]
  <2>1. /\ UNCHANGED srv
        /\ \/ net' = Done(m) /\ UNCHANGED <<pg, store>>
           \/ Settle(pg, q, store, Done(m), FALSE)
           \/ Settle(pg, p, store, Done(m), FALSE)
    BY <1>6 DEF RealtimePolled
  <2> HIDE DEF c
  <2>2. PageFull(p) /\ PageFull(q)
    BY <1>0, <1>1
  <2> HIDE DEF p, q
  <2> QED BY <1>2, <1>3, <2>1, <2>2, NowFull
<1>7. CASE MonitorCardReset(m)
  <2> DEFINE c == [id |-> m.id, status |-> srv.sessions[m.id]]
             p == [pg EXCEPT !.session = c]
  <2>1. /\ UNCHANGED srv
        /\ \/ net' = Done(m) /\ UNCHANGED <<pg, store>>
           \/ Settle(pg, p, store, Done(m), FALSE)
    BY <1>7 DEF MonitorCardReset
  <2> HIDE DEF c
  <2>2. PageFull(p)
    BY <1>0, <1>1
  <2> HIDE DEF p
  <2> QED BY <1>2, <1>3, <2>1, <2>2, NowFull
<1> QED BY <1>4, <1>5, <1>6, <1>7

LEMMA ServerFull ==
  ASSUME PddlFull, RunEnds \/ ServerRestarts \/ TaskDeleted
  PROVE  ShownFull' /\ SrvFull(srv')
<1>1. UNCHANGED <<pg, store, net>>
  BY DEF RunEnds, ServerRestarts, TaskDeleted
<1>2. ShownFull'
  BY <1>1, NowFull, StayFull
<1>3. ASSUME RunEnds PROVE SrvFull(srv')
  <2>1. PICK e \in 1 .. MaxRuns : srv' = [srv EXCEPT !.runs[e] = "done"]
    BY <1>3 DEF RunEnds
  <2> QED BY <2>1, NowFull, SrvSets
<1>4. ASSUME ServerRestarts PROVE SrvFull(srv')
  <2> DEFINE x == [i \in 1 .. MaxSessions |-> IF srv.sessions[i] = "none" THEN "none" ELSE "gone"]
  <2>1. srv' = [srv EXCEPT !.sessions = x]
    BY <1>4 DEF ServerRestarts
  <2> HIDE DEF x
  <2> QED BY <2>1, NowFull, SrvSets
<1>5. ASSUME TaskDeleted PROVE SrvFull(srv')
  <2>1. PICK t \in srv.trees : srv' = [srv EXCEPT !.trees = @ \ {t}]
    BY <1>5 DEF TaskDeleted
  <2> DEFINE x == srv.trees \ {t}
  <2>2. srv' = [srv EXCEPT !.trees = x] /\ x \subseteq Tasks
    BY <2>1, NowFull
  <2> HIDE DEF x
  <2> QED BY <2>2, NowFull, SrvSets
<1> QED BY <1>2, <1>3, <1>4, <1>5

LEMMA OpsStep == ASSUME PddlFull, PddlNext PROVE pddlOps' \in 0 .. MaxPddlOps
<1>1. Op \/ UNCHANGED pddlOps
  <2>1. CASE PddlUser
    BY <2>1 DEF PddlUser, Reload, toggleAgent, setRealtimeGoals, handleToggleBT, setGoalState,
       handleSelectDistributor, handleDeleteTd, ImportApplied, handleCreateTd, handleSolve,
       handleExecute, handleCancelExecution, handleStartRealtime, handleStopRealtime,
       handleResetRealtimeMonitorCard
  <2>2. CASE PddlAnswer
    BY <2>2 DEF PddlAnswer, TaskFetched, TdCreated, TdDeleted, Solved, Executed, ExecutionPolled,
       RealtimeStarted, RealtimeStopped, RealtimePolled, MonitorCardReset
  <2>3. CASE loadData \/ loadDistributors \/ pollExecution \/ pollRealtime \/ RunEnds
             \/ ServerRestarts \/ TaskDeleted
    BY <2>3 DEF loadData, loadDistributors, pollExecution, pollRealtime, RunEnds,
       ServerRestarts, TaskDeleted
  <2> QED BY <2>1, <2>2, <2>3 DEF PddlNext
<1> QED BY <1>1, NowFull, OpsCount

LEMMA PddlFullStep == PddlFull /\ PddlNext => PddlFull'
<1> SUFFICES ASSUME PddlFull, PddlNext PROVE PddlFull'
  OBVIOUS
<1>1. CASE PddlUser
  <2>1. ASSUME NEW t \in Tasks, handleToggleBT(t) PROVE ShownFull' /\ SrvFull(srv')
    BY <2>1, ToggleFull
  <2>2. ASSUME NEW td \in Distributors, handleSelectDistributor(td)
        PROVE  ShownFull' /\ SrvFull(srv')
    BY <2>2, SelectFull
  <2>3. ASSUME NEW td \in Distributors, NEW t \in Tasks, ImportApplied(td, <<t>>)
        PROVE  ShownFull' /\ SrvFull(srv')
    BY <2>3, ImportFull
  <2>4. ShownFull' /\ SrvFull(srv')
    BY <1>1, <2>1, <2>2, <2>3, LoadFull, EditFull, DistributorFull, SolveFull, ExecutionFull,
       SessionAskedFull DEF PddlUser
  <2> QED BY <2>4, OpsStep DEF PddlFull
<1>2. CASE PddlAnswer
  <2>1. ShownFull' /\ SrvFull(srv')
    BY <1>2, FetchedFull, DistributorFull, SolveFull, ExecutionFull, SessionAnsweredFull
       DEF PddlAnswer
  <2> QED BY <2>1, OpsStep DEF PddlFull
<1>3. CASE loadData \/ loadDistributors \/ pollExecution \/ pollRealtime \/ RunEnds
           \/ ServerRestarts \/ TaskDeleted
  <2>1. ShownFull' /\ SrvFull(srv')
    BY <1>3, LoadFull, ExecutionFull, SessionAskedFull, ServerFull
  <2> QED BY <2>1, OpsStep DEF PddlFull
<1> QED BY <1>1, <1>2, <1>3 DEF PddlNext

LEMMA PddlFullInit == PddlInit => PddlFull
<1> SUFFICES ASSUME PddlInit PROVE PddlFull
  OBVIOUS
<1>1. PICK owner \in [Tasks -> Scopes] :
        srv = [trees |-> Tasks, tds |-> Range(owner) \ {Null}, owner |-> owner,
               runs |-> [i \in 1 .. MaxRuns |-> "none"],
               sessions |-> [i \in 1 .. MaxSessions |-> "none"]]
  BY DEF PddlInit
<1>2. Range(owner) \ {Null} \subseteq Distributors
  BY DEF Range, Scopes
<1>3. SrvFull(srv) /\ srv.owner \in [Tasks -> Scopes]
  BY <1>1, <1>2 DEF SrvFull, SrvTyped
<1>4. PICK s \in {NoDrafts} \cup {EarlierVisit(srv.owner[t], t) : t \in {u \in Tasks : srv.owner[u] # Null}} :
        pg = Mounted(s).new /\ store = Mounted(s).store /\ net = Mounted(s).net
  BY DEF PddlInit
<1>5. StoreFull(NoDrafts)
  BY DEF NoDrafts, StoreFull, Scopes
<1>6. ASSUME NEW t \in Tasks PROVE StoreFull(EarlierVisit(srv.owner[t], t))
  <2> DEFINE td == srv.owner[t]
             p == [td |-> td, is_valid |-> TRUE]
             ids == <<t>>
             d1 == [EmptyDraft EXCEPT !.selectedBTIds = ids]
             d2 == [d1 EXCEPT !.selectedAgentIds = TRUE]
             d3 == [d2 EXCEPT !.goalState = td]
             d4 == [d3 EXCEPT !.plan = p]
             d5 == [d4 EXCEPT !.realtimeGoals = TRUE]
  <2>1. td \in Scopes
    BY <1>3
  <2>2. EarlierVisit(td, t) = writeStoredDraft(NoDrafts, td, d5)
    BY DEF EarlierVisit
  <2>3. ids \in Selections
    BY SelectionKeeps
  <2>4. p \in PlanResult \cup {Null}
    BY <2>1 DEF PlanResult
  <2> HIDE DEF td, p, ids
  <2>5. d1 \in PDDLDraftState
    BY <2>3, EmptyFull, DraftSets
  <2> HIDE DEF d1
  <2>6. d2 \in PDDLDraftState
    BY <2>5, DraftSets
  <2> HIDE DEF d2
  <2>7. d3 \in PDDLDraftState
    BY <2>1, <2>6, DraftSets
  <2> HIDE DEF d3
  <2>8. d4 \in PDDLDraftState
    BY <2>4, <2>7, DraftSets
  <2> HIDE DEF d4
  <2>9. d5 \in PDDLDraftState
    BY <2>8, DraftSets
  <2> HIDE DEF d5
  <2>10. StoreFull(EarlierVisit(td, t))
    BY <1>5, <2>1, <2>2, <2>9, WriteFull
  <2> QED BY <2>10 DEF td
<1>7. StoreFull(s)
  BY <1>4, <1>5, <1>6
<1>8. RoundIsFull(Mounted(s))
  BY <1>7, MountedFull
<1>9. pddlOps \in 0 .. MaxPddlOps
  BY PddlAssumption DEF PddlInit
<1> QED BY <1>3, <1>4, <1>8, <1>9 DEF PddlFull, ShownFull, RoundIsFull

LEMMA PddlTyped == Spec => []PddlFull
<1>1. Init => PddlFull
  BY PddlFullInit DEF Init
<1>2. PddlFull /\ [Next]_vars => PddlFull'
  <2> SUFFICES ASSUME PddlFull, [Next]_vars PROVE PddlFull'
    OBVIOUS
  <2>1. PddlNext \/ UNCHANGED pddlVars
    BY DEF Next, vars
  <2>2. CASE UNCHANGED pddlVars
    <3>1. UNCHANGED <<pg, store, net, srv, pddlOps>>
      BY <2>2 DEF pddlVars
    <3> QED BY <3>1 DEF PddlFull, ShownFull
  <2> QED BY <2>1, <2>2, PddlFullStep
<1> QED BY <1>1, <1>2, PTL DEF Spec

\* The screens keep one another's state: whatever is open, it has its type, the
\* planning page's draft and every stored one among them, whichever task list,
\* distributor, plan, execution or session an answer brings late.
THEOREM TypeOKCorrect == Spec => []TypeOK
<1>1. PddlFull => PddlTypeOK
  BY DEF PddlFull, ShownFull, PageFull, StoreFull, PddlTypeOK
<1>2. AgentTypeOK /\ TimelineTypeOK /\ PddlFull /\ screen \in Screens => TypeOK
  BY <1>1 DEF TypeOK, Screens
<1>3. Spec => [](screen \in Screens)
  <2>1. Init => screen \in Screens
    BY DEF Init
  <2>2. screen \in Screens /\ [Next]_vars => (screen \in Screens)'
    BY DEF Next, vars
  <2> QED BY <2>1, <2>2, PTL DEF Spec
<1> QED BY <1>2, <1>3, AgentTyped, TimelineTyped, PddlTyped, PTL
=============================================================================
