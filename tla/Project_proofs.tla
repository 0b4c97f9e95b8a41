--------------------------- MODULE Project_proofs ---------------------------
(***************************************************************************)
(* Theorems about a project: its plan (PlanGraph), for any answer of the   *)
(* planner of any length and over any set of files, and its files          *)
(* (ProjectFiles), for any number of calls of every kind.                  *)
(***************************************************************************)
EXTENDS PlanGraph, ProjectFiles, SequenceTheorems, FiniteSetTheorems, TLAPS

-----------------------------------------------------------------------------
(* What the steps of the sort do to the call stack and to the order.       *)

\* Taking a dependency out of the last frame changes nothing else.
LEMMA RestOfStack ==
    ASSUME stack \in Seq(Frame), stack # << >>, NEW d \in Node
    PROVE  /\ Rest(d) \in Seq(Frame)
           /\ Len(Rest(d)) = Len(stack)
           /\ \A i \in 1..Len(stack) :
                 /\ Rest(d)[i].task = stack[i].task
                 /\ Rest(d)[i].todo = IF i = Len(stack) THEN stack[i].todo \ {d}
                                      ELSE stack[i].todo
<1>1. stack \in [1..Len(stack) -> Frame] /\ Len(stack) \in Nat
  OBVIOUS
<1>2. \A i \in 1..Len(stack) : [stack[i] EXCEPT !.todo = @ \ {d}] \in Frame
  BY <1>1 DEF Frame
<1>3. Rest(d) \in [1..Len(stack) -> Frame]
  BY <1>1, <1>2 DEF Rest
<1>4. Rest(d) \in Seq(Frame) /\ Len(Rest(d)) = Len(stack)
  BY <1>1, <1>3
<1>5. ASSUME NEW i \in 1..Len(stack)
      PROVE  /\ Rest(d)[i].task = stack[i].task
             /\ Rest(d)[i].todo = IF i = Len(stack) THEN stack[i].todo \ {d}
                                  ELSE stack[i].todo
  BY <1>1 DEF Frame, Rest
<1> QED
  BY <1>4, <1>5

\* Appending a frame leaves the frames below it as they are.
LEMMA PushFrame ==
    ASSUME NEW st \in Seq(Frame), NEW c \in Frame
    PROVE  /\ Append(st, c) \in Seq(Frame)
           /\ Len(Append(st, c)) = Len(st) + 1
           /\ Append(st, c)[Len(st) + 1] = c
           /\ \A i \in 1..Len(st) : Append(st, c)[i] = st[i]
OBVIOUS

\* The length of a piece of a sequence.
LEMMA LenOfSubSeq ==
    ASSUME NEW S, NEW s, NEW m \in Int, NEW n \in Int, \A i \in m..n : s[i] \in S
    PROVE  Len(SubSeq(s, m, n)) = IF m <= n THEN n - m + 1 ELSE 0
BY SubSeqProperties

\* Dropping the last frame, too.
LEMMA PopFrame ==
    ASSUME NEW st \in Seq(Frame), st # << >>
    PROVE  /\ SubSeq(st, 1, Len(st) - 1) \in Seq(Frame)
           /\ Len(SubSeq(st, 1, Len(st) - 1)) = Len(st) - 1
           /\ \A i \in 1..(Len(st) - 1) : SubSeq(st, 1, Len(st) - 1)[i] = st[i]
<1> DEFINE n == Len(st) - 1
           p == SubSeq(st, 1, n)
<1>1. p \in Seq(Frame) /\ \A i \in 1..n : p[i] = st[i]
  OBVIOUS
<1>2. n \in Nat /\ 1 \in Int /\ n \in Int /\ \A i \in 1..n : st[i] \in Frame
  OBVIOUS
<1> HIDE DEF n
<1>3. Len(p) = IF 1 <= n THEN n - 1 + 1 ELSE 0
  BY <1>2, LenOfSubSeq, Zenon
<1> HIDE DEF p
<1>4. Len(p) = n
  BY <1>2, <1>3
<1> QED
  BY <1>1, <1>4 DEF n, p

-----------------------------------------------------------------------------
(* Type correctness.                                                       *)

\* What the sort does to the stack keeps its type.
LEMMA StackType ==
    ASSUME TypeOK, NEW t \in Node
    PROVE  /\ Call(t) \in Frame
           /\ stack # << >> => Top \in Frame
<1>1. Call(t) \in Frame
  BY DEF TypeOK, Call, Frame
<1>2. stack # << >> => Top \in Frame
  BY DEF TypeOK, Top
<1> QED
  BY <1>1, <1>2

LEMMA TopType ==
    ASSUME TypeOK, stack # << >>
    PROVE  /\ Len(stack) \in Nat /\ Len(stack) > 0
           /\ Top.task \in Node
           /\ Top.todo \subseteq Node
<1>1. Len(stack) \in Nat /\ Len(stack) > 0 /\ Top \in Frame
  BY DEF TypeOK, Top
<1> QED
  BY <1>1 DEF Frame

LEMMA DescendType ==
    ASSUME TypeOK, NEW d \in Node, Descend(d)
    PROVE  TypeOK'
<1> DEFINE rest == Rest(d)
<1>1. stack \in Seq(Frame) /\ stack # << >>
  BY DEF TypeOK, Descend
<1>2. rest \in Seq(Frame)
  BY <1>1, RestOfStack
<1>3. Append(rest, Call(d)) \in Seq(Frame) /\ << >> \in Seq(Frame)
  BY <1>2, StackType, PushFrame
<1>4. stack' \in {rest, << >>, Append(rest, Call(d))} /\ stage' \in {stage, "thrown"}
  BY DEF Descend
<1>5. stack' \in Seq(Frame)
  BY <1>2, <1>3, <1>4
<1> QED
  BY <1>4, <1>5 DEF TypeOK, Descend, input

\* Every variable keeps its type.
THEOREM TypeCorrect == Spec => []TypeOK
<1>1. Init => TypeOK
  BY DEF Init, TypeOK, Node
<1>2. TypeOK /\ [Next]_vars => TypeOK'
  <2> SUFFICES ASSUME TypeOK, [Next]_vars PROVE TypeOK'
    OBVIOUS
  <2>1. CASE Materialise
    <3>1. \A t \in Raw : raw[t] \subseteq Raw /\ Synthetic(t) \subseteq Raw
      BY DEF raw, Synthetic
    <3>2. Raw \subseteq Node /\ Reviewer \in Node
      BY PlanAssumption DEF Raw, Node, Reviewer
    <3> QED
      BY <2>1, <3>1, <3>2 DEF Materialise, TypeOK, input
  <2>2. CASE Migrate
    BY <2>2, PlanAssumption DEF Migrate, TypeOK, input, Migration, Node
  <2>3. ASSUME NEW t \in Node, Visit(t) PROVE TypeOK'
    <3>1. <<Call(t)>> \in Seq(Frame)
      BY StackType
    <3> QED
      BY <2>3, <3>1 DEF Visit, TypeOK, input
  <2>4. ASSUME NEW t \in Node, Descend(t) PROVE TypeOK'
    BY <2>4, DescendType
  <2>5. CASE Leave
    <3>1. stack \in Seq(Frame) /\ stack # << >> /\ Top.task \in Node
      BY <2>5, TopType DEF TypeOK, Leave
    <3>2. stack' \in Seq(Frame)
      BY <2>5, <3>1, PopFrame DEF Leave
    <3>3. order' \in Seq(Node)
      BY <2>5, <3>1 DEF Leave, TypeOK
    <3> QED
      BY <2>5, <3>1, <3>2, <3>3 DEF Leave, TypeOK, input
  <2>6. CASE Return
    BY <2>6 DEF Return, TypeOK, input
  <2>7. CASE UNCHANGED vars
    BY <2>7 DEF vars, input, TypeOK
  <2> QED
    BY <2>1, <2>2, <2>3, <2>4, <2>5, <2>6, <2>7 DEF Next
<1> QED
  BY <1>1, <1>2, PTL DEF Spec

-----------------------------------------------------------------------------
(* The sort.  The invariant says of every call on the stack that its task  *)
(* is new, that the dependencies it is through with are visited (but for   *)
(* the one whose call is just above it), and that no task is called twice. *)

Before(v) == \E i \in 1..Len(order) : order[i] = v

OrderInv ==
    /\ \A v \in Node : v \in visited <=> Before(v)
    /\ SortedDepsFirst

PlanInv ==
    /\ stage \in {"answer", "draft"} =>
           /\ stack = << >> /\ visited = {} /\ order = << >>
           /\ deps[Migration] = {} /\ Migration \notin tasks
    /\ stage = "answer" => tasks = {}
    /\ \A t \in tasks : deps[t] \subseteq tasks
    /\ visited \subseteq tasks
    /\ stage = "sorted" => tasks \subseteq visited

Finished(i) == deps[stack[i].task] \ stack[i].todo

CallInv(i) ==
    /\ stack[i].task \in tasks \ visited
    /\ stack[i].todo \subseteq deps[stack[i].task]
    /\ \A d \in Finished(i) :
          d \in visited \/ (i < Len(stack) /\ d = stack[i + 1].task)

StackInv ==
    /\ \A i \in 1..Len(stack) : CallInv(i)
    /\ \A i, j \in 1..Len(stack) : stack[i].task = stack[j].task => i = j

SortInv == TypeOK /\ OrderInv /\ PlanInv /\ StackInv

\* A task whose dependencies are all visited may be appended.
LEMMA AppendKeepsOrder ==
    ASSUME TypeOK, OrderInv, NEW t \in Node, t \notin visited,
           deps[t] \subseteq visited,
           order' = Append(order, t), visited' = visited \cup {t}, deps' = deps
    PROVE  OrderInv'
<1>1. /\ Len(order) \in Nat
      /\ Len(order') = Len(order) + 1
      /\ order'[Len(order) + 1] = t
      /\ \A i \in 1..Len(order) : order'[i] = order[i]
  BY DEF TypeOK
<1>2. deps[t] \subseteq Node
  BY DEF TypeOK
<1>3. \A v \in Node : v \in visited' <=> Before(v)'
  BY <1>1 DEF OrderInv, Before
<1>4. ASSUME NEW i \in 1..Len(order')
      PROVE  /\ \A j \in 1..(i - 1) : order'[j] # order'[i]
             /\ deps[order'[i]] \subseteq {order'[j] : j \in 1..(i - 1)}
  <2>1. CASE i = Len(order) + 1
    <3>1. \A v \in visited : \E j \in 1..(i - 1) : order'[j] = v
      BY <1>1, <2>1 DEF OrderInv, Before, TypeOK
    <3>2. \A j \in 1..(i - 1) : order'[j] # t
      BY <1>1, <2>1 DEF OrderInv, Before
    <3> QED
      BY <1>1, <2>1, <3>1, <3>2
  <2>2. CASE i \in 1..Len(order)
    <3>1. /\ \A j \in 1..(i - 1) : order[j] # order[i]
          /\ deps[order[i]] \subseteq {order[j] : j \in 1..(i - 1)}
      BY <2>2 DEF OrderInv, SortedDepsFirst
    <3>2. \A j \in 1..(i - 1) : order'[j] = order[j]
      BY <1>1, <2>2
    <3> QED
      BY <1>1, <2>2, <3>1, <3>2
  <2>3. i = Len(order) + 1 \/ i \in 1..Len(order)
    BY <1>1
  <2> QED
    BY <2>1, <2>2, <2>3
<1> QED
  BY <1>3, <1>4 DEF OrderInv, SortedDepsFirst

LEMMA SortInvInit == Init => SortInv
BY PlanAssumption DEF Init, SortInv, TypeOK, OrderInv, PlanInv, StackInv, SortedDepsFirst,
       Before, Node, Migration

\* Before the sort, there is no call and no order: only the plan changes.
LEMMA SortInvPlan ==
    ASSUME SortInv, TypeOK', Materialise \/ Migrate
    PROVE  SortInv'
<1>1. /\ stack' = << >> /\ visited' = {} /\ order' = << >>
      /\ stage' \in {"draft", "sorting"}
  BY DEF SortInv, PlanInv, Materialise, Migrate
<1>2. OrderInv' /\ StackInv'
  BY <1>1 DEF OrderInv, Before, SortedDepsFirst, StackInv
<1>3. \A t \in tasks' : deps'[t] \subseteq tasks'
  <2>1. CASE Materialise
    <3>1. \A t \in Raw : raw[t] \subseteq Raw /\ Synthetic(t) \subseteq Raw
      BY DEF raw, Synthetic
    <3>2. Raw \subseteq Node /\ Reviewer \in Node /\ Reviewer \notin Raw
      BY PlanAssumption DEF Raw, Node, Reviewer
    <3> QED
      BY <2>1, <3>1, <3>2 DEF Materialise
  <2>2. CASE Migrate
    <3>1. tasks \subseteq Node /\ Migration \in Node
      BY PlanAssumption DEF SortInv, TypeOK, Migration, Node
    <3>2. /\ deps \in [Node -> SUBSET Node] /\ deps[Migration] = {}
          /\ \A t \in tasks : deps[t] \subseteq tasks
      BY <2>2 DEF SortInv, PlanInv, TypeOK, Migrate
    <3> QED
      BY <2>2, <3>1, <3>2 DEF Migrate
  <2> QED
    BY <2>1, <2>2
<1>4. stage' = "draft" => deps'[Migration] = {} /\ Migration \notin tasks'
  BY PlanAssumption DEF Materialise, Migrate, Migration, Raw, Reviewer, Node
<1> QED
  BY <1>1, <1>2, <1>3, <1>4 DEF SortInv, PlanInv

LEMMA SortInvVisit ==
    ASSUME SortInv, TypeOK', NEW t \in Node, Visit(t)
    PROVE  SortInv'
<1>1. /\ stack' = <<Call(t)>> /\ Len(stack') = 1 /\ stack'[1] = Call(t)
      /\ t \in tasks \ visited
      /\ UNCHANGED <<stage, tasks, deps, visited, order>>
  BY DEF Visit
<1>2. OrderInv' /\ PlanInv'
  BY <1>1 DEF SortInv, OrderInv, Before, SortedDepsFirst, PlanInv, Visit
<1>3. stack'[1].task = t /\ stack'[1].todo = deps[t]
  BY <1>1 DEF Call
<1>4. StackInv'
  BY <1>1, <1>3 DEF StackInv, CallInv, Finished
<1> QED
  BY <1>2, <1>4 DEF SortInv

LEMMA SortInvReturn ==
    ASSUME SortInv, TypeOK', Return \/ UNCHANGED vars
    PROVE  SortInv'
<1>1. /\ UNCHANGED <<tasks, deps, stack, visited, order>>
      /\ stage' \in {stage, "sorted"}
      /\ stage' = "sorted" => stage = "sorted" \/ tasks \subseteq visited
  BY DEF Return, vars
<1>2. OrderInv' /\ PlanInv'
  BY <1>1 DEF SortInv, OrderInv, Before, SortedDepsFirst, PlanInv
<1>3. StackInv'
  BY <1>1 DEF SortInv, StackInv, CallInv, Finished
<1> QED
  BY <1>2, <1>3 DEF SortInv

LEMMA SortInvLeave ==
    ASSUME SortInv, TypeOK', Leave
    PROVE  SortInv'
<1> DEFINE n == Len(stack)
           t == stack[n].task
<1>1. TypeOK /\ OrderInv /\ PlanInv /\ StackInv /\ stack # << >>
  BY DEF SortInv, Leave
<1>2. n \in Nat /\ n > 0 /\ t \in Node
  BY <1>1, TopType DEF Top
<1>3. /\ visited' = visited \cup {t} /\ order' = Append(order, t)
      /\ stack[n].todo = {}
      /\ UNCHANGED <<stage, tasks, deps>>
  BY DEF Leave, Top
<1>4. Len(stack') = n - 1 /\ \A i \in 1..(n - 1) : stack'[i] = stack[i]
  <2>1. stack \in Seq(Frame) /\ stack' = SubSeq(stack, 1, Len(stack) - 1)
    BY <1>1 DEF TypeOK, Leave
  <2> QED
    BY <1>1, <2>1, PopFrame
<1>5. CallInv(n)
  BY <1>1, <1>2 DEF StackInv
<1>6. t \in tasks \ visited /\ deps[t] \subseteq visited
  BY <1>2, <1>3, <1>5 DEF CallInv, Finished
<1>7. OrderInv'
  BY <1>1, <1>2, <1>3, <1>6, AppendKeepsOrder
<1>8. PlanInv'
  <2>1. stage = "sorting"
    BY DEF Leave
  <2> QED
    BY <1>1, <1>3, <1>6, <2>1 DEF PlanInv
<1> HIDE DEF n, t
<1>9. StackInv'
  <2>1. ASSUME NEW i \in 1..(n - 1) PROVE CallInv(i)'
    <3>1. i \in 1..n /\ n \in 1..n /\ i # n
      BY <1>2
    <3>2. CallInv(i) /\ stack[i].task # stack[n].task
      BY <1>1, <3>1 DEF StackInv, n
    <3>3. stack[i].task \notin visited'
      BY <1>3, <3>2 DEF CallInv, t
    <3>4. ASSUME NEW d \in Finished(i)
          PROVE  d \in visited' \/ (i < n - 1 /\ d = stack'[i + 1].task)
      <4>1. d \in visited \/ (i < n /\ d = stack[i + 1].task)
        BY <3>2 DEF CallInv, n
      <4>2. CASE i < n - 1
        BY <1>2, <1>3, <1>4, <4>1, <4>2, i + 1 \in 1..(n - 1)
      <4>3. CASE i = n - 1
        BY <1>2, <1>3, <4>1, <4>3, i + 1 = n DEF t
      <4> QED
        BY <1>2, <4>2, <4>3
    <3> QED
      BY <1>3, <1>4, <3>2, <3>3, <3>4 DEF CallInv, Finished
  <2>2. \A i, j \in 1..(n - 1) : stack[i].task = stack[j].task => i = j
    BY <1>1, <1>2 DEF StackInv, n
  <2> QED
    BY <1>4, <2>1, <2>2 DEF StackInv
<1> QED
  BY <1>7, <1>8, <1>9 DEF SortInv

\* A call is through with one more dependency, calls `visit` for it, or throws.
LEMMA SortInvDescend ==
    ASSUME SortInv, TypeOK', NEW d \in Node, Descend(d)
    PROVE  SortInv'
<1> DEFINE n == Len(stack)
           rest == Rest(d)
<1>1. TypeOK /\ OrderInv /\ PlanInv /\ StackInv /\ stack # << >>
  BY DEF SortInv, Descend
<1>2. n \in Nat /\ n > 0 /\ stage = "sorting" /\ d \in stack[n].todo
  BY <1>1, TopType DEF Top, Descend
<1>3. /\ UNCHANGED <<tasks, deps, visited, order>>
      /\ stage' \in {"sorting", "thrown"}
  BY <1>2 DEF Descend
<1>4. OrderInv' /\ PlanInv'
  <2>1. \A v \in Node : Before(v)' <=> Before(v)
    BY <1>3 DEF Before
  <2>2. SortedDepsFirst'
    BY <1>1, <1>3 DEF OrderInv, SortedDepsFirst
  <2>3. OrderInv'
    BY <1>1, <1>3, <2>1, <2>2 DEF OrderInv
  <2>4. PlanInv'
    BY <1>1, <1>2, <1>3 DEF PlanInv
  <2> QED
    BY <2>3, <2>4
<1>5. /\ rest \in Seq(Frame)
      /\ Len(rest) = n
      /\ \A i \in 1..n : /\ rest[i].task = stack[i].task
                         /\ rest[i].todo = IF i = n THEN stack[i].todo \ {d}
                                           ELSE stack[i].todo
  <2>1. stack \in Seq(Frame)
    BY <1>1 DEF TypeOK
  <2> QED
    BY <1>1, <2>1, RestOfStack
<1> HIDE DEF n, rest
<1>6. \A i \in 1..n : CallInv(i)
  BY <1>1 DEF StackInv, n
<1>7. d \in tasks
  <2>1. stack[n].task \in tasks /\ d \in deps[stack[n].task]
    BY <1>2, <1>6 DEF CallInv
  <2> QED
    BY <1>1, <2>1 DEF PlanInv
<1>8. \A i, j \in 1..n : stack[i].task = stack[j].task => i = j
  BY <1>1 DEF StackInv, n
<1>9. CASE d \in visited
  <2>1. stack' = rest
    BY <1>9 DEF Descend, rest
  <2>2. ASSUME NEW i \in 1..n PROVE CallInv(i)'
    <3>1. /\ stack'[i].task = stack[i].task
          /\ stack[i].todo \subseteq stack'[i].todo \cup {d}
          /\ stack'[i].todo \subseteq stack[i].todo
          /\ CallInv(i)
      BY <1>5, <1>6, <2>1
    <3>2. i < n => stack'[i + 1].task = stack[i + 1].task
      BY <1>2, <1>5, <2>1, i < n => i + 1 \in 1..n
    <3>3. Len(stack') = n /\ Finished(i)' \subseteq Finished(i) \cup {d}
      BY <1>3, <1>5, <2>1, <3>1 DEF Finished
    <3> QED
      BY <1>3, <1>9, <3>1, <3>2, <3>3 DEF CallInv, n
  <2>3. StackInv'
    BY <1>5, <1>8, <2>1, <2>2 DEF StackInv
  <2> QED
    BY <1>4, <2>3 DEF SortInv
<1>10. CASE d \in Temp \ visited
  <2>1. stack' = << >>
    BY <1>10 DEF Descend
  <2> QED
    BY <1>4, <2>1 DEF SortInv, StackInv
<1>11. CASE d \notin Temp /\ d \notin visited
  <2>1. stack' = Append(rest, Call(d))
    BY <1>11 DEF Descend, rest
  <2>2. Call(d) \in Frame /\ Call(d).task = d /\ Call(d).todo = deps[d]
    BY <1>1, StackType DEF Call
  <2>3. /\ Len(stack') = n + 1
        /\ stack'[n + 1] = Call(d)
        /\ \A i \in 1..n : stack'[i] = rest[i]
    BY <1>5, <2>1, <2>2, PushFrame
  <2>4. \A i \in 1..n : stack[i].task # d
    BY <1>11 DEF Temp, n
  <2>5. ASSUME NEW i \in 1..(n + 1) PROVE CallInv(i)'
    <3>1. CASE i = n + 1
      BY <1>3, <1>7, <1>11, <2>2, <2>3, <3>1 DEF CallInv, Finished
    <3>2. CASE i = n
      <4>1. /\ stack'[i].task = stack[n].task /\ stack'[i].todo = stack[n].todo \ {d}
            /\ stack'[i + 1].task = d /\ i < n + 1 /\ CallInv(n)
        <5>1. n \in 1..n /\ n < n + 1
          BY <1>2
        <5> QED
          BY <1>5, <1>6, <2>2, <2>3, <3>2, <5>1
      <4>2. Finished(i)' \subseteq Finished(n) \cup {d}
        BY <1>3, <4>1 DEF Finished
      <4> QED
        BY <1>2, <1>3, <2>3, <4>1, <4>2 DEF CallInv, n
    <3>3. CASE i \in 1..(n - 1)
      <4>1. /\ i \in 1..n /\ i + 1 \in 1..n /\ i < n /\ i < n + 1
            /\ stack'[i].task = stack[i].task /\ stack'[i].todo = stack[i].todo
            /\ stack'[i + 1].task = stack[i + 1].task
            /\ CallInv(i)
        <5>1. i \in 1..n /\ i + 1 \in 1..n /\ i < n /\ i < n + 1 /\ i # n
          BY <1>2, <3>3
        <5> QED
          BY <1>5, <1>6, <2>3, <5>1
      <4> QED
        BY <1>3, <2>3, <4>1 DEF CallInv, Finished
    <3> QED
      BY <1>2, <3>1, <3>2, <3>3
  <2>6. ASSUME NEW i \in 1..(n + 1), NEW j \in 1..(n + 1),
               stack'[i].task = stack'[j].task
        PROVE  i = j
    <3>1. \A k \in 1..n : stack'[k].task = stack[k].task
      BY <1>5, <2>3
    <3>2. stack'[n + 1].task = d
      BY <2>2, <2>3
    <3>3. (i \in 1..n \/ i = n + 1) /\ (j \in 1..n \/ j = n + 1)
      BY <1>2
    <3> QED
      BY <1>8, <2>4, <2>6, <3>1, <3>2, <3>3
  <2>7. StackInv'
    BY <2>3, <2>5, <2>6 DEF StackInv
  <2> QED
    BY <1>4, <2>7 DEF SortInv
<1> QED
  BY <1>9, <1>10, <1>11

LEMMA SortInvariant == Spec => []SortInv
<1>1. Init => SortInv
  BY SortInvInit
<1>2. SortInv /\ TypeOK' /\ [Next]_vars => SortInv'
  BY SortInvPlan, SortInvVisit, SortInvDescend, SortInvLeave, SortInvReturn DEF Next
<1> QED
  BY <1>1, <1>2, TypeCorrect, PTL DEF Spec

\* topoSortTasks (pool.ts:160) returns no task before its dependencies, nor
\* twice, whatever the graph.
THEOREM SortedPlans == Spec => []SortedDepsFirst
<1>1. SortInv => SortedDepsFirst
  BY DEF SortInv, OrderInv
<1> QED
  BY <1>1, SortInvariant, PTL

\* A sort that ends returns all the tasks of the plan and no other.
THEOREM SortKeepsPlan == Spec => []NothingLost
<1>1. SortInv => NothingLost
  <2> SUFFICES ASSUME SortInv, stage = "sorted"
               PROVE  {order[i] : i \in 1..Len(order)} = tasks
    BY DEF NothingLost
  <2>1. visited = tasks /\ tasks \subseteq Node
    BY DEF SortInv, PlanInv, TypeOK
  <2>2. \A i \in 1..Len(order) : order[i] \in Node
    BY DEF SortInv, TypeOK
  <2> QED
    BY <2>1, <2>2 DEF SortInv, OrderInv, Before
<1> QED
  BY <1>1, SortInvariant, PTL

-----------------------------------------------------------------------------
(* An answer whose dependencies point back.  Then all dependencies of the  *)
(* plan do, for a synthetic one points at the first writer of a file, and  *)
(* the tasks on the stack get smaller and smaller: none is called twice.   *)

PointsBack == \A t \in Node : \A u \in deps[t] : u < t

Shrinks ==
    \A i, j \in 1..Len(stack) : i < j => stack[j].task < stack[i].task

BackInv == stage # "thrown" /\ PointsBack /\ Shrinks

LEMMA BackMaterialise ==
    ASSUME TypeOK, Backward, Materialise
    PROVE  PointsBack'
<1>1. ASSUME NEW t \in Raw, NEW u \in raw[t] \cup Synthetic(t) PROVE u < t
  <2>1. CASE u \in raw[t]
    BY <2>1 DEF Backward
  <2>2. CASE u \in Synthetic(t)
    <3>1. u \in Raw /\ u <= t
      BY <2>2 DEF Synthetic, FirstWriter
    <3>2. u # t
      BY <2>2 DEF Synthetic, Reaches
    <3> QED
      BY <3>1, <3>2 DEF Raw
  <2> QED
    BY <1>1, <2>1, <2>2
<1>2. \A u \in Raw : u < Reviewer
  BY PlanAssumption DEF Raw, Reviewer
<1> QED
  BY <1>1, <1>2 DEF Materialise, PointsBack

LEMMA BackMigrate ==
    ASSUME SortInv, PointsBack, Migrate
    PROVE  PointsBack'
<1>1. /\ Migration \notin tasks /\ tasks \subseteq Node
      /\ deps \in [Node -> SUBSET Node]
  BY DEF SortInv, PlanInv, TypeOK, Migrate
<1>2. \A t \in tasks : Migration < t
  BY <1>1, PlanAssumption DEF Migration, Node
<1> QED
  BY <1>1, <1>2 DEF Migrate, PointsBack

LEMMA BackDescend ==
    ASSUME SortInv, BackInv, NEW d \in Node, Descend(d)
    PROVE  BackInv'
<1> DEFINE n == Len(stack)
<1>1. /\ n \in Nat /\ n \in 1..n /\ stack # << >> /\ stack \in Seq(Frame)
      /\ \A i \in 1..n : stack[i].task \in Node /\ stack[i].task \in Int
      /\ d \in Int
  <2>1. stack # << >> /\ stack \in Seq(Frame)
    BY DEF Descend, SortInv, TypeOK
  <2>2. \A i \in 1..n : stack[i] \in Frame
    BY <2>1
  <2> QED
    BY <2>1, <2>2, PlanAssumption DEF Frame, Node
<1>2. d < stack[n].task
  <2>1. d \in deps[stack[n].task]
    BY <1>1 DEF SortInv, StackInv, CallInv, Descend, Top
  <2> QED
    BY <1>1, <2>1 DEF BackInv, PointsBack
<1>3. \A i \in 1..n : d < stack[i].task
  BY <1>1, <1>2 DEF BackInv, Shrinks
<1>4. d \notin Temp
  BY <1>1, <1>3 DEF Temp
<1>5. stage' = stage /\ stack' \in {Rest(d), Append(Rest(d), Call(d))}
  BY <1>4 DEF Descend
<1>6. /\ Rest(d) \in Seq(Frame) /\ Len(Rest(d)) = n
      /\ \A i \in 1..n : Rest(d)[i].task = stack[i].task
  BY <1>1, RestOfStack
<1>7. Shrinks'
  <2>1. CASE stack' = Rest(d)
    BY <1>6, <2>1 DEF BackInv, Shrinks
  <2>2. CASE stack' = Append(Rest(d), Call(d))
    <3>1. Call(d) \in Frame /\ Call(d).task = d
      BY StackType DEF SortInv, Call
    <3>2. /\ Len(stack') = n + 1
          /\ stack'[n + 1].task = d
          /\ \A i \in 1..n : stack'[i].task = stack[i].task
      BY <1>6, <2>2, <3>1, PushFrame
    <3>3. ASSUME NEW i \in 1..(n + 1), NEW j \in 1..(n + 1), i < j
          PROVE  stack'[j].task < stack'[i].task
      <4>1. i \in 1..n
        BY <1>1, <3>3
      <4>2. CASE j = n + 1
        BY <1>3, <3>2, <4>1, <4>2
      <4>3. CASE j \in 1..n
        BY <3>2, <3>3, <4>1, <4>3 DEF BackInv, Shrinks
      <4> QED
        BY <1>1, <4>2, <4>3
    <3> QED
      BY <3>2, <3>3 DEF Shrinks
  <2> QED
    BY <1>5, <2>1, <2>2
<1>8. PointsBack'
  BY DEF Descend, BackInv, PointsBack
<1> QED
  BY <1>5, <1>7, <1>8 DEF BackInv

\* A plan whose raw dependencies point back is never refused (planner.ts:191,
\* pool.ts:170): what the program adds to it makes no cycle.
THEOREM BackwardPlansSort == Spec => []BackwardSorts
<1> DEFINE Inv == Backward => BackInv
<1>1. Init => Inv
  BY DEF Init, BackInv, PointsBack, Shrinks
<1>2. SortInv /\ Inv /\ [Next]_vars => Inv'
  <2> SUFFICES ASSUME SortInv, Backward, BackInv, [Next]_vars PROVE BackInv'
    BY DEF Next, vars, input, Backward, raw, Materialise, Migrate, Visit, Descend,
           Leave, Return
  <2>1. CASE Materialise
    <3>1. PointsBack'
      BY <2>1, BackMaterialise DEF SortInv
    <3> QED
      BY <2>1, <3>1 DEF Materialise, BackInv, Shrinks
  <2>2. CASE Migrate
    <3>1. PointsBack'
      BY <2>2, BackMigrate DEF BackInv
    <3> QED
      BY <2>2, <3>1 DEF Migrate, BackInv, Shrinks
  <2>3. ASSUME NEW t \in Node, Visit(t) PROVE BackInv'
    <3>1. Len(stack') = 1
      BY <2>3 DEF Visit
    <3> QED
      BY <2>3, <3>1 DEF Visit, BackInv, PointsBack, Shrinks
  <2>4. ASSUME NEW t \in Node, Descend(t) PROVE BackInv'
    BY <2>4, BackDescend
  <2>5. CASE Leave
    <3>1. stack \in Seq(Frame) /\ stack # << >> /\ Len(stack) \in Nat
      BY <2>5 DEF Leave, SortInv, TypeOK
    <3>2. /\ Len(stack') = Len(stack) - 1
          /\ \A i \in 1..Len(stack') : stack'[i] = stack[i] /\ i \in 1..Len(stack)
      BY <2>5, <3>1, PopFrame DEF Leave
    <3> QED
      BY <2>5, <3>2 DEF Leave, BackInv, PointsBack, Shrinks
  <2>6. CASE Return \/ UNCHANGED vars
    BY <2>6 DEF Return, vars, BackInv, PointsBack, Shrinks
  <2> QED
    BY <2>1, <2>2, <2>3, <2>4, <2>5, <2>6 DEF Next
<1>3. Inv => BackwardSorts
  BY DEF BackInv, BackwardSorts
<1> HIDE DEF Inv
<1> QED
  BY <1>1, <1>2, <1>3, SortInvariant, PTL DEF Spec

-----------------------------------------------------------------------------
(* The sort is exact.  Each call on the stack reaches those above it, so a *)
(* call of a task that is on the stack closes a cycle; and what a sorted   *)
(* plan has up to some task is closed under dependencies, so no later task *)
(* is reached from it.                                                     *)

Linked ==
    \A i, j \in 1..Len(stack) : i <= j => Reaches(deps, stack[i].task, stack[j].task)

\* What is not a task of the plan has no dependencies.
Bare == \A t \in Node \ tasks : deps[t] = {}

ExactInv == Linked /\ Bare /\ (stage = "thrown" => Cyclic(deps))

LEMMA ReachesSteps ==
    ASSUME NEW g, NEW i, NEW j, NEW d, Reaches(g, i, j), j \in DOMAIN g, d \in g[j]
    PROVE  Reaches(g, i, d)
BY DEF Reaches

LEMMA ReachesItself ==
    ASSUME NEW g, NEW i PROVE Reaches(g, i, i)
BY DEF Reaches

LEMMA ExactPlan ==
    ASSUME SortInv, TypeOK', ExactInv, Materialise \/ Migrate PROVE ExactInv'
<1>1. stack' = << >> /\ stage' # "thrown"
  BY DEF SortInv, PlanInv, Materialise, Migrate
<1>2. Bare'
  <2>1. CASE Materialise
    BY <2>1 DEF Materialise, Bare, Raw, Reviewer
  <2>2. CASE Migrate
    BY <2>2 DEF Migrate, ExactInv, Bare
  <2> QED
    BY <2>1, <2>2
<1> QED
  BY <1>1, <1>2 DEF ExactInv, Linked

LEMMA ExactVisit ==
    ASSUME SortInv, ExactInv, NEW t \in Node, Visit(t) PROVE ExactInv'
<1>1. Len(stack') = 1 /\ UNCHANGED <<stage, tasks, deps>>
  BY DEF Visit
<1>2. \A i, j \in 1..Len(stack') : i = j
  BY <1>1
<1>3. Linked'
  BY <1>2, ReachesItself DEF Linked
<1> QED
  BY <1>1, <1>3 DEF ExactInv, Bare

LEMMA ExactLeave ==
    ASSUME SortInv, ExactInv, Leave PROVE ExactInv'
<1>1. stack \in Seq(Frame) /\ stack # << >> /\ Len(stack) \in Nat
  BY DEF Leave, SortInv, TypeOK
<1>2. /\ Len(stack') = Len(stack) - 1
      /\ \A i \in 1..Len(stack') : stack'[i] = stack[i] /\ i \in 1..Len(stack)
  BY <1>1, PopFrame DEF Leave
<1>3. Linked'
  BY <1>2 DEF Leave, ExactInv, Linked
<1> QED
  BY <1>3 DEF Leave, ExactInv, Bare

LEMMA ExactDescend ==
    ASSUME SortInv, ExactInv, NEW d \in Node, Descend(d) PROVE ExactInv'
<1> DEFINE n == Len(stack)
<1>1. /\ n \in Nat /\ n \in 1..n /\ stack # << >> /\ stack \in Seq(Frame)
      /\ \A i \in 1..n : stack[i].task \in Node
  <2>1. stack # << >> /\ stack \in Seq(Frame)
    BY DEF Descend, SortInv, TypeOK
  <2>2. \A i \in 1..n : stack[i] \in Frame
    BY <2>1
  <2> QED
    BY <2>1, <2>2 DEF Frame
<1>2. d \in deps[stack[n].task] /\ stack[n].task \in DOMAIN deps /\ DOMAIN deps = Node
  BY <1>1 DEF SortInv, StackInv, CallInv, TypeOK, Descend, Top
<1>3. \A i \in 1..n : Reaches(deps, stack[i].task, stack[n].task) /\ i <= n
  BY <1>1 DEF ExactInv, Linked
<1>4. UNCHANGED <<tasks, deps>> /\ stage = "sorting"
  BY DEF Descend
<1>5. /\ Rest(d) \in Seq(Frame) /\ Len(Rest(d)) = n
      /\ \A i \in 1..n : Rest(d)[i].task = stack[i].task
  BY <1>1, RestOfStack
<1> HIDE DEF n
<1>6. CASE d \in Temp \ visited
  <2>1. PICK k \in 1..n : stack[k].task = d
    BY <1>6 DEF Temp, n
  <2>2. Cyclic(deps)
    BY <1>2, <1>3, <2>1 DEF Cyclic
  <2>3. stack' = << >>
    BY <1>6 DEF Descend
  <2> QED
    BY <1>4, <2>2, <2>3 DEF ExactInv, Linked, Bare
<1>7. CASE stage' = stage /\ stack' = Rest(d)
  <2>1. Linked'
    BY <1>4, <1>5, <1>7 DEF ExactInv, Linked, n
  <2> QED
    BY <1>4, <1>7, <2>1 DEF ExactInv, Bare
<1>8. CASE stage' = stage /\ stack' = Append(Rest(d), Call(d))
  <2>1. Call(d) \in Frame /\ Call(d).task = d
    BY StackType DEF SortInv, Call
  <2>2. /\ Len(stack') = n + 1 /\ stack'[n + 1].task = d
        /\ \A i \in 1..n : stack'[i].task = stack[i].task
    BY <1>5, <1>8, <2>1, PushFrame
  <2>3. \A i \in 1..n : Reaches(deps, stack[i].task, d)
    BY <1>2, <1>3, ReachesSteps
  <2>4. ASSUME NEW i \in 1..(n + 1), NEW j \in 1..(n + 1), i <= j
        PROVE  Reaches(deps', stack'[i].task, stack'[j].task)
    <3>1. CASE i = n + 1
      BY <1>1, <1>4, <2>2, <2>4, <3>1, ReachesItself
    <3>2. CASE i \in 1..n /\ j = n + 1
      BY <1>4, <2>2, <2>3, <3>2
    <3>3. CASE i \in 1..n /\ j \in 1..n
      BY <1>4, <2>2, <2>4, <3>3 DEF ExactInv, Linked, n
    <3> QED
      BY <1>1, <3>1, <3>2, <3>3
  <2>5. Linked'
    BY <2>2, <2>4 DEF Linked
  <2> QED
    BY <1>4, <1>8, <2>5 DEF ExactInv, Bare
<1> QED
  BY <1>6, <1>7, <1>8 DEF Descend

\* topoSortTasks (pool.ts:160) throws on a plan whose dependencies have a cycle,
\* and on no other.
THEOREM SortsExactly == Spec => []SortIsExact
<1>1. Init => ExactInv
  BY DEF Init, ExactInv, Linked, Bare
<1>2. SortInv /\ TypeOK' /\ ExactInv /\ [Next]_vars => ExactInv'
  <2>1. ASSUME SortInv, ExactInv, Return \/ UNCHANGED vars PROVE ExactInv'
    BY <2>1 DEF Return, vars, ExactInv, Linked, Bare
  <2> QED
    BY <2>1, ExactPlan, ExactVisit, ExactLeave, ExactDescend DEF Next
<1>3. SortInv /\ ExactInv => SortIsExact
  <2> SUFFICES ASSUME SortInv, ExactInv, stage = "sorted", Cyclic(deps) PROVE FALSE
    BY DEF ExactInv, SortIsExact
  <2>1. DOMAIN deps = Node /\ order \in Seq(Node) /\ tasks \subseteq visited
    BY DEF SortInv, TypeOK, PlanInv
  <2>2. PICK t \in Node : \E u \in deps[t] : Reaches(deps, u, t)
    BY <2>1 DEF Cyclic
  <2>3. PICK u \in deps[t] : Reaches(deps, u, t)
    BY <2>2
  <2>4. Before(t)
    BY <2>1, <2>3 DEF ExactInv, Bare, SortInv, OrderInv
  <2>5. PICK i \in 1..Len(order) : order[i] = t
    BY <2>4 DEF Before
  <2> DEFINE S == {order[j] : j \in 1..(i - 1)}
  <2>6. u \in S /\ t \notin S
    BY <2>3, <2>5 DEF SortInv, OrderInv, SortedDepsFirst
  <2>7. Len(order) \in Nat /\ \A j \in 1..(i - 1) : j \in 1..Len(order) /\ order[j] \in Node
    BY <2>1
  <2>8. ASSUME NEW j \in 1..(i - 1) PROVE deps[order[j]] \subseteq S
    <3>1. deps[order[j]] \subseteq {order[k] : k \in 1..(j - 1)}
      BY <2>7 DEF SortInv, OrderInv, SortedDepsFirst
    <3>2. 1..(j - 1) \subseteq 1..(i - 1)
      BY <2>7
    <3> QED
      BY <3>1, <3>2
  <2>9. S \in SUBSET DOMAIN deps /\ \A v \in S : deps[v] \subseteq S
    BY <2>1, <2>7, <2>8
  <2> QED
    BY <2>3, <2>6, <2>9 DEF Reaches
<1> QED
  BY <1>1, <1>2, <1>3, SortInvariant, TypeCorrect, PTL DEF Spec

-----------------------------------------------------------------------------
(* The shape of the files' state, and what a job of either file does.      *)

Steps == {"never", "idle", "loaded", "open", "written", "done", "purged", "failed", "dead"}

\* The shape of the state the proofs about the files need: which functions the
\* variables are, and that only the jobs that write a file have one open.
FilesShape ==
    /\ pc \in [Job -> Steps]
    /\ copy = [j \in Job |-> copy[j]]
    /\ id = [j \in Job |-> id[j]]
    /\ file \in [JsonFile -> {"absent", "empty", "garbled", "whole"}]
    /\ data = [f \in JsonFile |-> data[f]]
    /\ faults \in Nat
    /\ \A j \in Backfill \cup Delete : pc[j] \notin {"open", "written"}

\* A job that is called once moves alone.
Alone(j, step) == pc'[j] = step /\ \A k \in Job \ {j} : pc'[k] = pc[k]

\* A move of one job touches the step of no other.
LEMMA GoneTo ==
    ASSUME NEW j \in Job, NEW step, FilesShape, Goto(j, step)
    PROVE  Alone(j, step)
BY DEF FilesShape, Goto, Alone

\* The kinds of jobs are apart.
LEMMA Kinds ==
    /\ \A j \in Job : j \in Finders \cup Backfill <=> FileOf(j) = "findings"
    /\ \A j \in Finders \cup Backfill : j \notin Claimers \cup Editors \cup Delete
    /\ \A j \in Finders : j \notin Backfill
    /\ \A j \in Delete : j \notin Claimers \cup Editors
    /\ Finders \cup Backfill \subseteq Job /\ Claimers \cup Editors \cup Delete \subseteq Job
BY FilesAssumption DEF Job, FileOf, Finders, Adders, Claimers, Editors, Scaffolders

\* What a job reads: its copy is its own, its step its own.
LEMMA LoadsAlone ==
    ASSUME NEW j \in Job, NEW what, FilesShape, Loads(j, what)
    PROVE  /\ Alone(j, "loaded")
           /\ copy'[j] = what
           /\ \A k \in Job \ {j} : copy'[k] = copy[k]
           /\ copy' = [k \in Job |-> copy'[k]]
           /\ overlap \subseteq overlap' /\ overlap' \subseteq overlap \cup {FileOf(j)}
           /\ FileOf(j) \notin overlap' => ~Overlaps(j)
<1>1. /\ copy' = [k \in Job |-> IF k = j THEN what ELSE copy[k]]
      /\ Goto(j, "loaded")
      /\ overlap' = overlap \cup (IF Overlaps(j) THEN {FileOf(j)} ELSE {})
    BY DEF Loads, FilesShape
<1>2. Alone(j, "loaded")
    BY <1>1, GoneTo
<1>. QED  BY <1>1, <1>2

\* The kinds of step are of the shape.
LEMMA ShapeInit == FilesInit => FilesShape
<1>. SUFFICES ASSUME FilesInit PROVE FilesShape
    OBVIOUS
<1>1. PICK called \in SUBSET Job : pc = [j \in Job |-> IF j \in called THEN "idle" ELSE "never"]
    BY DEF FilesInit
<1>2. pc \in [Job -> Steps] /\ \A j \in Backfill \cup Delete : pc[j] \notin {"open", "written"}
    BY <1>1, Kinds DEF Steps
<1>3. /\ copy = [j \in Job |-> copy[j]] /\ id = [j \in Job |-> id[j]]
      /\ file \in [JsonFile -> {"absent", "empty", "garbled", "whole"}]
      /\ data = [f \in JsonFile |-> data[f]] /\ faults \in Nat
    BY DEF FilesInit
<1>. QED  BY <1>2, <1>3 DEF FilesShape

LEMMA ShapeStep ==
    ASSUME FilesShape, NEW j \in Job, Step(j)
    PROVE  FilesShape'
<1>. DEFINE Is(p, c, i, f, d, n) ==
         /\ p \in [Job -> Steps]
         /\ c = [k \in Job |-> c[k]] /\ i = [k \in Job |-> i[k]]
         /\ f \in [JsonFile -> {"absent", "empty", "garbled", "whole"}]
         /\ d = [g \in JsonFile |-> d[g]]
         /\ n \in Nat
         /\ \A k \in Backfill \cup Delete : p[k] \notin {"open", "written"}
<1>0. Is(pc, copy, id, file, data, faults) /\ FileOf(j) \in JsonFile
    BY DEF FilesShape, FileOf, JsonFile
<1>k. /\ \A k \in Finders : k \notin Backfill \cup Delete
      /\ \A k \in Claimers \cup Editors : k \notin Backfill \cup Delete
    BY Kinds
<1>g. \A s \in Steps : Goto(j, s) /\ (s \in {"open", "written"} => j \notin Backfill \cup Delete) =>
          pc' \in [Job -> Steps] /\ \A k \in Backfill \cup Delete : pc'[k] \notin {"open", "written"}
    BY <1>0, Kinds DEF Goto
<1>c. \A v : copy' = [copy EXCEPT ![j] = v] => copy' = [k \in Job |-> copy'[k]]
    BY <1>0
<1>i. \A v : id' = [id EXCEPT ![j] = v] => id' = [k \in Job |-> id'[k]]
    BY <1>0
<1>d. \A f, v : data' = [data EXCEPT ![f] = v] => data' = [g \in JsonFile |-> data'[g]]
    BY <1>0
<1>f. \A f \in JsonFile : \A v \in {"absent", "empty", "garbled", "whole"} : file' = [file EXCEPT ![f] = v]
          => file' \in [JsonFile -> {"absent", "empty", "garbled", "whole"}]
    BY <1>0
<1>n. Fault => faults' \in Nat
    BY <1>0 DEF Fault
<1>l. \A v : Loads(j, v) =>
          /\ pc' \in [Job -> Steps] /\ \A k \in Backfill \cup Delete : pc'[k] \notin {"open", "written"}
          /\ copy' = [k \in Job |-> copy'[k]]
    BY <1>g, <1>c DEF Loads, Steps
<1>t. Throws(j) => Is(pc', copy', id', file, data, faults)
    BY <1>g, <1>0 DEF Throws, Steps
<1>. USE DEF Steps
<1>1. CASE Open(j)   BY <1>1, <1>0, <1>g, <1>f DEF Open, FilesShape
<1>2. CASE Write(j)
    <2>1. pc[j] = "open" /\ Goto(j, "written") /\ j \notin Backfill \cup Delete
        BY <1>2, <1>0 DEF Write
    <2>2. /\ file' \in [JsonFile -> {"absent", "empty", "garbled", "whole"}]
          /\ data' = [g \in JsonFile |-> data'[g]]
          /\ UNCHANGED <<copy, id, faults>>
        BY <1>2, <1>0, <1>f, <1>d DEF Write
    <2>. QED  BY <2>1, <2>2, <1>0, <1>g DEF FilesShape
<1>3. CASE Dies(j)   BY <1>3, <1>0, <1>g, <1>n DEF Dies, FilesShape
<1>4. CASE LoadToAdd(j)
    BY <1>4, <1>0, <1>l, <1>i, <1>t DEF LoadToAdd, LoadsToAdd, FilesShape
<1>5. CASE LoadPostMerge(j)
    BY <1>5, <1>0, <1>l, <1>i, <1>t DEF LoadPostMerge, LoadsToAdd, FilesShape
<1>6. CASE PostMergeEnds(j)  BY <1>6, <1>0, <1>g DEF PostMergeEnds, FilesShape
<1>7. CASE LoadToMark(j)
    BY <1>7, <1>0, <1>l, <1>i, <1>t DEF LoadToMark, LoadsToMark, FilesShape
<1>8. CASE LoadToCliMark(j)
    BY <1>8, <1>0, <1>l, <1>i, <1>t DEF LoadToCliMark, LoadsToMark, FilesShape
<1>9. CASE Mirror(j)  BY <1>9, <1>0, <1>g, <1>n DEF Mirror, FilesShape
<1>10. CASE BackfillReads(j)
    BY <1>10, <1>0, <1>l, <1>t DEF BackfillReads, FilesShape
<1>11. CASE BackfillUpserts(j)  BY <1>11, <1>0, <1>g DEF BackfillUpserts, FilesShape
<1>12. CASE Scaffold(j)  BY <1>12, <1>0, <1>g, <1>i DEF Scaffold, FilesShape
<1>13. CASE LoadToClaim(j)
    <2>1. j \notin Backfill \cup Delete
        BY <1>13, <1>k DEF LoadToClaim
    <2>. QED  BY <2>1, <1>13, <1>0, <1>g, <1>c, <1>l, <1>t DEF LoadToClaim, FilesShape
<1>14. CASE EnlistBuild(j)  BY <1>14, <1>0, <1>g DEF EnlistBuild, Enlisted, FilesShape
<1>15. CASE EnlistProject(j)  BY <1>15, <1>0, <1>g DEF EnlistProject, Enlisted, FilesShape
<1>16. CASE InitEnds(j)  BY <1>16, <1>0, <1>g DEF InitEnds, FilesShape
<1>17. CASE Unregister(j)
    BY <1>17, <1>0, <1>g, <1>c DEF Unregister, FilesShape
<1>18. CASE Purge(j)
    <2>1. CASE /\ pc' = [k \in Job |-> IF k = j THEN "purged" ELSE IF pc[k] = "open" THEN "written" ELSE pc[k]]
               /\ file' = [f \in JsonFile |-> "absent"]
               /\ data' = [f \in JsonFile |-> None]
               /\ UNCHANGED faults
        BY <2>1, <1>18, <1>0, Kinds DEF Purge, FilesShape
    <2>2. CASE Fault /\ Goto(j, "failed") /\ UNCHANGED <<file, data, claudeMd>>
        BY <2>2, <1>18, <1>0, <1>g, <1>n DEF Purge, FilesShape
    <2>. QED  BY <2>1, <2>2, <1>18 DEF Purge
<1>19. CASE LoadToEdit(j)
    BY <1>19, <1>0, <1>l, <1>t DEF LoadToEdit, FilesShape
<1>20. CASE EditDone(j)  BY <1>20, <1>0, <1>g DEF EditDone, FilesShape
<1>. QED
    BY <1>1, <1>2, <1>3, <1>4, <1>5, <1>6, <1>7, <1>8, <1>9, <1>10, <1>11, <1>12, <1>13, <1>14, <1>15,
       <1>16,
       <1>17, <1>18, <1>19, <1>20 DEF Step

\* The shape survives.
LEMMA ShapeNext == FilesShape /\ [FilesNext]_fileVars => FilesShape'
<1>1. ASSUME FilesShape, FilesNext PROVE FilesShape'
    BY <1>1, ShapeStep DEF FilesNext
<1>2. ASSUME FilesShape, UNCHANGED fileVars PROVE FilesShape'
    BY <1>2 DEF fileVars, FilesShape
<1>. QED  BY <1>1, <1>2

FindingsJobs == Finders \cup Backfill

\* What a step that is not about findings.json leaves alone.
FindingsAside ==
    /\ \A k \in FindingsJobs : pc'[k] = pc[k] /\ copy'[k] = copy[k] /\ id'[k] = id[k]
    /\ file'["findings"] = file["findings"] /\ data'["findings"] = data["findings"]
    /\ registry' = registry
    /\ "findings" \in overlap => "findings" \in overlap'
    /\ faults' = 0 => faults = 0
    /\ Purged => Purged'

\* A purge that succeeds takes the directory away.
PurgeOf(j) ==
    /\ j \in Delete /\ pc[j] = "loaded"
    /\ pc' = [k \in Job |-> IF k = j THEN "purged" ELSE IF pc[k] = "open" THEN "written" ELSE pc[k]]
    /\ file' = [f \in JsonFile |-> "absent"] /\ data' = [f \in JsonFile |-> None]
    /\ UNCHANGED <<copy, id, registry, projects, overlap, faults>>

\* The job of one file leaves the other file alone, a purge apart.
LEMMA FindingsLeft ==
    ASSUME FilesShape, NEW j \in Job \ FindingsJobs, Step(j)
    PROVE  FindingsAside \/ PurgeOf(j)
<1>k. /\ j \notin Finders /\ j \notin Backfill /\ FindingsJobs \subseteq Job /\ FileOf(j) = "project"
      /\ Add \subseteq Finders /\ PostMerge \subseteq Finders /\ Mark \subseteq Finders /\ CliMark \subseteq Finders
      /\ "findings" \in JsonFile /\ "project" \in JsonFile
    BY Kinds DEF FindingsJobs, Finders, Adders, JsonFile, FileOf
<1>0. /\ copy = [k \in Job |-> copy[k]] /\ id = [k \in Job |-> id[k]] /\ data = [f \in JsonFile |-> data[f]]
      /\ file \in [JsonFile -> {"absent", "empty", "garbled", "whole"}] /\ faults \in Nat
      /\ pc \in [Job -> Steps]
    BY DEF FilesShape
<1>g. \A s : Goto(j, s) /\ s # "never" =>
          /\ \A k \in FindingsJobs : pc'[k] = pc[k]
          /\ pc[j] # "purged" => (Purged => Purged')
    BY <1>k, <1>0 DEF Goto, Purged
<1>c. \A v : copy' = [copy EXCEPT ![j] = v] => \A k \in FindingsJobs : copy'[k] = copy[k]
    BY <1>0, <1>k
<1>i. \A v : id' = [id EXCEPT ![j] = v] => \A k \in FindingsJobs : id'[k] = id[k]
    BY <1>0, <1>k
<1>n. Fault => (faults' = 0 => faults = 0)
    BY <1>0 DEF Fault
<1>l. \A v : Loads(j, v) =>
          /\ Goto(j, "loaded") /\ \A k \in FindingsJobs : copy'[k] = copy[k]
          /\ "findings" \in overlap => "findings" \in overlap'
    BY <1>c DEF Loads
<1>1. CASE Open(j)
    <2>1. Goto(j, "open") /\ pc[j] # "purged" /\ file'["findings"] = file["findings"]
        BY <1>1, <1>0, <1>k DEF Open
    <2>. QED  BY <2>1, <1>1, <1>g DEF Open, FindingsAside
<1>2. CASE Write(j)
    <2>1. /\ Goto(j, "written") /\ pc[j] # "purged" /\ file'["findings"] = file["findings"]
          /\ data'["findings"] = data["findings"] /\ UNCHANGED <<copy, id, registry, overlap, faults>>
        BY <1>2, <1>0, <1>k DEF Write
    <2>. QED  BY <2>1, <1>g DEF FindingsAside
<1>3. CASE Dies(j)   BY <1>3, <1>g, <1>n DEF Dies, FindingsAside
<1>4. CASE LoadToAdd(j) \/ LoadPostMerge(j) \/ PostMergeEnds(j) \/ LoadToMark(j) \/ LoadToCliMark(j)
           \/ Mirror(j) \/ BackfillReads(j) \/ BackfillUpserts(j)
    <2>1. ~LoadToAdd(j)
        BY <1>k DEF LoadToAdd
    <2>2. ~LoadPostMerge(j)
        BY <1>k DEF LoadPostMerge
    <2>3. ~PostMergeEnds(j)
        BY <1>k DEF PostMergeEnds
    <2>4. ~LoadToMark(j)
        BY <1>k DEF LoadToMark
    <2>5. ~LoadToCliMark(j)
        BY <1>k DEF LoadToCliMark
    <2>6. ~Mirror(j)
        BY <1>k DEF Mirror
    <2>7. ~BackfillReads(j)
        BY <1>k DEF BackfillReads
    <2>8. ~BackfillUpserts(j)
        BY <1>k DEF BackfillUpserts
    <2>. QED  BY <1>4, <2>1, <2>2, <2>3, <2>4, <2>5, <2>6, <2>7, <2>8
<1>5. CASE Scaffold(j)
    <2>1. CASE Goto(j, "failed") /\ UNCHANGED id
        BY <2>1, <1>5, <1>g DEF Scaffold, FindingsAside
    <2>2. CASE id' = [id EXCEPT ![j] = 1] /\ UNCHANGED pc
        <3>1. Purged => Purged'
            BY <2>2 DEF Purged
        <3>. QED  BY <3>1, <2>2, <1>5, <1>i DEF Scaffold, FindingsAside
    <2>. QED  BY <2>1, <2>2, <1>5 DEF Scaffold
<1>6. CASE LoadToClaim(j)
    BY <1>6, <1>g, <1>c, <1>l DEF LoadToClaim, Throws, FindingsAside
<1>7. CASE EnlistBuild(j) \/ EnlistProject(j) \/ InitEnds(j) \/ EditDone(j)
    BY <1>7, <1>g DEF EnlistBuild, EnlistProject, Enlisted, InitEnds, EditDone, FindingsAside
<1>8. CASE Unregister(j)
    <2>1. PICK s \in {"loaded", "done"} : Goto(j, s)
        BY <1>8 DEF Unregister
    <2>2. \A k \in FindingsJobs : copy'[k] = copy[k]
        BY <1>8, <1>c DEF Unregister
    <2>. QED  BY <2>1, <2>2, <1>8, <1>g DEF Unregister, FindingsAside
<1>9. CASE Purge(j)
    <2>1. CASE Goto(j, "failed") /\ Fault /\ UNCHANGED <<file, data, claudeMd>>
        BY <2>1, <1>9, <1>g, <1>n DEF Purge, FindingsAside
    <2>. QED  BY <2>1, <1>9 DEF Purge, PurgeOf
<1>10. CASE LoadToEdit(j)
    BY <1>10, <1>g, <1>l DEF LoadToEdit, Throws, FindingsAside
<1>. QED
    BY <1>1, <1>2, <1>3, <1>4, <1>5, <1>6, <1>7, <1>8, <1>9, <1>10 DEF Step

LEMMA NotPurged ==
    ASSUME FilesShape, NEW j \in Job \ FindingsJobs, Step(j), ~Purged'
    PROVE  FindingsAside
<1>1. PurgeOf(j) => Purged'
    BY DEF PurgeOf, Purged
<1>. QED  BY <1>1, FindingsLeft

-----------------------------------------------------------------------------
(* The texts of findings.json, and the calls on it.                        *)

\* A text of findings.json: every finding under a number below the next.
IsDoc(doc) ==
    /\ doc = [next |-> doc.next, items |-> doc.items]
    /\ doc.next \in Nat \ {0}
    /\ doc.items = [i \in IdsIn(doc) |-> doc.items[i]]
    /\ \A i \in IdsIn(doc) : i \in Nat \ {0} /\ i < doc.next /\ doc.items[i] \in Finding

Has(doc, a) == id[a] \in IdsIn(doc) /\ doc.items[id[a]].of = a

\* new is old with what stands under i written anew.
Grown(old, new, i) ==
    /\ IsDoc(new) /\ IdsIn(new) = IdsIn(old) \cup {i}
    /\ new.next = IF i \in IdsIn(old) THEN old.next ELSE old.next + 1
    /\ \A k \in IdsIn(old) : new.items[k].of = old.items[k].of
    /\ \A k \in IdsIn(old) \ {i} : new.items[k] = old.items[k]

LEMMA EmptyDoc == IsDoc(NoFindings) /\ IdsIn(NoFindings) = {}
BY DEF IsDoc, IdsIn, NoFindings

\* A new finding takes a free number.
LEMMA AddedDoc ==
    ASSUME NEW doc, IsDoc(doc), NEW j \in Adders
    PROVE  /\ Grown(doc, Added(doc, j), doc.next)
           /\ doc.next \notin IdsIn(doc) /\ Added(doc, j).items[doc.next].of = j
<1>1. doc.next \in Nat \ {0} /\ \A i \in IdsIn(doc) : i \in Nat \ {0} /\ i < doc.next /\ doc.items[i] \in Finding
    BY DEF IsDoc
<1>2. doc.next \notin IdsIn(doc)
    BY <1>1
<1>. DEFINE new == Added(doc, j)
<1>3. /\ new = [next |-> new.next, items |-> new.items] /\ new.next = doc.next + 1
      /\ new.items = [k \in IdsIn(doc) \cup {doc.next} |->
                         IF k = doc.next THEN [of |-> j, status |-> "OPEN"] ELSE doc.items[k]]
    BY DEF Added, Put, IdsIn
<1>4. IdsIn(new) = IdsIn(doc) \cup {doc.next}
    BY <1>3 DEF IdsIn
<1>5. /\ new.items[doc.next] = [of |-> j, status |-> "OPEN"]
      /\ \A k \in IdsIn(doc) : new.items[k] = doc.items[k]
    BY <1>2, <1>3
<1>6. [of |-> j, status |-> "OPEN"] \in Finding
    BY DEF Finding, Status
<1>. HIDE DEF new
<1>7. \A k \in IdsIn(new) : k \in Nat \ {0} /\ k < new.next /\ new.items[k] \in Finding
    BY <1>1, <1>3, <1>4, <1>5, <1>6
<1>8. new.items = [k \in IdsIn(new) |-> new.items[k]]
    BY <1>3, <1>4
<1>n. new.next \in Nat \ {0}
    BY <1>1, <1>3
<1>9. IsDoc(new)
    BY <1>n, <1>3, <1>7, <1>8 DEF IsDoc
<1>10. Grown(doc, new, doc.next)
    BY <1>9, <1>2, <1>3, <1>4, <1>5 DEF Grown
<1>. QED  BY <1>2, <1>5, <1>10 DEF new

\* A resolution changes the status of one finding.
LEMMA ResolvedDoc ==
    ASSUME NEW doc, IsDoc(doc), NEW i \in IdsIn(doc)
    PROVE  Grown(doc, Resolved(doc, i), i)
<1>. DEFINE new == Resolved(doc, i)
            mine == [doc.items[i] EXCEPT !.status = "FIXED"]
<1>1. doc.next \in Nat \ {0} /\ \A k \in IdsIn(doc) : k \in Nat \ {0} /\ k < doc.next /\ doc.items[k] \in Finding
    BY DEF IsDoc
<1>2. mine \in Finding /\ mine.of = doc.items[i].of
    BY <1>1 DEF Finding, Status
<1>3. /\ new = [next |-> new.next, items |-> new.items] /\ new.next = doc.next
      /\ new.items = Put(doc.items, i, mine)
    BY DEF IsDoc, Resolved
<1>4. new.items = [k \in IdsIn(doc) \cup {i} |-> IF k = i THEN mine ELSE doc.items[k]]
    BY <1>3 DEF Put, IdsIn
<1>. HIDE DEF new, mine
<1>5. IdsIn(new) = IdsIn(doc) \cup {i}
    BY <1>4 DEF IdsIn
<1>6. new.items[i] = mine /\ \A k \in IdsIn(doc) \ {i} : new.items[k] = doc.items[k]
    BY <1>4
<1>7. \A k \in IdsIn(new) : k \in Nat \ {0} /\ k < new.next /\ new.items[k] \in Finding
    BY <1>1, <1>2, <1>3, <1>5, <1>6
<1>8. new.items = [k \in IdsIn(new) |-> new.items[k]]
    BY <1>4, <1>5
<1>9. IsDoc(new)
    BY <1>1, <1>3, <1>7, <1>8 DEF IsDoc
<1>10. Grown(doc, new, i)
    BY <1>9, <1>2, <1>3, <1>5, <1>6 DEF Grown
<1>. QED  BY <1>10 DEF new

FindingsSound == "findings" \notin overlap /\ ~Purged

\* The call of a finder begins: it reads the file whole, and notes what it will write.
Begins(j) ==
    /\ Alone(j, "loaded")
    /\ file["findings"] \in {"absent", "whole"}
    /\ Grown(Readable("findings"), copy'[j], id'[j])
    /\ j \in Adders => id'[j] \notin IdsIn(Readable("findings")) /\ copy'[j].items[id'[j]].of = j
    /\ j \notin Adders => id'[j] \in IdsIn(Readable("findings"))
    /\ \A k \in Job \ {j} : copy'[k] = copy[k] /\ id'[k] = id[k]
    /\ "findings" \notin overlap' => ~Overlaps(j)
    /\ UNCHANGED <<file, data, registry, faults>>

\* It ends for nothing.
Quits(j) ==
    /\ \E s \in {"failed", "dead"} : Alone(j, s)
    /\ UNCHANGED <<copy, id, file, data, registry, overlap>>
    /\ faults' = 0 => faults = 0 /\ pc[j] = "idle"

LEMMA ThrowsQuits ==
    ASSUME FilesShape, NEW j \in Job, pc[j] = "idle", Throws(j), UNCHANGED <<file, data, registry, faults>>
    PROVE  Quits(j)
BY GoneTo DEF Throws, Quits

LEMMA IdAlone ==
    ASSUME FilesShape, NEW j \in Job, NEW v, id' = [id EXCEPT ![j] = v]
    PROVE  id'[j] = v /\ \A k \in Job \ {j} : id'[k] = id[k]
BY DEF FilesShape

\* What a call that begins reads is a document.
LEMMA ReadsDoc ==
    ASSUME FilesShape, ~Unreadable("findings"), file["findings"] = "whole" => IsDoc(data["findings"])
    PROVE  IsDoc(Readable("findings")) /\ file["findings"] \in {"absent", "whole"}
<1>1. file["findings"] \in {"absent", "whole"}
    BY DEF FilesShape, Unreadable, JsonFile
<1>. QED  BY <1>1, EmptyDoc DEF Readable

LEMMA BeginsToAdd ==
    ASSUME FilesShape, NEW j \in Adders, pc[j] = "idle", LoadsToAdd(j),
           UNCHANGED <<file, data, registry, faults>>,
           file["findings"] = "whole" => IsDoc(data["findings"])
    PROVE  Begins(j) \/ Quits(j)
<1>. DEFINE old == Readable("findings")
<1>0. j \in Job /\ FileOf(j) = "findings"
    BY Kinds DEF Finders
<1>1. CASE Unreadable("findings")
    <2>1. Throws(j)
        BY <1>1 DEF LoadsToAdd
    <2>. QED  BY <2>1, <1>0, ThrowsQuits
<1>2. CASE ~Unreadable("findings")
    <2>1. Loads(j, Added(old, j)) /\ id' = [id EXCEPT ![j] = old.next]
        BY <1>2 DEF LoadsToAdd
    <2>2. IsDoc(old) /\ file["findings"] \in {"absent", "whole"}
        BY <1>2, ReadsDoc
    <2>3. /\ Alone(j, "loaded") /\ copy'[j] = Added(old, j)
          /\ \A k \in Job \ {j} : copy'[k] = copy[k]
          /\ "findings" \notin overlap' => ~Overlaps(j)
        BY <2>1, <1>0, LoadsAlone
    <2>4. id'[j] = old.next /\ \A k \in Job \ {j} : id'[k] = id[k]
        BY <2>1, <1>0, IdAlone
    <2>5. /\ Grown(old, Added(old, j), old.next)
          /\ old.next \notin IdsIn(old) /\ Added(old, j).items[old.next].of = j
        BY <2>2, AddedDoc
    <2>. QED  BY <2>2, <2>3, <2>4, <2>5 DEF Begins
<1>. QED  BY <1>1, <1>2

LEMMA BeginsToMark ==
    ASSUME FilesShape, NEW j \in Finders \ Adders, pc[j] = "idle", NEW i, LoadsToMark(j, i),
           UNCHANGED <<file, data, registry, faults>>,
           file["findings"] = "whole" => IsDoc(data["findings"])
    PROVE  Begins(j) \/ Quits(j)
<1>. DEFINE old == Readable("findings")
<1>0. j \in Job /\ FileOf(j) = "findings"
    BY Kinds
<1>1. CASE Unreadable("findings") \/ i \notin IdsIn(old)
    <2>1. Throws(j)
        BY <1>1 DEF LoadsToMark
    <2>. QED  BY <2>1, <1>0, ThrowsQuits
<1>2. CASE ~Unreadable("findings") /\ i \in IdsIn(old)
    <2>1. Loads(j, Resolved(old, i)) /\ id' = [id EXCEPT ![j] = i]
        BY <1>2 DEF LoadsToMark
    <2>2. IsDoc(old) /\ file["findings"] \in {"absent", "whole"}
        BY <1>2, ReadsDoc
    <2>3. /\ Alone(j, "loaded") /\ copy'[j] = Resolved(old, i)
          /\ \A k \in Job \ {j} : copy'[k] = copy[k]
          /\ "findings" \notin overlap' => ~Overlaps(j)
        BY <2>1, <1>0, LoadsAlone
    <2>4. id'[j] = i /\ \A k \in Job \ {j} : id'[k] = id[k]
        BY <2>1, <1>0, IdAlone
    <2>5. Grown(old, Resolved(old, i), i)
        BY <1>2, <2>2, ResolvedDoc
    <2>. QED  BY <1>2, <2>2, <2>3, <2>4, <2>5 DEF Begins
<1>. QED  BY <1>1, <1>2

\* What a job of findings.json does.
LEMMA FindingsActs ==
    ASSUME FilesShape, NEW j \in FindingsJobs, Step(j),
           file["findings"] = "whole" => IsDoc(data["findings"])
    PROVE  \/ Quits(j)
           \/ j \in Finders /\ pc[j] = "idle" /\ Begins(j)
           \/ j \in Finders /\ Open(j)
           \/ j \in Finders /\ Write(j)
           \/ Mirror(j) \/ PostMergeEnds(j) \/ BackfillReads(j) \/ BackfillUpserts(j)
<1>k. /\ j \in Job /\ j \notin Claimers /\ j \notin Editors /\ j \notin Delete
      /\ Claim \cup Scaffolders \cup Create \cup InitCmd \subseteq Claimers
    BY Kinds DEF FindingsJobs, Claimers, Scaffolders
<1>f. /\ Add \cup PostMerge \cup Mark \cup CliMark \subseteq Finders
      /\ Add \subseteq Adders /\ PostMerge \subseteq Adders /\ Mark \cap Adders = {} /\ CliMark \cap Adders = {}
    BY FilesAssumption DEF Finders, Adders
<1>1. CASE Open(j) \/ Write(j)
    BY <1>1 DEF Open, Write, FilesShape, FindingsJobs
<1>2. CASE Dies(j)
    <2>1. Alone(j, "dead")
        BY <1>2, <1>k, GoneTo DEF Dies
    <2>. QED  BY <2>1, <1>2 DEF Dies, Fault, Quits, FilesShape
<1>3. CASE LoadToAdd(j)
    BY <1>3, <1>f, BeginsToAdd DEF LoadToAdd
<1>4. CASE LoadPostMerge(j)
    BY <1>4, <1>f, BeginsToAdd DEF LoadPostMerge
<1>5. CASE LoadToMark(j)
    BY <1>5, <1>f, BeginsToMark DEF LoadToMark
<1>6. CASE LoadToCliMark(j)
    BY <1>6, <1>f, BeginsToMark DEF LoadToCliMark
<1>7. ~Scaffold(j) /\ ~LoadToClaim(j) /\ ~EnlistBuild(j) /\ ~EnlistProject(j) /\ ~InitEnds(j)
    BY <1>k DEF Scaffold, LoadToClaim, EnlistBuild, EnlistProject, InitEnds
<1>8. ~Unregister(j) /\ ~Purge(j) /\ ~LoadToEdit(j) /\ ~EditDone(j)
    BY <1>k DEF Unregister, Purge, LoadToEdit, EditDone
<1>. QED  BY <1>1, <1>2, <1>3, <1>4, <1>5, <1>6, <1>7, <1>8 DEF Step

\* Nothing brings a purged directory back, nor forgets an overlap.
LEMMA SoundBefore ==
    ASSUME FilesShape, NEW j \in Job, Step(j), FindingsSound'
    PROVE  FindingsSound
<1>1. CASE j \notin FindingsJobs
    BY <1>1, NotPurged DEF FindingsAside, FindingsSound
<1>2. CASE j \in FindingsJobs
    <2>1. j \notin Delete /\ Delete \subseteq Job
        BY <1>2, Kinds DEF FindingsJobs
    <2>2. \A k \in Job \ {j} : pc'[k] = pc[k]
        <3>1. \A s : Goto(j, s) => \A k \in Job \ {j} : pc'[k] = pc[k]
            BY DEF Goto, FilesShape
        <3>2. \A v : Loads(j, v) => \E s : Goto(j, s)
            BY DEF Loads
        <3>. QED
            BY <3>1, <3>2, <2>1 DEF Step, Open, Write, Dies, LoadToAdd, LoadPostMerge, PostMergeEnds,
               LoadToMark,
            LoadToCliMark, Mirror, BackfillReads, BackfillUpserts, Scaffold, LoadToClaim, EnlistBuild, EnlistProject,
            InitEnds, Unregister, Purge, LoadToEdit, EditDone, LoadsToAdd, LoadsToMark, Throws, Enlisted
    <2>3. Purged => Purged'
        BY <2>1, <2>2 DEF Purged
    <2>4. overlap \subseteq overlap'
        BY <2>1 DEF Step, Open, Write, Dies, LoadToAdd, LoadPostMerge, PostMergeEnds, LoadToMark,
            LoadToCliMark, Mirror, BackfillReads, BackfillUpserts, Scaffold, LoadToClaim, EnlistBuild, EnlistProject,
            InitEnds, Unregister, Purge, LoadToEdit, EditDone, LoadsToAdd, LoadsToMark, Throws, Enlisted, Loads
    <2>. QED  BY <2>3, <2>4 DEF FindingsSound
<1>. QED  BY <1>1, <1>2

-----------------------------------------------------------------------------
(* No finding is lost while no two calls on findings.json overlap.         *)

\* At most one call on findings.json is under way,
SoleFinder == \A j, k \in FindingsJobs : Busy(j) /\ Busy(k) => j = k

\* what is written has every finding of an adder that has written,
Kept == \A a \in Adders : pc[a] \in {"written", "done"} =>
            file["findings"] # "absent" /\ Has(data["findings"], a)

\* and so has what is about to be.
WillKeep ==
    \A k \in Finders : pc[k] \in {"loaded", "open"} =>
        IsDoc(copy[k]) /\ \A a \in Adders : pc[a] \in {"written", "done"} \/ a = k => Has(copy[k], a)

WholeIsDoc == file["findings"] = "whole" => IsDoc(data["findings"])

KeptInv == FindingsSound => SoleFinder /\ Kept /\ WillKeep /\ WholeIsDoc

\* backfill reads the file whole.
BackfillBegins(j) ==
    /\ Alone(j, "loaded")
    /\ file["findings"] = "whole" /\ copy'[j] = data["findings"]
    /\ \A k \in Job \ {j} : copy'[k] = copy[k]
    /\ "findings" \notin overlap' => ~Overlaps(j)
    /\ UNCHANGED <<id, file, data, registry, faults>>

LEMMA BackfillActs ==
    ASSUME FilesShape, NEW j \in Backfill, BackfillReads(j)
    PROVE  Quits(j) \/ BackfillBegins(j)
<1>0. j \in Job /\ FileOf(j) = "findings"
    BY Kinds
<1>1. CASE Unreadable("findings")
    <2>1. Throws(j) /\ pc[j] = "idle" /\ UNCHANGED <<file, data, registry, faults>>
        BY <1>1 DEF BackfillReads
    <2>. QED  BY <2>1, <1>0, ThrowsQuits
<1>2. CASE ~Unreadable("findings")
    <2>1. Loads(j, data["findings"]) /\ UNCHANGED <<id, file, data, registry, faults>>
        BY <1>2 DEF BackfillReads
    <2>2. file["findings"] = "whole"
        BY <1>2 DEF BackfillReads, Unreadable, FilesShape, JsonFile
    <2>3. /\ Alone(j, "loaded") /\ copy'[j] = data["findings"]
          /\ \A k \in Job \ {j} : copy'[k] = copy[k]
          /\ "findings" \notin overlap' => ~Overlaps(j)
        BY <2>1, <1>0, LoadsAlone
    <2>. QED  BY <2>1, <2>2, <2>3 DEF BackfillBegins
<1>. QED  BY <1>1, <1>2

\* No other call is under way when one begins.
LEMMA NoOther ==
    ASSUME NEW j \in FindingsJobs, ~Overlaps(j)
    PROVE  \A k \in FindingsJobs \ {j} : ~Busy(k)
BY Kinds DEF FindingsJobs, Overlaps

\* writeFile, of the job that has findings.json open.
LEMMA OpenOf ==
    ASSUME FilesShape, NEW j \in Finders, Open(j)
    PROVE  /\ Alone(j, "open") /\ pc[j] = "loaded"
           /\ file'["findings"] = "empty" /\ UNCHANGED <<copy, id, data, registry, faults>>
<1>1. j \in Job /\ FileOf(j) = "findings" /\ "findings" \in JsonFile
    BY Kinds DEF JsonFile
<1>. QED  BY <1>1, GoneTo DEF Open, FilesShape

LEMMA WriteOf ==
    ASSUME FilesShape, NEW j \in Finders, Write(j)
    PROVE  /\ Alone(j, "written") /\ pc[j] = "open"
           /\ file'["findings"] \in {"whole", "garbled"} /\ data'["findings"] = copy[j]
           /\ file["findings"] = "empty" => file'["findings"] = "whole"
           /\ UNCHANGED <<copy, id, registry, faults>>
<1>1. j \in Job /\ FileOf(j) = "findings" /\ "findings" \in JsonFile
    BY Kinds DEF JsonFile
<1>2. pc[j] = "open" /\ Goto(j, "written") /\ UNCHANGED <<copy, id, registry, faults>>
    BY DEF Write
<1>3. data'["findings"] = copy[j]
    BY <1>1 DEF Write, FilesShape
<1>4. PICK tail \in BOOLEAN :
         /\ file' = [file EXCEPT !["findings"] =
                        IF tail \/ file["findings"] = "garbled" THEN "garbled" ELSE "whole"]
         /\ file["findings"] # "whole" => tail = FALSE
    BY <1>1 DEF Write
<1>5. /\ file'["findings"] \in {"whole", "garbled"}
      /\ file["findings"] = "empty" => file'["findings"] = "whole"
    BY <1>1, <1>4 DEF FilesShape
<1>. QED  BY <1>1, <1>2, <1>3, <1>5, GoneTo

\* The end of a call that wrote, or of backfill, writes no file.
LEMMA EndOf ==
    ASSUME FilesShape, NEW j \in FindingsJobs, Mirror(j) \/ PostMergeEnds(j) \/ BackfillUpserts(j)
    PROVE  /\ \E s \in {"done", "failed"} : Alone(j, s)
           /\ Busy(j) /\ (pc[j] = "written" \/ j \in Backfill)
           /\ UNCHANGED <<copy, id, file, data>>
<1>1. j \in Job
    BY Kinds DEF FindingsJobs
<1>. QED  BY <1>1, GoneTo DEF Mirror, PostMergeEnds, BackfillUpserts, Busy

LEMMA KeptStep ==
    ASSUME FilesShape, KeptInv, NEW j \in Job, Step(j)
    PROVE  KeptInv'
<1>. SUFFICES ASSUME FindingsSound' PROVE (SoleFinder /\ Kept /\ WillKeep /\ WholeIsDoc)'
    BY DEF KeptInv
<1>0. FindingsSound /\ SoleFinder /\ Kept /\ WillKeep /\ WholeIsDoc /\ ~Purged' /\ "findings" \notin overlap'
    BY SoundBefore DEF KeptInv, FindingsSound
<1>k. /\ FindingsJobs \subseteq Job /\ Finders \subseteq FindingsJobs /\ Adders \subseteq Finders
      /\ \A k \in Finders : k \notin Backfill
      /\ Backfill \subseteq FindingsJobs
    BY Kinds DEF FindingsJobs, Finders
<1>1. CASE j \notin FindingsJobs
    <2>1. FindingsAside
        BY <1>0, <1>1, NotPurged
    <2>2. SoleFinder'
        BY <2>1, <1>0 DEF FindingsAside, SoleFinder, Busy
    <2>3. Kept'
        BY <2>1, <1>0, <1>k DEF FindingsAside, Kept, Has, IdsIn
    <2>4. WillKeep'
        BY <2>1, <1>0, <1>k DEF FindingsAside, WillKeep, Has, IsDoc, IdsIn
    <2>5. WholeIsDoc'
        BY <2>1, <1>0 DEF FindingsAside, WholeIsDoc, IsDoc, IdsIn
    <2>. QED  BY <2>2, <2>3, <2>4, <2>5
<1>2. CASE j \in FindingsJobs /\ Quits(j)
    <2>1. PICK s \in {"failed", "dead"} : Alone(j, s)
        BY <1>2 DEF Quits
    <2>2. UNCHANGED <<copy, id, file, data>>
        BY <1>2 DEF Quits
    <2>3. SoleFinder'
        BY <2>1, <1>0, <1>k DEF Alone, SoleFinder, Busy
    <2>4. Kept'
        BY <2>1, <2>2, <1>0, <1>k DEF Alone, Kept, Has, IdsIn
    <2>5. WillKeep'
        BY <2>1, <2>2, <1>0, <1>k DEF Alone, WillKeep, Has, IsDoc, IdsIn
    <2>6. WholeIsDoc'
        BY <2>2, <1>0 DEF WholeIsDoc, IsDoc, IdsIn
    <2>. QED  BY <2>3, <2>4, <2>5, <2>6
<1>3. CASE j \in Finders /\ pc[j] = "idle" /\ Begins(j)
    <2>. DEFINE old == Readable("findings")
    <2>1. /\ Alone(j, "loaded") /\ UNCHANGED <<file, data>>
          /\ Grown(old, copy'[j], id'[j])
          /\ j \in Adders => copy'[j].items[id'[j]].of = j
          /\ \A k \in Job \ {j} : copy'[k] = copy[k] /\ id'[k] = id[k]
          /\ file["findings"] \in {"absent", "whole"}
        BY <1>3 DEF Begins
    <2>2. \A k \in FindingsJobs \ {j} : ~Busy(k)
        BY <1>0, <1>3, <1>k, NoOther DEF Begins
    <2>3. \A k \in FindingsJobs \ {j} : ~Busy(k)'
        BY <2>1, <2>2, <1>k DEF Alone, Busy
    <2>4. SoleFinder'
        BY <2>3 DEF SoleFinder
    <2>5. Kept'
        BY <2>1, <1>0, <1>3, <1>k DEF Alone, Kept, Has, IdsIn
    <2>6. WholeIsDoc'
        BY <2>1, <1>0 DEF WholeIsDoc, IsDoc, IdsIn
    <2>7. ASSUME NEW k \in Finders, pc'[k] \in {"loaded", "open"}
          PROVE  IsDoc(copy'[k]) /\ \A a \in Adders : pc'[a] \in {"written", "done"} \/ a = k => Has(copy[k], a)'
        <3>1. k = j
            BY <2>3, <2>7, <1>k DEF Busy
        <3>2. IsDoc(copy'[j]) /\ IdsIn(copy'[j]) = IdsIn(old) \cup {id'[j]}
              /\ \A i \in IdsIn(old) : copy'[j].items[i].of = old.items[i].of
            BY <2>1 DEF Grown
        <3>3. ASSUME NEW a \in Adders, pc'[a] \in {"written", "done"} \/ a = j
              PROVE  id'[a] \in IdsIn(copy'[j]) /\ copy'[j].items[id'[a]].of = a
            <4>1. CASE a = j
                BY <4>1, <2>1, <3>2
            <4>2. CASE a # j
                <5>1. pc[a] \in {"written", "done"} /\ id'[a] = id[a]
                    BY <4>2, <3>3, <2>1, <1>k DEF Alone
                <5>2. file["findings"] # "absent" /\ Has(data["findings"], a)
                    BY <5>1, <1>0 DEF Kept
                <5>3. old = data["findings"]
                    BY <5>2 DEF Readable
                <5>. QED  BY <5>1, <5>2, <5>3, <3>2 DEF Has
            <4>. QED  BY <4>1, <4>2
        <3>. QED  BY <3>1, <3>2, <3>3 DEF Has, IdsIn
    <2>8. WillKeep'
        BY <2>7 DEF WillKeep, IsDoc, IdsIn
    <2>. QED  BY <2>4, <2>5, <2>6, <2>8
<1>4. CASE j \in Finders /\ Open(j)
    <2>1. /\ Alone(j, "open") /\ pc[j] = "loaded"
          /\ file'["findings"] = "empty" /\ UNCHANGED <<copy, id, data>>
        BY <1>4, OpenOf
    <2>2. SoleFinder'
        BY <2>1, <1>0, <1>k, <1>4 DEF Alone, SoleFinder, Busy
    <2>3. Kept'
        BY <2>1, <1>0, <1>k, <1>4 DEF Alone, Kept, Has, IdsIn
    <2>4. WillKeep'
        BY <2>1, <1>0, <1>k, <1>4 DEF Alone, WillKeep, Has, IsDoc, IdsIn
    <2>5. WholeIsDoc'
        BY <2>1 DEF WholeIsDoc
    <2>. QED  BY <2>2, <2>3, <2>4, <2>5
<1>5. CASE j \in Finders /\ Write(j)
    <2>1. /\ Alone(j, "written") /\ pc[j] = "open"
          /\ file'["findings"] \in {"whole", "garbled"} /\ data'["findings"] = copy[j] /\ UNCHANGED <<copy, id>>
        BY <1>5, WriteOf
    <2>2. SoleFinder'
        BY <2>1, <1>0, <1>k, <1>5 DEF Alone, SoleFinder, Busy
    <2>3. IsDoc(copy[j]) /\ \A a \in Adders : pc[a] \in {"written", "done"} \/ a = j => Has(copy[j], a)
        BY <2>1, <1>0, <1>5 DEF WillKeep
    <2>4. Kept'
        BY <2>1, <2>3, <1>k, <1>5 DEF Alone, Kept, Has, IdsIn
    <2>5. \A k \in Finders : pc'[k] \notin {"loaded", "open"}
        BY <2>1, <2>2, <1>k, <1>5 DEF Alone, SoleFinder, Busy
    <2>6. WillKeep'
        BY <2>5 DEF WillKeep
    <2>7. WholeIsDoc'
        BY <2>1, <2>3 DEF WholeIsDoc, IsDoc, IdsIn
    <2>. QED  BY <2>2, <2>4, <2>6, <2>7
<1>6. CASE j \in FindingsJobs /\ (Mirror(j) \/ PostMergeEnds(j) \/ BackfillUpserts(j))
    <2>1. PICK s \in {"done", "failed"} : Alone(j, s)
        BY <1>6, EndOf
    <2>2. UNCHANGED <<copy, id, file, data>> /\ (pc[j] = "written" \/ j \in Backfill)
        BY <1>6, EndOf
    <2>3. SoleFinder'
        BY <2>1, <1>0, <1>k, <1>6 DEF Alone, SoleFinder, Busy
    <2>4. Kept'
        BY <2>1, <2>2, <1>0, <1>k DEF Alone, Kept, Has, IdsIn
    <2>5. WillKeep'
        BY <2>1, <2>2, <1>0, <1>k DEF Alone, WillKeep, Has, IsDoc, IdsIn
    <2>6. WholeIsDoc'
        BY <2>2, <1>0 DEF WholeIsDoc, IsDoc, IdsIn
    <2>. QED  BY <2>3, <2>4, <2>5, <2>6
<1>7. CASE j \in Backfill /\ BackfillBegins(j)
    <2>1. /\ Alone(j, "loaded") /\ UNCHANGED <<id, file, data>>
          /\ \A k \in Job \ {j} : copy'[k] = copy[k]
        BY <1>7 DEF BackfillBegins
    <2>2. \A k \in FindingsJobs \ {j} : ~Busy(k)
        BY <1>0, <1>7, <1>k, NoOther DEF BackfillBegins
    <2>3. \A k \in FindingsJobs \ {j} : ~Busy(k)'
        BY <2>1, <2>2, <1>k DEF Alone, Busy
    <2>4. SoleFinder'
        BY <2>3 DEF SoleFinder
    <2>5. Kept'
        BY <2>1, <1>0, <1>7, <1>k DEF Alone, Kept, Has, IdsIn
    <2>6. WholeIsDoc'
        BY <2>1, <1>0 DEF WholeIsDoc, IsDoc, IdsIn
    <2>7. WillKeep'
        BY <2>3, <1>k, <1>7 DEF Busy, WillKeep
    <2>. QED  BY <2>4, <2>5, <2>6, <2>7
<1>8. CASE j \in FindingsJobs /\ BackfillReads(j)
    <2>1. j \in Backfill
        BY <1>8 DEF BackfillReads
    <2>. QED  BY <2>1, <1>2, <1>7, <1>8, BackfillActs
<1>. QED
    <2>1. CASE j \in FindingsJobs
        BY <2>1, <1>0, <1>2, <1>3, <1>4, <1>5, <1>6, <1>8, FindingsActs DEF WholeIsDoc
    <2>. QED  BY <2>1, <1>1

-----------------------------------------------------------------------------
(* The registry is what the file says once every call has ended.           *)

\* The registry has every finding of a named worker among these, and what it
\* has is here as it has it but for what was never mirrored, one id apart.
Agrees(items, but) ==
    /\ \A i \in DOMAIN items \ but : items[i].of \in Add \ Nameless => i \in DOMAIN registry
    /\ \A i \in DOMAIN registry \ but : i \in DOMAIN items /\ (registry[i] # items[i] => Unmirrored(i))

\* While nobody has the file open, or written and not mirrored, it agrees;
WhenQuiet ==
    (\A k \in Finders : pc[k] \notin {"open", "written"}) =>
        file["findings"] \in {"absent", "whole"} /\ Agrees(Items, {})

\* what a call will write agrees but for the finding it is about,
WhenWritten ==
    \A k \in Finders : Busy(k) =>
        /\ Agrees(copy[k].items, {id[k]})
        /\ id[k] \in IdsIn(copy[k])
        /\ k \in Adders => id[k] \notin DOMAIN registry /\ copy[k].items[id[k]].of = k
        /\ k \in Mark /\ copy[k].items[id[k]].of \in Add \ Nameless => id[k] \in DOMAIN registry

\* and is what the file says once it is written; backfill has read what is there.
AsWritten ==
    /\ \A k \in Finders : pc[k] = "open" => file["findings"] = "empty"
    /\ \A k \in Finders : pc[k] = "written" => file["findings"] = "whole" /\ data["findings"] = copy[k]
    /\ \A k \in Backfill : pc[k] = "loaded" => file["findings"] = "whole" /\ data["findings"] = copy[k]

MirrorInv == FindingsSound /\ faults = 0 => WhenQuiet /\ WhenWritten /\ AsWritten

LEMMA MirrorStep ==
    ASSUME FilesShape, KeptInv, MirrorInv, NEW j \in Job, Step(j)
    PROVE  MirrorInv'
<1>. SUFFICES ASSUME FindingsSound', faults' = 0 PROVE (WhenQuiet /\ WhenWritten /\ AsWritten)'
    BY DEF MirrorInv
<1>0. FindingsSound /\ SoleFinder /\ Kept /\ WillKeep /\ WholeIsDoc /\ ~Purged' /\ "findings" \notin overlap'
    BY SoundBefore DEF KeptInv, FindingsSound
<1>k. /\ FindingsJobs \subseteq Job /\ Finders \subseteq FindingsJobs /\ Adders \subseteq Finders
      /\ \A k \in Finders : k \notin Backfill
      /\ Backfill \subseteq FindingsJobs /\ PostMerge \subseteq Adders /\ Add \subseteq Adders
      /\ Mark \subseteq Finders /\ \A k \in Mark : k \notin Adders
      /\ Nameless \subseteq Add \cup Mark
    BY Kinds, FilesAssumption DEF FindingsJobs, Finders, Adders
<1>m. faults = 0 => WhenQuiet /\ WhenWritten /\ AsWritten
    BY <1>0 DEF MirrorInv
<1>1. CASE j \notin FindingsJobs
    <2>1. FindingsAside
        BY <1>0, <1>1, NotPurged
    <2>2. WhenQuiet /\ WhenWritten /\ AsWritten
        BY <2>1, <1>m DEF FindingsAside
    <2>u. \A i : Unmirrored(i)' <=> Unmirrored(i)
        BY <2>1, <1>k DEF FindingsAside, Unmirrored
    <2>3. WhenQuiet'
        BY <2>1, <2>2, <2>u, <1>k DEF FindingsAside, WhenQuiet, Agrees, Items, Unmirrored
    <2>4. WhenWritten'
        BY <2>1, <2>2, <2>u, <1>k DEF FindingsAside, WhenWritten, Busy, Agrees, IdsIn, Unmirrored
    <2>5. AsWritten'
        BY <2>1, <2>2, <1>k DEF FindingsAside, AsWritten
    <2>. QED  BY <2>3, <2>4, <2>5
<1>2. CASE j \in FindingsJobs /\ Quits(j)
    <2>1. PICK s \in {"failed", "dead"} : Alone(j, s)
        BY <1>2 DEF Quits
    <2>2. /\ UNCHANGED <<copy, id, file, data, registry>> /\ pc[j] = "idle"
          /\ WhenQuiet /\ WhenWritten /\ AsWritten
        BY <1>2, <1>m DEF Quits
    <2>u. \A i : Unmirrored(i)' <=> Unmirrored(i)
        BY <2>1, <2>2, <1>k DEF Alone, Unmirrored
    <2>3. WhenQuiet'
        BY <2>1, <2>2, <2>u, <1>k DEF Alone, WhenQuiet, Agrees, Items, Unmirrored
    <2>4. WhenWritten'
        BY <2>1, <2>2, <2>u, <1>k DEF Alone, WhenWritten, Busy, Agrees, IdsIn, Unmirrored
    <2>5. AsWritten'
        BY <2>1, <2>2, <1>k DEF Alone, AsWritten
    <2>. QED  BY <2>3, <2>4, <2>5
<1>3. CASE j \in Finders /\ pc[j] = "idle" /\ Begins(j)
    <2>. DEFINE old == Readable("findings")
    <2>1. /\ Alone(j, "loaded") /\ UNCHANGED <<file, data, registry, faults>>
          /\ Grown(old, copy'[j], id'[j])
          /\ j \in Adders => id'[j] \notin IdsIn(old) /\ copy'[j].items[id'[j]].of = j
          /\ j \notin Adders => id'[j] \in IdsIn(old)
          /\ \A k \in Job \ {j} : copy'[k] = copy[k] /\ id'[k] = id[k]
          /\ file["findings"] \in {"absent", "whole"}
        BY <1>3 DEF Begins
    <2>2. \A k \in FindingsJobs \ {j} : ~Busy(k)
        BY <1>0, <1>3, <1>k, NoOther DEF Begins
    <2>3. \A k \in FindingsJobs \ {j} : ~Busy(k)'
        BY <2>1, <2>2, <1>k DEF Alone, Busy
    <2>4. Agrees(Items, {})
        BY <2>1, <2>2, <1>m, <1>3, <1>k DEF WhenQuiet, Busy
    <2>5. DOMAIN Items = IdsIn(old) /\ \A i \in DOMAIN Items : Items[i] = old.items[i]
        <3>1. CASE file["findings"] = "whole"
            BY <3>1 DEF Items, Readable, IdsIn
        <3>2. CASE file["findings"] = "absent"
            BY <3>2 DEF Items, Readable, IdsIn, NoFindings
        <3>. QED  BY <2>1, <3>1, <3>2
    <2>u. \A i : Unmirrored(i)' <=> Unmirrored(i)
        BY <2>1, <1>3, <1>k DEF Alone, Unmirrored
    <2>6. WhenQuiet'
        BY <2>1, <2>4, <2>u DEF WhenQuiet, Agrees, Items, Unmirrored
    <2>7. AsWritten'
        BY <2>3, <2>1, <1>3, <1>k DEF AsWritten, Alone, Busy
    <2>8. Agrees(copy[j].items, {id[j]})'
        <3>. DEFINE new == copy'[j].items
        <3>1. \A i \in DOMAIN new \ {id'[j]} : new[i].of \in Add \ Nameless => i \in DOMAIN registry
            BY <2>1, <2>4, <2>5 DEF Agrees, Grown, IdsIn
        <3>2. ASSUME NEW i \in DOMAIN registry \ {id'[j]}, ~Unmirrored(i)'
              PROVE  i \in DOMAIN new /\ registry[i] = new[i]
            <4>1. ~Unmirrored(i)
                BY <2>u, <3>2
            <4>2. i \in DOMAIN Items /\ registry[i] = Items[i]
                BY <2>4, <3>2, <4>1 DEF Agrees
            <4>. QED  BY <2>1, <2>5, <3>2, <4>2 DEF Grown, IdsIn
        <3>3. \A i \in DOMAIN registry \ {id'[j]} : i \in DOMAIN new
            BY <2>1, <2>4, <2>5 DEF Agrees, Grown, IdsIn
        <3>4. \A i \in DOMAIN registry \ {id'[j]} : registry[i] # new[i] => Unmirrored(i)'
            BY <3>2
        <3>. QED  BY <2>1, <3>1, <3>3, <3>4 DEF Agrees
    <2>9. /\ id'[j] \in IdsIn(copy'[j])
          /\ j \in Adders => id'[j] \notin DOMAIN registry' /\ copy'[j].items[id'[j]].of = j
          /\ j \in Mark /\ copy'[j].items[id'[j]].of \in Add \ Nameless => id'[j] \in DOMAIN registry'
        BY <2>1, <2>4, <2>5, <1>k DEF Agrees, Grown
    <2>10. WhenWritten'
        BY <2>3, <2>8, <2>9, <1>k DEF WhenWritten, IdsIn
    <2>. QED  BY <2>6, <2>7, <2>10
<1>4. CASE j \in Finders /\ Open(j)
    <2>1. /\ Alone(j, "open") /\ pc[j] = "loaded"
          /\ file'["findings"] = "empty" /\ UNCHANGED <<copy, id, data, registry, faults>>
        BY <1>4, OpenOf
    <2>2. WhenQuiet /\ WhenWritten /\ AsWritten
        BY <2>1, <1>m
    <2>3. \A k \in FindingsJobs \ {j} : ~Busy(k) /\ ~Busy(k)'
        BY <2>1, <1>0, <1>k, <1>4 DEF Alone, SoleFinder, Busy
    <2>u. \A i : Unmirrored(i)' <=> Unmirrored(i)
        BY <2>1, <1>4, <1>k DEF Alone, Unmirrored
    <2>4. WhenQuiet'
        BY <2>1, <1>k, <1>4 DEF Alone, WhenQuiet
    <2>5. WhenWritten'
        BY <2>1, <2>2, <2>3, <2>u, <1>4, <1>k DEF Alone, WhenWritten, Busy, Agrees, IdsIn, Unmirrored
    <2>6. AsWritten'
        BY <2>1, <2>3, <1>4, <1>k DEF Alone, AsWritten, Busy
    <2>. QED  BY <2>4, <2>5, <2>6
<1>5. CASE j \in Finders /\ Write(j)
    <2>1. /\ Alone(j, "written") /\ pc[j] = "open"
          /\ file["findings"] = "empty" => file'["findings"] = "whole"
          /\ data'["findings"] = copy[j] /\ UNCHANGED <<copy, id, registry, faults>>
        BY <1>5, WriteOf
    <2>2. WhenQuiet /\ WhenWritten /\ AsWritten
        BY <2>1, <1>m
    <2>3. \A k \in FindingsJobs \ {j} : ~Busy(k) /\ ~Busy(k)'
        BY <2>1, <1>0, <1>k, <1>5 DEF Alone, SoleFinder, Busy
    <2>u. \A i : Unmirrored(i)' <=> Unmirrored(i)
        BY <2>1, <1>5, <1>k DEF Alone, Unmirrored
    <2>4. WhenQuiet'
        BY <2>1, <1>k, <1>5 DEF Alone, WhenQuiet
    <2>5. WhenWritten'
        BY <2>1, <2>2, <2>3, <2>u, <1>5, <1>k DEF Alone, WhenWritten, Busy, Agrees, IdsIn, Unmirrored
    <2>6. file'["findings"] = "whole"
        BY <2>1, <2>2, <1>5 DEF AsWritten
    <2>7. AsWritten'
        BY <2>1, <2>3, <2>6, <1>5, <1>k DEF Alone, AsWritten, Busy
    <2>. QED  BY <2>4, <2>5, <2>7
<1>6. CASE j \in FindingsJobs /\ (Mirror(j) \/ PostMergeEnds(j) \/ BackfillUpserts(j))
    <2>1. PICK s \in {"done", "failed"} : Alone(j, s)
        BY <1>6, EndOf
    <2>2. UNCHANGED <<copy, id, file, data>> /\ Busy(j) /\ (pc[j] = "written" \/ j \in Backfill)
        BY <1>6, EndOf
    <2>3. \A k \in FindingsJobs : ~Busy(k)'
        BY <2>1, <2>2, <1>0, <1>k, <1>6 DEF Alone, SoleFinder, Busy
    <2>4. AsWritten' /\ WhenWritten'
        BY <2>3, <1>k DEF AsWritten, WhenWritten, Busy
    <2>5. WhenQuiet /\ WhenWritten /\ AsWritten
        BY <1>6, <1>m DEF Mirror, PostMergeEnds, BackfillUpserts, Fault, FilesShape
    <2>u. \A i : Unmirrored(i) => Unmirrored(i)'
        BY <2>1, <2>2, <1>k DEF Alone, Unmirrored, Busy
    <2>6. CASE Mirror(j)
        <3>1. j \in Finders /\ pc[j] = "written" /\ pc'[j] = "done"
            BY <2>6, <1>k DEF Mirror, Goto, FilesShape
        <3>2. file["findings"] = "whole" /\ Items = copy[j].items /\ Items' = Items
            BY <2>2, <2>5, <3>1 DEF AsWritten, Items
        <3>3. /\ Agrees(Items, {id[j]}) /\ id[j] \in DOMAIN Items
              /\ j \in Adders => id[j] \notin DOMAIN registry /\ Items[id[j]].of = j
              /\ j \in Mark /\ Items[id[j]].of \in Add \ Nameless => id[j] \in DOMAIN registry
            BY <2>5, <3>1, <3>2 DEF WhenWritten, Busy, IdsIn
        <3>4. CASE registry' = Put(registry, id[j], copy[j].items[id[j]])
            <4>1. \A i \in DOMAIN Items : Items[i].of \in Add \ Nameless => i \in DOMAIN registry'
                BY <3>2, <3>3, <3>4 DEF Agrees, Put
            <4>2. ASSUME NEW i \in DOMAIN registry', ~Unmirrored(i)'
                  PROVE  i \in DOMAIN Items /\ registry'[i] = Items[i]
                <5>1. ~Unmirrored(i)
                    BY <2>u, <4>2
                <5>2. CASE i = id[j]
                    BY <3>2, <3>3, <3>4, <5>2 DEF Put
                <5>3. CASE i # id[j]
                    <6>1. i \in DOMAIN registry /\ registry'[i] = registry[i]
                        BY <3>4, <4>2, <5>3 DEF Put
                    <6>. QED  BY <3>3, <5>1, <5>3, <6>1 DEF Agrees
                <5>. QED  BY <5>2, <5>3
            <4>3. \A i \in DOMAIN registry' : i \in DOMAIN Items
                BY <3>2, <3>3, <3>4 DEF Agrees, Put
            <4>4. \A i \in DOMAIN registry' : registry'[i] # Items[i] => Unmirrored(i)'
                BY <4>2
            <4>5. Agrees(Items, {})'
                BY <3>2, <4>1, <4>3, <4>4 DEF Agrees
            <4>. QED  BY <2>2, <2>4, <3>2, <4>5 DEF WhenQuiet
        <3>5. CASE j \in Nameless /\ registry' = registry
            <4>1. \A i \in DOMAIN Items : Items[i].of \in Add \ Nameless => i \in DOMAIN registry
                BY <3>3, <3>5, <1>k DEF Agrees
            <4>2. \A i \in DOMAIN registry : i \in DOMAIN Items
                BY <3>3 DEF Agrees
            <4>3. ASSUME NEW i \in DOMAIN registry, ~Unmirrored(i)'
                  PROVE  registry[i] = Items[i]
                <5>1. ~Unmirrored(i)
                    BY <2>u, <4>3
                <5>2. ASSUME i = id[j] PROVE FALSE
                    <6>1. j \in Mark \cap Nameless
                        BY <3>3, <3>5, <4>3, <5>2, <1>k
                    <6>2. Unmirrored(i)'
                        BY <2>2, <3>1, <5>2, <6>1 DEF Unmirrored
                    <6>. QED  BY <4>3, <6>2
                <5>. QED  BY <3>3, <5>1, <5>2 DEF Agrees
            <4>4. \A i \in DOMAIN registry : registry[i] # Items[i] => Unmirrored(i)'
                BY <4>3
            <4>5. Agrees(Items, {})'
                BY <3>2, <3>5, <4>1, <4>2, <4>4 DEF Agrees
            <4>. QED  BY <2>2, <2>4, <3>2, <4>5 DEF WhenQuiet
        <3>6. \/ registry' = Put(registry, id[j], copy[j].items[id[j]])
              \/ j \in Nameless /\ registry' = registry
            BY <2>6 DEF Mirror, Fault, FilesShape
        <3>. QED  BY <3>4, <3>5, <3>6
    <2>7. CASE PostMergeEnds(j)
        <3>1. registry' = registry /\ j \in PostMerge /\ j \in Finders /\ pc[j] = "written"
            BY <2>7, <1>k DEF PostMergeEnds
        <3>2. file["findings"] = "whole" /\ Items = copy[j].items /\ Items' = Items
            BY <2>2, <2>5, <3>1 DEF AsWritten, Items
        <3>3. Agrees(Items, {id[j]}) /\ id[j] \notin DOMAIN registry /\ Items[id[j]].of \notin Add
            BY <2>5, <3>1, <3>2, <1>k, FilesAssumption DEF WhenWritten, Busy
        <3>4. Agrees(Items, {})'
            BY <2>u, <3>1, <3>2, <3>3 DEF Agrees, Unmirrored
        <3>. QED  BY <2>2, <2>4, <3>2, <3>4 DEF WhenQuiet
    <2>8. CASE BackfillUpserts(j)
        <3>1. j \in Backfill /\ pc[j] = "loaded"
            BY <2>8 DEF BackfillUpserts
        <3>2. file["findings"] = "whole" /\ Items = copy[j].items /\ Items' = Items
            BY <2>2, <2>5, <3>1 DEF AsWritten, Items
        <3>3. \A k \in Finders : ~Busy(k)
            BY <2>2, <1>0, <1>k, <3>1 DEF SoleFinder
        <3>4. Agrees(Items, {})
            BY <2>5, <3>3 DEF WhenQuiet, Busy
        <3>5. CASE registry' = registry
            BY <2>2, <2>4, <2>u, <3>2, <3>4, <3>5 DEF WhenQuiet, Agrees, Unmirrored
        <3>6. CASE registry' = [i \in IdsIn(copy[j]) \cup DOMAIN registry |->
                                   IF i \in IdsIn(copy[j]) THEN copy[j].items[i] ELSE registry[i]]
            <4>1. Agrees(Items, {})'
                BY <2>u, <3>2, <3>4, <3>6 DEF Agrees, IdsIn, Unmirrored
            <4>. QED  BY <2>2, <2>4, <3>2, <4>1 DEF WhenQuiet
        <3>. QED  BY <2>8, <3>5, <3>6 DEF BackfillUpserts
    <2>. QED  BY <1>6, <2>6, <2>7, <2>8
<1>7. CASE j \in Backfill /\ BackfillBegins(j)
    <2>1. /\ Alone(j, "loaded") /\ UNCHANGED <<id, file, data, registry, faults>>
          /\ file["findings"] = "whole" /\ copy'[j] = data["findings"]
          /\ \A k \in Job \ {j} : copy'[k] = copy[k]
        BY <1>7 DEF BackfillBegins
    <2>2. \A k \in FindingsJobs \ {j} : ~Busy(k)
        BY <1>0, <1>7, <1>k, NoOther DEF BackfillBegins
    <2>3. \A k \in FindingsJobs \ {j} : ~Busy(k)'
        BY <2>1, <2>2, <1>k DEF Alone, Busy
    <2>4. Agrees(Items, {})
        BY <2>1, <2>2, <1>m, <1>7, <1>k DEF WhenQuiet, Busy
    <2>u. \A i : Unmirrored(i)' <=> Unmirrored(i)
        BY <2>1, <1>7, <1>k DEF Alone, Unmirrored
    <2>5. WhenQuiet'
        BY <2>1, <2>4, <2>u DEF WhenQuiet, Agrees, Items, Unmirrored
    <2>6. WhenWritten'
        BY <2>3, <1>k, <1>7 DEF WhenWritten
    <2>7. AsWritten'
        BY <2>1, <2>3, <1>k, <1>7 DEF AsWritten, Busy
    <2>. QED  BY <2>5, <2>6, <2>7
<1>8. CASE j \in FindingsJobs /\ BackfillReads(j)
    <2>1. j \in Backfill
        BY <1>8 DEF BackfillReads
    <2>. QED  BY <2>1, <1>2, <1>7, <1>8, BackfillActs
<1>. QED
    <2>1. CASE j \in FindingsJobs
        BY <2>1, <1>0, <1>2, <1>3, <1>4, <1>5, <1>6, <1>8, FindingsActs DEF WholeIsDoc
    <2>. QED  BY <2>1, <1>1

\* The two, with what they need of the state's shape, hold on.
FindingsInv == FilesShape /\ KeptInv /\ MirrorInv

LEMMA FindingsInit == FilesInit => FindingsInv
<1>. SUFFICES ASSUME FilesInit PROVE FindingsInv
    OBVIOUS
<1>1. /\ \A j \in Job : pc[j] \in {"never", "idle"}
      /\ file["findings"] = "absent" /\ registry = <<>>
    BY DEF FilesInit, JsonFile
<1>2. /\ FindingsJobs \subseteq Job /\ Finders \subseteq Job /\ Adders \subseteq Job /\ Backfill \subseteq Job
    BY Kinds DEF FindingsJobs, Finders
<1>3. KeptInv
    BY <1>1, <1>2 DEF KeptInv, SoleFinder, Kept, WillKeep, WholeIsDoc, Busy
<1>4. DOMAIN registry = {} /\ DOMAIN Items = {}
    BY <1>1 DEF Items
<1>5. MirrorInv
    BY <1>1, <1>2, <1>4 DEF MirrorInv, WhenQuiet, WhenWritten, AsWritten, Busy, Agrees
<1>. QED  BY <1>3, <1>5, ShapeInit DEF FindingsInv

LEMMA FindingsNext == FindingsInv /\ [FilesNext]_fileVars => FindingsInv'
<1>1. ASSUME FindingsInv, NEW j \in Job, Step(j) PROVE FindingsInv'
    BY <1>1, ShapeStep, KeptStep, MirrorStep DEF FindingsInv
<1>2. ASSUME FindingsInv, UNCHANGED fileVars PROVE FindingsInv'
    <2>1. FilesShape'
        BY <1>2, ShapeNext DEF FindingsInv
    <2>2. KeptInv'
        BY <1>2 DEF FindingsInv, fileVars, KeptInv, FindingsSound, Purged, SoleFinder, Kept, WillKeep,
           WholeIsDoc, Busy,
            Has, IsDoc, IdsIn
    <2>3. MirrorInv'
        BY <1>2 DEF FindingsInv, fileVars, MirrorInv, FindingsSound, Purged, WhenQuiet, WhenWritten,
           AsWritten, Busy,
            Agrees, Items, IdsIn, Unmirrored
    <2>. QED  BY <2>1, <2>2, <2>3 DEF FindingsInv
<1>. QED  BY <1>1, <1>2 DEF FilesNext

LEMMA FindingsHold == FilesSpec => []FindingsInv
<1>. QED  BY FindingsInit, FindingsNext, PTL DEF FilesSpec

\* No finding is lost (findings.ts:36-45, 164-204): for any number of calls of
\* any kind, crashes and failing mirrors among them, while no two calls on
\* findings.json overlap and the project is not purged.
THEOREM FindingsAreKept == FilesSpec => []FindingsKept
<1>1. FindingsInv => FindingsKept
    BY DEF FindingsInv, FindingsKept, KeptInv, FindingsSound, Kept, Has
<1>. QED  BY <1>1, FindingsHold, PTL

\* Between calls, while none overlapped and none failed, the registry has every
\* finding of a worker whose directive carries a project id, nothing that
\* findings.json has not, and what it has is as in the file but where a
\* directive without a project id changed it (findings.ts:93-125).
THEOREM TheMirrorAgrees == FilesSpec => []MirrorAgrees
<1>1. ASSUME FindingsInv, "findings" \notin overlap, faults = 0, AtRest, ~Purged
      PROVE  /\ \A i \in DOMAIN Items : Items[i].of \in Add \ Nameless => i \in DOMAIN registry
             /\ \A i \in DOMAIN registry : i \in DOMAIN Items /\ (registry[i] # Items[i] => Unmirrored(i))
    <2>1. \A k \in Finders : pc[k] \notin {"open", "written"}
        BY <1>1, Kinds DEF AtRest
    <2>. QED  BY <1>1, <2>1 DEF FindingsInv, MirrorInv, FindingsSound, WhenQuiet, Agrees
<1>2. FindingsInv => MirrorAgrees
    BY <1>1 DEF MirrorAgrees
<1>. QED  BY <1>2, FindingsHold, PTL

-----------------------------------------------------------------------------
(* project.json: one writer, one identity.                                 *)

Writers == Claimers \cup Editors

\* What a step about findings.json leaves alone.
ProjectAside ==
    /\ \A k \in Writers \cup Delete : pc'[k] = pc[k] /\ copy'[k] = copy[k]
    /\ file'["project"] = file["project"] /\ data'["project"] = data["project"]
    /\ "project" \in overlap => "project" \in overlap'
    /\ UNCHANGED <<projects, claudeMd>>

LEMMA ProjectLeft ==
    ASSUME FilesShape, NEW j \in FindingsJobs, Step(j)
    PROVE  ProjectAside
<1>k. /\ j \notin Writers /\ j \notin Claimers /\ j \notin Delete /\ j \in Job
      /\ FileOf(j) = "findings" /\ Writers \cup Delete \subseteq Job
      /\ "findings" \in JsonFile /\ "project" \in JsonFile
      /\ Claim \cup Scaffolders \cup Create \cup InitCmd \subseteq Claimers
    BY Kinds DEF FindingsJobs, Writers, JsonFile, Claimers, Scaffolders
<1>g. \A s : Goto(j, s) => \A k \in Writers \cup Delete : pc'[k] = pc[k]
    BY <1>k DEF Goto, FilesShape
<1>c. \A v : copy' = [copy EXCEPT ![j] = v] => \A k \in Writers \cup Delete : copy'[k] = copy[k]
    BY <1>k DEF FilesShape
<1>l. \A v : Loads(j, v) =>
          /\ \A k \in Writers \cup Delete : pc'[k] = pc[k] /\ copy'[k] = copy[k]
          /\ "project" \in overlap => "project" \in overlap'
    BY <1>c, <1>g DEF Loads
<1>1. CASE Open(j)
    <2>1. Goto(j, "open") /\ file'["project"] = file["project"]
        BY <1>1, <1>k DEF Open, FilesShape
    <2>. QED  BY <2>1, <1>1, <1>g DEF Open, ProjectAside
<1>2. CASE Write(j)
    <2>1. /\ Goto(j, "written") /\ file'["project"] = file["project"]
          /\ data'["project"] = data["project"] /\ UNCHANGED <<copy, projects, claudeMd, overlap>>
        BY <1>2, <1>k DEF Write, FilesShape
    <2>. QED  BY <2>1, <1>g DEF ProjectAside
<1>3. CASE Dies(j)  BY <1>3, <1>g DEF Dies, ProjectAside
<1>4. CASE LoadToAdd(j) \/ LoadPostMerge(j)
    BY <1>4, <1>g, <1>l DEF LoadToAdd, LoadPostMerge, LoadsToAdd, Throws, ProjectAside
<1>5. CASE LoadToMark(j) \/ LoadToCliMark(j)
    BY <1>5, <1>g, <1>l DEF LoadToMark, LoadToCliMark, LoadsToMark, Throws, ProjectAside
<1>6. CASE Mirror(j) \/ PostMergeEnds(j)
    BY <1>6, <1>g DEF Mirror, PostMergeEnds, ProjectAside
<1>7. CASE BackfillReads(j)
    BY <1>7, <1>g, <1>l DEF BackfillReads, Throws, ProjectAside
<1>8. CASE BackfillUpserts(j)
    BY <1>8, <1>g DEF BackfillUpserts, ProjectAside
<1>9. ~Scaffold(j) /\ ~LoadToClaim(j) /\ ~EnlistBuild(j) /\ ~EnlistProject(j) /\ ~InitEnds(j)
    BY <1>k DEF Scaffold, LoadToClaim, EnlistBuild, EnlistProject, InitEnds
<1>10. ~Unregister(j) /\ ~Purge(j) /\ ~LoadToEdit(j) /\ ~EditDone(j)
    BY <1>k DEF Unregister, Purge, LoadToEdit, EditDone, Writers
<1>. QED  BY <1>1, <1>2, <1>3, <1>4, <1>5, <1>6, <1>7, <1>8, <1>9, <1>10 DEF Step

\* project.json says an identity if it is whole, and none if it is not there.
MetaInv ==
    /\ data["project"] \in Meta \cup {None}
    /\ file["project"] = "whole" => data["project"] \in Meta
    /\ file["project"] = "absent" => data["project"] = None
    /\ \A k \in Writers : Busy(k) => copy[k] \in Meta
    /\ projects \subseteq Claimers

\* Without an overlap one job writes it, with the identity that is there.
IdentityInv ==
    "project" \notin overlap =>
        /\ \A j, k \in Writers : pc[j] \in {"loaded", "open"} /\ pc[k] \in {"loaded", "open"} => j = k
        /\ \A k \in Writers : pc[k] \in {"loaded", "open"} /\ data["project"] # None =>
               copy[k].id = data["project"].id

\* A writer of project.json begins with what is there, or an identity of its own.
BeginsProject(j) ==
    /\ j \in Writers /\ pc[j] = "idle" /\ Alone(j, "loaded")
    /\ copy'[j] \in Meta /\ (data["project"] = None \/ copy'[j].id = data["project"].id)
    /\ \A k \in Job \ {j} : copy'[k] = copy[k]
    /\ "project" \in overlap => "project" \in overlap'
    /\ "project" \notin overlap' => \A k \in Writers \ {j} : ~Busy(k)
    /\ UNCHANGED <<file, data, projects>>

\* It adopts what is there, and writes nothing;
Adopts(j) ==
    /\ j \in Writers /\ pc[j] = "idle" /\ Alone(j, "written")
    /\ copy'[j] \in Meta /\ \A k \in Job \ {j} : copy'[k] = copy[k]
    /\ UNCHANGED <<file, data, projects, overlap>>

\* or does what changes neither the file nor what is to be written.
Passes(j) ==
    /\ \E s \in {"idle", "done", "failed", "dead"} : Alone(j, s)
    /\ \A k \in Writers : copy'[k] = copy[k]
    /\ UNCHANGED <<file, data, overlap>> /\ projects' \subseteq Claimers

LEMMA NoneTaken ==
    ASSUME FilesShape, NEW j \in Writers, ~Overlaps(j)
    PROVE  \A k \in Writers \ {j} : ~Busy(k)
<1>1. \A k \in Writers : k \in Job /\ k \notin Delete /\ FileOf(k) = "project"
    BY Kinds DEF Writers, FileOf
<1>. QED  BY <1>1 DEF Overlaps

LEMMA BeginsToClaim ==
    ASSUME FilesShape, MetaInv, NEW j \in Job, LoadToClaim(j)
    PROVE  BeginsProject(j) \/ Adopts(j) \/ Passes(j)
<1>0. j \in Writers /\ j \in Claimers /\ pc[j] = "idle" /\ FileOf(j) = "project" /\ Writers \subseteq Job
    BY Kinds DEF LoadToClaim, Writers, FileOf
<1>1. CASE Unreadable("project")
    <2>1. Throws(j) /\ UNCHANGED <<file, data, projects>>
        BY <1>1 DEF LoadToClaim
    <2>2. Alone(j, "failed")
        BY <2>1, GoneTo DEF Throws
    <2>. QED  BY <2>1, <2>2 DEF Throws, Passes, MetaInv
<1>2. CASE file["project"] = "whole"
    <2>1. /\ copy' = [copy EXCEPT ![j] = data["project"]] /\ Goto(j, "written")
          /\ UNCHANGED <<file, data, projects, overlap>>
        BY <1>2 DEF LoadToClaim, Unreadable
    <2>2. Alone(j, "written")
        BY <2>1, GoneTo
    <2>3. copy'[j] = data["project"] /\ \A k \in Job \ {j} : copy'[k] = copy[k]
        BY <2>1 DEF FilesShape
    <2>. QED  BY <1>0, <1>2, <2>1, <2>2, <2>3 DEF Adopts, MetaInv
<1>3. CASE ~Unreadable("project") /\ file["project"] # "whole"
    <2>. DEFINE mine == [id |-> j, cap |-> 0, auto |-> FALSE]
    <2>1. Loads(j, mine) /\ UNCHANGED <<file, data, projects>>
        BY <1>3 DEF LoadToClaim
    <2>2. file["project"] = "absent" /\ data["project"] = None
        BY <1>3 DEF FilesShape, Unreadable, JsonFile, MetaInv
    <2>3. mine \in Meta
        BY <1>0 DEF Meta
    <2>. HIDE DEF mine
    <2>4. /\ Alone(j, "loaded") /\ copy'[j] = mine
          /\ \A k \in Job \ {j} : copy'[k] = copy[k]
          /\ overlap \subseteq overlap' /\ ("project" \notin overlap' => ~Overlaps(j))
        BY <2>1, <1>0, LoadsAlone
    <2>. QED  BY <1>0, <2>1, <2>2, <2>3, <2>4, NoneTaken DEF BeginsProject
<1>. QED  BY <1>1, <1>2, <1>3

\* The three edits keep the identity.
LEMMA Edited ==
    ASSUME NEW old \in Meta, NEW mine,
           \/ \E cap \in 0..1, auto \in BOOLEAN : mine = Replaced(old, cap, auto)
           \/ \E cap \in 0..1 : mine = Merged(old, cap)
           \/ mine = RaisedCap(old)
    PROVE  mine \in Meta /\ mine.id = old.id
<1>1. CASE \E cap \in 0..1, auto \in BOOLEAN : mine = Replaced(old, cap, auto)
    BY <1>1 DEF Meta, Replaced
<1>2. CASE \E cap \in 0..1 : mine = Merged(old, cap)
    BY <1>2 DEF Meta, Merged
<1>3. CASE mine = RaisedCap(old)
    BY <1>3 DEF Meta, RaisedCap
<1>. QED  BY <1>1, <1>2, <1>3

LEMMA BeginsToEdit ==
    ASSUME FilesShape, MetaInv, NEW j \in Job, LoadToEdit(j)
    PROVE  BeginsProject(j) \/ Passes(j)
<1>. DEFINE old == data["project"]
<1>0. j \in Writers /\ pc[j] = "idle" /\ FileOf(j) = "project" /\ Writers \subseteq Job
    BY Kinds DEF LoadToEdit, Writers, FileOf
<1>1. CASE file["project"] # "whole"
    <2>1. Throws(j) /\ UNCHANGED <<file, data, projects>>
        BY <1>1 DEF LoadToEdit
    <2>2. Alone(j, "failed")
        BY <2>1, GoneTo DEF Throws
    <2>. QED  BY <2>1, <2>2 DEF Throws, Passes, MetaInv
<1>2. CASE file["project"] = "whole"
    <2>1. old \in Meta
        BY <1>2 DEF MetaInv
    <2>2. PICK mine : Loads(j, mine) /\ (\/ \E cap \in 0..1, auto \in BOOLEAN : mine = Replaced(old, cap, auto)
                                         \/ \E cap \in 0..1 : mine = Merged(old, cap)
                                         \/ mine = RaisedCap(old))
        BY <1>2 DEF LoadToEdit
    <2>3. Loads(j, mine) /\ mine \in Meta /\ mine.id = old.id
        BY <2>1, <2>2, Edited
    <2>4. /\ Alone(j, "loaded") /\ copy'[j] = mine
          /\ \A k \in Job \ {j} : copy'[k] = copy[k]
          /\ overlap \subseteq overlap' /\ ("project" \notin overlap' => ~Overlaps(j))
        BY <2>3, <1>0, LoadsAlone
    <2>5. UNCHANGED <<file, data, projects>>
        BY DEF LoadToEdit
    <2>. QED  BY <1>0, <2>3, <2>4, <2>5, NoneTaken DEF BeginsProject
<1>. QED  BY <1>1, <1>2

\* A purge, to the writers of project.json.
Purges(j) ==
    /\ j \in Delete /\ pc[j] = "loaded" /\ pc'[j] = "purged"
    /\ \A k \in Writers : pc'[k] = IF pc[k] = "open" THEN "written" ELSE pc[k]
    /\ file'["project"] = "absent" /\ data'["project"] = None
    /\ UNCHANGED <<copy, overlap, projects>>

\* What a job of project.json does.
LEMMA ProjectActs ==
    ASSUME FilesShape, MetaInv, NEW j \in Job \ FindingsJobs, Step(j)
    PROVE  \/ j \in Writers /\ (Open(j) \/ Write(j))
           \/ BeginsProject(j) \/ Adopts(j) \/ Passes(j) \/ Purges(j)
           \/ j \in Delete /\ Alone(j, "loaded") /\ UNCHANGED <<file, data, overlap>> /\ projects' \subseteq Claimers
              /\ \A k \in Writers : copy'[k] = copy[k]
<1>k. /\ j \in Writers \cup Delete /\ Claimers \subseteq Writers /\ Editors \subseteq Writers
      /\ Claim \cup Scaffolders \cup Create \cup InitCmd \subseteq Claimers
      /\ Writers \subseteq Job /\ \A k \in Delete : k \notin Writers
    BY Kinds DEF Writers, Claimers, Scaffolders, Job, FindingsJobs
<1>m. projects \subseteq Claimers /\ \A k \in Writers : Busy(k) => copy[k].id \in Claimers
    BY DEF MetaInv, Meta
<1>p. ASSUME NEW s \in {"idle", "done", "failed", "dead"}, Goto(j, s), UNCHANGED <<copy, file, data, overlap>>,
             projects' \subseteq Claimers
      PROVE  Passes(j)
    BY <1>p, GoneTo DEF Passes
<1>1. CASE Open(j) \/ Write(j)
    BY <1>1, <1>k DEF Open, Write, FilesShape
<1>2. CASE Dies(j)  BY <1>2, <1>m, <1>p DEF Dies
<1>3. CASE LoadToAdd(j) \/ LoadPostMerge(j) \/ PostMergeEnds(j) \/ LoadToMark(j) \/ LoadToCliMark(j)
           \/ Mirror(j) \/ BackfillReads(j) \/ BackfillUpserts(j)
    <2>k. /\ j \notin Finders /\ j \notin Backfill
          /\ Add \subseteq Finders /\ PostMerge \subseteq Finders /\ Mark \subseteq Finders /\ CliMark \subseteq Finders
        BY DEF FindingsJobs, Finders, Adders
    <2>1. ~LoadToAdd(j)
        BY <2>k DEF LoadToAdd
    <2>2. ~LoadPostMerge(j)
        BY <2>k DEF LoadPostMerge
    <2>3. ~PostMergeEnds(j)
        BY <2>k DEF PostMergeEnds
    <2>4. ~LoadToMark(j)
        BY <2>k DEF LoadToMark
    <2>5. ~LoadToCliMark(j)
        BY <2>k DEF LoadToCliMark
    <2>6. ~Mirror(j)
        BY <2>k DEF Mirror
    <2>7. ~BackfillReads(j) /\ ~BackfillUpserts(j)
        BY <2>k DEF BackfillReads, BackfillUpserts
    <2>. QED  BY <1>3, <2>1, <2>2, <2>3, <2>4, <2>5, <2>6, <2>7
<1>4. CASE Scaffold(j)
    <2>1. UNCHANGED <<copy, file, data, overlap, projects>> /\ pc[j] = "idle"
        BY <1>4 DEF Scaffold
    <2>2. CASE Goto(j, "failed")
        BY <2>1, <2>2, <1>m, <1>p
    <2>3. CASE UNCHANGED pc
        BY <2>1, <2>3, <1>m DEF Passes, Alone
    <2>. QED  BY <1>4, <2>2, <2>3 DEF Scaffold
<1>5. CASE LoadToClaim(j)  BY <1>5, BeginsToClaim
<1>6. CASE EnlistBuild(j) \/ EnlistProject(j)
    <2>1. Enlisted(j) /\ j \in Writers
        BY <1>6, <1>k DEF EnlistBuild, EnlistProject
    <2>2. projects' \subseteq Claimers
        BY <2>1, <1>m DEF Enlisted, Busy
    <2>. QED  BY <2>1, <2>2, <1>p DEF Enlisted
<1>7. CASE InitEnds(j) \/ EditDone(j)  BY <1>7, <1>m, <1>p DEF InitEnds, EditDone
<1>8. CASE Unregister(j)
    <2>1. PICK s \in {"loaded", "done"} : Goto(j, s)
        BY <1>8 DEF Unregister
    <2>2. Alone(j, s)
        BY <2>1, GoneTo
    <2>3. /\ \A k \in Writers : copy'[k] = copy[k]
          /\ UNCHANGED <<file, data, overlap>> /\ projects' \subseteq Claimers /\ j \in Delete
        BY <1>8, <1>k, <1>m DEF Unregister, FilesShape
    <2>. QED  BY <2>1, <2>2, <2>3 DEF Passes
<1>9. CASE Purge(j)
    <2>1. CASE Goto(j, "failed") /\ UNCHANGED <<file, data>>
        BY <2>1, <1>9, <1>m, <1>p DEF Purge
    <2>2. CASE /\ pc' = [k \in Job |-> IF k = j THEN "purged" ELSE IF pc[k] = "open" THEN "written" ELSE pc[k]]
               /\ file' = [f \in JsonFile |-> "absent"]
               /\ data' = [f \in JsonFile |-> None]
        BY <2>2, <1>9, <1>k DEF Purge, Purges, JsonFile
    <2>. QED  BY <2>1, <2>2, <1>9 DEF Purge
<1>10. CASE LoadToEdit(j)  BY <1>10, BeginsToEdit
<1>. QED  BY <1>1, <1>2, <1>3, <1>4, <1>5, <1>6, <1>7, <1>8, <1>9, <1>10 DEF Step

\* The writes of a job of project.json.
LEMMA OpensProject ==
    ASSUME FilesShape, NEW j \in Writers, Open(j)
    PROVE  /\ Alone(j, "open") /\ pc[j] = "loaded"
           /\ file'["project"] = "empty" /\ UNCHANGED <<copy, data, projects, overlap>>
<1>1. j \in Job /\ FileOf(j) = "project" /\ "project" \in JsonFile
    BY Kinds DEF JsonFile, FileOf, Writers
<1>. QED  BY <1>1, GoneTo DEF Open, FilesShape

LEMMA WritesProject ==
    ASSUME FilesShape, NEW j \in Writers, Write(j)
    PROVE  /\ Alone(j, "written") /\ pc[j] = "open"
           /\ file'["project"] \in {"whole", "garbled"} /\ data'["project"] = copy[j]
           /\ UNCHANGED <<copy, projects, overlap>>
<1>1. j \in Job /\ FileOf(j) = "project" /\ "project" \in JsonFile
    BY Kinds DEF JsonFile, FileOf, Writers
<1>2. pc[j] = "open" /\ Goto(j, "written") /\ UNCHANGED <<copy, projects, overlap>>
    BY DEF Write
<1>3. data'["project"] = copy[j]
    BY <1>1 DEF Write, FilesShape
<1>4. PICK tail \in BOOLEAN :
         file' = [file EXCEPT !["project"] = IF tail \/ file["project"] = "garbled" THEN "garbled" ELSE "whole"]
    BY <1>1 DEF Write
<1>5. file'["project"] \in {"whole", "garbled"}
    BY <1>1, <1>4 DEF FilesShape
<1>. QED  BY <1>1, <1>2, <1>3, <1>5, GoneTo

\* What IdentityKept says of a step.
KeepsIdentity ==
    data["project"] # None /\ "project" \notin overlap' =>
        \/ data'["project"] # None /\ data'["project"].id = data["project"].id
        \/ \E j \in Delete : pc[j] # "purged" /\ pc'[j] = "purged"

LEMMA IdentityStep ==
    ASSUME FilesShape, MetaInv, IdentityInv, NEW j \in Job, Step(j)
    PROVE  MetaInv' /\ IdentityInv' /\ KeepsIdentity
<1>k. Writers \subseteq Job /\ Delete \subseteq Job /\ \A k \in Delete : k \notin Writers
    BY Kinds DEF Writers
<1>s. "project" \in JsonFile
    BY DEF JsonFile
<1>1. CASE j \in FindingsJobs
    <2>1. ProjectAside
        BY <1>1, ProjectLeft
    <2>2. MetaInv'
        BY <2>1 DEF ProjectAside, MetaInv, Busy
    <2>3. IdentityInv' /\ KeepsIdentity
        BY <2>1 DEF ProjectAside, IdentityInv, KeepsIdentity
    <2>. QED  BY <2>2, <2>3
<1>2. CASE j \in Writers /\ Open(j)
    <2>1. /\ Alone(j, "open") /\ pc[j] = "loaded"
          /\ file'["project"] = "empty" /\ UNCHANGED <<copy, data, projects, overlap>>
        BY <1>2, OpensProject
    <2>2. MetaInv'
        BY <2>1, <1>k, <1>2 DEF MetaInv, Busy, Alone
    <2>3. IdentityInv' /\ KeepsIdentity
        BY <2>1, <1>k, <1>2 DEF IdentityInv, KeepsIdentity, Alone
    <2>. QED  BY <2>2, <2>3
<1>3. CASE j \in Writers /\ Write(j)
    <2>1. /\ Alone(j, "written") /\ pc[j] = "open"
          /\ file'["project"] \in {"whole", "garbled"} /\ data'["project"] = copy[j]
          /\ UNCHANGED <<copy, projects, overlap>>
        BY <1>3, WritesProject
    <2>2. copy[j] \in Meta
        BY <2>1, <1>3 DEF MetaInv, Busy
    <2>3. MetaInv'
        BY <2>1, <2>2, <1>k, <1>3 DEF MetaInv, Busy, Alone
    <2>4. "project" \notin overlap => \A k \in Writers : pc'[k] \notin {"loaded", "open"}
        BY <2>1, <1>k, <1>3 DEF IdentityInv, Alone
    <2>5. IdentityInv'
        BY <2>1, <2>4 DEF IdentityInv
    <2>6. KeepsIdentity
        BY <2>1, <2>2, <1>3, NoneAssumption DEF IdentityInv, KeepsIdentity
    <2>. QED  BY <2>3, <2>5, <2>6
<1>4. CASE BeginsProject(j)
    <2>1. MetaInv'
        BY <1>4, <1>k DEF BeginsProject, MetaInv, Busy, Alone
    <2>2. "project" \notin overlap' => \A k \in Writers \ {j} : pc'[k] \notin {"loaded", "open"}
        BY <1>4, <1>k DEF BeginsProject, Busy, Alone
    <2>3. IdentityInv'
        BY <1>4, <2>2, <1>k DEF BeginsProject, IdentityInv, Alone
    <2>4. KeepsIdentity
        BY <1>4 DEF BeginsProject, KeepsIdentity
    <2>. QED  BY <2>1, <2>3, <2>4
<1>5. CASE Adopts(j)
    <2>1. MetaInv'
        BY <1>5, <1>k DEF Adopts, MetaInv, Busy, Alone
    <2>2. IdentityInv' /\ KeepsIdentity
        BY <1>5, <1>k DEF Adopts, IdentityInv, KeepsIdentity, Alone
    <2>. QED  BY <2>1, <2>2
<1>6. CASE Passes(j)
    <2>1. MetaInv'
        BY <1>6, <1>k DEF Passes, MetaInv, Busy, Alone
    <2>2. IdentityInv' /\ KeepsIdentity
        BY <1>6, <1>k DEF Passes, IdentityInv, KeepsIdentity, Alone
    <2>. QED  BY <2>1, <2>2
<1>7. CASE Purges(j)
    <2>1. MetaInv'
        BY <1>7, <1>k DEF Purges, MetaInv, Busy
    <2>2. IdentityInv' /\ KeepsIdentity
        BY <1>7, <1>k DEF Purges, IdentityInv, KeepsIdentity
    <2>. QED  BY <2>1, <2>2
<1>8. CASE /\ j \in Delete /\ Alone(j, "loaded") /\ UNCHANGED <<file, data, overlap>> /\ projects' \subseteq Claimers
           /\ \A k \in Writers : copy'[k] = copy[k]
    <2>1. \A k \in Writers : pc'[k] = pc[k]
        BY <1>8, <1>k DEF Alone
    <2>2. MetaInv'
        BY <1>8, <2>1 DEF MetaInv, Busy
    <2>3. IdentityInv' /\ KeepsIdentity
        BY <1>8, <2>1 DEF IdentityInv, KeepsIdentity
    <2>. QED  BY <2>2, <2>3
<1>. QED  BY <1>1, <1>2, <1>3, <1>4, <1>5, <1>6, <1>7, <1>8, ProjectActs

ProjectInv == FilesShape /\ MetaInv /\ IdentityInv

LEMMA ProjectInit == FilesInit => ProjectInv
<1>. SUFFICES ASSUME FilesInit PROVE ProjectInv
    OBVIOUS
<1>1. /\ \A j \in Job : pc[j] \in {"never", "idle"}
      /\ file["project"] = "absent" /\ data["project"] = None /\ projects = {}
    BY DEF FilesInit, JsonFile
<1>2. Writers \subseteq Job
    BY Kinds DEF Writers
<1>. QED  BY <1>1, <1>2, ShapeInit DEF ProjectInv, MetaInv, IdentityInv, Busy

LEMMA ProjectNext == ProjectInv /\ [FilesNext]_fileVars => ProjectInv' /\ (KeepsIdentity \/ UNCHANGED fileVars)
<1>1. ASSUME ProjectInv, NEW j \in Job, Step(j) PROVE ProjectInv' /\ KeepsIdentity
    BY <1>1, ShapeStep, IdentityStep DEF ProjectInv
<1>2. ASSUME ProjectInv, UNCHANGED fileVars PROVE ProjectInv'
    <2>1. FilesShape'
        BY <1>2, ShapeNext DEF ProjectInv
    <2>. QED  BY <2>1, <1>2 DEF ProjectInv, fileVars, MetaInv, IdentityInv, Busy
<1>. QED  BY <1>1, <1>2 DEF FilesNext

LEMMA ProjectHolds == FilesSpec => []ProjectInv
<1>1. ProjectInv /\ [FilesNext]_fileVars => ProjectInv'
    BY ProjectNext
<1>. QED  BY <1>1, ProjectInit, PTL DEF FilesSpec

\* A project's identity is written once and only a purge takes it away
\* (project-metadata.ts:105-152), whatever is edited, adopted or left truncated.
THEOREM IdentitiesAreKept == FilesSpec => IdentityKept
<1>1. ProjectInv /\ [FilesNext]_fileVars =>
         [data["project"] # None /\ "project" \notin overlap' =>
             \/ data'["project"] # None /\ data'["project"].id = data["project"].id
             \/ \E j \in Delete : pc[j] # "purged" /\ pc'[j] = "purged"]_fileVars
    BY ProjectNext DEF KeepsIdentity
<1>. QED  BY <1>1, ProjectHolds, PTL DEF FilesSpec, IdentityKept

-----------------------------------------------------------------------------
(* Types: the adders that have begun bound the numbers given.              *)

\* The adders that have begun have taken all the numbers there are.
Begun == {a \in Adders : pc[a] \notin {"never", "idle"}}
Fits(doc, n) == IsDoc(doc) /\ doc.next <= n + 1

NumbersInv ==
    /\ file["findings"] = "whole" => Fits(data["findings"], Cardinality(Begun))
    /\ \A k \in Finders : Busy(k) => Fits(copy[k], Cardinality(Begun)) /\ id[k] \in IdsIn(copy[k])
    /\ \A k \in Backfill : pc[k] = "loaded" => Fits(copy[k], Cardinality(Begun))
    /\ \A i \in DOMAIN registry : i \in 1..Cardinality(Begun) /\ registry[i] \in Row
    /\ \A k \in Finders : id[k] \in 1..Cardinality(Begun) \cup {None}

\* What few actions touch.
RestInv ==
    /\ claudeMd \in BOOLEAN /\ overlap \subseteq JsonFile /\ faults \in 0..MaxFaults
    /\ \A k \in Job \ Finders : id[k] \in {1, None}

LEMMA Numbers ==
    ASSUME NEW S, NEW T, S \subseteq T, T \subseteq Adders
    PROVE  Cardinality(S) \in Nat /\ Cardinality(T) \in Nat /\ Cardinality(S) <= Cardinality(T)
<1>1. IsFiniteSet(T)
    BY FilesAssumption, FS_Subset DEF Job, Finders, Adders
<1>. QED  BY <1>1, FS_Subset, FS_CardinalityType

\* A number that was taken stays taken.
LEMMA FitsMore ==
    ASSUME NEW doc, NEW m \in Nat, NEW n \in Nat, m <= n, Fits(doc, m)
    PROVE  Fits(doc, n)
<1>1. doc.next \in Nat \ {0}
    BY DEF Fits, IsDoc
<1>. QED  BY <1>1 DEF Fits

LEMMA FitsIds ==
    ASSUME NEW doc, NEW n \in Nat, Fits(doc, n)
    PROVE  \A i \in IdsIn(doc) : i \in 1..n /\ doc.items[i] \in Finding
<1>1. doc.next \in Nat \ {0} /\ doc.next <= n + 1
      /\ \A i \in IdsIn(doc) : i \in Nat \ {0} /\ i < doc.next /\ doc.items[i] \in Finding
    BY DEF Fits, IsDoc
<1>. QED  BY <1>1

\* The same, when the step of no adder goes back and nobody gets a new number.
NumbersLeft ==
    /\ Begun \subseteq Begun'
    /\ \A k \in FindingsJobs : Busy(k)' => Busy(k) /\ copy'[k] = copy[k]
    /\ \A k \in Finders : id'[k] = id[k]
    /\ file'["findings"] = "whole" => file["findings"] = "whole" /\ data'["findings"] = data["findings"]

LEMMA NumbersStay ==
    ASSUME FilesShape, NumbersInv, NumbersLeft, registry' = registry
    PROVE  NumbersInv'
<1>. DEFINE m == Cardinality(Begun)
            n == Cardinality(Begun')
<1>1. m \in Nat /\ n \in Nat /\ m <= n
    <2>1. Begun \subseteq Begun' /\ Begun' \subseteq Adders
        BY DEF NumbersLeft, Begun
    <2>. QED  BY <2>1, Numbers
<1>2. \A doc : Fits(doc, m) => Fits(doc, n)
    BY <1>1, FitsMore
<1>3. /\ file["findings"] = "whole" => Fits(data["findings"], m)
      /\ \A k \in Finders : Busy(k) => Fits(copy[k], m) /\ id[k] \in IdsIn(copy[k])
      /\ \A k \in Backfill : pc[k] = "loaded" => Fits(copy[k], m)
      /\ \A i \in DOMAIN registry : i \in 1..m /\ registry[i] \in Row
      /\ \A k \in Finders : id[k] \in 1..m \cup {None}
    BY DEF NumbersInv
<1>. HIDE DEF m, n
<1>4. /\ file'["findings"] = "whole" => Fits(data'["findings"], n)
      /\ \A k \in Finders : Busy(k)' => Fits(copy'[k], n) /\ id'[k] \in IdsIn(copy'[k])
    BY <1>2, <1>3 DEF NumbersLeft, FindingsJobs
<1>5. \A k \in Backfill : pc'[k] = "loaded" => Fits(copy'[k], n)
    BY <1>2, <1>3 DEF NumbersLeft, FindingsJobs, Busy, FilesShape
<1>6. /\ \A i \in DOMAIN registry' : i \in 1..n /\ registry'[i] \in Row
      /\ \A k \in Finders : id'[k] \in 1..n \cup {None}
    BY <1>1, <1>3 DEF NumbersLeft
<1>. QED  BY <1>4, <1>5, <1>6 DEF NumbersInv, Fits, IsDoc, IdsIn, n

LEMMA NumbersStep ==
    ASSUME FilesShape, NumbersInv, NEW j \in Job, Step(j)
    PROVE  NumbersInv'
<1>. DEFINE m == Cardinality(Begun)
            n == Cardinality(Begun')
<1>k. /\ FindingsJobs \subseteq Job /\ Finders \subseteq FindingsJobs /\ Adders \subseteq Finders
      /\ \A k \in Finders : k \notin Backfill
      /\ Backfill \subseteq FindingsJobs /\ \A k \in FindingsJobs : k \notin Delete
    BY Kinds DEF FindingsJobs, Finders
<1>0. FilesShape'
    BY ShapeStep
<1>d. file["findings"] = "whole" => IsDoc(data["findings"])
    BY DEF NumbersInv, Fits
<1>g. ASSUME NEW s, s \notin {"never", "idle"}, Alone(j, s) PROVE Begun \subseteq Begun'
    BY <1>g DEF Begun, Alone, Job, Finders
<1>1. CASE j \notin FindingsJobs
    <2>1. CASE FindingsAside
        <3>1. NumbersLeft /\ registry' = registry
            BY <2>1, <1>k DEF FindingsAside, NumbersLeft, Begun, Busy
        <3>. QED  BY <3>1, NumbersStay
    <2>2. CASE PurgeOf(j)
        <3>1. NumbersLeft /\ registry' = registry
            BY <2>2, <1>k DEF PurgeOf, NumbersLeft, Begun, Busy, JsonFile
        <3>. QED  BY <3>1, NumbersStay
    <2>. QED  BY <1>1, <2>1, <2>2, FindingsLeft
<1>2. CASE j \in FindingsJobs /\ Quits(j)
    <2>1. PICK s \in {"failed", "dead"} : Alone(j, s)
        BY <1>2 DEF Quits
    <2>2. NumbersLeft /\ registry' = registry
        BY <2>1, <1>g, <1>2, <1>k DEF NumbersLeft, Quits, Alone, Busy
    <2>. QED  BY <2>2, NumbersStay
<1>3. CASE j \in Finders /\ pc[j] = "idle" /\ Begins(j)
    <2>. DEFINE old == Readable("findings")
    <2>1. /\ Alone(j, "loaded") /\ UNCHANGED <<file, data, registry>>
          /\ Grown(old, copy'[j], id'[j])
          /\ j \in Adders => id'[j] \notin IdsIn(old)
          /\ j \notin Adders => id'[j] \in IdsIn(old)
          /\ \A k \in Job \ {j} : copy'[k] = copy[k] /\ id'[k] = id[k]
          /\ file["findings"] \in {"absent", "whole"}
        BY <1>3 DEF Begins
    <2>2. Begun \subseteq Begun' /\ Begun' \subseteq Adders
        BY <2>1, <1>g DEF Begun
    <2>3. m \in Nat /\ n \in Nat /\ m <= n
        BY <2>2, Numbers
    <2>4. j \in Adders => n = m + 1
        <3>1. ASSUME j \in Adders PROVE Begun' = Begun \cup {j} /\ j \notin Begun
            BY <2>1, <1>3, <1>k, <3>1 DEF Begun, Alone
        <3>2. IsFiniteSet(Begun)
            BY FilesAssumption, FS_Subset DEF Job, Finders, Begun
        <3>. QED  BY <3>1, <3>2, FS_AddElement
    <2>5. \A doc : Fits(doc, m) => Fits(doc, n)
        BY <2>3, FitsMore
    <2>6. Fits(old, m)
        <3>1. CASE file["findings"] = "whole"
            BY <3>1 DEF Readable, NumbersInv
        <3>2. CASE file["findings"] = "absent"
            BY <3>2, <2>3, EmptyDoc DEF Readable, Fits, NoFindings
        <3>. QED  BY <2>1, <3>1, <3>2
    <2>7. /\ file["findings"] = "whole" => Fits(data["findings"], m)
          /\ \A k \in Finders : Busy(k) => Fits(copy[k], m) /\ id[k] \in IdsIn(copy[k])
          /\ \A k \in Backfill : pc[k] = "loaded" => Fits(copy[k], m)
          /\ \A i \in DOMAIN registry : i \in 1..m /\ registry[i] \in Row
          /\ \A k \in Finders : id[k] \in 1..m \cup {None}
        BY DEF NumbersInv
    <2>. HIDE DEF m, n, old
    <2>8. Fits(copy'[j], n) /\ id'[j] \in IdsIn(copy'[j])
        <3>1. IsDoc(copy'[j]) /\ id'[j] \in IdsIn(copy'[j])
              /\ copy'[j].next = IF id'[j] \in IdsIn(old) THEN old.next ELSE old.next + 1
            BY <2>1 DEF Grown
        <3>2. old.next \in Nat \ {0} /\ old.next <= m + 1
            BY <2>6 DEF Fits, IsDoc
        <3>3. copy'[j].next <= n + 1
            BY <2>1, <2>3, <2>4, <3>1, <3>2
        <3>. QED  BY <3>1, <3>3 DEF Fits
    <2>9. id'[j] \in 1..n
        BY <2>3, <2>8, FitsIds
    <2>10. /\ file'["findings"] = "whole" => Fits(data'["findings"], n)
           /\ \A k \in Finders : Busy(k)' => Fits(copy'[k], n) /\ id'[k] \in IdsIn(copy'[k])
        BY <2>1, <2>5, <2>7, <2>8, <1>k DEF Busy, Alone
    <2>11. \A k \in Backfill : pc'[k] = "loaded" => Fits(copy'[k], n)
        BY <2>1, <2>5, <2>7, <1>k, <1>3 DEF Alone
    <2>12. /\ \A i \in DOMAIN registry' : i \in 1..n /\ registry'[i] \in Row
           /\ \A k \in Finders : id'[k] \in 1..n \cup {None}
        BY <2>1, <2>3, <2>7, <2>9, <1>k
    <2>. QED  BY <2>10, <2>11, <2>12 DEF NumbersInv, Fits, IsDoc, IdsIn, n
<1>4. CASE j \in Finders /\ Open(j)
    <2>1. /\ Alone(j, "open") /\ pc[j] = "loaded"
          /\ file'["findings"] = "empty" /\ UNCHANGED <<copy, id, registry>>
        BY <1>4, OpenOf
    <2>2. NumbersLeft /\ registry' = registry
        BY <2>1, <1>g, <1>k DEF NumbersLeft, Alone, Busy
    <2>. QED  BY <2>2, NumbersStay
<1>5. CASE j \in Finders /\ Write(j)
    <2>1. /\ Alone(j, "written") /\ pc[j] = "open"
          /\ data'["findings"] = copy[j] /\ UNCHANGED <<copy, id, registry>>
        BY <1>5, WriteOf
    <2>2. Begun' = Begun
        BY <2>1, <1>k, <1>5 DEF Begun, Alone
    <2>3. Fits(copy[j], m)
        BY <2>1, <1>5 DEF NumbersInv, Busy
    <2>4. /\ \A k \in Finders : Busy(k)' => Busy(k)
          /\ \A k \in Backfill : pc'[k] = "loaded" => pc[k] = "loaded"
        BY <2>1, <1>k, <1>5 DEF Alone, Busy
    <2>. QED  BY <2>1, <2>2, <2>3, <2>4 DEF NumbersInv, Fits, IsDoc, IdsIn
<1>6. CASE j \in FindingsJobs /\ (Mirror(j) \/ PostMergeEnds(j) \/ BackfillUpserts(j))
    <2>1. PICK s \in {"done", "failed"} : Alone(j, s)
        BY <1>6, EndOf
    <2>2. UNCHANGED <<copy, id, file, data>> /\ Busy(j)
        BY <1>6, EndOf
    <2>3. Begun' = Begun
        BY <2>1, <2>2, <1>k, <1>6 DEF Begun, Alone, Busy
    <2>4. \A i \in DOMAIN registry' : i \in 1..m /\ registry'[i] \in Row
        <3>0. m \in Nat /\ \A i \in DOMAIN registry : i \in 1..m /\ registry[i] \in Row
            BY Numbers DEF NumbersInv, Begun
        <3>1. CASE Mirror(j)
            <4>1. Fits(copy[j], m) /\ id[j] \in IdsIn(copy[j])
                BY <2>2, <3>1 DEF Mirror, NumbersInv
            <4>2. id[j] \in 1..m /\ copy[j].items[id[j]] \in Row
                BY <3>0, <4>1, FitsIds DEF Finding, Row
            <4>. HIDE DEF m
            <4>3. CASE registry' = Put(registry, id[j], copy[j].items[id[j]])
                BY <4>2, <4>3, <3>0 DEF Put
            <4>. QED  BY <3>0, <3>1, <4>3 DEF Mirror
        <3>2. CASE PostMergeEnds(j)  BY <3>0, <3>2 DEF PostMergeEnds
        <3>3. CASE BackfillUpserts(j)
            <4>1. Fits(copy[j], m)
                BY <3>3 DEF BackfillUpserts, NumbersInv
            <4>2. \A i \in IdsIn(copy[j]) : i \in 1..m /\ copy[j].items[i] \in Row
                BY <3>0, <4>1, FitsIds DEF Finding, Row
            <4>. HIDE DEF m
            <4>. QED  BY <3>0, <3>3, <4>2 DEF BackfillUpserts
        <3>. QED  BY <1>6, <3>1, <3>2, <3>3
    <2>5. /\ \A k \in Finders : Busy(k)' => Busy(k)
          /\ \A k \in Backfill : pc'[k] = "loaded" => pc[k] = "loaded"
        BY <2>1, <1>k, <1>6 DEF Alone, Busy
    <2>. QED  BY <2>2, <2>3, <2>4, <2>5 DEF NumbersInv, Fits, IsDoc, IdsIn
<1>7. CASE j \in Backfill /\ BackfillBegins(j)
    <2>1. /\ Alone(j, "loaded") /\ UNCHANGED <<id, file, data, registry>>
          /\ file["findings"] = "whole" /\ copy'[j] = data["findings"]
          /\ \A k \in Job \ {j} : copy'[k] = copy[k]
        BY <1>7 DEF BackfillBegins
    <2>2. Begun' = Begun
        BY <2>1, <1>k, <1>7 DEF Begun, Alone
    <2>3. Fits(copy'[j], m)
        BY <2>1 DEF NumbersInv
    <2>4. /\ \A k \in Finders : (Busy(k)' => Busy(k)) /\ copy'[k] = copy[k]
          /\ \A k \in Backfill \ {j} : pc'[k] = pc[k] /\ copy'[k] = copy[k]
        BY <2>1, <1>k, <1>7 DEF Alone, Busy
    <2>. QED  BY <2>1, <2>2, <2>3, <2>4 DEF NumbersInv, Fits, IsDoc, IdsIn
<1>8. CASE j \in FindingsJobs /\ BackfillReads(j)
    <2>1. j \in Backfill
        BY <1>8 DEF BackfillReads
    <2>. QED  BY <2>1, <1>2, <1>7, <1>8, BackfillActs
<1>. QED
    <2>1. CASE j \in FindingsJobs
        BY <2>1, <1>d, <1>2, <1>3, <1>4, <1>5, <1>6, <1>8, FindingsActs
    <2>. QED  BY <2>1, <1>1

LEMMA RestStep ==
    ASSUME FilesShape, RestInv, NEW j \in Job, Step(j)
    PROVE  RestInv'
<1>k. Adders \subseteq Finders /\ Mark \subseteq Finders /\ CliMark \subseteq Finders /\ FileOf(j) \in JsonFile
      /\ Add \subseteq Adders /\ PostMerge \subseteq Adders
    BY DEF Finders, Adders, FileOf, JsonFile
<1>n. faults \in 0..MaxFaults /\ MaxFaults \in Nat /\ (Fault => faults' \in 0..MaxFaults)
    BY FilesAssumption DEF RestInv, Fault
<1>i. /\ \A v : id' = [id EXCEPT ![j] = v] /\ j \in Finders => \A k \in Job \ Finders : id'[k] \in {1, None}
      /\ id' = [id EXCEPT ![j] = 1] => \A k \in Job \ Finders : id'[k] \in {1, None}
    BY DEF RestInv, FilesShape
<1>l. \A v : Loads(j, v) => overlap' \subseteq JsonFile
    BY <1>k DEF Loads, RestInv
<1>. USE DEF RestInv
<1>1. CASE Open(j)  BY <1>1 DEF Open
<1>2. CASE Write(j)  BY <1>2 DEF Write
<1>3. CASE Dies(j)  BY <1>3, <1>n DEF Dies
<1>4. CASE LoadToAdd(j) \/ LoadPostMerge(j)
    BY <1>4, <1>i, <1>k, <1>l DEF LoadToAdd, LoadPostMerge, LoadsToAdd, Throws
<1>5. CASE LoadToMark(j) \/ LoadToCliMark(j)
    BY <1>5, <1>i, <1>k, <1>l DEF LoadToMark, LoadToCliMark, LoadsToMark, Throws
<1>6. CASE PostMergeEnds(j)  BY <1>6 DEF PostMergeEnds
<1>7. CASE Mirror(j)  BY <1>7, <1>n DEF Mirror
<1>8. CASE BackfillReads(j)  BY <1>8, <1>l DEF BackfillReads, Throws
<1>9. CASE BackfillUpserts(j)  BY <1>9 DEF BackfillUpserts
<1>10. CASE Scaffold(j)  BY <1>10, <1>i DEF Scaffold
<1>11. CASE LoadToClaim(j)  BY <1>11, <1>l DEF LoadToClaim, Throws
<1>12. CASE EnlistBuild(j) \/ EnlistProject(j)  BY <1>12 DEF EnlistBuild, EnlistProject, Enlisted
<1>13. CASE InitEnds(j) \/ EditDone(j)  BY <1>13 DEF InitEnds, EditDone
<1>14. CASE Unregister(j)  BY <1>14 DEF Unregister
<1>15. CASE Purge(j)  BY <1>15, <1>n DEF Purge
<1>16. CASE LoadToEdit(j)  BY <1>16, <1>l DEF LoadToEdit, Throws
<1>. QED
    BY <1>1, <1>2, <1>3, <1>4, <1>5, <1>6, <1>7, <1>8, <1>9, <1>10, <1>11, <1>12, <1>13, <1>14, <1>15,
       <1>16 DEF Step

FilesTypes == NumbersInv /\ RestInv

LEMMA TypesInit == FilesInit => FilesTypes
<1>. SUFFICES ASSUME FilesInit PROVE FilesTypes
    OBVIOUS
<1>1. /\ \A j \in Job : pc[j] \in {"never", "idle"} /\ id[j] = None
      /\ file["findings"] = "absent" /\ DOMAIN registry = {}
      /\ claudeMd = FALSE /\ overlap = {} /\ faults = 0
    BY DEF FilesInit, JsonFile
<1>2. Finders \subseteq Job /\ Backfill \subseteq Job
    BY Kinds
<1>3. NumbersInv
    BY <1>1, <1>2 DEF NumbersInv, Busy
<1>4. RestInv
    <2>1. faults \in 0..MaxFaults
        BY <1>1, FilesAssumption
    <2>2. \A k \in Job \ Finders : id[k] \in {1, None}
        BY <1>1
    <2>. QED  BY <1>1, <2>1, <2>2 DEF RestInv
<1>. QED  BY <1>3, <1>4 DEF FilesTypes

LEMMA TypesNext == ProjectInv /\ FilesTypes /\ [FilesNext]_fileVars => FilesTypes'
<1>1. ASSUME ProjectInv, FilesTypes, NEW j \in Job, Step(j) PROVE FilesTypes'
    BY <1>1, NumbersStep, RestStep DEF ProjectInv, FilesTypes
<1>2. ASSUME FilesTypes, UNCHANGED fileVars PROVE FilesTypes'
    BY <1>2 DEF FilesTypes, fileVars, NumbersInv, RestInv, Begun, Busy, Fits, IsDoc, IdsIn
<1>. QED  BY <1>1, <1>2 DEF FilesNext

\* Every variable has its type: no finding ever gets a number above the count of
\* the calls that add one, two calls that overlap and share a number included.
THEOREM FilesTypesKept == FilesSpec => []FilesTypeOK
<1>1. ASSUME ProjectInv, FilesTypes PROVE FilesTypeOK
    <2>. DEFINE m == Cardinality(Begun)
    <2>1. m \in Nat /\ Cardinality(Adders) \in Nat /\ m <= Cardinality(Adders)
        BY Numbers DEF Begun
    <2>. HIDE DEF m
    <2>2. \A i \in 1..m : i \in Id
        BY <2>1 DEF Id
    <2>3. /\ \A i \in DOMAIN registry : i \in 1..m /\ registry[i] \in Row
          /\ \A k \in Finders : id[k] \in 1..m \cup {None}
          /\ file["findings"] = "whole" => Fits(data["findings"], m)
        BY <1>1 DEF FilesTypes, NumbersInv, m
    <2>4. id \in [Job -> Id \cup {1, None}]
        BY <1>1, <2>2, <2>3 DEF ProjectInv, FilesShape, FilesTypes, RestInv
    <2>5. file["findings"] = "whole" =>
             \A i \in IdsIn(data.findings) : i \in Id /\ data.findings.items[i] \in Finding
        BY <2>1, <2>2, <2>3, FitsIds
    <2>6. DOMAIN registry \subseteq Id /\ \A i \in DOMAIN registry : registry[i] \in Row
        BY <2>2, <2>3
    <2>. QED
        BY <1>1, <2>4, <2>5, <2>6 DEF FilesTypeOK, ProjectInv, FilesShape, Steps, MetaInv, FilesTypes,
           RestInv
<1>2. FilesSpec => []FilesTypes
    BY ProjectHolds, TypesInit, TypesNext, PTL DEF FilesSpec
<1>. QED  BY <1>1, <1>2, ProjectHolds, PTL

=============================================================================
