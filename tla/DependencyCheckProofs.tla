------------------------ MODULE DependencyCheckProofs ------------------------
(***************************************************************************)
(* The search of DependencyCheck decides correctly on every task list: TLC *)
(* shows it for three tasks, these proofs for any number of them.          *)
(***************************************************************************)
EXTENDS DependencyCheck, FiniteSetTheorems, SequenceTheorems, TLAPS

-----------------------------------------------------------------------------
(***************************************************************************)
(* What the steps do to the stack.                                         *)
(***************************************************************************)

\* Pushing a frame.
LEMMA Push ==
  ASSUME NEW s \in Seq(Frame), NEW f \in Frame
  PROVE  /\ Append(s, f) \in Seq(Frame)
         /\ Len(s) \in Nat
         /\ Len(Append(s, f)) = Len(s) + 1
         /\ \A k \in 1..Len(s) : Append(s, f)[k] = s[k]
         /\ Append(s, f)[Len(s) + 1] = f
BY LenProperties

\* Popping a frame.
LEMMA Pop ==
  ASSUME NEW s \in Seq(Frame), s # <<>>
  PROVE  /\ Len(s) \in Nat \ {0}
         /\ SubSeq(s, 1, Len(s) - 1) \in Seq(Frame)
         /\ Len(SubSeq(s, 1, Len(s) - 1)) = Len(s) - 1
         /\ \A k \in 1..(Len(s) - 1) : SubSeq(s, 1, Len(s) - 1)[k] = s[k]
<1>1. Len(s) \in Nat \ {0}
  BY EmptySeq
<1>2. 1 \in Int /\ Len(s) - 1 \in Int /\ \A k \in 1..(Len(s) - 1) : s[k] \in Frame
  BY <1>1, ElementOfSeq
<1>3. PICK n \in Nat : n = Len(s) - 1
  BY <1>1
<1>4. /\ SubSeq(s, 1, n) \in Seq(Frame)
      /\ Len(SubSeq(s, 1, n)) = IF 1 <= n THEN n - 1 + 1 ELSE 0
      /\ \A k \in 1..(n - 1 + 1) : SubSeq(s, 1, n)[k] = s[1 + k - 1]
  BY <1>2, <1>3, SubSeqProperties
<1>5. /\ Len(SubSeq(s, 1, n)) = n
      /\ \A k \in 1..n : SubSeq(s, 1, n)[k] = s[k]
  BY <1>3, <1>4
<1> QED
  BY <1>1, <1>3, <1>4, <1>5

\* The frame on top.
LEMMA TopFrame ==
  ASSUME TypeOK, stack # <<>>
  PROVE  /\ Len(stack) \in Nat \ {0}
         /\ Top = stack[Len(stack)]
         /\ Top \in Frame
BY EmptySeq, ElementOfSeq DEF TypeOK, Top

\* Crossing a dependency off the frame on top.
LEMMA CrossOff ==
  ASSUME TypeOK, stack # <<>>, NEW d,
         stack' = [stack EXCEPT ![Len(stack)].todo = @ \ {d}]
  PROVE  /\ stack' \in Seq(Frame)
         /\ Len(stack') = Len(stack)
         /\ \A k \in 1..Len(stack) : stack'[k].task = stack[k].task
         /\ \A k \in 1..(Len(stack) - 1) : stack'[k] = stack[k]
         /\ stack'[Len(stack)].todo = stack[Len(stack)].todo \ {d}
<1> DEFINE f == [stack[Len(stack)] EXCEPT !.todo = @ \ {d}]
<1>1. Len(stack) \in 1..Len(stack) /\ stack[Len(stack)] \in Frame
  BY TopFrame
<1>2. f \in Frame /\ f.task = stack[Len(stack)].task
      /\ f.todo = stack[Len(stack)].todo \ {d}
  BY <1>1 DEF Frame
<1>3. stack' = [stack EXCEPT ![Len(stack)] = f]
  OBVIOUS
<1> HIDE DEF f
<1>4. stack \in Seq(Frame) /\ f \in Frame
  BY <1>2 DEF TypeOK
<1>5. /\ [stack EXCEPT ![Len(stack)] = f] \in Seq(Frame)
      /\ Len([stack EXCEPT ![Len(stack)] = f]) = Len(stack)
      /\ \A k \in 1..Len(stack) : [stack EXCEPT ![Len(stack)] = f][k]
                                    = IF k = Len(stack) THEN f ELSE stack[k]
  BY <1>1, <1>4, ExceptSeq
<1> QED
  <2>1. PICK n \in Nat \ {0} : n = Len(stack)
    BY TopFrame
  <2>2. /\ stack' \in Seq(Frame) /\ Len(stack') = n
        /\ \A k \in 1..n : stack'[k] = IF k = n THEN f ELSE stack[k]
    BY <1>3, <1>5, <2>1
  <2>3. n \in 1..n /\ \A k \in 1..(n - 1) : k \in 1..n /\ k # n
    BY <2>1
  <2> HIDE DEF f
  <2> QED
    BY <1>2, <2>1, <2>2, <2>3

-----------------------------------------------------------------------------
(***************************************************************************)
(* The inductive invariant.                                                *)
(***************************************************************************)

\* While the search runs, the stack holds exactly the tasks being visited, once
\* each; every frame but the last waits for the one above it, and what a
\* frame's loop has passed is visited.
FramesInv ==
  result = "running" =>
    /\ \A k \in 1..Len(stack) :
         /\ stack[k].task \in Tasks
         /\ visitation[stack[k].task] = "visiting"
         /\ stack[k].todo \subseteq deps[stack[k].task]
         /\ \A d \in deps[stack[k].task] \ stack[k].todo : visitation[d] = "visited"
    /\ \A k \in 1..(Len(stack) - 1) : stack[k + 1].task \in deps[stack[k].task]
    /\ \A j, k \in 1..Len(stack) : stack[j].task = stack[k].task => j = k
    /\ \A i \in IDs : visitation[i] = "visiting" =>
                        \E k \in 1..Len(stack) : stack[k].task = i

\* The visited tasks have been left, each one after all its dependencies.
OrderInv ==
  /\ \A i \in IDs : visitation[i] = "visited" => \E k \in 1..Len(order) : order[k] = i
  /\ \A k \in 1..Len(order) : \A d \in deps[order[k]] :
       \E j \in 1..(k - 1) : order[j] = d

\* A refusal has found its reason: tasks each of which waits for another of
\* them, or a dependency nobody defines.
RejectedForCause ==
  /\ result = "cycle" => \E S \in SUBSET Tasks :
                           S # {} /\ \A t \in S : deps[t] \cap S # {}
  /\ result = "undefined" => \E t \in Tasks : deps[t] \cap Undefined # {}

OutcomeInv == /\ result = "ok" => \A t \in Tasks : visitation[t] = "visited"
              /\ RejectedForCause

IInv == TypeOK /\ FramesInv /\ OrderInv /\ OutcomeInv

\* A step that leaves the marks and the order alone keeps what is known of them.
LEMMA OrderKept ==
  ASSUME OrderInv, UNCHANGED deps, UNCHANGED visitation, UNCHANGED order
  PROVE  OrderInv'
<1>1. \A i \in IDs : visitation'[i] = "visited" => \E k \in 1..Len(order') : order'[k] = i
  BY DEF OrderInv
<1>2. ASSUME NEW k \in 1..Len(order'), NEW d \in deps'[order'[k]]
      PROVE  \E j \in 1..(k - 1) : order'[j] = d
  <2>1. k \in 1..Len(order) /\ d \in deps[order[k]]
    OBVIOUS
  <2>2. PICK j \in 1..(k - 1) : order[j] = d
    BY <2>1 DEF OrderInv
  <2> QED
    BY <2>2
<1> QED
  BY <1>1, <1>2 DEF OrderInv

LEMMA InitIInv == Init => IInv
<1> SUFFICES ASSUME Init PROVE IInv
  OBVIOUS
<1>1. Len(stack) = 0 /\ Len(order) = 0
  BY EmptySeq DEF Init
<1>2. TypeOK
  BY EmptySeq DEF Init, TypeOK
<1> QED
  BY <1>1, <1>2 DEF Init, IInv, FramesInv, OrderInv, OutcomeInv, RejectedForCause

\* Entering an ID that no frame holds, called from the frame on top if any.
LEMMA EnterStep ==
  ASSUME IInv, result = "running", NEW i \in IDs,
         visitation[i] = "unvisited", Enter(i),
         IF stack = <<>> THEN i \in Tasks ELSE i \in Top.todo
  PROVE  IInv'
<1> DEFINE f == [task |-> i, todo |-> IF i \in Tasks THEN deps[i] ELSE {}]
<1> USE DEF IInv
<1>1. f \in Frame /\ f.task = i /\ f.todo = IF i \in Tasks THEN deps[i] ELSE {}
  BY DEF Frame, TypeOK
<1>2. stack' = Append(stack, f) /\ UNCHANGED <<deps, order>>
      /\ visitation' = [visitation EXCEPT ![i] = "visiting"]
      /\ result' = IF i \in Tasks THEN "running" ELSE "undefined"
  BY DEF Enter
<1> HIDE DEF f
<1>3. PICK n \in Nat : n = Len(stack)
  BY LenProperties DEF TypeOK
<1>4. /\ stack' \in Seq(Frame) /\ Len(stack') = n + 1
      /\ \A k \in 1..n : stack'[k] = stack[k]
      /\ stack'[n + 1] = f
  BY <1>1, <1>2, <1>3, Push DEF TypeOK
<1>5. TypeOK'
  BY <1>2, <1>4 DEF TypeOK
<1>6. n # 0 => n \in 1..n /\ stack[n].task \in Tasks /\ i \in deps[stack[n].task]
  <2> SUFFICES ASSUME n # 0
               PROVE  n \in 1..n /\ stack[n].task \in Tasks /\ i \in deps[stack[n].task]
    OBVIOUS
  <2>1. stack # <<>> /\ n \in 1..n
    BY <1>3, EmptySeq
  <2> QED
    BY <1>3, <2>1 DEF FramesInv, Top
<1>7. FramesInv'
  <2> SUFFICES ASSUME i \in Tasks PROVE FramesInv'
    BY <1>2 DEF FramesInv
  <2>1. \A j \in IDs : visitation'[j] = IF j = i THEN "visiting" ELSE visitation[j]
    BY <1>2 DEF TypeOK
  <2>2. ASSUME NEW k \in 1..(n + 1)
        PROVE  /\ stack'[k].task \in Tasks
               /\ visitation'[stack'[k].task] = "visiting"
               /\ stack'[k].todo \subseteq deps[stack'[k].task]
               /\ \A d \in deps[stack'[k].task] \ stack'[k].todo :
                    visitation'[d] = "visited"
    <3>1. CASE k \in 1..n
      <4>1. /\ stack[k].task \in Tasks
            /\ visitation[stack[k].task] = "visiting"
            /\ stack[k].todo \subseteq deps[stack[k].task]
            /\ \A d \in deps[stack[k].task] \ stack[k].todo : visitation[d] = "visited"
        BY <1>3, <3>1 DEF FramesInv
      <4>2. deps[stack[k].task] \subseteq IDs
        BY <4>1 DEF TypeOK
      <4> QED
        BY <1>4, <2>1, <3>1, <4>1, <4>2 DEF IDs
    <3>2. CASE k = n + 1
      BY <1>1, <1>4, <2>1, <3>2
    <3> QED
      BY <3>1, <3>2
  <2>3. ASSUME NEW k \in 1..n PROVE stack'[k + 1].task \in deps[stack'[k].task]
    <3>1. CASE k = n
      BY <1>1, <1>4, <1>6, <3>1
    <3>2. CASE k # n
      <4>1. k \in 1..(n - 1) /\ k + 1 \in 1..n
        BY <3>2
      <4> QED
        BY <1>3, <1>4, <4>1 DEF FramesInv
    <3> QED
      BY <3>1, <3>2
  <2>4. ASSUME NEW j \in 1..(n + 1), NEW k \in 1..(n + 1),
               stack'[j].task = stack'[k].task
        PROVE  j = k
    <3>1. \A m \in 1..n : stack'[m].task = stack[m].task /\ stack[m].task # i
      BY <1>3, <1>4 DEF FramesInv
    <3>2. stack'[n + 1].task = i
      BY <1>1, <1>4
    <3>3. \A l, m \in 1..n : stack[l].task = stack[m].task => l = m
      BY <1>3 DEF FramesInv
    <3> QED
      BY <2>4, <3>1, <3>2, <3>3
  <2>5. ASSUME NEW j \in IDs, visitation'[j] = "visiting"
        PROVE  \E k \in 1..(n + 1) : stack'[k].task = j
    <3>1. CASE j = i
      BY <1>1, <1>4, <3>1
    <3>2. CASE j # i
      BY <1>3, <1>4, <2>1, <2>5, <3>2 DEF FramesInv
    <3> QED
      BY <3>1, <3>2
  <2> QED
    BY <1>2, <1>4, <2>2, <2>3, <2>4, <2>5 DEF FramesInv
<1>8. OrderInv'
  BY <1>2 DEF OrderInv, TypeOK
<1>9. OutcomeInv'
  <2>1. ASSUME i \notin Tasks PROVE \E t \in Tasks : deps[t] \cap Undefined # {}
    <3>1. i \in Undefined
      BY <2>1 DEF IDs
    <3>2. n # 0
      BY <1>3, <2>1, EmptySeq DEF TypeOK
    <3> QED
      BY <1>6, <3>1, <3>2
  <2> QED
    BY <1>2, <2>1 DEF OutcomeInv, RejectedForCause
<1> QED
  BY <1>5, <1>7, <1>8, <1>9

\* Finding a task that is being visited: the frames from its own to the top
\* one are a set of tasks each of which waits for another of the set.
LEMMA CycleStep ==
  ASSUME IInv, result = "running", stack # <<>>, NEW d \in Top.todo, FindCycle(d)
  PROVE  IInv'
<1> USE DEF IInv
<1>1. PICK n \in Nat \ {0} : n = Len(stack)
  BY TopFrame
<1>2. d \in IDs /\ d \in deps[stack[n].task]
  BY <1>1, TopFrame DEF FramesInv, Frame
<1>3. PICK m \in 1..n : stack[m].task = d
  BY <1>1, <1>2 DEF FindCycle, FramesInv
<1> DEFINE S == {stack[k].task : k \in m..n}
<1>4. S \in SUBSET Tasks /\ S # {}
  BY <1>1, <1>3 DEF FramesInv
<1>5. ASSUME NEW k \in m..n PROVE deps[stack[k].task] \cap S # {}
  <2>1. CASE k = n
    <3>1. d \in S
      BY <1>3
    <3> QED
      BY <1>2, <2>1, <3>1
  <2>2. CASE k # n
    <3>1. k \in 1..(n - 1) /\ k + 1 \in m..n
      BY <1>3, <2>2
    <3>2. stack[k + 1].task \in deps[stack[k].task]
      BY <1>1, <3>1 DEF FramesInv
    <3>3. stack[k + 1].task \in S
      BY <3>1
    <3> QED
      BY <3>2, <3>3
  <2> QED
    BY <2>1, <2>2
<1>6. \A t \in S : deps[t] \cap S # {}
  BY <1>5
<1> HIDE DEF S
<1>7. UNCHANGED <<deps, visitation, stack, order>> /\ result' = "cycle"
  BY DEF FindCycle
<1>8. RejectedForCause'
  BY <1>4, <1>6, <1>7 DEF RejectedForCause
<1> QED
  BY <1>7, <1>8 DEF TypeOK, FramesInv, OrderInv, OutcomeInv

\* Passing over a visited dependency.
LEMMA PassStep ==
  ASSUME IInv, result = "running", stack # <<>>, NEW d \in Top.todo, PassOver(d)
  PROVE  IInv'
<1> USE DEF IInv
<1>1. PICK n \in Nat \ {0} : n = Len(stack) /\ Top = stack[n]
  BY TopFrame
<1>2. /\ stack' \in Seq(Frame) /\ Len(stack') = n
      /\ \A k \in 1..n : stack'[k].task = stack[k].task
      /\ \A k \in 1..(n - 1) : stack'[k] = stack[k]
      /\ stack'[n].todo = stack[n].todo \ {d}
  BY <1>1, CrossOff DEF PassOver
<1>3. UNCHANGED <<deps, visitation, result, order>> /\ visitation[d] = "visited"
  BY DEF PassOver
<1>4. FramesInv'
  <2>1. ASSUME NEW k \in 1..n
        PROVE  /\ stack'[k].todo \subseteq deps[stack'[k].task]
               /\ \A e \in deps[stack'[k].task] \ stack'[k].todo :
                    visitation[e] = "visited"
    <3>1. /\ stack[k].todo \subseteq deps[stack[k].task]
          /\ \A e \in deps[stack[k].task] \ stack[k].todo : visitation[e] = "visited"
      BY <1>1 DEF FramesInv
    <3>2. CASE k = n
      BY <1>2, <1>3, <3>1, <3>2
    <3>3. CASE k # n
      BY <1>2, <3>1, <3>3
    <3> QED
      BY <3>2, <3>3
  <2>2. \A k \in 1..(n - 1) : stack'[k + 1].task \in deps[stack'[k].task]
    BY <1>1, <1>2 DEF FramesInv
  <2>3. \A k \in 1..n : /\ stack'[k].task \in Tasks
                        /\ visitation[stack'[k].task] = "visiting"
    BY <1>1, <1>2 DEF FramesInv
  <2>4. \A j, k \in 1..n : stack'[j].task = stack'[k].task => j = k
    BY <1>1, <1>2 DEF FramesInv
  <2>5. \A i \in IDs : visitation[i] = "visiting" =>
                         \E k \in 1..n : stack'[k].task = i
    BY <1>1, <1>2 DEF FramesInv
  <2> QED
    BY <1>2, <1>3, <2>1, <2>2, <2>3, <2>4, <2>5 DEF FramesInv
<1> QED
  BY <1>2, <1>3, <1>4 DEF TypeOK, OrderInv, OutcomeInv, RejectedForCause

\* Leaving a task all of whose dependencies are visited.
LEMMA ReturnStep ==
  ASSUME IInv, Return
  PROVE  IInv'
<1> USE DEF IInv
<1>1. result = "running" /\ stack # <<>> /\ UNCHANGED <<deps, result>>
  BY DEF Return
<1>2. PICK n \in Nat \ {0} : n = Len(stack) /\ Top = stack[n]
  BY <1>1, TopFrame
<1>3. PICK t \in Tasks : t = stack[n].task
  BY <1>1, <1>2 DEF FramesInv
<1>4. /\ visitation[t] = "visiting" /\ t \in IDs /\ deps[t] \subseteq IDs
      /\ \A d \in deps[t] : visitation[d] = "visited"
  BY <1>1, <1>2, <1>3 DEF Return, FramesInv, IDs, TypeOK
<1>5. /\ stack' \in Seq(Frame) /\ Len(stack') = n - 1
      /\ \A k \in 1..(n - 1) : stack'[k] = stack[k]
  BY <1>1, <1>2, Pop DEF Return, TypeOK
<1>6. \A i \in IDs : visitation'[i] = IF i = t THEN "visited" ELSE visitation[i]
  BY <1>2, <1>3 DEF Return, TypeOK
<1>7. PICK m \in Nat : m = Len(order)
  BY LenProperties DEF TypeOK
<1>8. /\ order' \in Seq(Tasks) /\ Len(order') = m + 1
      /\ \A k \in 1..m : order'[k] = order[k]
      /\ order'[m + 1] = t
  BY <1>2, <1>3, <1>7 DEF Return, TypeOK
<1>9. TypeOK'
  BY <1>1, <1>4, <1>5, <1>8, <1>2, <1>3 DEF TypeOK, Return
<1>10. FramesInv'
  <2>1. ASSUME NEW k \in 1..(n - 1)
        PROVE  /\ stack'[k].task \in Tasks
               /\ visitation'[stack'[k].task] = "visiting"
               /\ stack'[k].todo \subseteq deps[stack'[k].task]
               /\ \A d \in deps[stack'[k].task] \ stack'[k].todo :
                    visitation'[d] = "visited"
    <3>1. /\ stack[k].task \in Tasks
          /\ visitation[stack[k].task] = "visiting"
          /\ stack[k].todo \subseteq deps[stack[k].task]
          /\ \A d \in deps[stack[k].task] \ stack[k].todo : visitation[d] = "visited"
      BY <1>1, <1>2 DEF FramesInv
    <3>2. stack[k].task # t
      BY <1>1, <1>2, <1>3 DEF FramesInv
    <3>3. stack[k].task \in IDs /\ deps[stack[k].task] \subseteq IDs
      BY <3>1 DEF IDs, TypeOK
    <3> QED
      BY <1>5, <1>6, <3>1, <3>2, <3>3
  <2>2. \A k \in 1..(n - 1 - 1) : stack'[k + 1].task \in deps[stack'[k].task]
    <3>1. \A k \in 1..(n - 1 - 1) : k \in 1..(n - 1) /\ k + 1 \in 1..(n - 1)
      BY <1>2
    <3> QED
      BY <1>1, <1>2, <1>5, <3>1 DEF FramesInv
  <2>3. \A j, k \in 1..(n - 1) : stack'[j].task = stack'[k].task => j = k
    BY <1>1, <1>2, <1>5 DEF FramesInv
  <2>4. ASSUME NEW i \in IDs, visitation'[i] = "visiting"
        PROVE  \E k \in 1..(n - 1) : stack'[k].task = i
    <3>1. i # t /\ visitation[i] = "visiting"
      BY <1>6, <2>4
    <3>2. PICK k \in 1..n : stack[k].task = i
      BY <1>1, <1>2, <3>1 DEF FramesInv
    <3>3. k \in 1..(n - 1)
      BY <1>3, <3>1, <3>2
    <3> QED
      BY <1>5, <3>2, <3>3
  <2> QED
    BY <1>1, <1>5, <2>1, <2>2, <2>3, <2>4 DEF FramesInv
<1>11. OrderInv'
  <2>1. ASSUME NEW i \in IDs, visitation'[i] = "visited"
        PROVE  \E k \in 1..(m + 1) : order'[k] = i
    <3>1. CASE i = t
      BY <1>8, <3>1
    <3>2. CASE i # t
      <4>1. PICK k \in 1..m : order[k] = i
        BY <1>6, <1>7, <2>1, <3>2 DEF OrderInv
      <4> QED
        BY <1>8, <4>1
    <3> QED
      BY <3>1, <3>2
  <2>2. ASSUME NEW k \in 1..(m + 1), NEW d \in deps[order'[k]]
        PROVE  \E j \in 1..(k - 1) : order'[j] = d
    <3>1. CASE k \in 1..m
      <4>1. PICK j \in 1..(k - 1) : order[j] = d
        BY <1>7, <1>8, <2>2, <3>1 DEF OrderInv
      <4> QED
        BY <1>8, <3>1, <4>1
    <3>2. CASE k = m + 1
      <4>1. d \in IDs /\ visitation[d] = "visited"
        BY <1>4, <1>8, <2>2, <3>2
      <4>2. PICK j \in 1..m : order[j] = d
        BY <1>7, <4>1 DEF OrderInv
      <4> QED
        BY <1>8, <3>2, <4>2
    <3> QED
      BY <3>1, <3>2
  <2> QED
    BY <1>1, <1>8, <2>1, <2>2 DEF OrderInv
<1>12. OutcomeInv'
  BY <1>1 DEF OutcomeInv, RejectedForCause
<1> QED
  BY <1>9, <1>10, <1>11, <1>12

\* Accepting: the stack is empty, so nothing is being visited any more.
LEMMA AcceptStep ==
  ASSUME IInv, Accept
  PROVE  IInv'
<1> USE DEF IInv
<1>1. /\ result = "running" /\ stack = <<>> /\ result' = "ok"
      /\ UNCHANGED <<deps, visitation, stack, order>>
      /\ \A t \in Tasks : visitation[t] # "unvisited"
  BY DEF Accept
<1>2. Len(stack) = 0
  BY <1>1, EmptySeq
<1>3. ASSUME NEW t \in Tasks PROVE visitation[t] = "visited"
  <2>1. t \in IDs /\ visitation[t] \in {"visiting", "visited"}
    BY <1>1 DEF IDs, TypeOK
  <2>2. visitation[t] # "visiting"
    BY <1>1, <1>2, <2>1 DEF FramesInv
  <2> QED
    BY <2>1, <2>2
<1>4. OutcomeInv'
  BY <1>1, <1>3 DEF OutcomeInv, RejectedForCause
<1>5. TypeOK'
  BY <1>1 DEF TypeOK
<1>6. result' # "running"
  BY <1>1
<1>7. FramesInv'
  BY <1>6 DEF FramesInv
<1>8. OrderInv
  OBVIOUS
<1>9. OrderInv'
  BY <1>1, <1>8, OrderKept
<1> QED
  BY <1>4, <1>5, <1>7, <1>9

\* Every step keeps the inductive invariant.
LEMMA NextStep == IInv /\ [Next]_vars => IInv'
<1> SUFFICES ASSUME IInv, [Next]_vars PROVE IInv'
  OBVIOUS
<1>1. ASSUME NEW t \in Tasks, StartAt(t) PROVE IInv'
  BY <1>1, EnterStep DEF StartAt, IDs
<1>2. CASE Look
  <2>1. PICK d \in Top.todo : FindCycle(d) \/ Descend(d) \/ PassOver(d)
    BY <1>2 DEF Look
  <2>2. d \in IDs /\ result = "running" /\ stack # <<>>
    BY <1>2, TopFrame DEF Look, Frame, IInv
  <2>3. CASE Descend(d)
    BY <2>2, <2>3, EnterStep DEF Descend
  <2> QED
    BY <2>1, <2>2, <2>3, CycleStep, PassStep
<1>3. CASE UNCHANGED vars
  <2>1. UNCHANGED <<deps, visitation, stack, result, order>>
    BY <1>3 DEF vars
  <2>2. TypeOK' /\ OutcomeInv'
    BY <2>1 DEF IInv, TypeOK, OutcomeInv, RejectedForCause
  <2>3. FramesInv'
    BY <2>1 DEF IInv, FramesInv
  <2>4. OrderInv'
    BY <2>1, OrderKept DEF IInv
  <2> QED
    BY <2>2, <2>3, <2>4 DEF IInv
<1> QED
  BY <1>1, <1>2, <1>3, ReturnStep, AcceptStep DEF Next

\* The inductive invariant holds in every reachable state.
THEOREM Invariance == Spec => []IInv
BY InitIInv, NextStep, PTL DEF Spec

\* Every reachable state is well typed.
THEOREM TypeCorrect == Spec => []TypeOK
<1>1. IInv => TypeOK
  BY DEF IInv
<1> QED
  BY <1>1, Invariance, PTL

\* A non-empty set of places of a finite sequence has a first one.
LEMMA FirstPlace ==
  ASSUME NEW n \in Nat, NEW P \in SUBSET (1..n), P # {}
  PROVE  \E i \in P : \A j \in P : i <= j
<1> DEFINE R == StrictSubsetOrdering(1..n)
           T == {1..i : i \in P}
<1>1. IsFiniteSet(1..n)
  BY FS_Interval
<1>2. IsWellFoundedOn(R, FiniteSubsetsOf(1..n))
  BY <1>1, FS_StrictSubsetOrderingWellFounded
<1>3. T \subseteq FiniteSubsetsOf(1..n)
  <2> SUFFICES ASSUME NEW i \in P PROVE 1..i \in FiniteSubsetsOf(1..n)
    OBVIOUS
  <2>1. 1..i \subseteq 1..n
    OBVIOUS
  <2> QED
    BY <1>1, <2>1, FS_Subset DEF FiniteSubsetsOf
<1>4. T # {}
  OBVIOUS
<1>5. PICK x \in T : \A y \in T : <<y, x>> \notin R
  <2> HIDE DEF R, T
  <2> QED
    BY <1>2, <1>3, <1>4, WFMin
<1>6. PICK i \in P : x = 1..i
  OBVIOUS
<1>7. ASSUME NEW j \in P PROVE i <= j
  <2> SUFFICES ASSUME j < i PROVE FALSE
    OBVIOUS
  <2>1. 1..j \subseteq 1..i /\ i \in 1..i /\ i \notin 1..j
    OBVIOUS
  <2>2. 1..j \in SUBSET (1..n) /\ 1..i \in SUBSET (1..n) /\ 1..j # 1..i
    BY <2>1
  <2>3. <<1..j, 1..i>> \in R
    BY <2>1, <2>2 DEF StrictSubsetOrdering
  <2> QED
    BY <1>5, <1>6, <2>3
<1> QED
  BY <1>7

\* The first n places of seq hold every task, after what it waits for.
Orders(n, seq, D) ==
  /\ \A t \in Tasks : \E i \in 1..n : seq[i] = t
  /\ \A i \in 1..n : \A d \in D[seq[i]] : \E j \in 1..(i - 1) : seq[j] = d

\* Where tasks can be put in an order in which everything comes after what it
\* waits for, no set of them waits for itself: the first one of the set does not.
LEMMA OrderedIsAcyclic ==
  ASSUME NEW n \in Nat, NEW seq, NEW D, Orders(n, seq, D)
  PROVE  Acyclic(Tasks, D)
<1> SUFFICES ASSUME NEW S \in SUBSET Tasks, S # {}
             PROVE  \E t \in S : D[t] \cap S = {}
  BY DEF Acyclic
<1> DEFINE P == {i \in 1..n : seq[i] \in S}
<1>1. P \in SUBSET (1..n) /\ P # {}
  BY DEF Orders
<1>2. PICK i \in P : \A j \in P : i <= j
  <2> HIDE DEF P
  <2> QED
    BY <1>1, FirstPlace
<1>3. ASSUME NEW d \in D[seq[i]], d \in S PROVE FALSE
  <2>1. PICK j \in 1..(i - 1) : seq[j] = d
    BY <1>3 DEF Orders
  <2>2. j \in P /\ ~(i <= j)
    BY <1>3, <2>1
  <2> QED
    BY <1>2, <2>2
<1> QED
  BY <1>3

\* A task list that ExecuteActions accepts has an order in which every task
\* comes after all its dependencies: none waits for a task that is not there.
THEOREM AcceptedLists == Spec => []AcceptedCanRun
<1>1. IInv => AcceptedCanRun
  BY DEF IInv, OrderInv, OutcomeInv, AcceptedCanRun, IDs
<1> QED
  BY <1>1, Invariance, PTL

\* The search accepts exactly the lists that can be executed, and the reason it
\* gives for a refusal applies.
THEOREM VerdictsAreExact == Spec => []VerdictIsExact
<1>1. ASSUME IInv, result = "ok"
      PROVE  Defined(Tasks, deps) /\ Acyclic(Tasks, deps)
  <2>1. PICK n \in Nat : n = Len(order)
    BY <1>1, LenProperties DEF IInv, TypeOK
  <2>2. \A t \in Tasks : \E i \in 1..n : order[i] = t
    BY <1>1, <2>1 DEF IInv, OutcomeInv, OrderInv, IDs
  <2>3. \A i \in 1..n : \A d \in deps[order[i]] : \E j \in 1..(i - 1) : order[j] = d
    BY <1>1, <2>1 DEF IInv, OrderInv
  <2>4. \A i \in 1..n : order[i] \in Tasks
    BY <1>1, <2>1, ElementOfSeq DEF IInv, TypeOK
  <2>5. ASSUME NEW t \in Tasks, NEW d \in deps[t] PROVE d \in Tasks
    <3>1. PICK i \in 1..n : order[i] = t
      BY <2>2
    <3>2. PICK j \in 1..(i - 1) : order[j] = d
      BY <2>3, <2>5, <3>1
    <3> QED
      BY <2>4, <3>1, <3>2
  <2>6. Acyclic(Tasks, deps)
    <3>1. Orders(n, order, deps)
      BY <2>2, <2>3 DEF Orders
    <3> QED
      BY <3>1, OrderedIsAcyclic
  <2> QED
    BY <2>5, <2>6 DEF Defined
<1>2. ASSUME IInv, result = "cycle" PROVE ~Acyclic(Tasks, deps)
  BY <1>2 DEF IInv, OutcomeInv, RejectedForCause, Acyclic
<1>3. ASSUME IInv, result = "undefined" PROVE ~Defined(Tasks, deps)
  BY <1>3, UndefinedAssumption DEF IInv, OutcomeInv, RejectedForCause, Defined
<1>4. IInv => VerdictIsExact
  BY <1>1, <1>2, <1>3 DEF VerdictIsExact
<1> QED
  BY <1>4, Invariance, PTL

-----------------------------------------------------------------------------
(***************************************************************************)
(* The search ends: every step leaves it less to do.                       *)
(***************************************************************************)

\* The dependencies that are still to be looked at.
Left == {p \in Tasks \X IDs :
           \/ visitation[p[1]] = "unvisited" /\ p[2] \in deps[p[1]]
           \/ \E k \in 1..Len(stack) : stack[k].task = p[1] /\ p[2] \in stack[k].todo}

Fresh == {i \in IDs : visitation[i] = "unvisited"}
Open == {i \in IDs : visitation[i] = "visiting"}

\* Each dependency is looked at once, each ID entered and left once, and there
\* is one verdict.
StepsLeft == Cardinality(Left) + 2 * Cardinality(Fresh) + Cardinality(Open)
               + (IF result = "running" THEN 1 ELSE 0)

LEMMA Finite ==
  /\ IsFiniteSet(Left) /\ Cardinality(Left) \in Nat
  /\ IsFiniteSet(Fresh) /\ Cardinality(Fresh) \in Nat
  /\ IsFiniteSet(Open) /\ Cardinality(Open) \in Nat
<1>1. IsFiniteSet(IDs)
  BY TasksAssumption, UndefinedAssumption, FS_Union DEF IDs
<1>2. IsFiniteSet(Tasks \X IDs)
  BY <1>1, TasksAssumption, FS_Product
<1>3. Left \in SUBSET (Tasks \X IDs) /\ Fresh \in SUBSET IDs /\ Open \in SUBSET IDs
  BY DEF Left, Fresh, Open
<1> QED
  BY <1>1, <1>2, <1>3, FS_Subset, FS_CardinalityType

\* Entering an ID makes it one of the open ones; what is left of its
\* dependencies is then in its frame.
LEMMA EnterCosts ==
  ASSUME IInv, IInv', result = "running", NEW i \in IDs,
         visitation[i] = "unvisited", Enter(i)
  PROVE  StepsLeft' \in Nat /\ StepsLeft' < StepsLeft
<1>1. \A j \in IDs : visitation'[j] = IF j = i THEN "visiting" ELSE visitation[j]
  BY DEF Enter, IInv, TypeOK
<1>2. Fresh' = Fresh \ {i} /\ i \in Fresh
  BY <1>1 DEF Fresh
<1>3. Open' = Open \cup {i} /\ i \notin Open
  BY <1>1 DEF Open
<1>4. Left' \subseteq Left
  <2> SUFFICES ASSUME NEW p \in Left' PROVE p \in Left
    OBVIOUS
  <2> DEFINE f == [task |-> i, todo |-> IF i \in Tasks THEN deps[i] ELSE {}]
  <2>1. f \in Frame /\ f.task = i /\ f.todo = IF i \in Tasks THEN deps[i] ELSE {}
    BY DEF Frame, IInv, TypeOK
  <2>2. stack' = Append(stack, f) /\ deps' = deps
    BY DEF Enter
  <2> HIDE DEF f
  <2>3. PICK n \in Nat : n = Len(stack)
    BY LenProperties DEF IInv, TypeOK
  <2>4. /\ Len(stack') = n + 1
        /\ \A k \in 1..n : stack'[k] = stack[k]
        /\ stack'[n + 1] = f
    BY <2>1, <2>2, <2>3, Push DEF IInv, TypeOK
  <2>5. p \in Tasks \X IDs /\ p[1] \in Tasks /\ p[1] \in IDs
    BY DEF Left, IDs
  <2>6. CASE visitation'[p[1]] = "unvisited" /\ p[2] \in deps'[p[1]]
    BY <1>1, <2>2, <2>5, <2>6 DEF Left
  <2>7. ASSUME NEW k \in 1..(n + 1), stack'[k].task = p[1], p[2] \in stack'[k].todo
        PROVE  p \in Left
    <3>1. CASE k \in 1..n
      BY <2>3, <2>4, <2>5, <2>7, <3>1 DEF Left
    <3>2. CASE k = n + 1
      BY <2>1, <2>4, <2>5, <2>7, <3>2 DEF Left
    <3> QED
      BY <3>1, <3>2
  <2> QED
    BY <2>4, <2>6, <2>7 DEF Left
<1>5. /\ Cardinality(Left') <= Cardinality(Left)
      /\ Cardinality(Fresh') = Cardinality(Fresh) - 1
      /\ Cardinality(Open') = Cardinality(Open) + 1
  BY <1>2, <1>3, <1>4, Finite, FS_Subset, FS_RemoveElement, FS_AddElement
<1>6. /\ Cardinality(Left) \in Nat /\ Cardinality(Left') \in Nat
      /\ Cardinality(Fresh) \in Nat /\ Cardinality(Fresh') \in Nat
      /\ Cardinality(Open) \in Nat /\ Cardinality(Open') \in Nat
  <2>1. Cardinality(Left') \in Nat
    BY <1>4, Finite, FS_Subset, FS_CardinalityType
  <2>2. Cardinality(Fresh') \in Nat /\ Cardinality(Open') \in Nat
    BY <1>2, <1>3, Finite, FS_RemoveElement, FS_AddElement, FS_CardinalityType
  <2> QED
    BY <2>1, <2>2, Finite
<1> QED
  BY <1>5, <1>6 DEF StepsLeft

\* Passing over a dependency crosses it off.
LEMMA PassCosts ==
  ASSUME IInv, result = "running", stack # <<>>, NEW d \in Top.todo, PassOver(d)
  PROVE  StepsLeft' \in Nat /\ StepsLeft' < StepsLeft
<1>1. PICK n \in Nat \ {0} : n = Len(stack) /\ Top = stack[n] /\ Top \in Frame
  BY TopFrame DEF IInv
<1>2. /\ Len(stack') = n
      /\ \A k \in 1..n : stack'[k].task = stack[k].task
      /\ \A k \in 1..(n - 1) : stack'[k] = stack[k]
      /\ stack'[n].todo = stack[n].todo \ {d}
  BY <1>1, CrossOff DEF PassOver, IInv
<1>3. UNCHANGED <<deps, visitation, result>>
  BY DEF PassOver
<1> DEFINE p == <<stack[n].task, d>>
<1>4. stack[n].task \in Tasks /\ visitation[stack[n].task] = "visiting" /\ d \in IDs
  BY <1>1 DEF IInv, FramesInv, Frame
<1>5. p \in Left
  BY <1>1, <1>4 DEF Left
<1>6. Left' \subseteq Left \ {p}
  <2> SUFFICES ASSUME NEW q \in Left' PROVE q \in Left /\ q # p
    OBVIOUS
  <2>1. q \in Tasks \X IDs
    BY DEF Left
  <2>2. CASE visitation[q[1]] = "unvisited" /\ q[2] \in deps[q[1]]
    BY <1>4, <2>1, <2>2 DEF Left
  <2>3. ASSUME NEW k \in 1..n, stack'[k].task = q[1], q[2] \in stack'[k].todo
        PROVE  q \in Left /\ q # p
    <3>1. CASE k = n
      BY <1>1, <1>2, <2>1, <2>3, <3>1 DEF Left
    <3>2. CASE k # n
      <4>1. k \in 1..(n - 1) /\ stack[k].task = q[1] /\ q[2] \in stack[k].todo
        BY <1>2, <2>3, <3>2
      <4>2. stack[k].task # stack[n].task
        BY <1>1, <3>2, <4>1 DEF IInv, FramesInv
      <4> QED
        BY <1>1, <2>1, <4>1, <4>2 DEF Left
    <3> QED
      BY <3>1, <3>2
  <2> QED
    BY <1>2, <1>3, <2>2, <2>3 DEF Left
<1>7. Fresh' = Fresh /\ Open' = Open
  BY <1>3 DEF Fresh, Open
<1> HIDE DEF p
<1>8. /\ IsFiniteSet(Left \ {p})
      /\ Cardinality(Left \ {p}) = Cardinality(Left) - 1
  BY <1>5, Finite, FS_RemoveElement
<1>9. /\ Cardinality(Left') \in Nat
      /\ Cardinality(Left') <= Cardinality(Left) - 1
  BY <1>6, <1>8, FS_Subset, FS_CardinalityType
<1> QED
  BY <1>3, <1>7, <1>9, Finite DEF StepsLeft

\* Leaving a task closes it.
LEMMA ReturnCosts ==
  ASSUME IInv, Return
  PROVE  StepsLeft' \in Nat /\ StepsLeft' < StepsLeft
<1>1. result = "running" /\ stack # <<>> /\ UNCHANGED <<deps, result>>
  BY DEF Return
<1>2. PICK n \in Nat \ {0} : n = Len(stack) /\ Top = stack[n]
  BY <1>1, TopFrame DEF IInv
<1>3. PICK t \in Tasks : t = stack[n].task
  BY <1>1, <1>2 DEF IInv, FramesInv
<1>4. /\ Len(stack') = n - 1
      /\ \A k \in 1..(n - 1) : stack'[k] = stack[k]
  BY <1>1, <1>2, Pop DEF Return, IInv, TypeOK
<1>5. \A i \in IDs : visitation'[i] = IF i = t THEN "visited" ELSE visitation[i]
  BY <1>2, <1>3 DEF Return, IInv, TypeOK
<1>6. t \in Open
  BY <1>1, <1>2, <1>3 DEF IInv, FramesInv, Open, IDs
<1>7. Fresh' = Fresh /\ Open' = Open \ {t}
  BY <1>5, <1>6 DEF Fresh, Open
<1>8. Left' \subseteq Left
  <2> SUFFICES ASSUME NEW p \in Left' PROVE p \in Left
    OBVIOUS
  <2>1. p \in Tasks \X IDs /\ p[1] \in IDs
    BY DEF Left, IDs
  <2>2. CASE visitation'[p[1]] = "unvisited" /\ p[2] \in deps'[p[1]]
    BY <1>1, <1>5, <2>1, <2>2 DEF Left
  <2>3. ASSUME NEW k \in 1..(n - 1), stack'[k].task = p[1], p[2] \in stack'[k].todo
        PROVE  p \in Left
    BY <1>2, <1>4, <2>1, <2>3 DEF Left
  <2> QED
    BY <1>4, <2>2, <2>3 DEF Left
<1>9. /\ Cardinality(Left') \in Nat
      /\ Cardinality(Left') <= Cardinality(Left)
      /\ Cardinality(Open') = Cardinality(Open) - 1
  BY <1>6, <1>7, <1>8, Finite, FS_Subset, FS_RemoveElement, FS_CardinalityType
<1> QED
  BY <1>1, <1>7, <1>9, Finite DEF StepsLeft

\* The verdict is the last step.
LEMMA VerdictCosts ==
  ASSUME result = "running", result' # "running",
         UNCHANGED <<deps, visitation, stack>>
  PROVE  StepsLeft' \in Nat /\ StepsLeft' < StepsLeft
<1>1. Left' = Left /\ Fresh' = Fresh /\ Open' = Open
  BY DEF Left, Fresh, Open
<1> QED
  BY <1>1, Finite DEF StepsLeft

\* Whatever the graph and the order in which it is walked, every step of the
\* search leaves it fewer steps: it cannot go round in a cycle it has not seen,
\* nor walk every path of a graph that has more paths than tasks.
THEOREM SearchIsBounded == Spec => [][StepsLeft' \in Nat /\ StepsLeft' < StepsLeft]_vars
<1>1. ASSUME IInv, IInv', Next PROVE StepsLeft' \in Nat /\ StepsLeft' < StepsLeft
  <2>1. ASSUME NEW t \in Tasks, StartAt(t) PROVE StepsLeft' \in Nat /\ StepsLeft' < StepsLeft
    BY <1>1, <2>1, EnterCosts DEF StartAt, IDs
  <2>2. CASE Look
    <3>1. PICK d \in Top.todo : FindCycle(d) \/ Descend(d) \/ PassOver(d)
      BY <2>2 DEF Look
    <3>2. d \in IDs /\ result = "running" /\ stack # <<>>
      BY <1>1, <2>2, TopFrame DEF Look, Frame, IInv
    <3>3. CASE FindCycle(d)
      BY <3>2, <3>3, VerdictCosts DEF FindCycle
    <3>4. CASE Descend(d)
      BY <1>1, <3>2, <3>4, EnterCosts DEF Descend
    <3>5. CASE PassOver(d)
      BY <1>1, <3>2, <3>5, PassCosts
    <3> QED
      BY <3>1, <3>3, <3>4, <3>5
  <2>3. CASE Accept
    BY <2>3, VerdictCosts DEF Accept
  <2> QED
    BY <1>1, <2>1, <2>2, <2>3, ReturnCosts DEF Next
<1>2. IInv /\ IInv' /\ [Next]_vars => [StepsLeft' \in Nat /\ StepsLeft' < StepsLeft]_vars
  BY <1>1
<1> QED
  BY <1>2, Invariance, PTL DEF Spec
=============================================================================
