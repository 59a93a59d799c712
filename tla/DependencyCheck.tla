--------------------------- MODULE DependencyCheck ---------------------------
(***************************************************************************)
(* detectDependencyCycle and findCycleDFS (_archive/taskrunner/runner.go): *)
(* the depth-first search that decides whether ExecuteActions accepts a    *)
(* task list.  The recursion is a stack of frames, one for each call that  *)
(* has not returned; the order in which lists are walked is left open.     *)
(***************************************************************************)
EXTENDS Dependencies, Naturals, Sequences, FiniteSets

CONSTANTS Tasks,      \* IDs the action defines
          Undefined   \* IDs that dependsOn may name and the action does not define

ASSUME TasksAssumption == IsFiniteSet(Tasks)
ASSUME UndefinedAssumption == IsFiniteSet(Undefined) /\ Tasks \cap Undefined = {}

IDs == Tasks \cup Undefined

VARIABLES
  deps,         \* dependsOn.tasks of each task; never changes
  visitation,   \* the visitation map (an absent key reads as unvisited)
  stack,        \* recursionStack: each frame holds its task and what its loop has left
  result,       \* "running", or the outcome returned
  order         \* history: the tasks whose call has returned nil, in that order

vars == <<deps, visitation, stack, result, order>>

Frame == [task : IDs, todo : SUBSET IDs]

TypeOK == /\ deps \in [Tasks -> SUBSET IDs]
          /\ visitation \in [IDs -> {"unvisited", "visiting", "visited"}]
          /\ stack \in Seq(Frame)
          /\ result \in {"running", "ok", "cycle", "undefined"}
          /\ order \in Seq(Tasks)

Init == /\ deps \in [Tasks -> SUBSET IDs]
        /\ visitation = [i \in IDs |-> "unvisited"]
        /\ stack = <<>>
        /\ result = "running"
        /\ order = <<>>

Top == stack[Len(stack)]

MutEnter(i) ==   \* an undefined ID is taken for a task without dependencies
  /\ visitation' = [visitation EXCEPT ![i] = "visiting"]
  /\ stack' = Append(stack, [task |-> i,
                             todo |-> IF i \in Tasks THEN deps[i] ELSE {}])
  /\ UNCHANGED <<deps, result, order>>

\* The call's prologue: mark and push the ID, then look it up in taskMap.
Enter(i) ==
  /\ visitation' = [visitation EXCEPT ![i] = "visiting"]
  /\ stack' = Append(stack, [task |-> i,
                             todo |-> IF i \in Tasks THEN deps[i] ELSE {}])
  /\ result' = IF i \in Tasks THEN "running" ELSE "undefined"
  /\ UNCHANGED <<deps, order>>

\* detectDependencyCycle's loop calls findCycleDFS on an unvisited task.
StartAt(t) == /\ result = "running"
              /\ stack = <<>>
              /\ visitation[t] = "unvisited"
              /\ Enter(t)

MutFindCycle(d) ==   \* a visited dependency is taken for a cycle
  /\ visitation[d] # "unvisited"
  /\ result' = "cycle"
  /\ UNCHANGED <<deps, visitation, stack, order>>

\* findCycleDFS's loop looks at the next dependency: back to a task that is
\* being visited is a cycle, an unvisited one is entered (and passed over when
\* that call has returned, since it is visited then), a visited one is passed
\* over.
FindCycle(d) ==
  /\ visitation[d] = "visiting"
  /\ result' = "cycle"
  /\ UNCHANGED <<deps, visitation, stack, order>>

Descend(d) ==
  /\ visitation[d] = "unvisited"
  /\ Enter(d)

MutPassOver(d) ==   \* the loop does not move on
  /\ visitation[d] = "visited"
  /\ UNCHANGED vars

PassOver(d) ==
  /\ visitation[d] = "visited"
  /\ stack' = [stack EXCEPT ![Len(stack)].todo = @ \ {d}]
  /\ UNCHANGED <<deps, visitation, result, order>>

Look == /\ result = "running"
        /\ stack # <<>>
        /\ \E d \in Top.todo : FindCycle(d) \/ Descend(d) \/ PassOver(d)

\* The loop over the dependencies is over: mark, pop, return nil.
Return == /\ result = "running"
          /\ stack # <<>>
          /\ Top.todo = {}
          /\ visitation' = [visitation EXCEPT ![Top.task] = "visited"]
          /\ order' = Append(order, Top.task)
          /\ stack' = SubSeq(stack, 1, Len(stack) - 1)
          /\ UNCHANGED <<deps, result>>

MutAccept ==   \* only the first task of the list is searched from
  /\ result = "running"
  /\ stack = <<>>
  /\ order # <<>>
  /\ result' = "ok"
  /\ UNCHANGED <<deps, visitation, stack, order>>

\* detectDependencyCycle's loop is over: no task is left unvisited.
Accept == /\ result = "running"
          /\ stack = <<>>
          /\ \A t \in Tasks : visitation[t] # "unvisited"
          /\ result' = "ok"
          /\ UNCHANGED <<deps, visitation, stack, order>>

Next == \/ \E t \in Tasks : StartAt(t)
        \/ Look
        \/ Return
        \/ Accept

Spec == Init /\ [][Next]_vars

\* The search runs in one goroutine that nothing blocks.
FairSpec == Spec /\ WF_vars(Next)
-----------------------------------------------------------------------------
\* An accepted task list can be executed: in the order in which the search left
\* them, which has them all, nothing comes before a task it depends on.
AcceptedCanRun ==
  result = "ok" =>
    /\ \A t \in Tasks : \E i \in 1..Len(order) : order[i] = t
    /\ \A i \in 1..Len(order) : \A d \in deps[order[i]] :
         \E j \in 1..(i - 1) : order[j] = d

\* The verdict is exact, whatever the order in which maps and lists are walked:
\* a list is accepted if all that its tasks wait for is there and no set of
\* tasks waits for itself, and each refusal names the reason that applies.
VerdictIsExact ==
  /\ result = "ok" => Defined(Tasks, deps) /\ Acyclic(Tasks, deps)
  /\ result = "cycle" => ~Acyclic(Tasks, deps)
  /\ result = "undefined" => ~Defined(Tasks, deps)

\* The search ends, whatever the graph.
Decides == <>(result # "running")
=============================================================================
