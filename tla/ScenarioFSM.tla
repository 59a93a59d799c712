----------------------------- MODULE ScenarioFSM -----------------------------
(***************************************************************************)
(* The scenario's state machine (_archive/fsm, _archive/service): each     *)
(* ExecuteFSM call makes a Machine of its own, and all of them share the   *)
(* Runner, with its one command field, and the scenario's state in etcd.   *)
(* ExecuteActions is one step with either outcome (module TaskRunner).     *)
(*                                                                         *)
(* A Machine handles its events one at a time: its mutex is held for the   *)
(* whole of handleEvent, which is what posts the next event.               *)
(***************************************************************************)
EXTENDS Naturals, Sequences, FiniteSets

CONSTANTS Machines,      \* the ExecuteFSM calls
          States,        \* fsm.definition.states
          InitialState,  \* the first of them
          External,      \* triggers.external
          Internal,      \* triggers.internal, a list
          Target,        \* transitions: Target[e][s], which is s if there is none
          HasTasks,      \* the states that actions binds tasks to
          Commands,      \* what a caller may pass to ExecuteFSM
          NoState,       \* no current_state key; no state yet
          NoEvent,       \* the runner's command before the first call
          StoreFaults,   \* may a call on etcd fail
          MayCrash,      \* may the process stop at any time
          OverlapChoices \* may a call start before the previous one is done

InternalSet == {Internal[i] : i \in DOMAIN Internal}
Events == External \cup InternalSet

ASSUME StatesAssumption == InitialState \in States /\ NoState \notin States
                           /\ HasTasks \subseteq States
ASSUME InternalAssumption == Internal \in Seq(InternalSet) /\ Len(Internal) >= 2
ASSUME TargetAssumption == Target \in [Events -> [States -> States]]
ASSUME FaultAssumption == /\ StoreFaults \in BOOLEAN
                          /\ MayCrash \in BOOLEAN
                          /\ OverlapChoices \subseteq BOOLEAN

VARIABLES
  persisted,   \* the scenario's current_state key
  command,     \* the Runner's command, shared by all machines
  pc,          \* where each call is
  state,       \* the machine's state in memory
  from,        \* the state its last transition left
  event,       \* the event on its channel, or the last one handled
  executions,  \* history: executions created, with the tasks each was given
  overlap      \* may calls overlap in this behaviour

vars == <<persisted, command, pc, state, from, event, executions, overlap>>

Places == {"absent", "called", "bootstrap", "loaded", "posted", "create",
           "executing", "quiet", "dead"}

Execution == [by : Machines, from : States, to : States, tasksOf : HasTasks]

TypeOK == /\ persisted \in States \cup {NoState}
          /\ command \in Commands \cup {NoEvent}
          /\ pc \in [Machines -> Places]
          /\ state \in [Machines -> States \cup {NoState}]
          /\ from \in [Machines -> States \cup {NoState}]
          /\ event \in [Machines -> Commands \cup Events \cup {NoEvent}]
          /\ executions \subseteq Execution
          /\ overlap \in BOOLEAN

Init == /\ persisted \in States \cup {NoState}
        /\ command = NoEvent
        /\ pc = [m \in Machines |-> "absent"]
        /\ state = [m \in Machines |-> NoState]
        /\ from = [m \in Machines |-> NoState]
        /\ event = [m \in Machines |-> NoEvent]
        /\ executions = {}
        /\ overlap \in OverlapChoices

Moves(m, source, target) == /\ pc[m] = source
                            /\ pc' = [pc EXCEPT ![m] = target]

\* A call is over when nothing of it will happen any more; its Run never returns.
Over(m) == pc[m] \in {"absent", "quiet", "dead"}

-----------------------------------------------------------------------------
\* ExecuteFSM: SetCommand.
Call(m) == /\ Moves(m, "absent", "called")
           /\ overlap \/ \A n \in Machines : Over(n)
           /\ command' \in Commands
           /\ UNCHANGED <<persisted, state, from, event, executions, overlap>>

\* bootstrapFSMConfig cannot get the configuration: the call returns.
ConfigFails(m) == /\ StoreFaults
                  /\ Moves(m, "called", "quiet")
                  /\ UNCHANGED <<persisted, command, state, from, event,
                                 executions, overlap>>

MutLoad(m) == /\ Moves(m, "called", "bootstrap")   \* starts over each time
              /\ state' = [state EXCEPT ![m] = InitialState]
              /\ UNCHANGED <<persisted, command, from, event, executions, overlap>>

\* NewMachine reads the current state once; it is not read again.
Load(m) == /\ pc[m] = "called"
           /\ IF persisted = NoState
              THEN /\ Moves(m, "called", "bootstrap")
                   /\ state' = [state EXCEPT ![m] = InitialState]
              ELSE /\ Moves(m, "called", "loaded")
                   /\ state' = [state EXCEPT ![m] = persisted]
           /\ UNCHANGED <<persisted, command, from, event, executions, overlap>>

\* NewMachine writes the initial state; that this fails is only logged.
Bootstrap(m) == /\ Moves(m, "bootstrap", "loaded")
                /\ \/ persisted' = state[m]
                   \/ StoreFaults /\ UNCHANGED persisted
                /\ UNCHANGED <<command, state, from, event, executions, overlap>>

\* Run posts the command it finds in the Runner.
Post(m) == /\ Moves(m, "loaded", "posted")
           /\ event' = [event EXCEPT ![m] = command]
           /\ UNCHANGED <<persisted, command, state, from, executions, overlap>>

\* handleEvent ignores an event it does not know or that does not apply.
Ignored(m) == event[m] \in Events => Target[event[m]][state[m]] = state[m]

Ignore(m) == /\ Moves(m, "posted", "quiet")
             /\ Ignored(m)
             /\ UNCHANGED <<persisted, command, state, from, event,
                            executions, overlap>>

MutStartsTasks(m) == state[m] \in HasTasks   \* internal events start tasks, too

\* An external event starts the tasks of the state it leaves, if there are any.
StartsTasks(m) == state[m] \in HasTasks /\ event[m] \notin InternalSet

Move(m) == /\ ~Ignored(m)
           /\ state' = [state EXCEPT ![m] = Target[event[m]][@]]
           /\ from' = [from EXCEPT ![m] = state[m]]
           /\ UNCHANGED <<command, event, executions, overlap>>

Persist(m) == persisted' = Target[event[m]][state[m]]

MutTransit(m) ==   \* a failure to persist is not fatal
  /\ Moves(m, "posted", IF StartsTasks(m) THEN "create" ELSE "quiet")
  /\ Move(m)
  /\ Persist(m) \/ (StoreFaults /\ UNCHANGED persisted)

\* handleEvent moves the machine, and persists the new state or gives up.
Transit(m) ==
  /\ Move(m)
  /\ \/ /\ Moves(m, "posted", IF StartsTasks(m) THEN "create" ELSE "quiet")
        /\ Persist(m)
     \/ /\ StoreFaults
        /\ Moves(m, "posted", "quiet")
        /\ Persist(m) \/ UNCHANGED persisted

\* InitializeExecution, with the tasks of the state that was left.
NewExecution(m) == [by |-> m, from |-> from[m], to |-> state[m], tasksOf |-> from[m]]

Create(m) == /\ \/ /\ Moves(m, "create", "executing")
                   /\ executions' = executions \cup {NewExecution(m)}
                \/ /\ StoreFaults
                   /\ Moves(m, "create", "quiet")
                   /\ UNCHANGED executions
             /\ UNCHANGED <<persisted, command, state, from, event, overlap>>

\* ExecuteActions returns; its outcome is posted by position in the list.
Outcome(success) == IF success THEN Internal[2] ELSE Internal[1]

MutExecute(m, success) ==   \* an error return posts nothing
  /\ Moves(m, "executing", IF success THEN "posted" ELSE "quiet")
  /\ event' = [event EXCEPT ![m] = Outcome(success)]
  /\ UNCHANGED <<persisted, command, state, from, executions, overlap>>

Execute(m, success) ==
  /\ Moves(m, "executing", "posted")
  /\ event' = [event EXCEPT ![m] = Outcome(success)]
  /\ UNCHANGED <<persisted, command, state, from, executions, overlap>>

Step(m) == \/ ConfigFails(m) \/ Load(m) \/ Bootstrap(m) \/ Post(m)
           \/ Ignore(m) \/ Transit(m) \/ Create(m)
           \/ \E success \in BOOLEAN : Execute(m, success)

\* The process stops, or NewMachine's read fails and its panic stops it.
Crash == /\ MayCrash \/ (StoreFaults /\ \E m \in Machines : pc[m] = "called")
         /\ pc' = [m \in Machines |-> IF pc[m] = "absent" THEN "absent" ELSE "dead"]
         /\ command' = NoEvent
         /\ UNCHANGED <<persisted, state, from, event, executions, overlap>>

Next == Crash \/ \E m \in Machines : Call(m) \/ Step(m)

Spec == Init /\ [][Next]_vars
-----------------------------------------------------------------------------
\* Tasks run only for a transition that is durable: as long as no other call
\* interferes, a crash during the tasks finds the scenario in the new state.
TasksAfterPersist ==
  \A m \in Machines : ~overlap /\ pc[m] \in {"create", "executing"}
                        => persisted = state[m]

\* One command runs one task list at most: the events that report its outcome
\* never start another one, although the states they leave have tasks.
OneExecutionPerCommand ==
  \A x, y \in executions : x.by = y.by => x = y

\* As long as calls do not overlap, the scenario's state in etcd moves along
\* the transition table, across failed writes, restarts of the process and the
\* configuration's first use: no machine acts on a state the scenario is not in.
FollowsTable ==
  [][~overlap /\ persisted # NoState =>
       \E e \in Events : persisted' = Target[e][persisted]]_persisted

\* Once its tasks have run, a machine leaves the state the command led to: the
\* tasks' outcome is always reported, and the report always applies, provided
\* that every state a command leads to has transitions for both outcomes.  An
\* ExecuteActions that never returns (Runner_hang) is not among the outcomes.
OutcomeTakesEffect ==
  \A m \in Machines : \A s \in States :
    pc[m] = "executing" /\ state[m] = s
      ~> pc[m] = "dead" \/ (pc[m] = "quiet" /\ state[m] # s)
=============================================================================
