---------------------------- MODULE AgentPipeline ----------------------------
(***************************************************************************)
(* From a request to the orchestrator (main.go, internal/handlers) to the  *)
(* texts of its three agents (crewai-researcher) in the task store of the  *)
(* MCP server (mcp-server).                                                *)
(*                                                                         *)
(* An agent takes over from the one before it through the store only.      *)
(* Whether it calls its tools, how often, and what it makes of an answer   *)
(* is up to a language model, and any choice here; that it uses the task   *)
(* IDs it was given is assumed.  Every task ID is new, so each belongs to  *)
(* one agent of one request.                                               *)
(***************************************************************************)
EXTENDS Naturals, FiniteSets

CONSTANTS Requests,
          MaxCalls,   \* bound: tool calls of an agent (CrewAI has one as well)
          MaxFaults   \* bound: failing calls and crashes

ASSUME BoundsAssumption == MaxCalls \in Nat /\ MaxFaults \in Nat

VARIABLES
  job,      \* what became of each request
  agent,    \* the agent at work in its job: 1, 2, 3
  calls,    \* tool calls of that agent
  call,     \* the one under way
  known,    \* the text of its predecessor that it has got, 0 if none
  stored,   \* the store: a text for every request and agent
  late,     \* texts that the server will still put, though nobody waits for it
  acked,    \* the last text whose saving was confirmed, 0 if none
  doubtful, \* the texts whose saving ended in an error
  faults

jobVars == <<job, agent, calls, call, known>>
storeVars == <<stored, late>>
vars == <<jobVars, storeVars, acked, doubtful, faults>>

Agents == 1..3
Tasks == Requests \X Agents

\* A text is known by its number among the calls of its agent, and by the text
\* that it is based on.
Texts == [number : 1..MaxCalls, base : 0..MaxCalls]
NoText == [number |-> 0, base |-> 0]

TypeOK ==
  /\ job \in [Requests -> {"none", "accepted", "running", "done", "failed", "lost"}]
  /\ agent \in [Requests -> Agents]
  /\ calls \in [Requests -> 0..MaxCalls]
  /\ call \in [Requests -> {"none", "get", "save", "saved"}]
  /\ known \in [Requests -> 0..MaxCalls]
  /\ stored \in [Tasks -> Texts \cup {NoText}]
  /\ late \subseteq [task : Tasks, text : Texts]
  /\ acked \in [Tasks -> 0..MaxCalls]
  /\ doubtful \in [Tasks -> SUBSET (1..MaxCalls)]
  /\ faults \in 0..MaxFaults

Init == /\ job = [r \in Requests |-> "none"]
        /\ agent = [r \in Requests |-> 1]
        /\ calls = [r \in Requests |-> 0]
        /\ call = [r \in Requests |-> "none"]
        /\ known = [r \in Requests |-> 0]
        /\ stored = [t \in Tasks |-> NoText]
        /\ late = {}
        /\ acked = [t \in Tasks |-> 0]
        /\ doubtful = [t \in Tasks |-> {}]
        /\ faults = 0

Fault == faults < MaxFaults /\ faults' = faults + 1

\* The task of the agent at work, and the text that it saves now.
Task(r) == <<r, agent[r]>>
Text(r) == [number |-> calls[r], base |-> known[r]]
-----------------------------------------------------------------------------
\* POST /assignments: the answer is 202, whatever becomes of the job, whose
\* creation goes on in the background.
Accept(r) == /\ job[r] = "none"
             /\ job' = [job EXCEPT ![r] = "accepted"]
             /\ UNCHANGED <<agent, calls, call, known, storeVars, acked, doubtful, faults>>

\* OrchestrateAgentExecution creates the job; its pod runs once at most.
CreateJob(r) == /\ job[r] = "accepted"
                /\ job' = [job EXCEPT ![r] = "running"]
                /\ UNCHANGED <<agent, calls, call, known, storeVars, acked, doubtful, faults>>

\* The cluster refuses it, and the error is dropped; the job may exist.
CreateFails(r) == /\ Fault
                  /\ job[r] = "accepted"
                  /\ job' \in {[job EXCEPT ![r] = j] : j \in {"running", "lost"}}
                  /\ UNCHANGED <<agent, calls, call, known, storeVars, acked, doubtful>>

\* The orchestrator stops, and with it what it was doing in the background.
OrchestratorStops ==
  /\ Fault
  /\ job' = [r \in Requests |-> IF job[r] = "accepted" THEN "lost" ELSE job[r]]
  /\ UNCHANGED <<agent, calls, call, known, storeVars, acked, doubtful>>
-----------------------------------------------------------------------------
Idle(r) == job[r] = "running" /\ call[r] = "none"

\* The agent calls its tool: save, for its own task, or get, for that of its
\* predecessor.
Calls(r, tool) == /\ Idle(r)
                  /\ calls[r] < MaxCalls
                  /\ calls' = [calls EXCEPT ![r] = @ + 1]
                  /\ call' = [call EXCEPT ![r] = tool]
                  /\ UNCHANGED <<job, agent, known, storeVars, acked, doubtful, faults>>

Save(r) == Calls(r, "save")
Get(r) == agent[r] > 1 /\ Calls(r, "get")

\* updateTaskHandler puts the text, whatever is there, ...
Put(r) == /\ call[r] = "save"
          /\ stored' = [stored EXCEPT ![Task(r)] = Text(r)]
          /\ call' = [call EXCEPT ![r] = "saved"]
          /\ UNCHANGED <<job, agent, calls, known, late, acked, doubtful, faults>>

MutSaved(r) ==   \* the answer does not wait for the put
  /\ call[r] \in {"save", "saved"}
  /\ call' = [call EXCEPT ![r] = "none"]
  /\ acked' = [acked EXCEPT ![Task(r)] = calls[r]]
  /\ late' = IF call[r] = "save" THEN late \cup {[task |-> Task(r), text |-> Text(r)]} ELSE late
  /\ UNCHANGED <<job, agent, calls, known, stored, doubtful, faults>>

\* ... and then answers; the tool confirms it to the agent.
Saved(r) == /\ call[r] = "saved"
            /\ call' = [call EXCEPT ![r] = "none"]
            /\ acked' = [acked EXCEPT ![Task(r)] = calls[r]]
            /\ UNCHANGED <<job, agent, calls, known, storeVars, doubtful, faults>>

\* The put that the caller of r no longer waits for.  It does not depend on the
\* request's context.
LeftBehind(r) == late' = IF call[r] = "save"
                         THEN late \cup {[task |-> Task(r), text |-> Text(r)]}
                         ELSE late

\* The put fails, or the answer does not arrive: the tool tells the agent of an
\* error, but the text may be stored, or be so later.
SaveFails(r) == /\ Fault
                /\ call[r] \in {"save", "saved"}
                /\ call' = [call EXCEPT ![r] = "none"]
                /\ LeftBehind(r)
                /\ doubtful' = [doubtful EXCEPT ![Task(r)] = @ \cup {calls[r]}]
                /\ UNCHANGED <<job, agent, calls, known, stored, acked>>

LatePut(p) == /\ stored' = [stored EXCEPT ![p.task] = p.text]
              /\ late' = late \ {p}
              /\ UNCHANGED <<jobVars, acked, doubtful, faults>>

MutRead(r) ==   \* a task that does not exist is waited for
  /\ call[r] = "get"
  /\ stored[<<r, agent[r] - 1>>] # NoText
  /\ known' = [known EXCEPT ![r] = stored[<<r, agent[r] - 1>>].number]
  /\ call' = [call EXCEPT ![r] = "none"]
  /\ UNCHANGED <<job, agent, calls, storeVars, acked, doubtful, faults>>

\* getTaskHandler, and what the agent learns: an output, or that there is none.
Read(r) ==
  /\ call[r] = "get"
  /\ LET text == stored[<<r, agent[r] - 1>>]
     IN  known' = [known EXCEPT ![r] = IF text = NoText THEN @ ELSE text.number]
  /\ call' = [call EXCEPT ![r] = "none"]
  /\ UNCHANGED <<job, agent, calls, storeVars, acked, doubtful, faults>>

\* An error of the store is answered as "not found", and goes to the agent.
ReadFails(r) == /\ Fault
                /\ call[r] = "get"
                /\ call' = [call EXCEPT ![r] = "none"]
                /\ UNCHANGED <<job, agent, calls, known, storeVars, acked, doubtful>>
-----------------------------------------------------------------------------
MutNextAgent(r) ==   \* the last agent has a successor, too
  /\ Idle(r)
  /\ agent' = [agent EXCEPT ![r] = @ + 1]
  /\ calls' = [calls EXCEPT ![r] = 0]
  /\ known' = [known EXCEPT ![r] = 0]
  /\ UNCHANGED <<job, call, storeVars, acked, doubtful, faults>>

\* The agents work one after the other; one is done when it says so.
NextAgent(r) == /\ Idle(r)
                /\ agent[r] < 3
                /\ agent' = [agent EXCEPT ![r] = @ + 1]
                /\ calls' = [calls EXCEPT ![r] = 0]
                /\ known' = [known EXCEPT ![r] = 0]
                /\ UNCHANGED <<job, call, storeVars, acked, doubtful, faults>>

Ends(r, how) == /\ job' = [job EXCEPT ![r] = how]
                /\ call' = [call EXCEPT ![r] = "none"]
                /\ UNCHANGED <<agent, calls, known, stored, acked>>

Finish(r) == /\ Idle(r) /\ agent[r] = 3
             /\ Ends(r, "done")
             /\ UNCHANGED <<late, doubtful, faults>>

\* The script or its pod fails at any point; there is no second attempt.
Fails(r) == /\ Fault
            /\ job[r] = "running"
            /\ Ends(r, "failed")
            /\ LeftBehind(r)
            /\ doubtful' = [doubtful EXCEPT ![Task(r)] =
                              IF call[r] \in {"save", "saved"} THEN @ \cup {calls[r]} ELSE @]

JobStep(r) == \/ Accept(r) \/ CreateJob(r) \/ CreateFails(r) \/ Fails(r)
              \/ Save(r) \/ Put(r) \/ Saved(r) \/ SaveFails(r)
              \/ Get(r) \/ Read(r) \/ ReadFails(r)
              \/ NextAgent(r) \/ Finish(r)

Next == \/ OrchestratorStops
        \/ \E r \in Requests : JobStep(r)
        \/ \E p \in late : LatePut(p)

\* The orchestrator's goroutine and the server's handlers make progress; agents
\* end, as CrewAI bounds their iterations.  Late puts need not take place.
Fairness == \A r \in Requests :
  /\ WF_vars(CreateJob(r))
  /\ WF_vars(Put(r))
  /\ WF_vars(Saved(r))
  /\ WF_vars(Read(r))
  /\ WF_vars(NextAgent(r) \/ Finish(r))

Spec == Init /\ [][Next]_vars /\ Fairness
-----------------------------------------------------------------------------
\* The texts of task t whose saving has not been confirmed or is under way.
Unconfirmed(t) ==
  doubtful[t] \cup {calls[r] : r \in {q \in Requests : Task(q) = t /\ call[q] \in {"save", "saved"}}}

\* "Successfully saved" lasts: another text of the task takes the place of the
\* confirmed one only if its own saving was reported as an error or is not
\* answered yet; it may be an older text, put late.
ConfirmedLasts ==
  \A t \in Tasks : acked[t] # 0 /\ stored[t].number # acked[t] =>
                     stored[t].number \in Unconfirmed(t)

\* The chain of texts holds together: what an agent has saved is based on the
\* text that is now stored for its predecessor, if no saving of the latter's
\* ended in an error, whoever reads and saves how often.
ChainIsCurrent ==
  \A r \in Requests, a \in {2, 3} :
    /\ doubtful[<<r, a - 1>>] = {}
    /\ stored[<<r, a>>].base # 0
    => stored[<<r, a - 1>>].number = stored[<<r, a>>].base

\* A request that was accepted comes to an end, or its loss is due to a fault.
AcceptedEnds ==
  \A r \in Requests : job[r] = "accepted" ~> job[r] \in {"done", "failed", "lost"}
=============================================================================
