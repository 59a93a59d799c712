------------------------- MODULE AgentPipelineProofs -------------------------
(***************************************************************************)
(* What AgentPipeline's runs check of one request, for any number of them  *)
(* and any bounds.  The invariant follows a text from the agent's save to  *)
(* the store, where a put that was left behind may replace it, and on to   *)
(* the agent that reads it there.                                          *)
(***************************************************************************)
EXTENDS AgentPipeline, TLAPS

\* What is stored is the text being saved once its put is made, the confirmed
\* one otherwise, or one whose saving ended in an error.
Expected(r, a) == IF agent[r] = a /\ call[r] = "saved" THEN calls[r] ELSE acked[<<r, a>>]
Held == \A r \in Requests, a \in Agents :
          stored[<<r, a>>].number \in doubtful[<<r, a>>] \cup {Expected(r, a)}

\* Who puts late has reported an error.
LateDoubtful == \A p \in late : p.text.number \in doubtful[p.task]

\* The agents to come have left nothing.
Future == \A r \in Requests, a \in Agents :
            a > agent[r] => /\ stored[<<r, a>>] = NoText
                            /\ \A p \in late : p.task # <<r, a>>

\* A text based on number b of the predecessor's is up to date.
Current(r, a, b) == b # 0 => /\ a # 1
                             /\ \/ doubtful[<<r, a - 1>>] # {}
                                \/ stored[<<r, a - 1>>].number = b

KnownCurrent == \A r \in Requests : Current(r, agent[r], known[r])
LateCurrent == \A r \in Requests, a \in Agents : \A p \in late :
                 p.task = <<r, a>> => Current(r, a, p.text.base)
StoredCurrent == \A r \in Requests, a \in Agents : Current(r, a, stored[<<r, a>>].base)

\* A call under way has been counted; the first agent never reads.
CallsCounted == \A r \in Requests :
                  /\ call[r] \in {"save", "saved"} => calls[r] # 0
                  /\ call[r] = "get" => agent[r] # 1

Inv == /\ TypeOK /\ CallsCounted
       /\ Held /\ LateDoubtful
       /\ Future /\ KnownCurrent /\ LateCurrent /\ StoredCurrent

\* The types of what belongs to one request, one task, one late put.
LEMMA RequestTypes ==
  ASSUME TypeOK, NEW r \in Requests
  PROVE  /\ agent[r] \in {1, 2, 3}
         /\ calls[r] \in 0..MaxCalls /\ known[r] \in 0..MaxCalls
         /\ call[r] \in {"none", "get", "save", "saved"}
         /\ Task(r) = <<r, agent[r]>> /\ Task(r) \in Tasks
<1>1. /\ agent[r] \in Agents
      /\ calls[r] \in 0..MaxCalls /\ known[r] \in 0..MaxCalls
      /\ call[r] \in {"none", "get", "save", "saved"}
  BY DEF TypeOK
<1>2. Task(r) = <<r, agent[r]>> /\ Task(r) \in Tasks
  BY <1>1 DEF Task, Tasks
<1> QED BY <1>1, <1>2 DEF Agents

LEMMA SavingTypes ==
  ASSUME TypeOK, CallsCounted, NEW r \in Requests, call[r] \in {"save", "saved"}
  PROVE  calls[r] \in 1..MaxCalls /\ Text(r) \in Texts
<1>1. calls[r] # 0
  BY DEF CallsCounted
<1>2. calls[r] \in 1..MaxCalls
  BY <1>1, RequestTypes, BoundsAssumption
<1> QED BY <1>2, RequestTypes DEF Text, Texts

LEMMA TaskTypes ==
  ASSUME TypeOK, NEW r \in Requests, NEW a \in Agents
  PROVE  /\ <<r, a>> \in Tasks
         /\ stored[<<r, a>>] \in Texts \cup {NoText}
         /\ stored[<<r, a>>].number \in 0..MaxCalls
         /\ stored[<<r, a>>].base \in 0..MaxCalls
         /\ acked[<<r, a>>] \in 0..MaxCalls
         /\ doubtful[<<r, a>>] \subseteq 1..MaxCalls
<1>1. <<r, a>> \in Tasks
  BY DEF Tasks
<1>2. /\ stored[<<r, a>>] \in Texts \cup {NoText}
      /\ acked[<<r, a>>] \in 0..MaxCalls
      /\ doubtful[<<r, a>>] \subseteq 1..MaxCalls
  BY <1>1 DEF TypeOK
<1> QED BY <1>1, <1>2, BoundsAssumption DEF Texts, NoText

LEMMA LateTypes ==
  ASSUME TypeOK, NEW p \in late
  PROVE  /\ p.task \in Tasks /\ p.text \in Texts
         /\ p.text.number \in 1..MaxCalls /\ p.text.base \in 0..MaxCalls
         /\ \E r \in Requests, a \in Agents : p.task = <<r, a>>
<1>1. p.task \in Tasks /\ p.text \in Texts
  BY DEF TypeOK
<1> QED BY <1>1 DEF Tasks, Texts

\* Every step respects the types.
LEMMA TypeStep == ASSUME TypeOK, CallsCounted, [Next]_vars PROVE TypeOK' /\ CallsCounted'
<1> USE DEF TypeOK, CallsCounted
<1>1. ASSUME NEW r \in Requests, JobStep(r) PROVE TypeOK' /\ CallsCounted'
  <2>1. CASE Accept(r) BY <2>1 DEF Accept, storeVars
  <2>2. CASE CreateJob(r) BY <2>2 DEF CreateJob, storeVars
  <2>3. CASE CreateFails(r) BY <2>3, BoundsAssumption DEF CreateFails, storeVars, Fault
  <2>4. CASE Save(r) \/ Get(r)
    <3>1. calls[r] + 1 \in 1..MaxCalls
      BY <2>4, RequestTypes, BoundsAssumption DEF Save, Get, Calls
    <3>2. calls' \in [Requests -> 0..MaxCalls]
      BY <2>4, <3>1, BoundsAssumption DEF Save, Get, Calls
    <3>3. CallsCounted'
      BY <2>4, <3>1 DEF Save, Get, Calls, Agents
    <3> QED BY <2>4, <3>2, <3>3 DEF Save, Get, Calls, storeVars
  <2>5. CASE Put(r)
    <3>1. Text(r) \in Texts /\ Task(r) \in Tasks
      BY <2>5, SavingTypes, RequestTypes DEF Put
    <3> QED BY <2>5, <3>1 DEF Put
  <2>6. CASE Saved(r)
    <3>1. calls[r] \in 0..MaxCalls /\ Task(r) \in Tasks
      BY RequestTypes
    <3> QED BY <2>6, <3>1 DEF Saved, storeVars
  <2>7. CASE SaveFails(r) \/ Fails(r)
    <3>1. late' \subseteq [task : Tasks, text : Texts]
      BY <2>7, SavingTypes, RequestTypes DEF SaveFails, Fails, LeftBehind
    <3>2. doubtful' \in [Tasks -> SUBSET (1..MaxCalls)]
      BY <2>7, SavingTypes, RequestTypes DEF SaveFails, Fails
    <3>3. faults' \in 0..MaxFaults
      BY <2>7, BoundsAssumption DEF SaveFails, Fails, Fault
    <3> QED BY <2>7, <3>1, <3>2, <3>3 DEF SaveFails, Fails, Ends
  <2>8. CASE Read(r)
    <3>1. agent[r] - 1 \in Agents
      BY <2>8, RequestTypes DEF Read, Agents
    <3>2. known' \in [Requests -> 0..MaxCalls]
      BY <2>8, <3>1, TaskTypes DEF Read
    <3> QED BY <2>8, <3>2 DEF Read, storeVars
  <2>9. CASE ReadFails(r) BY <2>9, BoundsAssumption DEF ReadFails, Fault, storeVars
  <2>10. CASE NextAgent(r)
    <3>1. agent[r] + 1 \in Agents /\ 0 \in 0..MaxCalls
      BY <2>10, RequestTypes, BoundsAssumption DEF NextAgent, Agents
    <3> QED BY <2>10, <3>1 DEF NextAgent, Idle, storeVars
  <2>11. CASE Finish(r) BY <2>11 DEF Finish, Ends, Idle
  <2> QED BY <1>1, <2>1, <2>2, <2>3, <2>4, <2>5, <2>6, <2>7, <2>8, <2>9, <2>10, <2>11 DEF JobStep
<1>2. CASE OrchestratorStops BY <1>2, BoundsAssumption DEF OrchestratorStops, Fault, storeVars
<1>3. ASSUME NEW p \in late, LatePut(p) PROVE TypeOK' /\ CallsCounted'
  BY <1>3, LateTypes DEF LatePut, jobVars
<1>4. CASE UNCHANGED vars BY <1>4 DEF vars, jobVars, storeVars
<1> QED BY <1>1, <1>2, <1>3, <1>4 DEF Next

\* The rest of the invariant is about these variables only.
LEMMA Quiet ==
  ASSUME Inv, UNCHANGED <<agent, calls, known, storeVars, acked, doubtful>>,
         \A r \in Requests : call'[r] = "saved" <=> call[r] = "saved"
  PROVE  /\ Held' /\ LateDoubtful'
         /\ Future' /\ KnownCurrent' /\ LateCurrent' /\ StoredCurrent'
BY DEF Inv, storeVars, Held, Expected, LateDoubtful, Future, KnownCurrent, LateCurrent,
       StoredCurrent, Current

LEMMA InvStep == ASSUME Inv, [Next]_vars PROVE Inv'
<1>0. TypeOK' /\ CallsCounted'
  BY TypeStep DEF Inv
<1>a. TypeOK /\ CallsCounted /\ Held /\ LateDoubtful /\ Future
      /\ KnownCurrent /\ LateCurrent /\ StoredCurrent
  BY DEF Inv
<1>b. /\ call \in [Requests -> {"none", "get", "save", "saved"}]
      /\ agent \in [Requests -> Agents]
      /\ calls \in [Requests -> 0..MaxCalls] /\ known \in [Requests -> 0..MaxCalls]
      /\ stored \in [Tasks -> Texts \cup {NoText}]
      /\ acked \in [Tasks -> 0..MaxCalls] /\ doubtful \in [Tasks -> SUBSET (1..MaxCalls)]
  BY <1>a DEF TypeOK
<1>c. \A q \in Requests : /\ agent[q] \in Agents
                          /\ calls[q] \in 0..MaxCalls /\ known[q] \in 0..MaxCalls
                          /\ Task(q) = <<q, agent[q]>>
  BY <1>a, <1>b, RequestTypes
<1>d. /\ \A a \in Agents : (a = 1 \/ a = 2 \/ a = 3) /\ (a # 1 => a - 1 \in Agents)
      /\ 0 \in 0..MaxCalls
  BY BoundsAssumption DEF Agents
<1>e. \A q \in Requests, a \in Agents : /\ <<q, a>> \in Tasks
                                        /\ stored[<<q, a>>].number \in 0..MaxCalls
                                        /\ stored[<<q, a>>].base \in 0..MaxCalls
  BY <1>a, TaskTypes
<1>f. \A q, r \in Requests, a \in Agents : <<q, a>> = Task(r) <=> q = r /\ a = agent[r]
  BY DEF Task
<1>1. ASSUME NEW r \in Requests, JobStep(r)
      PROVE  /\ Held' /\ LateDoubtful'
             /\ Future' /\ KnownCurrent' /\ LateCurrent' /\ StoredCurrent'
  <2>1. CASE Accept(r) \/ CreateJob(r) \/ CreateFails(r) \/ ReadFails(r) \/ Finish(r)
    BY <1>b, <2>1, Quiet DEF Accept, CreateJob, CreateFails, ReadFails, Finish, Ends, Idle, storeVars
  <2>2. CASE Save(r) \/ Get(r)
    <3>1. Idle(r) /\ UNCHANGED <<agent, known, storeVars, acked, doubtful>>
      BY <2>2 DEF Save, Get, Calls
    <3>2. \A q \in Requests : /\ call'[q] = "saved" <=> call[q] = "saved"
                              /\ call[q] = "saved" => calls'[q] = calls[q]
      BY <1>b, <2>2 DEF Save, Get, Calls, Idle
    <3>3. Held'
      BY <1>a, <1>b, <3>1, <3>2 DEF storeVars, Held, Expected, Idle
    <3> QED BY <1>a, <3>1, <3>3 DEF storeVars, LateDoubtful, Future, KnownCurrent,
                              LateCurrent, StoredCurrent, Current
  <2>3. CASE Put(r)
    <3>1. \A q \in Requests, a \in Agents :
            stored'[<<q, a>>] = IF q = r /\ a = agent[r] THEN Text(r) ELSE stored[<<q, a>>]
      BY <1>b, <1>e, <1>f, <2>3 DEF Put
    <3>2. /\ call[r] = "save" /\ \A q \in Requests :
                                   call'[q] = IF q = r THEN "saved" ELSE call[q]
          /\ UNCHANGED <<agent, calls, known, late, acked, doubtful>>
      BY <1>b, <2>3 DEF Put
    <3>3. Held' /\ LateDoubtful'
      BY <1>a, <1>c, <3>1, <3>2 DEF Held, Expected, LateDoubtful, Text
    <3>4. \A q \in Requests, a \in Agents, b \in 0..MaxCalls :
            Current(q, a, b) /\ (q = r => a <= agent[r]) => Current(q, a, b)'
      BY <1>c, <1>d, <3>1, <3>2 DEF Current
    <3>5. Future'
      BY <1>a, <1>c, <1>d, <3>1, <3>2 DEF Future
    <3>6. KnownCurrent'
      <4> SUFFICES ASSUME NEW q \in Requests PROVE Current(q, agent[q], known[q])'
        BY DEF KnownCurrent
      <4>1. Current(q, agent[q], known[q]) /\ agent[q] \in Agents /\ known[q] \in 0..MaxCalls
        BY <1>a, <1>c DEF KnownCurrent
      <4>2. q = r => agent[q] <= agent[r]
        BY <1>c, <1>d
      <4> QED BY <3>2, <3>4, <4>1, <4>2 DEF Current
    <3>7. LateCurrent'
      BY <1>a, <1>c, <1>d, <3>2, <3>4, LateTypes DEF LateCurrent, Future, Current
    <3>8. StoredCurrent'
      <4> SUFFICES ASSUME NEW q \in Requests, NEW a \in Agents
                   PROVE  Current(q, a, stored[<<q, a>>].base)'
        BY DEF StoredCurrent, Current
      <4>1. CASE q = r /\ a = agent[r]
        <5>1. /\ stored'[<<q, a>>].base = known[r] /\ known[r] \in 0..MaxCalls
              /\ Current(r, a, known[r])
          BY <1>a, <1>c, <3>1, <4>1 DEF KnownCurrent, Text
        <5> QED BY <1>c, <1>d, <3>4, <4>1, <5>1 DEF Current
      <4>2. CASE q = r /\ a > agent[r]
        BY <1>a, <1>c, <1>d, <3>1, <3>2, <4>2 DEF Future, NoText, Current
      <4>3. CASE q # r \/ a < agent[r]
        <5>1. stored'[<<q, a>>] = stored[<<q, a>>] /\ stored[<<q, a>>].base \in 0..MaxCalls
          BY <1>c, <1>e, <1>d, <3>1, <4>3
        <5> QED BY <1>a, <1>c, <1>e, <1>d, <3>4, <4>3, <5>1 DEF StoredCurrent, Current
      <4> QED BY <1>c, <1>d, <4>1, <4>2, <4>3
    <3> QED BY <3>3, <3>5, <3>6, <3>7, <3>8
  <2>4. CASE Saved(r)
    <3>1. /\ call[r] = "saved" /\ \A q \in Requests :
                                   call'[q] = IF q = r THEN "none" ELSE call[q]
          /\ \A q \in Requests, a \in Agents :
               acked'[<<q, a>>] = IF q = r /\ a = agent[r] THEN calls[r] ELSE acked[<<q, a>>]
          /\ UNCHANGED <<agent, calls, known, storeVars, doubtful>>
      BY <1>b, <1>e, <1>f, <2>4 DEF Saved
    <3>2. Held'
      <4> SUFFICES ASSUME NEW q \in Requests, NEW a \in Agents
                   PROVE  stored'[<<q, a>>].number \in doubtful'[<<q, a>>] \cup {Expected(q, a)'}
        BY DEF Held
      <4>1. stored[<<q, a>>].number \in doubtful[<<q, a>>] \cup {Expected(q, a)}
        BY <1>a DEF Held
      <4> QED BY <3>1, <4>1 DEF Expected, storeVars
    <3>3. UNCHANGED <<agent, calls, known, stored, late, doubtful>>
      BY <3>1 DEF storeVars
    <3>4. LateDoubtful' /\ Future'
      BY <1>a, <3>3 DEF LateDoubtful, Future
    <3>5. KnownCurrent' /\ LateCurrent' /\ StoredCurrent'
      BY <1>a, <3>3 DEF KnownCurrent, LateCurrent, StoredCurrent, Current
    <3> QED BY <3>2, <3>4, <3>5
  <2>5. CASE SaveFails(r) \/ Fails(r)
    <3>1. /\ \A q \in Requests : call'[q] = IF q = r THEN "none" ELSE call[q]
          /\ \A q \in Requests, a \in Agents :
               doubtful'[<<q, a>>] =
                 IF q = r /\ a = agent[r] /\ call[r] \in {"save", "saved"}
                 THEN doubtful[<<q, a>>] \cup {calls[r]} ELSE doubtful[<<q, a>>]
          /\ UNCHANGED <<agent, calls, known, stored, acked>>
      <4>1. CASE SaveFails(r)
        <5>1. /\ call[r] \in {"save", "saved"}
              /\ doubtful' = [doubtful EXCEPT ![Task(r)] = @ \cup {calls[r]}]
          BY <4>1 DEF SaveFails
        <5>2. /\ call' = [call EXCEPT ![r] = "none"]
              /\ UNCHANGED <<agent, calls, known, stored, acked>>
          BY <4>1 DEF SaveFails, LeftBehind
        <5>3. \A q \in Requests : call'[q] = IF q = r THEN "none" ELSE call[q]
          BY <1>b, <5>2
        <5>4. \A q \in Requests, a \in Agents :
                doubtful'[<<q, a>>] = IF <<q, a>> = Task(r)
                                      THEN doubtful[<<q, a>>] \cup {calls[r]}
                                      ELSE doubtful[<<q, a>>]
          BY <1>b, <1>e, <5>1
        <5> QED BY <1>f, <5>1, <5>2, <5>3, <5>4
      <4>2. CASE Fails(r) /\ call[r] \in {"save", "saved"}
        <5>1. doubtful' = [doubtful EXCEPT ![Task(r)] = @ \cup {calls[r]}]
          BY <4>2 DEF Fails
        <5>2. /\ call' = [call EXCEPT ![r] = "none"]
              /\ UNCHANGED <<agent, calls, known, stored, acked>>
          BY <4>2 DEF Fails, Ends
        <5>3. \A q \in Requests : call'[q] = IF q = r THEN "none" ELSE call[q]
          BY <1>b, <5>2
        <5>4. \A q \in Requests, a \in Agents :
                doubtful'[<<q, a>>] = IF <<q, a>> = Task(r)
                                      THEN doubtful[<<q, a>>] \cup {calls[r]}
                                      ELSE doubtful[<<q, a>>]
          BY <1>b, <1>e, <5>1
        <5> QED BY <1>f, <4>2, <5>2, <5>3, <5>4
      <4>3. CASE Fails(r) /\ call[r] \notin {"save", "saved"}
        <5>1. /\ call' = [call EXCEPT ![r] = "none"]
              /\ UNCHANGED <<agent, calls, known, stored, acked>>
          BY <4>3 DEF Fails, Ends
        <5>2. \A q \in Requests : call'[q] = IF q = r THEN "none" ELSE call[q]
          BY <1>b, <5>1
        <5>3. doubtful' = [doubtful EXCEPT ![Task(r)] = @]
          BY <4>3 DEF Fails
        <5>4. \A q \in Requests, a \in Agents : doubtful'[<<q, a>>] = doubtful[<<q, a>>]
          BY <1>b, <1>e, <5>3
        <5> QED BY <4>3, <5>1, <5>2, <5>4
      <4> QED BY <2>5, <4>1, <4>2, <4>3
    <3>2. \A p \in late' : \/ p \in late
                           \/ /\ call[r] = "save"
                              /\ p = [task |-> Task(r), text |-> Text(r)]
      BY <2>5 DEF SaveFails, Fails, LeftBehind
    <3>3. Held'
      <4> SUFFICES ASSUME NEW q \in Requests, NEW a \in Agents
                   PROVE  stored'[<<q, a>>].number \in doubtful'[<<q, a>>] \cup {Expected(q, a)'}
        BY DEF Held
      <4>1. stored[<<q, a>>].number \in doubtful[<<q, a>>] \cup {Expected(q, a)}
        BY <1>a DEF Held
      <4> QED BY <3>1, <4>1 DEF Expected
    <3>4. \A q \in Requests, a \in Agents, b \in 0..MaxCalls :
            Current(q, a, b) => Current(q, a, b)'
      BY <1>d, <3>1 DEF Current
    <3>5. KnownCurrent' /\ StoredCurrent'
      BY <1>a, <1>c, <1>e, <3>1, <3>4 DEF KnownCurrent, StoredCurrent, Current
    <3>6. LateDoubtful'
      <4> SUFFICES ASSUME NEW p \in late' PROVE p.text.number \in doubtful'[p.task]
        BY DEF LateDoubtful
      <4>1. CASE p \in late
        <5>1. PICK q \in Requests, a \in Agents : p.task = <<q, a>>
          BY <1>a, <4>1, LateTypes
        <5>2. p.text.number \in doubtful[<<q, a>>]
          BY <1>a, <4>1, <5>1 DEF LateDoubtful
        <5> QED BY <3>1, <5>1, <5>2
      <4>2. CASE call[r] = "save" /\ p = [task |-> Task(r), text |-> Text(r)]
        <5>1. p.task = <<r, agent[r]>> /\ p.text.number = calls[r] /\ agent[r] \in Agents
          BY <1>c, <4>2 DEF Text
        <5> QED BY <3>1, <4>2, <5>1
      <4> QED BY <3>2, <4>1, <4>2
    <3>7. Future'
      BY <1>a, <1>c, <1>d, <3>1, <3>2 DEF Future
    <3>8. LateCurrent'
      <4> SUFFICES ASSUME NEW q \in Requests, NEW a \in Agents, NEW p \in late', p.task = <<q, a>>
                   PROVE  Current(q, a, p.text.base)'
        BY DEF LateCurrent, Current
      <4>1. CASE p \in late
        BY <1>a, <3>4, <4>1, LateTypes DEF LateCurrent, Current
      <4>2. CASE p = [task |-> Task(r), text |-> Text(r)]
        BY <1>a, <1>c, <3>4, <4>2 DEF KnownCurrent, Text, Current
      <4> QED BY <3>2, <4>1, <4>2
    <3> QED BY <3>3, <3>5, <3>6, <3>7, <3>8
  <2>6. CASE Read(r)
    <3>1. /\ call[r] = "get"
          /\ \A q \in Requests : /\ call'[q] = IF q = r THEN "none" ELSE call[q]
                                 /\ q # r => known'[q] = known[q]
          /\ known'[r] \in {known[r], stored[<<r, agent[r] - 1>>].number}
          /\ UNCHANGED <<agent, calls, storeVars, acked, doubtful>>
      BY <1>b, <2>6 DEF Read
    <3>2. KnownCurrent'
      BY <1>a, <3>1 DEF storeVars, KnownCurrent, CallsCounted, Current
    <3> QED BY <1>a, <3>1, <3>2 DEF storeVars, Held, Expected, LateDoubtful, Future, LateCurrent,
                              StoredCurrent, Current
  <2>7. CASE NextAgent(r)
    <3>1. /\ call[r] = "none"
          /\ \A q \in Requests :
               /\ agent'[q] = IF q = r THEN agent[r] + 1 ELSE agent[q]
               /\ calls'[q] = IF q = r THEN 0 ELSE calls[q]
               /\ known'[q] = IF q = r THEN 0 ELSE known[q]
          /\ UNCHANGED <<call, storeVars, acked, doubtful>>
      BY <1>b, <2>7 DEF NextAgent, Idle
    <3>2. Held'
      BY <1>a, <3>1 DEF Held, Expected, storeVars
    <3>3. Future'
      BY <1>a, <1>c, <1>d, <3>1 DEF Future, storeVars
    <3>4. KnownCurrent'
      BY <1>a, <3>1 DEF KnownCurrent, storeVars, Current
    <3> QED BY <1>a, <3>1, <3>2, <3>3, <3>4 DEF storeVars, LateDoubtful, LateCurrent, StoredCurrent, Current
  <2> QED BY <1>1, <2>1, <2>2, <2>3, <2>4, <2>5, <2>6, <2>7 DEF JobStep
<1>2. CASE OrchestratorStops
  BY <1>0, <1>2, Quiet DEF OrchestratorStops, Inv
<1>3. ASSUME NEW p \in late, LatePut(p)
      PROVE  /\ Held' /\ LateDoubtful'
             /\ Future' /\ KnownCurrent' /\ LateCurrent' /\ StoredCurrent'
  <2>1. PICK r \in Requests, a \in Agents : p.task = <<r, a>>
    BY <1>a, LateTypes
  <2>2. /\ \A q \in Requests, b \in Agents :
             stored'[<<q, b>>] = IF q = r /\ b = a THEN p.text ELSE stored[<<q, b>>]
        /\ late' \subseteq late
        /\ UNCHANGED <<jobVars, acked, doubtful>>
    BY <1>b, <1>c, <1>e, <1>3, <2>1 DEF LatePut
  <2>3. p.text.number \in doubtful[<<r, a>>]
    BY <1>a, <2>1 DEF LateDoubtful
  <2>4. \A q \in Requests, b \in Agents, n \in 0..MaxCalls :
          Current(q, b, n) => Current(q, b, n)'
    BY <1>d, <2>2, <2>3 DEF Current
  <2>5. Held'
    <3> SUFFICES ASSUME NEW q \in Requests, NEW b \in Agents
                 PROVE  stored'[<<q, b>>].number \in doubtful'[<<q, b>>] \cup {Expected(q, b)'}
      BY DEF Held
    <3>1. stored[<<q, b>>].number \in doubtful[<<q, b>>] \cup {Expected(q, b)}
      BY <1>a DEF Held
    <3> QED BY <2>2, <2>3, <3>1 DEF Expected, jobVars
  <2>6. LateDoubtful' /\ Future'
    BY <1>a, <2>1, <2>2 DEF LateDoubtful, Future, jobVars
  <2>7. KnownCurrent' /\ LateCurrent'
    BY <1>a, <1>c, <2>2, <2>4, LateTypes DEF KnownCurrent, LateCurrent, jobVars, Current
  <2>8. StoredCurrent'
    <3> SUFFICES ASSUME NEW q \in Requests, NEW b \in Agents
                 PROVE  Current(q, b, stored[<<q, b>>].base)'
      BY DEF StoredCurrent
    <3>1. CASE q = r /\ b = a
      <4>1. /\ stored'[<<q, b>>].base = p.text.base /\ p.text.base \in 0..MaxCalls
            /\ Current(q, b, p.text.base)
        BY <1>a, <2>1, <2>2, <3>1, LateTypes DEF LateCurrent
      <4> QED BY <2>4, <4>1 DEF Current
    <3>2. CASE ~(q = r /\ b = a)
      <4>1. /\ stored'[<<q, b>>] = stored[<<q, b>>] /\ stored[<<q, b>>].base \in 0..MaxCalls
            /\ Current(q, b, stored[<<q, b>>].base)
        BY <1>a, <1>e, <2>2, <3>2 DEF StoredCurrent
      <4> QED BY <2>4, <4>1 DEF Current
    <3> QED BY <3>1, <3>2
  <2> QED BY <2>5, <2>6, <2>7, <2>8
<1>4. CASE UNCHANGED vars
  BY <1>0, <1>4, Quiet DEF vars, jobVars, Inv
<1> QED BY <1>0, <1>1, <1>2, <1>3, <1>4 DEF Next, Inv

THEOREM Invariance == Spec => []Inv
<1>1. Init => Inv
  BY BoundsAssumption DEF Init, Inv, TypeOK, CallsCounted, Held, Expected, LateDoubtful, Future,
     KnownCurrent, LateCurrent, StoredCurrent, Tasks, Agents, Texts, NoText, Current
<1> QED BY <1>1, InvStep, PTL DEF Spec

\* The types.
THEOREM TypeCorrect == Spec => []TypeOK
BY Invariance, PTL DEF Inv

\* What was confirmed is there, unless a save that was not took its place.
THEOREM ConfirmedWorkLasts == Spec => []ConfirmedLasts
<1>1. Inv => ConfirmedLasts
  BY DEF Inv, Held, Expected, ConfirmedLasts, Unconfirmed, Task, TypeOK, Tasks
<1> QED BY <1>1, Invariance, PTL

\* No agent's text is based on one that has been replaced since, unless a save of
\* that one's author was not confirmed.
THEOREM TextsBelongTogether == Spec => []ChainIsCurrent
<1>1. Inv => ChainIsCurrent
  <2> SUFFICES ASSUME Inv, NEW r \in Requests, NEW a \in {2, 3},
                      doubtful[<<r, a - 1>>] = {}, stored[<<r, a>>].base # 0
               PROVE  stored[<<r, a - 1>>].number = stored[<<r, a>>].base
    BY DEF ChainIsCurrent
  <2>1. Current(r, a, stored[<<r, a>>].base)
    <3>1. a \in Agents
      BY DEF Agents
    <3> QED BY <3>1 DEF Inv, StoredCurrent
  <2> QED BY <2>1 DEF Current
<1> QED BY <1>1, Invariance, PTL
=============================================================================
