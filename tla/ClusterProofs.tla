---------------------------- MODULE ClusterProofs ----------------------------
(***************************************************************************)
(* The cluster's safety for any number of nodes and faults: running        *)
(* servers are members, and the leader's alarms are real.                  *)
(***************************************************************************)
EXTENDS ClusterMonitor, FiniteSetTheorems, TLAPS

\* A node has one member at most, and a member ID is given out once.
MembersDiffer ==
  \A m, p \in members : m.id = p.id \/ m.node = p.node => m = p

\* A running server has its member's ID in its data directory.
RunningHaveMembers ==
  \A n \in Nodes : Running(n) =>
    \E m \in members : m.node = n /\ m.id = dataDir[n] /\ m.named

\* What a node is about to remove is a named member of its own, or gone.
TargetsAreOwn ==
  \A n \in Nodes, m \in members :
    server[n] = "remove" /\ m.id = target[n] => m.node = n /\ m.named

MembershipInv == MembershipTypeOK /\ MembersDiffer /\ RunningHaveMembers /\ TargetsAreOwn

\* The part of TypeOK that is about the monitors.
MonitorTypeOK == /\ leader \in Nodes \cup {NoLeader}
                 /\ role \in [Nodes -> {"campaign", "grace", "lead"}]
                 /\ leader # NoLeader => role[leader] # "campaign"
                 /\ knownPeers \in [Nodes -> SUBSET Ids]
                 /\ triggered \subseteq Ids
                 /\ unreachable \subseteq Ids

\* A peer that a monitor has once seen is healthy, or has been unreachable.
KnownAreAccounted == \A n \in Nodes : knownPeers[n] \subseteq Healthy \cup unreachable

IInv == MembershipInv /\ MonitorTypeOK /\ KnownAreAccounted /\ AlarmsAreReal

LEMMA TypesSplit == TypeOK <=> MembershipTypeOK /\ MonitorTypeOK
  BY DEF TypeOK, MonitorTypeOK

\* A server that runs is a member of the cluster, under the ID of its data
\* directory: no join of another node, nor one of its own that failed half way,
\* has removed it, and it is the only member at its peer URL.
RunningServersBelong ==
  \A n \in Nodes : Running(n) => \E m \in members :
                                   m.id = dataDir[n] /\ MemberOf(n) = {m}

LEMMA BelongFromInv == MembershipInv => RunningServersBelong
  <1> SUFFICES ASSUME MembershipInv, NEW n \in Nodes, Running(n)
               PROVE \E m \in members : m.id = dataDir[n] /\ MemberOf(n) = {m}
    BY DEF RunningServersBelong
  <1>1. PICK m \in members : m.node = n /\ m.id = dataDir[n]
    BY DEF MembershipInv, RunningHaveMembers
  <1>2. MemberOf(n) = {m}
    BY <1>1 DEF MembershipInv, MembersDiffer, MemberOf
  <1> QED BY <1>1, <1>2
-----------------------------------------------------------------------------
LEMMA InitMembership == MembershipInit => MembershipInv
  <1> SUFFICES ASSUME MembershipInit PROVE MembershipInv
    OBVIOUS
  <1>1. PICK formed \in SUBSET Nodes :
          \E number \in [formed -> 1..Cardinality(formed)] :
            /\ \A n, p \in formed : number[n] = number[p] => n = p
            /\ ids = Cardinality(formed)
            /\ members = {[id |-> number[n], node |-> n, named |-> TRUE] : n \in formed}
            /\ server = [n \in Nodes |-> IF n \in formed THEN "up" ELSE "down"]
            /\ dataDir = [n \in Nodes |-> IF n \in formed THEN number[n] ELSE NoData]
            /\ target = [n \in Nodes |-> NoData]
            /\ faults = 0
    BY DEF MembershipInit
  <1>2. PICK number \in [formed -> 1..Cardinality(formed)] :
            /\ \A n, p \in formed : number[n] = number[p] => n = p
            /\ ids = Cardinality(formed)
            /\ members = {[id |-> number[n], node |-> n, named |-> TRUE] : n \in formed}
            /\ server = [n \in Nodes |-> IF n \in formed THEN "up" ELSE "down"]
            /\ dataDir = [n \in Nodes |-> IF n \in formed THEN number[n] ELSE NoData]
            /\ target = [n \in Nodes |-> NoData]
            /\ faults = 0
    BY <1>1
  <1>3. ids \in Nat
    BY <1>2, NodesAssumption, FS_Subset, FS_CardinalityType
  <1>4. \A n \in formed : number[n] \in Ids
    BY <1>2, <1>3 DEF Ids
  <1>5. MembershipTypeOK
    <2>1. members \subseteq Member
      <3> SUFFICES ASSUME NEW m \in members PROVE m \in Member
        OBVIOUS
      <3>1. PICK n \in formed : m = [id |-> number[n], node |-> n, named |-> TRUE]
        BY <1>2
      <3> QED BY <1>4, <3>1 DEF Member
    <2>2. dataDir \in [Nodes -> Ids \cup {NoData}]
      BY <1>2, <1>4
    <2> QED BY <1>2, <1>3, <2>1, <2>2, NodesAssumption DEF MembershipTypeOK
  <1>6. MembersDiffer
    <2> SUFFICES ASSUME NEW m \in members, NEW p \in members,
                        m.id = p.id \/ m.node = p.node
                 PROVE m = p
      BY DEF MembersDiffer
    <2>1. PICK n \in formed : m = [id |-> number[n], node |-> n, named |-> TRUE]
      BY <1>2
    <2>2. PICK q \in formed : p = [id |-> number[q], node |-> q, named |-> TRUE]
      BY <1>2
    <2>3. n = q
      BY <1>2, <2>1, <2>2
    <2> QED BY <2>1, <2>2, <2>3
  <1>7. RunningHaveMembers
    <2> SUFFICES ASSUME NEW n \in Nodes, Running(n)
                 PROVE \E m \in members : m.node = n /\ m.id = dataDir[n] /\ m.named
      BY DEF RunningHaveMembers
    <2>1. n \in formed /\ dataDir[n] = number[n]
      BY <1>2 DEF Running
    <2>2. [id |-> number[n], node |-> n, named |-> TRUE] \in members
      BY <1>2, <2>1
    <2> QED BY <2>1, <2>2
  <1>8. TargetsAreOwn
    BY <1>2 DEF TargetsAreOwn
  <1> QED BY <1>5, <1>6, <1>7, <1>8 DEF MembershipInv

LEMMA InitInv == Init => IInv
  <1> SUFFICES ASSUME Init PROVE IInv
    OBVIOUS
  <1>1. MembershipInv
    BY InitMembership DEF Init
  <1> QED BY <1>1 DEF Init, IInv, MonitorTypeOK, KnownAreAccounted, AlarmsAreReal
-----------------------------------------------------------------------------
LEMMA MemberFields ==
  ASSUME MembershipTypeOK, NEW m \in members
  PROVE  m.id \in Ids /\ m.node \in Nodes /\ m.named \in BOOLEAN
  BY DEF MembershipTypeOK, Member

\* What the server of a member does to the members: it gets its name.
LEMMA ServeMembers ==
  ASSUME MembershipInv, NEW n \in Nodes, NEW m \in MemberOf(n), Serve(n, m),
         ids' = ids, server[n] # "up", server' = [server EXCEPT ![n] = "up"],
         target' = target, faults' \in 0..MaxFaults
  PROVE  MembershipInv' /\ Healthy \subseteq Healthy'
  <1> DEFINE s == [m EXCEPT !.named = TRUE]
  <1>1. m \in members /\ m.node = n
    BY DEF MemberOf
  <1>2. m.id \in Ids /\ m.node \in Nodes
    BY <1>1, MemberFields DEF MembershipInv
  <1>3. s \in Member /\ s.id = m.id /\ s.node = m.node /\ s.named
    BY <1>1, <1>2 DEF MembershipInv, MembershipTypeOK, Member
  <1>4. members' = (members \ {m}) \cup {s}
    BY DEF Serve
  <1> HIDE DEF s
  <1>5. dataDir' = [dataDir EXCEPT ![n] = m.id]
    BY DEF Serve
  <1>6. server \in [Nodes -> {"down", "list", "remove", "add", "start", "up", "apart"}]
        /\ dataDir \in [Nodes -> Ids \cup {NoData}]
    BY DEF MembershipInv, MembershipTypeOK
  <1>7. MembershipTypeOK'
    BY <1>2, <1>3, <1>4, <1>5 DEF MembershipInv, MembershipTypeOK, Member, Ids
  <1>8. MembersDiffer'
    BY <1>1, <1>3, <1>4 DEF MembershipInv, MembersDiffer
  <1>9. RunningHaveMembers'
    <2> SUFFICES ASSUME NEW p \in Nodes, Running(p)'
                 PROVE \E q \in members' : q.node = p /\ q.id = dataDir'[p] /\ q.named
      BY DEF RunningHaveMembers
    <2>1. CASE p = n
      BY <1>1, <1>3, <1>4, <1>5, <1>6, <2>1
    <2>2. CASE p # n
      <3>1. Running(p) /\ dataDir'[p] = dataDir[p]
        BY <1>5, <1>6, <2>2 DEF Running
      <3>2. PICK q \in members : q.node = p /\ q.id = dataDir[p] /\ q.named
        BY <3>1 DEF MembershipInv, RunningHaveMembers
      <3>3. q # m
        BY <1>1, <2>2, <3>2
      <3> QED BY <1>4, <3>1, <3>2, <3>3
    <2> QED BY <2>1, <2>2
  <1>10. TargetsAreOwn'
    <2> SUFFICES ASSUME NEW p \in Nodes, NEW q \in members',
                        server'[p] = "remove", q.id = target'[p]
                 PROVE q.node = p /\ q.named
      BY DEF TargetsAreOwn
    <2>1. server[p] = "remove"
      BY <1>6
    <2>2. CASE q = s
      BY <1>1, <1>3, <2>1, <2>2 DEF MembershipInv, TargetsAreOwn
    <2>3. CASE q # s
      BY <1>4, <2>1, <2>3 DEF MembershipInv, TargetsAreOwn
    <2> QED BY <2>2, <2>3
  <1>11. Healthy \subseteq Healthy'
    <2> SUFFICES ASSUME NEW q \in members, ~q.named \/ Running(q.node)
                 PROVE \E x \in members' : x.id = q.id /\ (~x.named \/ Running(x.node)')
      BY DEF Healthy
    <2>1. CASE q = m
      BY <1>1, <1>2, <1>3, <1>4, <1>6, <2>1 DEF Running
    <2>2. CASE q # m
      <3>1. q \in members' /\ q.node \in Nodes
        BY <1>4, <2>2, MemberFields DEF MembershipInv
      <3> QED BY <1>6, <3>1 DEF Running
    <2> QED BY <2>1, <2>2
  <1> QED BY <1>7, <1>8, <1>9, <1>10, <1>11 DEF MembershipInv

\* A member is removed by the join of its own node.
LEMMA RemoveMembers ==
  ASSUME MembershipInv, NEW n \in Nodes, server[n] = "remove",
         members' = {m \in members : m.id # target[n]},
         NEW place \in {"add", "down"}, server' = [server EXCEPT ![n] = place],
         dataDir' = dataDir, target' = target, ids' = ids, faults' \in 0..MaxFaults
  PROVE  MembershipInv' /\ Healthy \subseteq Healthy'
  <1>1. server \in [Nodes -> {"down", "list", "remove", "add", "start", "up", "apart"}]
    BY DEF MembershipInv, MembershipTypeOK
  <1>2. \A p \in Nodes : server'[p] \in {"up", "remove"} => server'[p] = server[p] /\ p # n
    BY <1>1
  <1>3. MembershipTypeOK'
    BY DEF MembershipInv, MembershipTypeOK, Member, Ids
  <1>4. MembersDiffer'
    BY DEF MembershipInv, MembersDiffer
  <1>5. RunningHaveMembers'
    <2> SUFFICES ASSUME NEW p \in Nodes, Running(p)'
                 PROVE \E q \in members' : q.node = p /\ q.id = dataDir'[p] /\ q.named
      BY DEF RunningHaveMembers
    <2>1. Running(p) /\ p # n
      BY <1>2 DEF Running
    <2>2. PICK q \in members : q.node = p /\ q.id = dataDir[p] /\ q.named
      BY <2>1 DEF MembershipInv, RunningHaveMembers
    <2>3. q.id # target[n]
      BY <2>1, <2>2 DEF MembershipInv, TargetsAreOwn
    <2> QED BY <2>2, <2>3
  <1>6. TargetsAreOwn'
    <2> SUFFICES ASSUME NEW p \in Nodes, NEW q \in members',
                        server'[p] = "remove", q.id = target'[p]
                 PROVE q.node = p /\ q.named
      BY DEF TargetsAreOwn
    <2> QED BY <1>2 DEF MembershipInv, TargetsAreOwn
  <1>7. Healthy \subseteq Healthy'
    <2> SUFFICES ASSUME NEW q \in members, ~q.named \/ Running(q.node)
                 PROVE \E x \in members' : x.id = q.id /\ (~x.named \/ Running(x.node)')
      BY DEF Healthy
    <2>1. q.node \in Nodes
      BY MemberFields DEF MembershipInv
    <2>2. q.id # target[n]
      BY <2>1 DEF MembershipInv, TargetsAreOwn, Running
    <2>3. Running(q.node) => Running(q.node)'
      BY <1>1, <2>1 DEF Running
    <2> QED BY <2>2, <2>3
  <1> QED BY <1>3, <1>4, <1>5, <1>6, <1>7 DEF MembershipInv

\* A member is added under an ID of its own, for a node that has none.
LEMMA AddMembers ==
  ASSUME MembershipInv, NEW n \in Nodes, server[n] = "add", MemberOf(n) = {},
         ids' = ids + 1,
         members' = members \cup {[id |-> ids + 1, node |-> n, named |-> FALSE]},
         NEW place \in {"start", "down"}, server' = [server EXCEPT ![n] = place],
         dataDir' = dataDir, target' = target, faults' \in 0..MaxFaults
  PROVE  MembershipInv' /\ Healthy \subseteq Healthy'
  <1> DEFINE new == [id |-> ids + 1, node |-> n, named |-> FALSE]
  <1>1. server \in [Nodes -> {"down", "list", "remove", "add", "start", "up", "apart"}]
        /\ target \in [Nodes -> Ids \cup {NoData}] /\ ids \in Nat
    BY DEF MembershipInv, MembershipTypeOK
  <1>2. \A p \in Nodes : server'[p] \in {"up", "remove"} => server'[p] = server[p] /\ p # n
    BY <1>1
  <1>3. new.id = ids + 1 /\ new.node = n /\ ~new.named /\ members' = members \cup {new}
    OBVIOUS
  <1>4. Ids \subseteq Ids' /\ ids + 1 \in Ids'
    BY <1>1 DEF Ids
  <1>5. MembershipTypeOK'
    <2>1. members' \subseteq Member'
      <3> SUFFICES ASSUME NEW m \in members' PROVE m \in Member'
        OBVIOUS
      <3>1. CASE m \in members
        BY <1>4, <3>1 DEF MembershipInv, MembershipTypeOK, Member
      <3>2. CASE m = new
        BY <1>4, <3>2 DEF Member
      <3> QED BY <3>1, <3>2
    <2> QED BY <1>1, <1>4, <2>1 DEF MembershipInv, MembershipTypeOK
  <1> HIDE DEF new
  <1>6. \A m \in members : m.id # new.id /\ m.node # n
    <2> SUFFICES ASSUME NEW m \in members PROVE m.id # new.id /\ m.node # n
      OBVIOUS
    <2>1. m.id \in Ids
      BY MemberFields DEF MembershipInv
    <2> QED BY <1>1, <1>3, <2>1 DEF Ids, MemberOf
  <1>7. MembersDiffer'
    BY <1>3, <1>6 DEF MembershipInv, MembersDiffer
  <1>8. RunningHaveMembers'
    BY <1>2, <1>3 DEF MembershipInv, RunningHaveMembers, Running
  <1>9. TargetsAreOwn'
    <2> SUFFICES ASSUME NEW p \in Nodes, NEW q \in members',
                        server'[p] = "remove", q.id = target'[p]
                 PROVE q.node = p /\ q.named
      BY DEF TargetsAreOwn
    <2>1. target[p] # ids + 1
      BY <1>1 DEF Ids, NoData
    <2> QED BY <1>2, <1>3, <2>1 DEF MembershipInv, TargetsAreOwn
  <1>10. Healthy \subseteq Healthy'
    <2> SUFFICES ASSUME NEW q \in members, ~q.named \/ Running(q.node)
                 PROVE \E x \in members' : x.id = q.id /\ (~x.named \/ Running(x.node)')
      BY DEF Healthy
    <2>1. q.node \in Nodes
      BY MemberFields DEF MembershipInv
    <2>2. Running(q.node) => Running(q.node)'
      BY <1>1, <2>1 DEF Running
    <2> QED BY <1>3, <2>2
  <1> QED BY <1>5, <1>7, <1>8, <1>9, <1>10 DEF MembershipInv

\* No server starts and no member is removed; data directories may be lost, or
\* written, under a new ID as well.
LEMMA IdsGivenOut ==
  ASSUME MembershipInv, NEW n \in Nodes,
         NEW place \in {"down", "list", "add", "start", "apart"},
         server' = [server EXCEPT ![n] = place],
         ids' \in Nat, ids <= ids',
         NEW data \in Ids' \cup {NoData}, dataDir' = [dataDir EXCEPT ![n] = data],
         UNCHANGED <<members, target>>, faults' \in 0..MaxFaults
  PROVE  MembershipInv'
  <1>1. /\ server \in [Nodes -> {"down", "list", "remove", "add", "start", "up", "apart"}]
        /\ dataDir \in [Nodes -> Ids \cup {NoData}]
    BY DEF MembershipInv, MembershipTypeOK
  <1>2. \A p \in Nodes : server'[p] \in {"up", "remove"} =>
          server'[p] = server[p] /\ dataDir'[p] = dataDir[p]
    BY <1>1
  <1>3. MembershipTypeOK'
    <2>1. ids \in Nat
      BY DEF MembershipInv, MembershipTypeOK
    <2>2. Ids \subseteq Ids'
      BY <2>1 DEF Ids
    <2>3. members' \subseteq Member'
      BY <2>2 DEF MembershipInv, MembershipTypeOK, Member
    <2> QED BY <1>1, <2>2, <2>3 DEF MembershipInv, MembershipTypeOK
  <1>4. MembersDiffer'
    BY DEF MembershipInv, MembersDiffer
  <1>5. RunningHaveMembers'
    BY <1>2 DEF MembershipInv, RunningHaveMembers, Running
  <1>6. TargetsAreOwn'
    BY <1>2 DEF MembershipInv, TargetsAreOwn
  <1> QED BY <1>3, <1>4, <1>5, <1>6 DEF MembershipInv

\* The same where no ID is given out.
LEMMA OtherMembership ==
  ASSUME MembershipInv, NEW n \in Nodes,
         NEW place \in {"down", "list", "add", "start"},
         server' = [server EXCEPT ![n] = place],
         NEW data \in Ids \cup {NoData}, dataDir' = [dataDir EXCEPT ![n] = data],
         UNCHANGED <<members, target, ids>>, faults' \in 0..MaxFaults
  PROVE  MembershipInv'
  <1>1. ids' \in Nat /\ ids <= ids' /\ Ids' = Ids
    BY DEF MembershipInv, MembershipTypeOK, Ids
  <1>2. data \in Ids' \cup {NoData}
    BY <1>1
  <1> QED BY <1>1, <1>2, IdsGivenOut

\* Where no server stops and the members stay, who is healthy stays so.
LEMMA HealthyStay ==
  ASSUME MembershipInv, UNCHANGED members,
         NEW n \in Nodes, NEW place, server' = [server EXCEPT ![n] = place],
         server[n] # "up"
  PROVE  Healthy \subseteq Healthy'
  <1> SUFFICES ASSUME NEW q \in members, ~q.named \/ Running(q.node)
               PROVE ~q.named \/ Running(q.node)'
    BY DEF Healthy
  <1>1. q.node \in Nodes
    BY MemberFields DEF MembershipInv
  <1> QED BY <1>1 DEF MembershipInv, MembershipTypeOK, Running

\* Faults are counted, and nothing else of the membership changes.
LEMMA MembershipKept ==
  ASSUME MembershipInv, UNCHANGED <<members, server, dataDir, target, ids>>,
         faults' \in 0..MaxFaults
  PROVE  MembershipInv' /\ Healthy' = Healthy
  <1>1. MembershipTypeOK'
    BY DEF MembershipInv, MembershipTypeOK, Member, Ids
  <1>2. MembersDiffer' /\ RunningHaveMembers' /\ TargetsAreOwn'
    BY DEF MembershipInv, MembersDiffer, RunningHaveMembers, TargetsAreOwn, Running
  <1>3. Healthy' = Healthy
    BY DEF Healthy, Running
  <1> QED BY <1>1, <1>2, <1>3 DEF MembershipInv

\* The steps of StartNode and what it calls, and their failures.
LEMMA NodeSteps ==
  ASSUME MembershipInv, NEW n \in Nodes, NodeStep(n) \/ CallFails(n) \/ ProbeFails(n)
  PROVE  MembershipInv' /\ Healthy \subseteq Healthy'
  <1>1. /\ server \in [Nodes -> {"down", "list", "remove", "add", "start", "up", "apart"}]
        /\ dataDir \in [Nodes -> Ids \cup {NoData}]
        /\ target \in [Nodes -> Ids \cup {NoData}]
        /\ faults \in 0..MaxFaults /\ MaxFaults \in Nat /\ ids \in Nat
    BY NodesAssumption DEF MembershipInv, MembershipTypeOK
  <1>2. dataDir = [dataDir EXCEPT ![n] = dataDir[n]]
        /\ dataDir[n] \in Ids \cup {NoData}
        /\ (ids' = ids => Ids' = Ids)
    BY <1>1 DEF Ids
  <1>3. CASE Restart(n)
    <2>1. PICK m \in MemberOf(n) : Serve(n, m)
      BY <1>3 DEF Restart
    <2> QED BY <1>1, <1>3, <2>1, ServeMembers DEF Restart, Goes
  <1>4. CASE Start(n)
    <2>1. PICK m \in MemberOf(n) : Serve(n, m)
      BY <1>4 DEF Start
    <2> QED BY <1>1, <1>4, <2>1, ServeMembers DEF Start, Goes
  <1>5. CASE StartJoining(n)
    <2>1. MembershipInv'
      BY <1>1, <1>2, <1>5, OtherMembership DEF StartJoining, Goes
    <2> QED BY <1>5, <2>1, HealthyStay DEF StartJoining, Goes
  <1>6. CASE List(n)
    <2>1. CASE server' = [server EXCEPT ![n] = "add"] /\ target' = target
      BY <1>1, <1>2, <1>6, <2>1, OtherMembership, HealthyStay DEF List, Goes
    <2>2. CASE \E m \in MemberOf(n) : m.named /\ Goes(n, "list", "remove")
                                      /\ target' = [target EXCEPT ![n] = m.id]
      <3>1. PICK m \in MemberOf(n) : m.named /\ Goes(n, "list", "remove")
                                     /\ target' = [target EXCEPT ![n] = m.id]
        BY <2>2
      <3>2. m \in members /\ m.node = n /\ m.id \in Ids
        BY <3>1, MemberFields DEF MemberOf, MembershipInv
      <3>3. UNCHANGED <<members, dataDir, ids, faults>>
        BY <1>6 DEF List
      <3>4. MembershipTypeOK'
        BY <1>1, <3>1, <3>2, <3>3 DEF MembershipInv, MembershipTypeOK, Member, Ids, Goes
      <3>5. MembersDiffer' /\ RunningHaveMembers'
        BY <1>1, <3>1, <3>3 DEF MembershipInv, MembersDiffer, RunningHaveMembers,
                                Running, Goes
      <3>6. TargetsAreOwn'
        <4> SUFFICES ASSUME NEW p \in Nodes, NEW q \in members,
                            server'[p] = "remove", q.id = target'[p]
                     PROVE q.node = p /\ q.named
          BY <3>3 DEF TargetsAreOwn
        <4>1. CASE p = n
          BY <1>1, <3>1, <3>2, <4>1 DEF MembershipInv, MembersDiffer
        <4>2. CASE p # n
          BY <1>1, <3>1, <4>2 DEF MembershipInv, TargetsAreOwn, Goes
        <4> QED BY <4>1, <4>2
      <3>7. Healthy \subseteq Healthy'
        BY <3>1, <3>3, HealthyStay DEF Goes
      <3> QED BY <3>4, <3>5, <3>6, <3>7 DEF MembershipInv
    <2> QED BY <1>6, <2>1, <2>2 DEF List, Goes
  <1>7. CASE Remove(n)
    BY <1>1, <1>7, RemoveMembers DEF Remove, Goes
  <1>8. CASE Add(n)
    BY <1>1, <1>8, AddMembers DEF Add, Goes
  <1>9. CASE AddRefused(n)
    <2>1. MembershipInv'
      BY <1>1, <1>2, <1>9, OtherMembership DEF AddRefused, Goes
    <2> QED BY <1>9, <2>1, HealthyStay DEF AddRefused, Goes
  <1>10. CASE CallFails(n)
    <2>1. /\ server[n] \in {"list", "remove", "add", "start"}
          /\ server' = [server EXCEPT ![n] = "down"]
          /\ target' = target
          /\ faults' \in 0..MaxFaults
      BY <1>1, <1>10 DEF CallFails, Fault
    <2>2. CASE UNCHANGED <<members, ids, dataDir>>
      <3>1. MembershipInv'
        BY <1>2, <2>1, <2>2, OtherMembership
      <3> QED BY <2>1, <2>2, <3>1, HealthyStay
    <2>3. CASE /\ server[n] = "remove"
               /\ members' = {m \in members : m.id # target[n]}
               /\ UNCHANGED <<ids, dataDir>>
      BY <2>1, <2>3, RemoveMembers
    <2>4. CASE /\ server[n] = "add" /\ MemberOf(n) = {}
               /\ ids' = ids + 1
               /\ members' = members \cup
                               {[id |-> ids + 1, node |-> n, named |-> FALSE]}
               /\ UNCHANGED dataDir
      BY <2>1, <2>4, AddMembers
    <2>5. CASE /\ server[n] = "start"
               /\ \E m \in MemberOf(n) : dataDir' = [dataDir EXCEPT ![n] = m.id]
               /\ UNCHANGED <<members, ids>>
      <3>1. PICK m \in MemberOf(n) : dataDir' = [dataDir EXCEPT ![n] = m.id]
        BY <2>5
      <3>2. m.id \in Ids
        BY <3>1, MemberFields DEF MemberOf, MembershipInv
      <3>3. MembershipInv'
        BY <2>1, <2>5, <3>1, <3>2, OtherMembership
      <3> QED BY <2>1, <2>5, <3>3, HealthyStay
    <2> QED BY <1>10, <2>2, <2>3, <2>4, <2>5 DEF CallFails
  <1>11. CASE ProbeFails(n)
    <2>1. target' = target /\ faults' \in 0..MaxFaults
      BY <1>1, <1>11 DEF ProbeFails, Fault
    <2>2. CASE UNCHANGED <<members, server, dataDir, ids>>
      <3>1. MembershipInv' /\ Healthy' = Healthy
        BY <2>1, <2>2, MembershipKept
      <3> QED BY <3>1
    <2>3. CASE /\ Goes(n, "down", "up")
               /\ \E m \in MemberOf(n) : m.named /\ Serve(n, m)
               /\ UNCHANGED ids
      <3>1. PICK m \in MemberOf(n) : Serve(n, m)
        BY <2>3
      <3> QED BY <2>1, <2>3, <3>1, ServeMembers DEF Goes
    <2>4. CASE /\ Goes(n, "down", "apart")
               /\ ids' = ids + 1
               /\ dataDir' = [dataDir EXCEPT ![n] = ids + 1]
               /\ UNCHANGED members
      <3>1. ids' \in Nat /\ ids <= ids' /\ ids + 1 \in Ids'
        BY <1>1, <2>4 DEF Ids
      <3>2. MembershipInv'
        BY <2>1, <2>4, <3>1, IdsGivenOut DEF Goes
      <3> QED BY <2>4, <3>2, HealthyStay DEF Goes
    <2> QED BY <1>11, <2>2, <2>3, <2>4 DEF ProbeFails
  <1> QED BY <1>3, <1>4, <1>5, <1>6, <1>7, <1>8, <1>9, <1>10, <1>11 DEF NodeStep

LEMMA FaultCounts ==
  ASSUME MembershipInv, Fault \/ faults' = faults
  PROVE  faults' \in 0..MaxFaults
  BY NodesAssumption DEF MembershipInv, MembershipTypeOK, Fault

LEMMA HealthyIds == MembershipInv => Healthy \subseteq Ids
  BY MemberFields DEF Healthy, MembershipInv
-----------------------------------------------------------------------------
\* Steps that leave the monitors' records alone, while nobody healthy is lost.
LEMMA RecordsKept ==
  ASSUME IInv, MembershipInv', Healthy \subseteq Healthy', ids <= ids',
         leader' \in Nodes \cup {NoLeader},
         role' \in [Nodes -> {"campaign", "grace", "lead"}],
         leader' # NoLeader => role'[leader'] # "campaign",
         UNCHANGED <<knownPeers, triggered, unreachable>>
  PROVE  IInv'
  <1>1. ids \in Nat /\ ids' \in Nat
    BY DEF IInv, MembershipInv, MembershipTypeOK
  <1>2. Ids \subseteq Ids'
    BY <1>1 DEF Ids
  <1>3. MonitorTypeOK'
    BY <1>2 DEF IInv, MonitorTypeOK
  <1>4. KnownAreAccounted'
    BY DEF IInv, KnownAreAccounted
  <1> QED BY <1>3, <1>4 DEF IInv, AlarmsAreReal

\* A check that finds the peers of healthy, the others being unreachable.
LEMMA Comparison ==
  ASSUME IInv, NEW n \in Nodes, NEW healthy, Compare(n, healthy),
         healthy \subseteq Healthy, Healthy \subseteq healthy \cup unreachable',
         unreachable \subseteq unreachable', unreachable' \subseteq Ids,
         UNCHANGED <<members, server, dataDir, target, ids, leader>>,
         faults' \in 0..MaxFaults,
         role' \in [Nodes -> {"campaign", "grace", "lead"}],
         leader # NoLeader => role'[leader] # "campaign"
  PROVE  IInv'
  <1>1. MembershipInv' /\ Healthy' = Healthy
    BY MembershipKept DEF IInv
  <1>2. healthy \subseteq Ids /\ Ids' = Ids
    BY HealthyIds DEF IInv, Ids
  <1>3. /\ knownPeers' = [knownPeers EXCEPT ![n] = healthy]
        /\ triggered' = triggered \cup (knownPeers[n] \ healthy)
    BY DEF Compare
  <1>4. knownPeers \in [Nodes -> SUBSET Ids]
    BY DEF IInv, MonitorTypeOK
  <1>5. knownPeers' \in [Nodes -> SUBSET Ids']
    BY <1>2, <1>3, <1>4
  <1>6. MonitorTypeOK'
    BY <1>2, <1>3, <1>4, <1>5 DEF IInv, MonitorTypeOK
  <1>7. KnownAreAccounted'
    <2> SUFFICES ASSUME NEW p \in Nodes
                 PROVE knownPeers'[p] \subseteq Healthy \cup unreachable'
      BY <1>1 DEF KnownAreAccounted
    <2>1. CASE p = n
      BY <1>3, <1>4, <2>1
    <2>2. CASE p # n
      BY <1>3, <1>4, <2>2 DEF IInv, KnownAreAccounted
    <2> QED BY <2>1, <2>2
  <1>8. AlarmsAreReal'
    BY <1>3 DEF IInv, KnownAreAccounted, AlarmsAreReal
  <1> QED BY <1>1, <1>6, <1>7, <1>8 DEF IInv

LEMMA Checks ==
  ASSUME IInv, NEW n \in Nodes, CheckClusterHealth(n), UNCHANGED leader,
         role' \in [Nodes -> {"campaign", "grace", "lead"}],
         leader # NoLeader => role'[leader] # "campaign"
  PROVE  IInv'
  <1>1. CASE Compare(n, Healthy) /\ UNCHANGED <<membership, unreachable>>
    <2>1. /\ UNCHANGED <<members, server, dataDir, target, ids>>
          /\ faults' = faults /\ unreachable' = unreachable
      BY <1>1 DEF membership
    <2>2. unreachable' \subseteq Ids /\ faults' \in 0..MaxFaults
      BY <2>1, FaultCounts DEF IInv, MonitorTypeOK
    <2> QED BY <1>1, <2>1, <2>2, Comparison
  <1>2. CASE \E m \in members :
               /\ Fault
               /\ m.named
               /\ Compare(n, Healthy \ {m.id})
               /\ unreachable' = unreachable \cup {m.id}
               /\ UNCHANGED <<members, server, dataDir, target, ids>>
    <2>1. PICK m \in members : /\ Fault
                               /\ Compare(n, Healthy \ {m.id})
                               /\ unreachable' = unreachable \cup {m.id}
                               /\ UNCHANGED <<members, server, dataDir, target, ids>>
      BY <1>2
    <2>2. m.id \in Ids /\ faults' \in 0..MaxFaults
      BY <2>1, MemberFields, FaultCounts DEF IInv, MembershipInv
    <2>3. unreachable' \subseteq Ids
      BY <2>1, <2>2 DEF IInv, MonitorTypeOK
    <2> QED BY <2>1, <2>2, <2>3, Comparison
  <1> QED BY <1>1, <1>2 DEF CheckClusterHealth

\* A node that stops is unreachable from then on, under its member's ID.
LEMMA Stops ==
  ASSUME IInv, NEW n \in Nodes, Stop(n)
  PROVE  IInv'
  <1>1. /\ server[n] = "up"
        /\ server' = [server EXCEPT ![n] = "down"]
        /\ UNCHANGED <<members, target, ids>>
        /\ dataDir' \in {dataDir, [dataDir EXCEPT ![n] = NoData]}
        /\ faults' \in 0..MaxFaults
    BY FaultCounts DEF Stop, Crash, Goes, IInv
  <1>2. /\ server \in [Nodes -> {"down", "list", "remove", "add", "start", "up", "apart"}]
        /\ dataDir \in [Nodes -> Ids \cup {NoData}]
    BY DEF IInv, MembershipInv, MembershipTypeOK
  <1>3. PICK data \in Ids \cup {NoData} : dataDir' = [dataDir EXCEPT ![n] = data]
    <2>1. dataDir = [dataDir EXCEPT ![n] = dataDir[n]] /\ dataDir[n] \in Ids \cup {NoData}
      BY <1>2
    <2> QED BY <1>1, <2>1
  <1>4. MembershipInv'
    BY <1>1, <1>3, OtherMembership DEF IInv
  <1>5. PICK own \in members : own.node = n /\ own.id = dataDir[n]
    BY <1>1 DEF IInv, MembershipInv, RunningHaveMembers, Running
  <1>6. dataDir[n] \in Ids
    BY <1>5, MemberFields DEF IInv, MembershipInv
  <1>7. Healthy \subseteq Healthy' \cup {dataDir[n]}
    <2> SUFFICES ASSUME NEW q \in members, ~q.named \/ Running(q.node), q.id # dataDir[n]
                 PROVE ~q.named \/ Running(q.node)'
      BY <1>1 DEF Healthy
    <2>1. q.node \in Nodes /\ q.node # n
      BY <1>5, MemberFields DEF IInv, MembershipInv, MembersDiffer
    <2> QED BY <1>1, <1>2, <2>1 DEF Running
  <1>8. /\ leader' = IF leader = n THEN NoLeader ELSE leader
        /\ role' = [role EXCEPT ![n] = "campaign"]
        /\ knownPeers' = [knownPeers EXCEPT ![n] = {}]
        /\ unreachable' = unreachable \cup {dataDir[n]}
        /\ triggered' = triggered
    BY DEF Stop
  <1>9. knownPeers \in [Nodes -> SUBSET Ids] /\ Ids' = Ids
    BY <1>1 DEF IInv, MonitorTypeOK, Ids
  <1>10. MonitorTypeOK'
    <2>1. knownPeers' \in [Nodes -> SUBSET Ids']
      BY <1>8, <1>9
    <2>2. leader' # NoLeader => role'[leader'] # "campaign"
      BY <1>8 DEF IInv, MonitorTypeOK
    <2> QED BY <1>6, <1>8, <1>9, <2>1, <2>2 DEF IInv, MonitorTypeOK
  <1>11. KnownAreAccounted'
    <2> SUFFICES ASSUME NEW p \in Nodes
                 PROVE knownPeers'[p] \subseteq Healthy' \cup unreachable'
      BY DEF KnownAreAccounted
    <2>1. knownPeers'[p] \subseteq knownPeers[p]
      BY <1>8, <1>9
    <2> QED BY <1>7, <1>8, <2>1 DEF IInv, KnownAreAccounted
  <1> QED BY <1>4, <1>8, <1>10, <1>11 DEF IInv, AlarmsAreReal

LEMMA NextInv == IInv /\ [Next]_clusterVars => IInv'
  <1> SUFFICES ASSUME IInv, [Next]_clusterVars PROVE IInv'
    OBVIOUS
  <1>1. role \in [Nodes -> {"campaign", "grace", "lead"}]
        /\ leader \in Nodes \cup {NoLeader}
        /\ (leader # NoLeader => role[leader] # "campaign")
        /\ ids \in Nat
    BY DEF IInv, MonitorTypeOK, MembershipInv, MembershipTypeOK
  <1>2. CASE SessionExpires
    <2>1. MembershipInv' /\ Healthy' = Healthy
      BY <1>2, FaultCounts, MembershipKept DEF SessionExpires, IInv
    <2> QED BY <1>1, <1>2, <2>1, RecordsKept DEF SessionExpires
  <1>3. ASSUME NEW n \in Nodes, Campaign(n) PROVE IInv'
    <2>1. MembershipInv' /\ Healthy' = Healthy /\ ids' = ids
      BY <1>3, FaultCounts, MembershipKept DEF Campaign, membership, IInv
    <2> QED BY <1>1, <1>3, <2>1, RecordsKept DEF Campaign, Enters
  <1>4. ASSUME NEW n \in Nodes, GraceEnds(n) PROVE IInv'
    <2>1. /\ role' \in [Nodes -> {"campaign", "grace", "lead"}]
          /\ leader # NoLeader => role'[leader] # "campaign"
      BY <1>1, <1>4, NoLeaderAssumption DEF GraceEnds, Enters
    <2> QED BY <1>4, <2>1, Checks DEF GraceEnds
  <1>5. ASSUME NEW n \in Nodes, Tick(n) PROVE IInv'
    BY <1>1, <1>5, Checks DEF Tick
  <1>6. ASSUME NEW n \in Nodes, StepDown(n) PROVE IInv'
    <2>1. MembershipInv' /\ Healthy' = Healthy /\ ids' = ids
      BY <1>6, FaultCounts, MembershipKept DEF StepDown, membership, IInv
    <2> QED BY <1>1, <1>6, <2>1, RecordsKept DEF StepDown
  <1>7. ASSUME NEW n \in Nodes, Stop(n) PROVE IInv'
    BY <1>7, Stops
  <1>8. ASSUME NEW n \in Nodes, NodeStep(n) \/ CallFails(n) \/ ProbeFails(n),
               UNCHANGED monitors
        PROVE IInv'
    <2>1. MembershipInv' /\ Healthy \subseteq Healthy'
      BY <1>8, NodeSteps DEF IInv
    <2>2. ids <= ids'
      BY <1>1, <1>8 DEF NodeStep, Restart, StartJoining, List, Remove, Add, AddRefused,
                        Start, CallFails, ProbeFails
    <2> QED BY <1>1, <1>8, <2>1, <2>2, RecordsKept DEF monitors
  <1>9. CASE UNCHANGED clusterVars
    <2>1. MembershipInv' /\ Healthy' = Healthy /\ ids' = ids
      BY <1>9, FaultCounts, MembershipKept DEF clusterVars, membership, IInv
    <2> QED BY <1>1, <1>9, <2>1, RecordsKept DEF clusterVars, monitors
  <1> QED BY <1>2, <1>3, <1>4, <1>5, <1>6, <1>7, <1>8, <1>9 DEF Next
-----------------------------------------------------------------------------
\* The members' IDs and nodes differ, running servers have theirs in their data
\* directories, removals hit their own node, known peers are accounted for.
THEOREM Invariance == Spec => []IInv
  BY InitInv, NextInv, PTL DEF Spec

\* The nodes' and the monitors' variables keep their types, and the holder of the
\* election key is never campaigning.
THEOREM TypeCorrect == Spec => []TypeOK
  <1>1. IInv => TypeOK
    BY TypesSplit DEF IInv, MembershipInv
  <1> QED BY <1>1, Invariance, PTL

\* removeExistingMember and MemberAdd never take the membership of a server that
\* runs, nor give its peer URL a second member.
THEOREM RunningServersAreMembers == Spec => []RunningServersBelong
  <1>1. IInv => RunningServersBelong
    BY BelongFromInv DEF IInv
  <1> QED BY <1>1, Invariance, PTL

\* checkClusterHealth triggers a failover only for peers that have stopped, or
\* not answered, at some time.
THEOREM NoFalseAlarm == Spec => []AlarmsAreReal
  <1>1. IInv => AlarmsAreReal
    BY DEF IInv
  <1> QED BY <1>1, Invariance, PTL
-----------------------------------------------------------------------------
(***************************************************************************)
(* The members' lives.                                                     *)
(***************************************************************************)
\* Where members and IDs stay, and servers run on as they did, nothing happens.
LEMMA NoLifeTouched ==
  ASSUME UNCHANGED <<members, ids>>, \A p \in Nodes : ServingId(p)' = ServingId(p)
  PROVE  UNCHANGED ML!lives
  BY DEF ML!lives

\* What a node does while its server is not running, and does not start to run.
LEMMA ServingKept ==
  ASSUME MembershipInv, NEW n \in Nodes, server[n] # "up",
         NEW place, place # "up", server' = [server EXCEPT ![n] = place],
         \A p \in Nodes \ {n} : dataDir'[p] = dataDir[p]
  PROVE  \A p \in Nodes : ServingId(p)' = ServingId(p)
  <1> SUFFICES ASSUME NEW p \in Nodes PROVE ServingId(p)' = ServingId(p)
    OBVIOUS
  <1>1. server \in [Nodes -> {"down", "list", "remove", "add", "start", "up", "apart"}]
    BY DEF MembershipInv, MembershipTypeOK
  <1>2. CASE p = n
    BY <1>1, <1>2 DEF ServingId, Running
  <1>3. CASE p # n
    BY <1>1, <1>3 DEF ServingId, Running
  <1> QED BY <1>2, <1>3

LEMMA LifeServes ==
  ASSUME MembershipInv, NEW n \in Nodes, NEW m \in MemberOf(n), Serve(n, m),
         ids' = ids, server[n] # "up", server' = [server EXCEPT ![n] = "up"]
  PROVE  ML!Serve(n)
  <1> DEFINE s == [m EXCEPT !.named = TRUE]
  <1>1. m \in members /\ m.node = n /\ m.id \in Ids
    BY MemberFields DEF MemberOf, MembershipInv
  <1>2. s.id = m.id /\ s.node = m.node /\ s.named
    BY <1>1 DEF MembershipInv, MembershipTypeOK, Member
  <1>3. members' = (members \ {m}) \cup {s} /\ dataDir' = [dataDir EXCEPT ![n] = m.id]
    BY DEF Serve
  <1> HIDE DEF s
  <1>4. {<<q.id, q.node>> : q \in members'} = {<<q.id, q.node>> : q \in members}
    BY <1>1, <1>2, <1>3
  <1>5. {q.id : q \in {q \in members' : q.named}}
          = {q.id : q \in {q \in members : q.named}} \cup {m.id}
    BY <1>1, <1>2, <1>3
  <1>6. /\ server \in [Nodes -> {"down", "list", "remove", "add", "start", "up", "apart"}]
        /\ dataDir \in [Nodes -> Ids \cup {NoData}]
    BY DEF MembershipInv, MembershipTypeOK
  <1>7. \A p \in Nodes : ServingId(p)' = IF p = n THEN m.id ELSE ServingId(p)
    BY <1>3, <1>6 DEF ServingId, Running
  <1>8. ServingId(n) = NoData
    BY DEF ServingId, Running
  <1>9. <<m.id, n>> \in {<<q.id, q.node>> : q \in members}
    BY <1>1
  <1>10. [p \in Nodes |-> ServingId(p)]' = [[p \in Nodes |-> ServingId(p)] EXCEPT ![n] = m.id]
    BY <1>7
  <1> DEFINE e == <<m.id, n>>
  <1>11. e[1] = m.id /\ e[2] = n
    OBVIOUS
  <1> QED BY <1>4, <1>5, <1>8, <1>9, <1>10, <1>11 DEF ML!Serve

\* A removal hits a member whose server has run and does not run, if any.
LEMMA LifeLeaves ==
  ASSUME MembershipInv, NEW n \in Nodes, server[n] = "remove",
         members' = {m \in members : m.id # target[n]},
         NEW place, place # "up", server' = [server EXCEPT ![n] = place],
         UNCHANGED <<dataDir, ids>>
  PROVE  [ML!Next]_(ML!lives)
  <1>1. \A p \in Nodes : ServingId(p)' = ServingId(p)
    BY ServingKept
  <1>2. CASE \A m \in members : m.id # target[n]
    <2>1. members' = members
      BY <1>2
    <2> QED BY <1>1, <2>1, NoLifeTouched
  <1>3. ASSUME NEW m \in members, m.id = target[n] PROVE ML!Next
    <2>1. m.node = n /\ m.named
      BY <1>3 DEF MembershipInv, TargetsAreOwn
    <2>2. \A q \in members : q \in members' <=> q # m
      BY <1>3 DEF MembershipInv, MembersDiffer
    <2>3. \A q \in members : q # m => q.id # m.id /\ q.node # n
      BY <2>1 DEF MembershipInv, MembersDiffer
    <2> DEFINE e == <<m.id, n>>
    <2>4. e[1] = m.id /\ e[2] = n /\ e \in {<<q.id, q.node>> : q \in members}
      BY <2>1
    <2>5. {<<q.id, q.node>> : q \in members'} = {<<q.id, q.node>> : q \in members} \ {e}
      BY <2>1, <2>2, <2>3
    <2>6. {q.id : q \in {q \in members' : q.named}}
            = {q.id : q \in {q \in members : q.named}} \ {m.id}
      BY <2>2, <2>3
    <2>7. m.id \in {q.id : q \in {q \in members : q.named}}
      BY <2>1
    <2>8. [p \in Nodes |-> ServingId(p)]' = [p \in Nodes |-> ServingId(p)]
      BY <1>1
    <2>9. [p \in Nodes |-> ServingId(p)][n] = NoData
      BY DEF ServingId, Running
    <2> HIDE DEF e
    <2>10. ML!Leave(e)
      BY <2>4, <2>5, <2>6, <2>7, <2>8, <2>9 DEF ML!Leave
    <2> QED BY <2>4, <2>10 DEF ML!Next
  <1> QED BY <1>2, <1>3

LEMMA LifeJoins ==
  ASSUME MembershipInv, NEW n \in Nodes, server[n] = "add", MemberOf(n) = {},
         ids' = ids + 1,
         members' = members \cup {[id |-> ids + 1, node |-> n, named |-> FALSE]},
         NEW place, place # "up", server' = [server EXCEPT ![n] = place],
         dataDir' = dataDir
  PROVE  ML!Join(n)
  <1> DEFINE new == [id |-> ids + 1, node |-> n, named |-> FALSE]
  <1>1. new.id = ids + 1 /\ new.node = n /\ ~new.named /\ members' = members \cup {new}
    OBVIOUS
  <1> HIDE DEF new
  <1>2. {<<q.id, q.node>> : q \in members'}
          = {<<q.id, q.node>> : q \in members} \cup {<<ids + 1, n>>}
    BY <1>1
  <1>3. {q.id : q \in {q \in members' : q.named}} = {q.id : q \in {q \in members : q.named}}
    BY <1>1
  <1>4. \A p \in Nodes : ServingId(p)' = ServingId(p)
    BY ServingKept
  <1>5. [p \in Nodes |-> ServingId(p)]' = [p \in Nodes |-> ServingId(p)]
    BY <1>4
  <1>6. \A e \in {<<q.id, q.node>> : q \in members} : e[2] # n
    <2> SUFFICES ASSUME NEW q \in members PROVE <<q.id, q.node>>[2] # n
      OBVIOUS
    <2> QED BY DEF MemberOf
  <1> QED BY <1>2, <1>3, <1>5, <1>6 DEF ML!Join

LEMMA LifeApart ==
  ASSUME MembershipInv, NEW n \in Nodes, server[n] # "up",
         server' = [server EXCEPT ![n] = "apart"], ids' = ids + 1,
         \A p \in Nodes \ {n} : dataDir'[p] = dataDir[p], members' = members
  PROVE  ML!Apart
  <1>1. \A p \in Nodes : ServingId(p)' = ServingId(p)
    BY ServingKept
  <1>2. [p \in Nodes |-> ServingId(p)]' = [p \in Nodes |-> ServingId(p)]
    BY <1>1
  <1> QED BY <1>2 DEF ML!Apart

LEMMA LifeStops == ASSUME MembershipInv, NEW n \in Nodes, Crash(n) PROVE ML!Stop(n)
  <1>1. /\ server[n] = "up" /\ server' = [server EXCEPT ![n] = "down"]
        /\ dataDir' \in {dataDir, [dataDir EXCEPT ![n] = NoData]}
        /\ UNCHANGED <<members, ids>>
    BY DEF Crash, Goes
  <1>2. /\ server \in [Nodes -> {"down", "list", "remove", "add", "start", "up", "apart"}]
        /\ dataDir \in [Nodes -> Ids \cup {NoData}]
    BY DEF MembershipInv, MembershipTypeOK
  <1>3. \A p \in Nodes : ServingId(p)' = IF p = n THEN NoData ELSE ServingId(p)
    BY <1>1, <1>2 DEF ServingId, Running
  <1>4. ServingId(n) # NoData
    <2>1. PICK m \in members : m.id = dataDir[n]
      BY <1>1 DEF MembershipInv, RunningHaveMembers, Running
    <2>2. m.id \in 1..ids /\ ids \in Nat
      BY MemberFields DEF MembershipInv, MembershipTypeOK, Ids
    <2> QED BY <1>1, <2>1, <2>2 DEF ServingId, Running, NoData
  <1>5. [p \in Nodes |-> ServingId(p)]' = [[p \in Nodes |-> ServingId(p)] EXCEPT ![n] = NoData]
    BY <1>3
  <1> QED BY <1>1, <1>4, <1>5 DEF ML!Stop
LEMMA LifeSteps ==
  ASSUME MembershipInv, NEW n \in Nodes, NodeStep(n) \/ CallFails(n) \/ ProbeFails(n)
  PROVE  [ML!Next]_(ML!lives)
  <1>1. dataDir \in [Nodes -> Ids \cup {NoData}]
    BY DEF MembershipInv, MembershipTypeOK
  <1>2. CASE Restart(n) \/ Start(n)
    <2>1. PICK m \in MemberOf(n) : Serve(n, m)
      BY <1>2 DEF Restart, Start
    <2>2. ML!Serve(n)
      BY <1>2, <2>1, LifeServes DEF Restart, Start, Goes
    <2> QED BY <2>2 DEF ML!Next
  <1>3. CASE StartJoining(n) \/ List(n) \/ AddRefused(n)
    <2>1. PICK place : place # "up" /\ server' = [server EXCEPT ![n] = place]
      BY <1>3 DEF StartJoining, List, AddRefused, Goes
    <2>2. server[n] # "up" /\ UNCHANGED <<members, dataDir, ids>>
      BY <1>3 DEF StartJoining, List, AddRefused, Goes
    <2> QED BY <2>1, <2>2, ServingKept, NoLifeTouched
  <1>4. CASE Remove(n)
    BY <1>4, LifeLeaves DEF Remove, Goes
  <1>5. CASE Add(n)
    <2>1. ML!Join(n)
      BY <1>5, LifeJoins DEF Add, Goes
    <2> QED BY <2>1 DEF ML!Next
  <1>6. CASE CallFails(n)
    <2>1. /\ server[n] \in {"list", "remove", "add", "start"}
          /\ server' = [server EXCEPT ![n] = "down"]
      BY <1>6 DEF CallFails
    <2>2. CASE UNCHANGED <<members, ids>> /\ \A p \in Nodes \ {n} : dataDir'[p] = dataDir[p]
      BY <2>1, <2>2, ServingKept, NoLifeTouched
    <2>3. CASE /\ server[n] = "remove"
               /\ members' = {m \in members : m.id # target[n]}
               /\ UNCHANGED <<ids, dataDir>>
      BY <2>1, <2>3, LifeLeaves
    <2>4. CASE /\ server[n] = "add" /\ MemberOf(n) = {}
               /\ ids' = ids + 1
               /\ members' = members \cup
                               {[id |-> ids + 1, node |-> n, named |-> FALSE]}
               /\ UNCHANGED dataDir
      <3>1. ML!Join(n)
        BY <2>1, <2>4, LifeJoins
      <3> QED BY <3>1 DEF ML!Next
    <2>5. CASE /\ \E m \in MemberOf(n) : dataDir' = [dataDir EXCEPT ![n] = m.id]
               /\ UNCHANGED <<members, ids>>
      BY <1>1, <2>2, <2>5
    <2> QED BY <1>6, <2>2, <2>3, <2>4, <2>5 DEF CallFails
  <1>7. CASE ProbeFails(n)
    <2>1. CASE UNCHANGED <<members, server, dataDir, ids>>
      BY <2>1, NoLifeTouched DEF ServingId, Running
    <2>2. CASE /\ Goes(n, "down", "up")
               /\ \E m \in MemberOf(n) : m.named /\ Serve(n, m)
               /\ UNCHANGED ids
      <3>1. PICK m \in MemberOf(n) : Serve(n, m)
        BY <2>2
      <3>2. ML!Serve(n)
        BY <2>2, <3>1, LifeServes DEF Goes
      <3> QED BY <3>2 DEF ML!Next
    <2>3. CASE /\ Goes(n, "down", "apart")
               /\ ids' = ids + 1
               /\ dataDir' = [dataDir EXCEPT ![n] = ids + 1]
               /\ UNCHANGED members
      <3>1. \A p \in Nodes \ {n} : dataDir'[p] = dataDir[p]
        BY <1>1, <2>3
      <3>2. ML!Apart
        BY <2>3, <3>1, LifeApart DEF Goes
      <3> QED BY <3>2 DEF ML!Next
    <2> QED BY <1>7, <2>1, <2>2, <2>3 DEF ProbeFails
  <1> QED BY <1>2, <1>3, <1>4, <1>5, <1>6, <1>7 DEF NodeStep

LEMMA LifeStep == ASSUME IInv, [Next]_clusterVars PROVE [ML!Next]_(ML!lives)
  <1>1. CASE UNCHANGED membership
    <2>1. UNCHANGED <<members, ids>> /\ \A p \in Nodes : ServingId(p)' = ServingId(p)
      BY <1>1 DEF membership, ServingId, Running
    <2> QED BY <2>1, NoLifeTouched
  <1>2. CASE UNCHANGED <<members, server, dataDir, target, ids>>
    <2>1. \A p \in Nodes : ServingId(p)' = ServingId(p)
      BY <1>2 DEF ServingId, Running
    <2> QED BY <1>2, <2>1, NoLifeTouched
  <1>3. ASSUME NEW n \in Nodes, Stop(n) PROVE [ML!Next]_(ML!lives)
    <2>1. ML!Stop(n)
      BY <1>3, LifeStops DEF Stop, IInv
    <2> QED BY <2>1 DEF ML!Next
  <1>4. ASSUME NEW n \in Nodes, NodeStep(n) \/ CallFails(n) \/ ProbeFails(n)
        PROVE  [ML!Next]_(ML!lives)
    BY <1>4, LifeSteps DEF IInv
  <1>5. ASSUME NEW n \in Nodes, Campaign(n) \/ GraceEnds(n) \/ Tick(n) \/ StepDown(n)
        PROVE  UNCHANGED membership \/ UNCHANGED <<members, server, dataDir, target, ids>>
    BY <1>5 DEF Campaign, GraceEnds, Tick, StepDown, CheckClusterHealth
  <1>6. SessionExpires => UNCHANGED <<members, server, dataDir, target, ids>>
    BY DEF SessionExpires
  <1> QED BY <1>1, <1>2, <1>3, <1>4, <1>5, <1>6 DEF Next, clusterVars

LEMMA LifeBegins == Init => ML!Init
  <1> SUFFICES ASSUME Init PROVE ML!Init
    OBVIOUS
  <1>1. MembershipInv /\ MembershipInit
    BY InitMembership DEF Init
  <1>2. \A m \in members : m.id \in Ids /\ m.node \in Nodes
    BY <1>1, MemberFields DEF MembershipInv
  <1>3. ids \in Nat
    BY <1>1 DEF MembershipInv, MembershipTypeOK
  <1>4. {<<m.id, m.node>> : m \in members} \subseteq (1..ids) \X Nodes
    BY <1>2 DEF Ids
  <1>5. \A e, f \in {<<m.id, m.node>> : m \in members} :
          e[1] = f[1] \/ e[2] = f[2] => e = f
    <2> SUFFICES ASSUME NEW m \in members, NEW q \in members,
                        m.id = q.id \/ m.node = q.node
                 PROVE  <<m.id, m.node>> = <<q.id, q.node>>
      OBVIOUS
    <2> QED BY <1>1 DEF MembershipInv, MembersDiffer
  <1>6. \A m \in members : m.named
    BY <1>1 DEF MembershipInit
  <1>7. {m.id : m \in {m \in members : m.named}}
          = {e[1] : e \in {<<m.id, m.node>> : m \in members}}
    <2> DEFINE Pairs == {<<m.id, m.node>> : m \in members}
               Named == {m \in members : m.named}
    <2>1. Named = members
      BY <1>6
    <2>2. ASSUME NEW i \in {m.id : m \in members}
          PROVE  i \in {e[1] : e \in Pairs}
      <3>1. PICK m \in members : i = m.id
        OBVIOUS
      <3>2. <<m.id, m.node>> \in Pairs /\ <<m.id, m.node>>[1] = i
        BY <3>1
      <3> QED BY <3>2
    <2>3. ASSUME NEW i \in {e[1] : e \in Pairs}
          PROVE  i \in {m.id : m \in members}
      <3>1. PICK m \in members : i = <<m.id, m.node>>[1]
        OBVIOUS
      <3> QED BY <3>1
    <2>4. {m.id : m \in Named} = {m.id : m \in members}
      BY <2>1
    <2> QED BY <2>2, <2>3, <2>4
  <1>8. ASSUME NEW n \in Nodes
        PROVE  /\ ServingId(n) \in 0..ids
               /\ ServingId(n) # NoData =>
                    <<ServingId(n), n>> \in {<<m.id, m.node>> : m \in members}
    <2>1. CASE Running(n)
      <3>1. PICK m \in members : m.node = n /\ m.id = dataDir[n]
        BY <1>1, <2>1 DEF MembershipInv, RunningHaveMembers
      <3>2. ServingId(n) = m.id /\ m.id \in 0..ids
        BY <1>2, <1>3, <2>1, <3>1 DEF ServingId, Ids
      <3> QED BY <3>1, <3>2
    <2>2. CASE ~Running(n)
      BY <1>3, <2>2 DEF ServingId, NoData
    <2> QED BY <2>1, <2>2
  <1>9. [n \in Nodes |-> ServingId(n)] \in [Nodes -> 0..ids]
    BY <1>8
  <1> QED BY <1>3, <1>4, <1>5, <1>7, <1>8, <1>9 DEF ML!Init

\* However joins overlap, fail half way or go apart: an ID is given out once, a
\* node has one member at most, servers run under their members' IDs, and what
\* removeExistingMember removes has run before and does not run now.
THEOREM LivesKept == Spec => ImplementsLives
  BY LifeBegins, LifeStep, Invariance, PTL DEF Spec, ImplementsLives, ML!Spec
-----------------------------------------------------------------------------
(***************************************************************************)
(* A join that stopped between MemberAdd and its server's first write.     *)
(***************************************************************************)
\* No call of StartNode is left that would start the server of the new member.
ShutOut(n) == Stray(n) /\ server[n] \notin {"start", "up"}

\* A step of one node leaves a member that is not named alone, unless it starts
\* that member's server.
LEMMA ShutOutNodeStep ==
  ASSUME MembershipInv, NEW n \in Nodes, ShutOut(n), NEW p \in Nodes,
         NodeStep(p) \/ CallFails(p) \/ ProbeFails(p)
  PROVE  ShutOut(n)'
  <1>0. /\ server \in [Nodes -> {"down", "list", "remove", "add", "start", "up", "apart"}]
        /\ dataDir \in [Nodes -> Ids \cup {NoData}] /\ ids \in Nat
    BY DEF MembershipInv, MembershipTypeOK
  <1>1. PICK m \in members : m.node = n /\ ~m.named /\ m.id # dataDir[n]
    BY DEF ShutOut, Stray, MemberOf
  <1>2. m.id \in Ids /\ server[n] \in {"down", "list", "remove", "add", "apart"}
    BY <1>0, <1>1, MemberFields DEF MembershipInv, ShutOut
  <1>3. \A q \in members : q.node = n => q = m
    BY <1>1 DEF MembershipInv, MembersDiffer
  <1>4. ASSUME m \in members', m.id # dataDir'[n],
               server'[n] \in {"down", "list", "remove", "add", "apart"}
        PROVE  ShutOut(n)'
    BY <1>1, <1>4 DEF ShutOut, Stray, MemberOf
  <1>5. m.id # ids + 1
    BY <1>0, <1>2 DEF Ids
  <1>6. ASSUME NEW q \in MemberOf(p), Serve(p, q), p # n PROVE m \in members' /\ dataDir'[n] = dataDir[n]
    BY <1>0, <1>1, <1>6 DEF Serve, MemberOf
  <1>7. ASSUME server[p] = "remove" PROVE m.id # target[p]
    BY <1>1, <1>7 DEF MembershipInv, TargetsAreOwn
  <1>8. CASE Restart(p)
    <2>1. PICK q \in MemberOf(p) : q.id = dataDir[p] /\ Serve(p, q)
      BY <1>8 DEF Restart
    <2>2. p # n
      BY <1>1, <1>3, <2>1 DEF MemberOf
    <2>3. server'[n] = server[n]
      BY <1>0, <1>8, <2>2 DEF Restart, Goes
    <2> QED BY <1>1, <1>2, <1>4, <1>6, <2>1, <2>2, <2>3
  <1>9. CASE Start(p)
    <2>1. PICK q \in MemberOf(p) : Serve(p, q)
      BY <1>9 DEF Start
    <2>2. p # n
      BY <1>2, <1>9 DEF Start, Goes
    <2>3. server'[n] = server[n]
      BY <1>0, <1>9, <2>2 DEF Start, Goes
    <2> QED BY <1>1, <1>2, <1>4, <1>6, <2>1, <2>2, <2>3
  <1>10. CASE StartJoining(p) \/ List(p) \/ AddRefused(p)
    <2>1. members' = members /\ dataDir' = dataDir
      BY <1>10 DEF StartJoining, List, AddRefused
    <2>2. server'[n] \in {"down", "list", "remove", "add", "apart"}
      BY <1>0, <1>2, <1>10 DEF StartJoining, List, AddRefused, Goes
    <2> QED BY <1>1, <1>4, <2>1, <2>2
  <1>11. CASE Remove(p)
    <2>1. m \in members' /\ dataDir' = dataDir
      BY <1>1, <1>7, <1>11 DEF Remove, Goes
    <2>2. server'[n] \in {"down", "list", "remove", "add", "apart"}
      BY <1>0, <1>2, <1>11 DEF Remove, Goes
    <2> QED BY <1>1, <1>4, <2>1, <2>2
  <1>12. CASE Add(p)
    <2>1. p # n
      BY <1>1, <1>12 DEF Add, MemberOf
    <2>2. m \in members' /\ dataDir' = dataDir /\ server'[n] = server[n]
      BY <1>0, <1>1, <1>12, <2>1 DEF Add, Goes
    <2> QED BY <1>1, <1>2, <1>4, <2>2
  <1>13. CASE CallFails(p)
    <2>1. server' = [server EXCEPT ![p] = "down"] /\ server[p] \in {"list", "remove", "add", "start"}
      BY <1>13 DEF CallFails
    <2>2. server'[n] \in {"down", "list", "remove", "add", "apart"}
      BY <1>0, <1>2, <2>1
    <2>3. m \in members'
      BY <1>1, <1>7, <1>13 DEF CallFails
    <2>4. dataDir'[n] = dataDir[n]
      <3>1. CASE dataDir' = dataDir
        BY <3>1
      <3>2. CASE server[p] = "start" /\ \E q \in MemberOf(p) : dataDir' = [dataDir EXCEPT ![p] = q.id]
        BY <1>0, <1>2, <3>2
      <3> QED BY <1>13, <3>1, <3>2 DEF CallFails
    <2> QED BY <1>1, <1>4, <2>2, <2>3, <2>4
  <1>14. CASE ProbeFails(p)
    <2>1. CASE UNCHANGED <<members, server, dataDir, ids>>
      BY <1>1, <1>2, <1>4, <2>1
    <2>2. CASE Goes(p, "down", "up") /\ \E q \in MemberOf(p) : q.named /\ Serve(p, q)
      <3>1. PICK q \in MemberOf(p) : q.named /\ Serve(p, q)
        BY <2>2
      <3>2. p # n
        BY <1>1, <1>3, <3>1 DEF MemberOf
      <3>3. server'[n] = server[n]
        BY <1>0, <2>2, <3>2 DEF Goes
      <3> QED BY <1>1, <1>2, <1>4, <1>6, <3>1, <3>2, <3>3
    <2>3. CASE Goes(p, "down", "apart") /\ dataDir' = [dataDir EXCEPT ![p] = ids + 1] /\ members' = members
      <3>1. server'[n] \in {"down", "list", "remove", "add", "apart"}
        BY <1>0, <1>2, <2>3 DEF Goes
      <3>2. dataDir'[n] \in {dataDir[n], ids + 1}
        BY <1>0, <2>3
      <3> QED BY <1>1, <1>4, <1>5, <2>3, <3>1, <3>2
    <2> QED BY <1>14, <2>1, <2>2, <2>3 DEF ProbeFails
  <1> QED BY <1>8, <1>9, <1>10, <1>11, <1>12, <1>13, <1>14 DEF NodeStep

LEMMA ShutOutStep ==
  ASSUME IInv, [Next]_clusterVars, NEW n \in Nodes, ShutOut(n)
  PROVE  ShutOut(n)'
  <1>0. MembershipInv
    BY DEF IInv
  <1>1. ASSUME NEW p \in Nodes, Stop(p) PROVE ShutOut(n)'
    <2>1. server[p] = "up" /\ p # n
      BY <1>1 DEF Stop, Crash, Goes, ShutOut
    <2>2. members' = members /\ server'[n] = server[n] /\ dataDir'[n] = dataDir[n]
      BY <1>0, <1>1, <2>1 DEF Stop, Crash, Goes, MembershipInv, MembershipTypeOK
    <2> QED BY <2>2 DEF ShutOut, Stray, MemberOf
  <1>2. ASSUME NEW p \in Nodes, NodeStep(p) \/ CallFails(p) \/ ProbeFails(p) PROVE ShutOut(n)'
    BY <1>0, <1>2, ShutOutNodeStep
  <1>3. ASSUME UNCHANGED <<members, server, dataDir>> PROVE ShutOut(n)'
    BY <1>3 DEF ShutOut, Stray, MemberOf
  <1>4. SessionExpires \/ UNCHANGED clusterVars => UNCHANGED <<members, server, dataDir>>
    BY DEF SessionExpires, clusterVars, membership
  <1>5. ASSUME NEW p \in Nodes, Campaign(p) \/ GraceEnds(p) \/ Tick(p) \/ StepDown(p)
        PROVE  UNCHANGED <<members, server, dataDir>>
    BY <1>5 DEF Campaign, GraceEnds, Tick, StepDown, CheckClusterHealth, membership
  <1> QED BY <1>1, <1>2, <1>3, <1>4, <1>5 DEF Next

\* The hazard of etcd.go, line 214: once a join has stopped between MemberAdd and its
\* server's first write, the node never serves again, whatever it or others try.  Its
\* member has no name, so removeExistingMember does not find it, and it holds the peer
\* URL, so MemberAdd is refused.
THEOREM ShutOutForGood ==
  ASSUME NEW n \in Nodes
  PROVE  Spec => [](ShutOut(n) => [](Stray(n) /\ ~Running(n)))
  <1>1. IInv /\ ShutOut(n) /\ [Next]_clusterVars => ShutOut(n)'
    BY ShutOutStep
  <1>2. ShutOut(n) => Stray(n) /\ ~Running(n)
    BY DEF ShutOut, Running
  <1> QED BY <1>1, <1>2, Invariance, PTL DEF Spec
=============================================================================
