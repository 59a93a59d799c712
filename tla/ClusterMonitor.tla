---------------------------- MODULE ClusterMonitor ----------------------------
(***************************************************************************)
(* The cluster's monitors (internal/cluster): every node campaigns for     *)
(* leadership, and the leader compares the members that are healthy with   *)
(* those that were at its previous check.  A monitor runs in the process   *)
(* of its node's etcd server and is lost with it.                          *)
(***************************************************************************)
EXTENDS ClusterMembership

CONSTANTS NoLeader

ASSUME NoLeaderAssumption == NoLeader \notin Nodes

VARIABLES
  leader,      \* the holder of the election key
  role,        \* where each monitor is: campaigning, in its grace period, leading
  knownPeers,  \* member IDs each monitor found healthy at its last check
  triggered,   \* history: IDs missing at a check that triggered a failover
  unreachable  \* history: IDs whose server has stopped, or not answered in time

monitors == <<leader, role, knownPeers, triggered, unreachable>>
clusterVars == <<membership, monitors>>

TypeOK == /\ MembershipTypeOK
          /\ leader \in Nodes \cup {NoLeader}
          /\ role \in [Nodes -> {"campaign", "grace", "lead"}]
          /\ leader # NoLeader => role[leader] # "campaign"
          /\ knownPeers \in [Nodes -> SUBSET Ids]
          /\ triggered \subseteq Ids
          /\ unreachable \subseteq Ids

Init == /\ MembershipInit
        /\ leader = NoLeader
        /\ role = [n \in Nodes |-> "campaign"]
        /\ knownPeers = [n \in Nodes |-> {}]
        /\ triggered = {}
        /\ unreachable = {}

Enters(n, source, place) == /\ role[n] = source
                            /\ role' = [role EXCEPT ![n] = place]
-----------------------------------------------------------------------------
\* campaignForLeadership: one of the running campaigners gets the key.
Campaign(n) == /\ leader = NoLeader
               /\ Running(n)
               /\ leader' = n
               /\ Enters(n, "campaign", "grace")
               /\ UNCHANGED <<membership, knownPeers, triggered, unreachable>>

\* Members without client URLs are taken for healthy without being asked.
Healthy == {m.id : m \in {m \in members : ~m.named \/ Running(m.node)}}

MutCompare(n, healthy) ==   \* forgets the previous check before it compares
  /\ knownPeers' = [knownPeers EXCEPT ![n] = healthy]
  /\ triggered' = triggered \cup (knownPeers'[n] \ healthy)

\* One failover is triggered however many of the peers are lost.
Compare(n, healthy) ==
  /\ triggered' = triggered \cup (knownPeers[n] \ healthy)
  /\ knownPeers' = [knownPeers EXCEPT ![n] = healthy]

\* A server may answer too late.  (When MemberList fails, nothing changes.)
CheckClusterHealth(n) ==
  \/ /\ Compare(n, Healthy)
     /\ UNCHANGED <<membership, unreachable>>
  \/ \E m \in members :
       /\ Fault
       /\ m.named
       /\ Compare(n, Healthy \ {m.id})
       /\ unreachable' = unreachable \cup {m.id}
       /\ UNCHANGED <<members, server, dataDir, target, ids>>

\* runAsLeader: the first check comes when the grace period is over, ...
GraceEnds(n) == /\ Enters(n, "grace", "lead")
                /\ CheckClusterHealth(n)
                /\ UNCHANGED leader

\* ... the others when the ticker fires.
Tick(n) == /\ role[n] = "lead"
           /\ CheckClusterHealth(n)
           /\ UNCHANGED <<leader, role>>

\* The lease of the leader's session expires and the key is free, ...
SessionExpires == /\ Fault
                  /\ leader # NoLeader
                  /\ leader' = NoLeader
                  /\ UNCHANGED <<members, server, dataDir, target, ids,
                                 role, knownPeers, triggered, unreachable>>

MutStepDown(n) ==   \* returns although the session is alive
  /\ role[n] # "campaign"
  /\ role' = [role EXCEPT ![n] = "campaign"]
  /\ UNCHANGED <<membership, leader, knownPeers, triggered, unreachable>>

\* ... which the monitor learns later: runAsLeader returns, it campaigns again.
StepDown(n) == /\ leader # n
               /\ role[n] # "campaign"
               /\ role' = [role EXCEPT ![n] = "campaign"]
               /\ UNCHANGED <<membership, leader, knownPeers, triggered, unreachable>>

\* A node that stops takes its monitor with it; its lease runs out.
Stop(n) == /\ Crash(n)
           /\ leader' = IF leader = n THEN NoLeader ELSE leader
           /\ role' = [role EXCEPT ![n] = "campaign"]
           /\ knownPeers' = [knownPeers EXCEPT ![n] = {}]
           /\ unreachable' = unreachable \cup {dataDir[n]}
           /\ UNCHANGED triggered

Next == \/ SessionExpires
        \/ \E n \in Nodes :
             \/ Campaign(n) \/ GraceEnds(n) \/ Tick(n) \/ StepDown(n) \/ Stop(n)
             \/ (NodeStep(n) \/ CallFails(n) \/ ProbeFails(n)) /\ UNCHANGED monitors

Spec == Init /\ [][Next]_clusterVars

\* Nodes are started again; the monitors' goroutines and tickers run on.
FairSpec == /\ Spec
            /\ \A n \in Nodes : /\ WF_clusterVars(NodeStep(n) /\ UNCHANGED monitors)
                                /\ WF_clusterVars(Campaign(n))
                                /\ WF_clusterVars(GraceEnds(n))
                                /\ WF_clusterVars(Tick(n))
                                /\ WF_clusterVars(StepDown(n))
-----------------------------------------------------------------------------
\* No false alarm: the peers whose loss triggered a failover had stopped, or
\* not answered, at some time; none was only joining, or removed by the join of
\* another node.
AlarmsAreReal == triggered \subseteq unreachable

\* A monitor that has seen a peer healthy and leads on notices that it is gone,
\* unless the peer is back, or its session over, first.
LossNoticed ==
  \A n \in Nodes : \A i \in 1..(Cardinality(Nodes) + MaxFaults) :
    leader = n /\ role[n] = "lead" /\ i \in knownPeers[n] \ Healthy
      ~> i \in triggered \/ i \in Healthy \/ leader # n
=============================================================================
