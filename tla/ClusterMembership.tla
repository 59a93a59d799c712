-------------------------- MODULE ClusterMembership --------------------------
(***************************************************************************)
(* How nodes come back into the embedded etcd cluster (internal/etcd): a   *)
(* node with a data directory restarts as the member it was, one without   *)
(* removes the member of its name and joins as a new one.  The cluster     *)
(* itself is modelled by what its membership API promises: a majority of   *)
(* its members runs throughout, a member gets its name when its server     *)
(* runs for the first time, and no two members have the same peer URL.     *)
(*                                                                         *)
(* A node whose probe fails starts as if there were no cluster yet; what   *)
(* becomes of it then is up to etcd, and any outcome here.                 *)
(***************************************************************************)
EXTENDS Naturals, FiniteSets

CONSTANTS Nodes,      \* node IDs, which are also the names of their members
          MaxFaults   \* bound: crashes, lost data directories and failed calls

ASSUME NodesAssumption == IsFiniteSet(Nodes) /\ MaxFaults \in Nat

VARIABLES
  members,   \* the cluster's members: an ID, the node at the peer URL, named or not
  server,    \* where each node's StartNode, or its etcd server, is
  dataDir,   \* the member ID in each node's data directory, or NoData
  target,    \* the member that removeExistingMember has found
  ids,       \* member IDs given out so far, by the cluster or by a node apart
  faults     \* faults so far

membership == <<members, server, dataDir, target, ids, faults>>

NoData == 0
Ids == 1..ids

Member == [id : Ids, node : Nodes, named : BOOLEAN]
Running(n) == server[n] = "up"
MemberOf(n) == {m \in members : m.node = n}

MembershipTypeOK ==
  /\ members \subseteq Member
  /\ server \in [Nodes -> {"down", "list", "remove", "add", "start", "up", "apart"}]
  /\ dataDir \in [Nodes -> Ids \cup {NoData}]
  /\ target \in [Nodes -> Ids \cup {NoData}]
  /\ ids \in Nat
  /\ faults \in 0..MaxFaults

\* Some of the nodes have formed the cluster, the others have not joined yet.
MembershipInit ==
  \E formed \in SUBSET Nodes :
    \E number \in [formed -> 1..Cardinality(formed)] :
      /\ Cardinality(formed) > 1
      /\ \A n, p \in formed : number[n] = number[p] => n = p
      /\ ids = Cardinality(formed)
      /\ members = {[id |-> number[n], node |-> n, named |-> TRUE] : n \in formed}
      /\ server = [n \in Nodes |-> IF n \in formed THEN "up" ELSE "down"]
      /\ dataDir = [n \in Nodes |-> IF n \in formed THEN number[n] ELSE NoData]
      /\ target = [n \in Nodes |-> NoData]
      /\ faults = 0

Goes(n, source, place) == /\ server[n] = source
                          /\ server' = [server EXCEPT ![n] = place]

Fault == faults < MaxFaults /\ faults' = faults + 1
-----------------------------------------------------------------------------
\* The server of a member runs: it has its data directory and its name.
Serve(n, m) ==
  /\ dataDir' = [dataDir EXCEPT ![n] = m.id]
  /\ members' = (members \ {m}) \cup {[m EXCEPT !.named = TRUE]}

\* StartNode with a data directory; a member that was removed cannot restart.
Restart(n) == /\ Goes(n, "down", "up")
              /\ \E m \in MemberOf(n) : m.id = dataDir[n] /\ Serve(n, m)
              /\ UNCHANGED <<target, ids, faults>>

\* StartNode without one: the probe succeeds.
StartJoining(n) == /\ dataDir[n] = NoData
                   /\ Goes(n, "down", "list")
                   /\ UNCHANGED <<members, dataDir, target, ids, faults>>

MutList(n) ==   \* does not compare the names
  /\ \E m \in members : /\ Goes(n, "list", "remove")
                        /\ target' = [target EXCEPT ![n] = m.id]
  /\ UNCHANGED <<members, dataDir, ids, faults>>

\* removeExistingMember looks for a member of its name, ...
List(n) ==
  /\ LET own == {m \in MemberOf(n) : m.named}
     IN  \/ /\ own = {}
            /\ Goes(n, "list", "add")
            /\ UNCHANGED target
         \/ \E m \in own : /\ Goes(n, "list", "remove")
                           /\ target' = [target EXCEPT ![n] = m.id]
  /\ UNCHANGED <<members, dataDir, ids, faults>>

MutRemove(n) == /\ Goes(n, "remove", "add")   \* forgets to
                /\ UNCHANGED <<members, dataDir, target, ids, faults>>

\* ... and removes it.
Remove(n) == /\ Goes(n, "remove", "add")
             /\ members' = {m \in members : m.id # target[n]}
             /\ UNCHANGED <<dataDir, target, ids, faults>>

\* MemberAdd: its peer URL must be free.
Add(n) == /\ MemberOf(n) = {}
          /\ Goes(n, "add", "start")
          /\ ids' = ids + 1
          /\ members' = members \cup {[id |-> ids + 1, node |-> n, named |-> FALSE]}
          /\ UNCHANGED <<dataDir, target, faults>>

\* Otherwise StartNode gives up.
AddRefused(n) == /\ MemberOf(n) # {}
                 /\ Goes(n, "add", "down")
                 /\ UNCHANGED <<members, dataDir, target, ids, faults>>

\* startEtcdServer, until the server is ready.
Start(n) == /\ Goes(n, "start", "up")
            /\ \E m \in MemberOf(n) : Serve(n, m)
            /\ UNCHANGED <<target, ids, faults>>

\* A call fails, or the process stops after it: it may have taken effect.  A
\* server that is not ready in time may have written its data directory.
CallFails(n) ==
  /\ Fault
  /\ server[n] \in {"list", "remove", "add", "start"}
  /\ server' = [server EXCEPT ![n] = "down"]
  /\ \/ UNCHANGED <<members, ids, dataDir>>
     \/ /\ server[n] = "remove"
        /\ members' = {m \in members : m.id # target[n]}
        /\ UNCHANGED <<ids, dataDir>>
     \/ /\ server[n] = "add" /\ MemberOf(n) = {}
        /\ ids' = ids + 1
        /\ members' = members \cup {[id |-> ids + 1, node |-> n, named |-> FALSE]}
        /\ UNCHANGED dataDir
     \/ /\ server[n] = "start"
        /\ \E m \in MemberOf(n) : dataDir' = [dataDir EXCEPT ![n] = m.id]
        /\ UNCHANGED <<members, ids>>
  /\ UNCHANGED target

\* The probe fails although there is a cluster: startNewClusterNode.  etcd may
\* refuse it, or recognise the member that it was; otherwise the node has a data
\* directory of its own from then on, and keeps apart with it.
ProbeFails(n) ==
  /\ Fault
  /\ dataDir[n] = NoData
  /\ \/ /\ server[n] = "down"
        /\ UNCHANGED <<members, server, dataDir, ids>>
     \/ /\ Goes(n, "down", "up")
        /\ \E m \in MemberOf(n) : m.named /\ Serve(n, m)
        /\ UNCHANGED ids
     \/ /\ Goes(n, "down", "apart")
        /\ ids' = ids + 1
        /\ dataDir' = [dataDir EXCEPT ![n] = ids + 1]
        /\ UNCHANGED members
  /\ UNCHANGED target

\* A server stops, with its data directory or without; a majority stays up.
Crash(n) == /\ Fault
            /\ Goes(n, "up", "down")
            /\ 2 * Cardinality({m \in members : m.node # n /\ Running(m.node)})
                 > Cardinality(members)
            /\ dataDir' \in {dataDir, [dataDir EXCEPT ![n] = NoData]}
            /\ UNCHANGED <<members, target, ids>>

NodeStep(n) == \/ Restart(n) \/ StartJoining(n) \/ List(n) \/ Remove(n)
               \/ Add(n) \/ AddRefused(n) \/ Start(n)
-----------------------------------------------------------------------------
\* What becomes of members, whatever fails: an ID is given out once, a server runs
\* under the ID of its data directory, as the only member of its node, and a join
\* never removes a member whose server runs, nor one whose server never ran.
ServingId(n) == IF Running(n) THEN dataDir[n] ELSE NoData

ML == INSTANCE MemberLives WITH NoId <- NoData,
                                given <- ids,
                                joined <- {<<m.id, m.node>> : m \in members},
                                settled <- {m.id : m \in {m \in members : m.named}},
                                serving <- [n \in Nodes |-> ServingId(n)]

ImplementsLives == ML!Spec

\* A member that MemberAdd has created and whose server has written nothing:
\* the list shows it without a name, so removeExistingMember never finds it.
Stray(n) == \E m \in MemberOf(n) : ~m.named /\ m.id # dataDir[n]

\* A node comes back, whatever has happened to it and to its data directory;
\* the exceptions are a join that stopped after MemberAdd, which shuts it out,
\* and a probe that failed, after which it may keep apart for good.
ComesBack == \A n \in Nodes : \/ <>[]Running(n)
                              \/ <>[](Stray(n) /\ ~Running(n))
                              \/ <>[](server[n] = "apart")
=============================================================================
