------------------------------ MODULE MemberLives ------------------------------
(***************************************************************************)
(* What member IDs go through in a cluster whose nodes come and go, join   *)
(* half way or start apart: each ID is given out once, to one node, which  *)
(* has no other meanwhile; a server runs under an ID of its node; and only *)
(* an ID under which a server has run, and none runs now, is given up.     *)
(***************************************************************************)
EXTENDS Naturals

CONSTANTS Nodes,
          NoId     \* "no server runs"

VARIABLES given,   \* how many IDs have been given out
          joined,  \* the members: pairs of an ID and its node
          settled, \* the IDs of members under which a server has run
          serving  \* the ID under which each node's server runs

lives == <<given, joined, settled, serving>>

Init == /\ given \in Nat
        /\ joined \subseteq (1..given) \X Nodes
        /\ \A e, f \in joined : e[1] = f[1] \/ e[2] = f[2] => e = f
        /\ settled = {e[1] : e \in joined}
        /\ serving \in [Nodes -> 0..given]
        /\ \A n \in Nodes : serving[n] # NoId => <<serving[n], n>> \in joined

\* A node without a member gets the next ID, ...
Join(n) == /\ \A e \in joined : e[2] # n
           /\ given' = given + 1
           /\ joined' = joined \cup {<<given + 1, n>>}
           /\ UNCHANGED <<settled, serving>>

\* ... or goes apart with it, in a cluster of its own.
Apart == /\ given' = given + 1
         /\ UNCHANGED <<joined, settled, serving>>

\* A server starts to run, for the first time or again.
Serve(n) == /\ serving[n] = NoId
            /\ \E e \in joined : /\ e[2] = n
                                 /\ serving' = [serving EXCEPT ![n] = e[1]]
                                 /\ settled' = settled \cup {e[1]}
            /\ UNCHANGED <<given, joined>>

Stop(n) == /\ serving[n] # NoId
           /\ serving' = [serving EXCEPT ![n] = NoId]
           /\ UNCHANGED <<given, joined, settled>>

\* A member that never ran is never removed: it is in the way for good.
Leave(e) == /\ serving[e[2]] = NoId
            /\ e[1] \in settled
            /\ joined' = joined \ {e}
            /\ settled' = settled \ {e[1]}
            /\ UNCHANGED <<given, serving>>

Next == \/ Apart
        \/ \E n \in Nodes : Join(n) \/ Serve(n) \/ Stop(n)
        \/ \E e \in joined : Leave(e)

Spec == Init /\ [][Next]_lives
=============================================================================
