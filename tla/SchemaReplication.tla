-------------------------- MODULE SchemaReplication --------------------------
(***************************************************************************)
(* What the HANA plugin promises of a schema, as others see it, where the  *)
(* database makes a transaction of its statement lists: the schema is      *)
(* subscribed or unsubscribed as a whole, replication starts from empty    *)
(* tables, a table is emptied for no other reason, and the capture is      *)
(* never seen suspended.  Where DDL commits by itself nothing is promised. *)
(***************************************************************************)
CONSTANTS Tables,
          Mapped    \* those that are subscribed

VARIABLES transactional,  \* does DDL take part in transactions; never changes
          subs,           \* the subscription of each table
          rows,           \* the tables that have any
          capture

schema == <<transactional, subs, rows, capture>>

Nothing == [t \in Tables |-> "none"]
Everything == [t \in Tables |-> IF t \in Mapped THEN "distributed" ELSE "none"]

Init == /\ transactional \in BOOLEAN
        /\ subs \in {Nothing, Everything}
        /\ rows = Tables
        /\ capture = "running"

Subscribe == /\ subs = Nothing
             /\ subs' = Everything
             /\ rows' = rows \ Mapped
             /\ UNCHANGED capture

Unsubscribe == /\ subs = Everything
               /\ subs' = Nothing
               /\ UNCHANGED <<rows, capture>>

\* Changes of the remote source reach a table.
Replicate(t) == /\ subs[t] = "distributed"
                /\ capture = "running"
                /\ rows' = rows \cup {t}
                /\ UNCHANGED <<subs, capture>>

Next == /\ transactional => \/ Subscribe
                            \/ Unsubscribe
                            \/ \E t \in Tables : Replicate(t)
        /\ UNCHANGED transactional

Spec == Init /\ [][Next]_schema
=============================================================================
