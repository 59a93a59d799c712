---------------------------- MODULE StoreUpdates ----------------------------
(***************************************************************************)
(* UpdateTaskInDetails (_archive/store) in its two calls on etcd.  All the *)
(* tasks of an execution are in one key, which a call reads, changes in    *)
(* one place, and writes back as a whole, under the mutex of its           *)
(* ExecutionStore.  ExecuteFSM and each RestartFSM make a store of their   *)
(* own (fsm.go, line 108; service.go, line 62), so that runners of one     *)
(* execution share the key and not the mutex.                              *)
(*                                                                         *)
(* The callers are workers, RestartFSM's loop and the goroutines that both *)
(* start; what they write, and in which order, is left open here.          *)
(***************************************************************************)
EXTENDS ExecutionStore

CONSTANTS Stores,       \* the ExecutionStores of the execution
          Details,      \* what the callers may write of a task
          StoreFaults   \* may a call on etcd fail

ASSUME StoresAssumption == Details \subseteq Detail /\ StoreFaults \in BOOLEAN

VARIABLES details,   \* the details key
          holding,   \* the update that has a store's mutex, and the map it has read
          author     \* history: the store that has given each task its detail

vars == <<details, holding, author>>

Reading == [task : Tasks, detail : Details, read : [Tasks -> Detail]]

TypeOK == /\ details \in [Tasks -> Detail]
          /\ holding \in [Stores -> SUBSET Reading]
          /\ author \in [Tasks -> Stores]
          /\ \A s \in Stores : \A r, q \in holding[s] : r = q

Init == /\ details = InitialDetails({})
        /\ holding = [s \in Stores |-> {}]
        /\ author \in [Tasks -> Stores]

MutFree(s) == TRUE   \* the mutex is not looked at

Free(s) == holding[s] = {}

\* UpdateTask, or UpdateTaskInDetails: Lock and Get.  A Get that fails changes
\* nothing, and the mutex is free again.
Get(s, t, d) ==
  /\ Free(s)
  /\ holding' = [holding EXCEPT ![s] = @ \cup {[task |-> t, detail |-> d, read |-> details]}]
  /\ UNCHANGED <<details, author>>

\* Put, and the mutex is free; a Put that fails may have been made.
Put(s, r) ==
  /\ holding' = [holding EXCEPT ![s] = @ \ {r}]
  /\ \/ details' = WithDetail(r.read, r.task, r.detail)
     \/ StoreFaults /\ UNCHANGED details
  /\ author' = [t \in Tasks |-> IF details'[t] = details[t] THEN author[t] ELSE s]

Next == \E s \in Stores : \/ \E t \in Tasks, d \in Details : Get(s, t, d)
                          \/ \E r \in holding[s] : Put(s, r)

Spec == Init /\ [][Next]_vars
-----------------------------------------------------------------------------
\* store.go, line 141: "UpdateTaskInDetails updates a single task's state".  The
\* updates of one store do, although each of them writes all the tasks back: what
\* an update takes back of another task is never the work of its own store,
\* however calls overlap, fail, or take effect and fail.  What another store has
\* written since, that of a restart next to the first runner, may be lost.
OwnWorkIsKept ==
  [][\E s \in Stores : \E r \in holding[s] : \A t \in Tasks :
       IF t = r.task THEN details'[t] = r.detail
                     ELSE details'[t] = details[t] \/ author[t] # s]_details

\* Where an execution has one store, each update is one step, as in TaskRunner.
SingleTaskUpdated ==
  [][\E s \in Stores : \E r \in holding[s] :
       details' = WithDetail(details, r.task, r.detail)]_details
=============================================================================
