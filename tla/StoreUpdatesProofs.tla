------------------------- MODULE StoreUpdatesProofs -------------------------
(***************************************************************************)
(* Proofs about StoreUpdates, for every list of tasks, any number of       *)
(* stores and whatever is written.                                         *)
(***************************************************************************)
EXTENDS StoreUpdates, TLAPS

USE StoresAssumption

\* What the holder of a mutex has read of a task is still there, or another
\* store has written it since.
ReadIsCurrent ==
  \A s \in Stores : \A r \in holding[s] : \A t \in Tasks :
    r.read[t] = details[t] \/ author[t] # s

IInv == TypeOK /\ ReadIsCurrent

LEMMA InitInv == Init => IInv
  BY DEF Init, IInv, TypeOK, ReadIsCurrent, InitialDetails, Detail, Statuses,
         PendingDetail

\* Lock and Get: what is read is current.
LEMMA GetInv ==
  ASSUME IInv, NEW s \in Stores, NEW t \in Tasks, NEW d \in Details, Get(s, t, d)
  PROVE  IInv'
<1> DEFINE r == [task |-> t, detail |-> d, read |-> details]
<1>1. r \in Reading /\ r.read = details
  BY DEF IInv, TypeOK, Reading
<1>2. holding' = [holding EXCEPT ![s] = {r}] /\ UNCHANGED <<details, author>>
  BY DEF Get, Free, IInv, TypeOK
<1> HIDE DEF r
<1>3. TypeOK'
  BY <1>1, <1>2 DEF IInv, TypeOK
<1>4. ReadIsCurrent'
  BY <1>1, <1>2 DEF IInv, TypeOK, ReadIsCurrent
<1> QED
  BY <1>3, <1>4 DEF IInv

\* What a Put does to the tasks: its own, and those that others have written.
LEMMA PutTakesBack ==
  ASSUME IInv, NEW s \in Stores, NEW r \in holding[s], Put(s, r),
         details' # details
  PROVE  /\ details' = WithDetail(r.read, r.task, r.detail)
         /\ \A t \in Tasks :
              IF t = r.task THEN details'[t] = r.detail
                            ELSE details'[t] = details[t] \/ author[t] # s
<1>1. r \in Reading
  BY DEF IInv, TypeOK
<1>2. details' = [r.read EXCEPT ![r.task] = r.detail]
  BY DEF Put, WithDetail
<1>3. r.read \in [Tasks -> Detail]
  BY <1>1 DEF Reading
<1> QED
  BY <1>2, <1>3 DEF IInv, ReadIsCurrent, WithDetail

\* Put and Unlock: nobody is left who has read through this store, and for the
\* other stores what has changed has an author.
LEMMA PutInv ==
  ASSUME IInv, NEW s \in Stores, NEW r \in holding[s], Put(s, r)
  PROVE  IInv'
<1>1. r \in Reading /\ holding[s] = {r}
  BY DEF IInv, TypeOK
<1>2. r.read \in [Tasks -> Detail] /\ r.detail \in Detail
  BY <1>1 DEF Reading
<1>3. holding' = [holding EXCEPT ![s] = {}]
  BY <1>1 DEF Put, IInv, TypeOK
<1>4. details' \in [Tasks -> Detail]
  BY <1>2 DEF Put, WithDetail, IInv, TypeOK
<1>5. author' = [t \in Tasks |-> IF details'[t] = details[t] THEN author[t] ELSE s]
  BY DEF Put
<1>6. TypeOK'
  BY <1>3, <1>4, <1>5 DEF IInv, TypeOK
<1>7. ReadIsCurrent'
  <2> SUFFICES ASSUME NEW p \in Stores, NEW q \in holding'[p], NEW t \in Tasks
               PROVE q.read[t] = details'[t] \/ author'[t] # p
    BY DEF ReadIsCurrent
  <2>1. p # s /\ q \in holding[p]
    BY <1>3 DEF IInv, TypeOK
  <2> QED
    BY <1>5, <2>1 DEF IInv, ReadIsCurrent
<1> QED
  BY <1>6, <1>7 DEF IInv

LEMMA NextInv == IInv /\ [Next]_vars => IInv'
<1>1. CASE UNCHANGED vars
  BY <1>1 DEF vars, IInv, TypeOK, ReadIsCurrent
<1> QED
  BY <1>1, GetInv, PutInv DEF Next

LEMMA Inductive == Spec => []IInv
BY InitInv, NextInv, PTL DEF Spec

\* Only a Put changes the records.
LEMMA ChangesArePuts ==
  ASSUME IInv, [Next]_vars, details' # details
  PROVE  \E s \in Stores : \E r \in holding[s] : Put(s, r)
BY DEF Next, vars, Get
-----------------------------------------------------------------------------
\* The type of the records, and mutual exclusion between the Lock and the Unlock
\* of each store.
THEOREM UpdatesTyped == Spec => []TypeOK
<1>1. IInv => TypeOK
  BY DEF IInv
<1> QED
  BY <1>1, Inductive, PTL

\* No update takes back, of another task, what was written through its own store.
THEOREM OwnWorkLasts == Spec => OwnWorkIsKept
<1>1. IInv /\ [Next]_vars =>
        [\E s \in Stores : \E r \in holding[s] : \A t \in Tasks :
           IF t = r.task THEN details'[t] = r.detail
                         ELSE details'[t] = details[t] \/ author[t] # s]_details
  BY ChangesArePuts, PutTakesBack
<1> QED
  BY <1>1, Inductive, PTL DEF Spec, OwnWorkIsKept

OneStore == \A s, q \in Stores : s = q

\* As long as an execution has one store, each update changes one task's record
\* and loses nothing: TaskRunner may make it one step.
THEOREM UpdatesAreAtomic == OneStore => (Spec => SingleTaskUpdated)
<1> SUFFICES ASSUME OneStore PROVE Spec => SingleTaskUpdated
  OBVIOUS
<1>1. IInv /\ [Next]_vars =>
        [\E s \in Stores : \E r \in holding[s] :
           details' = WithDetail(details, r.task, r.detail)]_details
  <2> SUFFICES ASSUME IInv, [Next]_vars, details' # details
               PROVE \E s \in Stores : \E r \in holding[s] :
                       details' = WithDetail(details, r.task, r.detail)
    OBVIOUS
  <2>1. PICK s \in Stores : \E r \in holding[s] : Put(s, r)
    BY ChangesArePuts
  <2>2. PICK r \in holding[s] : Put(s, r)
    BY <2>1
  <2>3. /\ r \in Reading
        /\ details \in [Tasks -> Detail]
        /\ details' = [r.read EXCEPT ![r.task] = r.detail]
        /\ \A t \in Tasks : author[t] = s
    BY <2>2, PutTakesBack DEF IInv, TypeOK, OneStore, WithDetail
  <2>4. r.read = details
    BY <2>3 DEF IInv, ReadIsCurrent, Reading
  <2> QED
    BY <2>3, <2>4 DEF WithDetail
<1> QED
  BY <1>1, Inductive, PTL DEF Spec, SingleTaskUpdated
=============================================================================
