--------------------------- MODULE TaskQueueProofs ---------------------------
(***************************************************************************)
(* TaskQueue implements Fifo, for any number of items, producers and       *)
(* consumers.  The argument is a count: the queue holds one item for every *)
(* permit, for every consumer that took a permit and has yet to dequeue    *)
(* (Signalled), and for every producer that has yet to release (Enqueued). *)
(* A consumer that calls TryDequeue is in Signalled, so the queue is not   *)
(* empty and the unchecked TryDequeue succeeds.                            *)
(***************************************************************************)
EXTENDS TaskQueue, FiniteSetTheorems, SequenceTheorems, TLAPS

\* The variables of the queue have their types.
THEOREM TypeCorrect == Spec => []TypeOK
<1>1. Init => TypeOK
  <2>1. <<>> \in Seq(Items) /\ <<>> \in Seq(Items \cup {Nothing})
    BY EmptySeq
  <2>2. 0 \in Nat
    OBVIOUS
  <2> QED
    BY <2>1, <2>2, Zenon DEF Init, TypeOK
<1>2. TypeOK /\ [Next]_vars => TypeOK'
  <2> SUFFICES ASSUME TypeOK, [Next]_vars PROVE TypeOK'
    OBVIOUS
  <2> USE DEF TypeOK
  <2>1. ASSUME NEW p \in Producers, NEW x \in Items, Enqueue(p, x) PROVE TypeOK'
    BY <2>1 DEF Enqueue
  <2>2. ASSUME NEW p \in Producers, Release(p) PROVE TypeOK'
    BY <2>2 DEF Release
  <2>3. ASSUME NEW c \in Consumers, CallDequeue(c) PROVE TypeOK'
    BY <2>3 DEF CallDequeue
  <2>4. ASSUME NEW c \in Consumers, Acquire(c) PROVE TypeOK'
    BY <2>4 DEF Acquire
  <2>5. ASSUME NEW c \in Consumers, TryDequeue(c) PROVE TypeOK'
    <3>1. CASE items # <<>>
      <4>1. Head(items) \in Items \cup {Nothing} /\ Tail(items) \in Seq(Items)
        BY <3>1, HeadTailProperties
      <4>2. Append(returned, Head(items)) \in Seq(Items \cup {Nothing})
        BY <4>1, AppendProperties
      <4> QED
        BY <2>5, <3>1, <4>1, <4>2 DEF TryDequeue
    <3>2. CASE items = <<>>
      <4>1. Append(returned, Nothing) \in Seq(Items \cup {Nothing})
        BY AppendProperties
      <4> QED
        BY <2>5, <3>2, <4>1 DEF TryDequeue
    <3> QED
      BY <3>1, <3>2
  <2>6. ASSUME NEW c \in Consumers, WaitCancelled(c) PROVE TypeOK'
    BY <2>6 DEF WaitCancelled
  <2>7. CASE Cancel
    BY <2>7 DEF Cancel
  <2>8. ASSUME NEW c \in Consumers, PublishAsync(c) PROVE TypeOK'
    BY <2>8 DEF PublishAsync
  <2>9. ASSUME NEW c \in Consumers, ThrowIfCancelled(c) PROVE TypeOK'
    BY <2>9 DEF ThrowIfCancelled
  <2>10. CASE UNCHANGED vars
    BY <2>10 DEF vars
  <2> QED
    BY <2>1, <2>2, <2>3, <2>4, <2>5, <2>6, <2>7, <2>8, <2>9, <2>10 DEF Next
<1> QED
  BY <1>1, <1>2, PTL DEF Spec

-----------------------------------------------------------------------------
(* Counting the threads that stand between their two calls.                *)

LEMMA Counts ==
    /\ IsFiniteSet(Enqueued) /\ Cardinality(Enqueued) \in Nat
    /\ IsFiniteSet(Signalled) /\ Cardinality(Signalled) \in Nat
<1>1. Enqueued \subseteq Producers /\ Signalled \subseteq Consumers
  BY DEF Enqueued, Signalled
<1> QED
  BY <1>1, QueueAssumption, FS_Subset, FS_CardinalityType

\* A thread that enters the set adds one, a thread that leaves it takes one.
LEMMA Enters ==
    ASSUME NEW S, IsFiniteSet(S), NEW x, x \notin S
    PROVE  Cardinality(S \cup {x}) = Cardinality(S) + 1
  BY FS_AddElement

LEMMA Leaves ==
    ASSUME NEW S, IsFiniteSet(S), NEW x \in S
    PROVE  Cardinality(S \ {x}) = Cardinality(S) - 1
  BY FS_RemoveElement

\* A consumer about to dequeue finds an item.
LEMMA NotEmpty ==
    ASSUME TypeOK, PermitsCovered, NEW c \in Signalled
    PROVE  items # <<>>
<1>1. Cardinality(Signalled) # 0
  BY Counts, FS_EmptySet
<1>2. Len(items) > 0
  BY <1>1, Counts DEF TypeOK, PermitsCovered
<1> QED
  BY <1>2

-----------------------------------------------------------------------------
\* The queue holds an item for every permit and every thread between its two
\* calls.
THEOREM PermitsAreCovered == Spec => []PermitsCovered
<1>1. Init => PermitsCovered
  <2> SUFFICES ASSUME Init PROVE PermitsCovered
    OBVIOUS
  <2>1. Enqueued = {} /\ Signalled = {}
    BY DEF Init, Enqueued, Signalled
  <2> QED
    BY <2>1, FS_EmptySet DEF Init, PermitsCovered
<1>2. TypeOK /\ PermitsCovered /\ [Next]_vars => PermitsCovered'
  <2> SUFFICES ASSUME TypeOK, PermitsCovered, [Next]_vars PROVE PermitsCovered'
    OBVIOUS
  <2> USE Counts DEF TypeOK, PermitsCovered
  <2>1. ASSUME NEW p \in Producers, NEW x \in Items, Enqueue(p, x) PROVE PermitsCovered'
    <3>1. Enqueued' = Enqueued \cup {p} /\ p \notin Enqueued /\ Signalled' = Signalled
      BY <2>1 DEF Enqueue, Enqueued, Signalled
    <3>2. Len(items') = Len(items) + 1 /\ permits' = permits
      BY <2>1 DEF Enqueue
    <3> QED
      BY <3>1, <3>2, Enters
  <2>2. ASSUME NEW p \in Producers, Release(p) PROVE PermitsCovered'
    <3>1. Enqueued' = Enqueued \ {p} /\ p \in Enqueued /\ Signalled' = Signalled
      BY <2>2 DEF Release, Enqueued, Signalled
    <3>2. items' = items /\ permits' = permits + 1
      BY <2>2 DEF Release
    <3>3. Cardinality(Enqueued \ {p}) = Cardinality(Enqueued) - 1
      BY <3>1, Leaves
    <3> QED
      BY <3>1, <3>2, <3>3
  <2>3. ASSUME NEW c \in Consumers, CallDequeue(c) PROVE PermitsCovered'
    <3>1. Enqueued' = Enqueued /\ Signalled' = Signalled
      BY <2>3 DEF CallDequeue, Enqueued, Signalled
    <3> QED
      BY <2>3, <3>1 DEF CallDequeue
  <2>4. ASSUME NEW c \in Consumers, Acquire(c) PROVE PermitsCovered'
    <3>1. Signalled' = Signalled \cup {c} /\ c \notin Signalled /\ Enqueued' = Enqueued
      BY <2>4 DEF Acquire, Enqueued, Signalled
    <3>2. items' = items /\ permits' = permits - 1
      BY <2>4 DEF Acquire
    <3>3. Cardinality(Signalled \cup {c}) = Cardinality(Signalled) + 1
      BY <3>1, Enters
    <3> QED
      BY <3>1, <3>2, <3>3
  <2>5. ASSUME NEW c \in Consumers, TryDequeue(c) PROVE PermitsCovered'
    <3>1. Signalled' = Signalled \ {c} /\ c \in Signalled /\ Enqueued' = Enqueued
      BY <2>5 DEF TryDequeue, Enqueued, Signalled
    <3>2. items # <<>>
      BY <3>1, NotEmpty
    <3>3. Len(items') = Len(items) - 1 /\ permits' = permits
      <4>1. Len(Tail(items)) = Len(items) - 1
        BY <3>2, HeadTailProperties
      <4> QED
        BY <2>5, <3>2, <4>1 DEF TryDequeue
    <3>4. Cardinality(Signalled \ {c}) = Cardinality(Signalled) - 1
      BY <3>1, Leaves
    <3> QED
      BY <3>1, <3>3, <3>4
  <2>6. ASSUME NEW c \in Consumers, WaitCancelled(c) PROVE PermitsCovered'
    <3>1. Enqueued' = Enqueued /\ Signalled' = Signalled
      BY <2>6 DEF WaitCancelled, Enqueued, Signalled
    <3> QED
      BY <2>6, <3>1 DEF WaitCancelled
  <2>7. CASE Cancel
    BY <2>7 DEF Cancel, Enqueued, Signalled
  <2>8. ASSUME NEW c \in Consumers, PublishAsync(c) \/ ThrowIfCancelled(c) PROVE PermitsCovered'
    <3>1. Enqueued' = Enqueued /\ Signalled' = Signalled
      BY <2>8 DEF PublishAsync, ThrowIfCancelled, Enqueued, Signalled
    <3> QED
      BY <2>8, <3>1 DEF PublishAsync, ThrowIfCancelled
  <2>9. CASE UNCHANGED vars
    BY <2>9 DEF vars, Enqueued, Signalled
  <2> QED
    BY <2>1, <2>2, <2>3, <2>4, <2>5, <2>6, <2>7, <2>8, <2>9 DEF Next
<1> QED
  BY <1>1, <1>2, TypeCorrect, PTL DEF Spec

-----------------------------------------------------------------------------
\* What has been returned has the type of the items as long as the order holds.
LEMMA ReturnedAreItems ==
    ASSUME TypeOK, InOrder
    PROVE  returned \in Seq(Items)
<1>1. /\ Len(accepted) = Len(returned) + Len(items)
      /\ \A i \in 1..Len(returned) : returned[i] = accepted[i]
  BY ConcatProperties, SeqMonotonic DEF TypeOK, InOrder
<1>2. \A i \in 1..Len(returned) : returned[i] \in Items
  BY <1>1, ElementOfSeq, LenProperties DEF TypeOK
<1> QED
  BY <1>2, LenProperties DEF TypeOK

\* Every accepted item is either returned, in the order of acceptance, or still
\* inside, in that order.
THEOREM OrderIsKept == Spec => []InOrder
<1>1. Init => InOrder
  BY DEF Init, InOrder
<1>2. TypeOK /\ PermitsCovered /\ InOrder /\ [Next]_vars => InOrder'
  <2> SUFFICES ASSUME TypeOK, PermitsCovered, InOrder, [Next]_vars PROVE InOrder'
    OBVIOUS
  <2>0. returned \in Seq(Items) /\ items \in Seq(Items)
    BY ReturnedAreItems DEF TypeOK
  <2>1. ASSUME NEW p \in Producers, NEW x \in Items, Enqueue(p, x) PROVE InOrder'
    <3>1. Append(returned \o items, x) = (returned \o items) \o <<x>>
      BY <2>0, AppendIsConcat, ConcatProperties
    <3>2. (returned \o items) \o <<x>> = returned \o (items \o <<x>>)
      BY <2>0, ConcatAssociative
    <3>3. items \o <<x>> = Append(items, x)
      BY <2>0, AppendIsConcat
    <3> QED
      BY <2>1, <3>1, <3>2, <3>3 DEF Enqueue, InOrder
  <2>2. ASSUME NEW c \in Consumers, TryDequeue(c) PROVE InOrder'
    <3>1. items # <<>>
      BY <2>2, NotEmpty DEF TryDequeue, Signalled
    <3>2. items' = Tail(items) /\ returned' = Append(returned, Head(items)) /\ accepted' = accepted
      BY <2>2, <3>1 DEF TryDequeue
    <3>3. Append(returned, Head(items)) = returned \o <<Head(items)>>
      BY <2>0, <3>1, AppendIsConcat, HeadTailProperties
    <3>4. items = <<Head(items)>> \o Tail(items)
      BY <2>0, <3>1
    <3>5. (returned \o <<Head(items)>>) \o Tail(items) = returned \o (<<Head(items)>> \o Tail(items))
      BY <2>0, <3>1, ConcatAssociative, HeadTailProperties
    <3> QED
      BY <3>2, <3>3, <3>4, <3>5 DEF InOrder
  <2>3. CASE UNCHANGED <<items, accepted, returned>>
    BY <2>3 DEF InOrder
  <2> QED
    BY <2>1, <2>2, <2>3 DEF Next, Release, CallDequeue, Acquire, PublishAsync, WaitCancelled, ThrowIfCancelled, Cancel, vars
<1> QED
  BY <1>1, <1>2, TypeCorrect, PermitsAreCovered, PTL DEF Spec

\* DequeueAsync never returns default(T), although it does not look at what
\* TryDequeue says.
THEOREM NothingIsNeverReturned ==
    Spec => [](\A i \in DOMAIN returned : returned[i] # Nothing)
<1>1. TypeOK /\ InOrder => \A i \in DOMAIN returned : returned[i] # Nothing
  BY ReturnedAreItems, ElementOfSeq, LenProperties, QueueAssumption
<1> QED
  BY <1>1, TypeCorrect, OrderIsKept, PTL

-----------------------------------------------------------------------------
\* The queue with its semaphore implements the abstract one: Enqueue is Put,
\* TryDequeue is Get, every other step is invisible.
THEOREM Implements == Spec => ImplementsFifo
<1>1. Init => Queue!Init
  BY DEF Init, Queue!Init
<1>2. TypeOK /\ PermitsCovered /\ InOrder /\ [Next]_vars
        => [Queue!Next]_<<accepted, returned>>
  <2> SUFFICES ASSUME TypeOK, PermitsCovered, InOrder, [Next]_vars
               PROVE  [Queue!Next]_<<accepted, returned>>
    OBVIOUS
  <2>1. ASSUME NEW p \in Producers, NEW x \in Items, Enqueue(p, x) PROVE Queue!Put(x)
    BY <2>1 DEF Enqueue, Queue!Put
  <2>2. ASSUME NEW c \in Consumers, TryDequeue(c) PROVE Queue!Get
    <3>0. returned \in Seq(Items) /\ items \in Seq(Items)
      BY ReturnedAreItems DEF TypeOK
    <3>1. items # <<>>
      BY <2>2, NotEmpty DEF TryDequeue, Signalled
    <3>2. Len(items) > 0 /\ Head(items) = items[1]
      BY <3>0, <3>1
    <3>3. Len(accepted) = Len(returned) + Len(items)
      BY <3>0, ConcatProperties DEF InOrder
    <3>4. accepted[Len(returned) + 1] = items[1]
      BY <3>0, <3>2, ConcatProperties DEF InOrder
    <3> QED
      BY <2>2, <3>0, <3>1, <3>2, <3>3, <3>4 DEF TryDequeue, Queue!Get
  <2>3. CASE UNCHANGED <<accepted, returned>>
    BY <2>3
  <2> QED
    BY <2>1, <2>2, <2>3
    DEF Next, Release, CallDequeue, Acquire, PublishAsync, WaitCancelled, ThrowIfCancelled, Cancel, vars, Queue!Next
<1> QED
  BY <1>1, <1>2, TypeCorrect, PermitsAreCovered, OrderIsKept, PTL
  DEF Spec, ImplementsFifo, Queue!Spec

=============================================================================
