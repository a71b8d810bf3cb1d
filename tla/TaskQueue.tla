------------------------------ MODULE TaskQueue ------------------------------
(***************************************************************************)
(* The work queue between an MQTT callback and the loop that stores what   *)
(* it received: a ConcurrentQueue beside a SemaphoreSlim that starts at 0. *)
(* The same class stands three times in the repository (BackgroundTaskQueue*)
(* <T>, PacketQueue, MongoBackgroundTaskQueue).                            *)
(*                                                                         *)
(* A producer enqueues, then releases the semaphore; a consumer waits for  *)
(* the semaphore, then dequeues without looking whether TryDequeue         *)
(* succeeded.  The two calls of each are steps of their own.               *)
(***************************************************************************)
EXTENDS Naturals, Sequences, FiniteSets

CONSTANTS
    Items,        \* the work items
    Nothing,      \* default(T): what TryDequeue leaves in workItem when it fails
    Producers,    \* the threads that run the receive callback
    Consumers,    \* the worker loops
    MaxItems      \* bound: items enqueued

ASSUME QueueAssumption ==
    /\ IsFiniteSet(Producers)
    /\ IsFiniteSet(Consumers)
    /\ Nothing \notin Items

VARIABLES
    items,        \* ConcurrentQueue
    permits,      \* SemaphoreSlim.CurrentCount
    producer,     \* producer[p]: "idle", or "enqueued" before Release
    consumer,     \* consumer[c]: "idle", "waiting" in WaitAsync, "signalled" after it,
                  \* "working" on what DequeueAsync returned, "stopped"
    cancelled,    \* the cancellation token
    accepted,     \* history: the items enqueued, in order
    returned      \* history: what DequeueAsync returned, in order

vars == <<items, permits, producer, consumer, cancelled, accepted, returned>>

Enqueued == {p \in Producers : producer[p] = "enqueued"}
Signalled == {c \in Consumers : consumer[c] = "signalled"}

Init ==
    /\ items = <<>>
    /\ permits = 0
    /\ producer = [p \in Producers |-> "idle"]
    /\ consumer = [c \in Consumers |-> "idle"]
    /\ cancelled = FALSE
    /\ accepted = <<>>
    /\ returned = <<>>

\* QueueWorkItem, its first call ...
Enqueue(p, x) ==
    /\ producer[p] = "idle" /\ Len(accepted) < MaxItems
    /\ items' = Append(items, x)
    /\ accepted' = Append(accepted, x)
    /\ producer' = [producer EXCEPT ![p] = "enqueued"]
    /\ UNCHANGED <<permits, consumer, cancelled, returned>>

\* Mutant: an event flag in place of the counting semaphore.
Release_Flag(p) ==
    /\ producer[p] = "enqueued"
    /\ permits' = 1
    /\ producer' = [producer EXCEPT ![p] = "idle"]
    /\ UNCHANGED <<items, consumer, cancelled, accepted, returned>>

\* ... and its second.
Release(p) ==
    /\ producer[p] = "enqueued"
    /\ permits' = permits + 1
    /\ producer' = [producer EXCEPT ![p] = "idle"]
    /\ UNCHANGED <<items, consumer, cancelled, accepted, returned>>

\* The loop looks at the token and calls DequeueAsync, which waits for the
\* semaphore.
CallDequeue(c) ==
    /\ consumer[c] = "idle" /\ ~cancelled
    /\ consumer' = [consumer EXCEPT ![c] = "waiting"]
    /\ UNCHANGED <<items, permits, producer, cancelled, accepted, returned>>

\* Mutant: the semaphore is polled and not waited for.
Acquire_NoWait(c) ==
    /\ consumer[c] = "waiting"
    /\ permits' = permits - 1
    /\ consumer' = [consumer EXCEPT ![c] = "signalled"]
    /\ UNCHANGED <<items, producer, cancelled, accepted, returned>>

\* WaitAsync takes a permit.
Acquire(c) ==
    /\ consumer[c] = "waiting" /\ permits > 0
    /\ permits' = permits - 1
    /\ consumer' = [consumer EXCEPT ![c] = "signalled"]
    /\ UNCHANGED <<items, producer, cancelled, accepted, returned>>

\* Mutant: TryPeek for TryDequeue.
TryDequeue_Peek(c) ==
    /\ consumer[c] = "signalled"
    /\ returned' = Append(returned, IF items # <<>> THEN Head(items) ELSE Nothing)
    /\ consumer' = [consumer EXCEPT ![c] = "working"]
    /\ UNCHANGED <<items, permits, producer, cancelled, accepted>>

\* TryDequeue, and the return; on an empty queue default(T) is returned.
TryDequeue(c) ==
    /\ consumer[c] = "signalled"
    /\ \/ /\ items # <<>>
          /\ items' = Tail(items)
          /\ returned' = Append(returned, Head(items))
       \/ /\ items = <<>>
          /\ returned' = Append(returned, Nothing)
          /\ UNCHANGED items
    /\ consumer' = [consumer EXCEPT ![c] = "working"]
    /\ UNCHANGED <<permits, producer, cancelled, accepted>>

\* The loop's work on the item: it goes on to the next, or an exception ends the
\* loop, which nothing starts again.
PublishAsync(c) ==
    /\ consumer[c] = "working"
    /\ \E next \in {"idle", "stopped"} : consumer' = [consumer EXCEPT ![c] = next]
    /\ UNCHANGED <<items, permits, producer, cancelled, accepted, returned>>

\* The host stops ...
Cancel ==
    /\ ~cancelled
    /\ cancelled' = TRUE
    /\ UNCHANGED <<items, permits, producer, consumer, accepted, returned>>

\* Mutant: a wait that is cancelled uses up a permit.
WaitCancelled_KeepsPermit(c) ==
    /\ cancelled /\ consumer[c] = "waiting"
    /\ consumer' = [consumer EXCEPT ![c] = "stopped"]
    /\ permits' = IF permits > 0 THEN permits - 1 ELSE 0
    /\ UNCHANGED <<items, producer, cancelled, accepted, returned>>

\* ... and a waiting call throws; it takes no permit.
WaitCancelled(c) ==
    /\ cancelled /\ consumer[c] = "waiting"
    /\ consumer' = [consumer EXCEPT ![c] = "stopped"]
    /\ UNCHANGED <<items, permits, producer, cancelled, accepted, returned>>

\* A loop that finds the token cancelled ends.
ThrowIfCancelled(c) ==
    /\ cancelled /\ consumer[c] = "idle"
    /\ consumer' = [consumer EXCEPT ![c] = "stopped"]
    /\ UNCHANGED <<items, permits, producer, cancelled, accepted, returned>>

\* One worker loop, ExecuteAsync.
Serve(c) ==
    \/ CallDequeue(c) \/ Acquire(c) \/ TryDequeue(c) \/ PublishAsync(c)
    \/ WaitCancelled(c) \/ ThrowIfCancelled(c)

Next ==
    \/ \E p \in Producers, x \in Items : Enqueue(p, x)
    \/ \E p \in Producers : Release(p)
    \/ \E c \in Consumers : CallDequeue(c)
    \/ \E c \in Consumers : Acquire(c)
    \/ \E c \in Consumers : TryDequeue(c)
    \/ \E c \in Consumers : PublishAsync(c)
    \/ \E c \in Consumers : WaitCancelled(c)
    \/ \E c \in Consumers : ThrowIfCancelled(c)
    \/ Cancel

Spec == Init /\ [][Next]_vars

\* A callback that has enqueued goes on to Release, and a worker loop runs until
\* it ends: what it awaits comes back, with an exception or without.
FairSpec ==
    /\ Spec
    /\ \A p \in Producers : WF_vars(Release(p))
    /\ \A c \in Consumers : WF_vars(Serve(c))

-----------------------------------------------------------------------------
(* Properties.                                                             *)

TypeOK ==
    /\ items \in Seq(Items)
    /\ permits \in Nat
    /\ producer \in [Producers -> {"idle", "enqueued"}]
    /\ consumer \in [Consumers -> {"idle", "waiting", "signalled", "working", "stopped"}]
    /\ cancelled \in BOOLEAN
    /\ accepted \in Seq(Items)
    /\ returned \in Seq(Items \cup {Nothing})

\* An item is in the queue for every permit, for every consumer that has taken
\* one and not dequeued, and for every producer about to release.
PermitsCovered ==
    Len(items) = permits + Cardinality(Signalled) + Cardinality(Enqueued)

\* What went in is what came out followed by what is still inside.
InOrder == accepted = returned \o items

\* The queue as its users see it: DequeueAsync never returns default(T), no item
\* is lost or doubled, and the order is kept, whatever the number of producers
\* and consumers.
Queue == INSTANCE Fifo WITH delivered <- returned
ImplementsFifo == Queue!Spec

\* No wake-up is lost, also not to a loop that an exception has ended: every item
\* enqueued is returned as long as one worker loop is left.
EveryItemReturned ==
    \A k \in 1..MaxItems :
        (Len(accepted) >= k) ~> (Len(returned) >= k \/ \A c \in Consumers : consumer[c] = "stopped")

=============================================================================
