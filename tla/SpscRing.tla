------------------------------ MODULE SpscRing ------------------------------
(***************************************************************************)
(* SpscRingBuffer<T> (audio-core's ring_buffer.hpp), the only queue on the *)
(* capture path: one producer thread calls tryPush, one consumer thread    *)
(* calls tryPop, without a lock.                                           *)
(*                                                                         *)
(* The two indexes are C++ atomics.  Each is modelled by its modification  *)
(* order: the sequence of the values stored in it, the last one current.   *)
(* The thread that stores an index reads its own last value; the other one *)
(* may read any value at or after the one it read before (coherence).      *)
(* prodKnows and consKnows count the peer's operations that happen before  *)
(* what the thread does next; an acquire load of a release store raises    *)
(* them.  A slot is plain memory: touching it without knowing the peer's   *)
(* last access to it is a data race, i.e. undefined behaviour.             *)
(*                                                                         *)
(* The item of the n-th attempt to push is n.  At the end the producer     *)
(* thread is joined and the consumer pops until the ring is empty, as the  *)
(* recorder does when a stream ends (stopStreams).                         *)
(***************************************************************************)
EXTENDS Naturals, Sequences

CONSTANTS Capacity,  \* the constructor's argument
          MaxItems   \* bound: attempts to push

ASSUME RingAssumption == Capacity \in Nat /\ MaxItems \in Nat

Slots == 0 .. Capacity

VARIABLES
  heads, tails,     \* modification orders of head_ and tail_
  slots,            \* slots_: an item, or 0 when moved from
  lastPut, lastGot, \* per slot: the push and the pop that touched it last
  prodAt, consAt,   \* where in tryPush and tryPop each thread is
  offered,          \* attempts to push so far
  held,             \* the consumer's local item
  prodSeen,         \* position in tails of the producer's last read
  consSeen,         \* position in heads of the consumer's last read
  prodKnows,        \* pops that happen before the producer's next step
  consKnows,        \* pushes that happen before the consumer's next step
  pushed, rejected, \* pushed_ and rejected_
  popped,           \* popped_
  taken,            \* items handed to the consumer
  joined,           \* the producer thread has been joined
  drained           \* the consumer found the ring empty after the join

prodVars == <<heads, lastPut, prodAt, offered, prodSeen, prodKnows, pushed, rejected>>
consVars == <<tails, lastGot, consAt, held, consSeen, consKnows, taken, drained, popped>>
vars == <<prodVars, consVars, slots, joined>>

\* Mutant: the index never wraps around.
IncrementPast(index) == index + 1

Increment(index) == IF index = Capacity THEN 0 ELSE index + 1

SizeOf(head, tail) == IF head >= tail THEN head - tail ELSE Capacity + 1 - tail + head

\* Stores so far: the sequence starts with the initial value.
Pushes == Len(heads) - 1
Pops   == Len(tails) - 1

HeadIndex == heads[Len(heads)]
TailIndex == tails[Len(tails)]

\* Mutant: a relaxed load tells nothing of what the peer did before.
Relaxed(knows, n) == knows

\* What a thread that reads the peer's n-th store knows of it.
Acquire(knows, n) == n

Init ==
  /\ heads = <<0>> /\ tails = <<0>>
  /\ slots = [i \in Slots |-> 0]
  /\ lastPut = [i \in Slots |-> 0] /\ lastGot = [i \in Slots |-> 0]
  /\ prodAt = "idle" /\ consAt = "idle"
  /\ offered = 0 /\ held = 0
  /\ prodSeen = 1 /\ consSeen = 1
  /\ prodKnows = 0 /\ consKnows = 0
  /\ pushed = 0 /\ rejected = 0 /\ popped = 0
  /\ taken = <<>>
  /\ joined = FALSE /\ drained = FALSE

-----------------------------------------------------------------------------
(* tryPush *)

\* Mutant: the full ring is not noticed.
PushLoadUnchecked ==
  /\ prodAt = "idle" /\ ~joined
  /\ offered < MaxItems
  /\ offered' = offered + 1
  /\ prodAt' = "store"
  /\ UNCHANGED <<heads, lastPut, prodSeen, prodKnows, pushed, rejected, slots, joined,
                 consVars>>

\* Load both indexes; a ring that looks full rejects the item.
PushLoad ==
  /\ prodAt = "idle" /\ ~joined
  /\ offered < MaxItems
  /\ offered' = offered + 1
  /\ \E k \in prodSeen .. Len(tails) :
       /\ prodSeen' = k
       /\ prodKnows' = Acquire(prodKnows, k - 1)
       /\ \/ /\ Increment(HeadIndex) = tails[k]
             /\ rejected' = rejected + 1
             /\ UNCHANGED prodAt
          \/ /\ Increment(HeadIndex) # tails[k]
             /\ prodAt' = "store"
             /\ UNCHANGED rejected
  /\ UNCHANGED <<heads, lastPut, pushed, slots, joined, consVars>>

PushStore ==
  /\ prodAt = "store"
  /\ slots' = [slots EXCEPT ![HeadIndex] = offered]
  /\ lastPut' = [lastPut EXCEPT ![HeadIndex] = Pushes + 1]
  /\ prodAt' = "publish"
  /\ UNCHANGED <<heads, offered, prodSeen, prodKnows, pushed, rejected, joined, consVars>>

PushPublish ==
  /\ prodAt = "publish"
  /\ heads' = Append(heads, Increment(HeadIndex))
  /\ prodAt' = "count"
  /\ UNCHANGED <<lastPut, offered, prodSeen, prodKnows, pushed, rejected, slots, joined,
                 consVars>>

PushCount ==
  /\ prodAt = "count"
  /\ pushed' = pushed + 1
  /\ prodAt' = "idle"
  /\ UNCHANGED <<heads, lastPut, offered, prodSeen, prodKnows, rejected, slots, joined,
                 consVars>>

\* Mutant: the producer is asked to end, and not waited for.
JoinEarly ==
  /\ ~joined
  /\ joined' = TRUE
  /\ UNCHANGED <<prodVars, consVars, slots>>

\* The capture thread is joined: from here on the consumer sees all it did.
Join ==
  /\ prodAt = "idle" /\ ~joined
  /\ joined' = TRUE
  /\ consSeen' = Len(heads)
  /\ consKnows' = Pushes
  /\ UNCHANGED <<prodVars, tails, lastGot, consAt, held, taken, drained, popped, slots>>

-----------------------------------------------------------------------------
(* tryPop *)

PopLoad ==
  /\ consAt = "idle" /\ ~drained
  /\ \E k \in consSeen .. Len(heads) :
       /\ consSeen' = k
       /\ consKnows' = Acquire(consKnows, k - 1)
       /\ \/ /\ TailIndex = heads[k]
             /\ drained' = joined
             /\ UNCHANGED consAt
          \/ /\ TailIndex # heads[k]
             /\ consAt' = "take"
             /\ UNCHANGED drained
  /\ UNCHANGED <<tails, lastGot, held, taken, popped, slots, joined, prodVars>>

PopTake ==
  /\ consAt = "take"
  /\ held' = slots[TailIndex]
  /\ slots' = [slots EXCEPT ![TailIndex] = 0]
  /\ lastGot' = [lastGot EXCEPT ![TailIndex] = Pops + 1]
  /\ consAt' = "release"
  /\ UNCHANGED <<tails, consSeen, consKnows, taken, drained, popped, joined, prodVars>>

PopRelease ==
  /\ consAt = "release"
  /\ tails' = Append(tails, Increment(TailIndex))
  /\ taken' = Append(taken, held)
  /\ held' = 0
  /\ consAt' = "count"
  /\ UNCHANGED <<lastGot, consSeen, consKnows, drained, popped, slots, joined, prodVars>>

PopCount ==
  /\ consAt = "count"
  /\ popped' = popped + 1
  /\ consAt' = "idle"
  /\ UNCHANGED <<tails, lastGot, held, consSeen, consKnows, taken, drained, slots, joined,
                 prodVars>>

Producer == PushLoad \/ PushStore \/ PushPublish \/ PushCount
Consumer == PopLoad \/ PopTake \/ PopRelease \/ PopCount

Next == Producer \/ Join \/ Consumer

Spec == Init /\ [][Next]_vars

-----------------------------------------------------------------------------
(* Properties *)

ProdTypes ==
  /\ heads \in Seq(Slots) /\ Len(heads) > 0
  /\ lastPut \in [Slots -> Nat]
  /\ prodAt \in {"idle", "store", "publish", "count"}
  /\ offered \in 0 .. MaxItems
  /\ prodSeen \in Nat \ {0}
  /\ prodKnows \in Nat
  /\ pushed \in Nat /\ rejected \in Nat

ConsTypes ==
  /\ tails \in Seq(Slots) /\ Len(tails) > 0
  /\ lastGot \in [Slots -> Nat]
  /\ consAt \in {"idle", "take", "release", "count"}
  /\ held \in 0 .. MaxItems
  /\ consSeen \in Nat \ {0}
  /\ consKnows \in Nat
  /\ taken \in Seq(0 .. MaxItems)
  /\ drained \in BOOLEAN
  /\ popped \in Nat

SharedTypes ==
  /\ slots \in [Slots -> 0 .. MaxItems]
  /\ joined \in BOOLEAN

\* Every variable has its type.
TypeOK == ProdTypes /\ ConsTypes /\ SharedTypes

(***************************************************************************)
(* The memory orders suffice: when a thread touches the slot at its index, *)
(* the peer's last access to that slot happens before, so the plain writes *)
(* and moves of tryPush and tryPop never race.                             *)
(***************************************************************************)
NoSlotRace ==
  /\ prodAt = "store" => lastGot[HeadIndex] <= prodKnows
  /\ consAt = "take"  => lastPut[TailIndex] <= consKnows

(***************************************************************************)
(* "Exact when the buffer is quiescent": size() agrees with the counters,  *)
(* and every attempt is counted once, as a rejection or as a push.         *)
(***************************************************************************)
ExactAtRest ==
  prodAt = "idle" /\ consAt = "idle" =>
    /\ SizeOf(HeadIndex, TailIndex) = pushed - popped
    /\ pushed + rejected = offered
    /\ popped = Len(taken)

(***************************************************************************)
(* Popping until tryPop() answers nullopt, after the producer thread was   *)
(* joined, leaves nothing behind: all that was ever accepted was taken.    *)
(***************************************************************************)
DrainTakesAll == drained => Len(taken) = pushed

(***************************************************************************)
(* A push is rejected only when the ring holds Capacity items, as far as   *)
(* the producer can know: no slot is wasted.                               *)
(***************************************************************************)
RejectsOnlyWhenFull ==
  [][rejected' # rejected => Pushes - prodKnows' = Capacity]_vars

(***************************************************************************)
(* The implementation of the bounded FIFO: a push takes effect when head_  *)
(* is stored, a pop when tail_ is.  The item the consumer has moved out of *)
(* its slot is still in the queue until then.                              *)
(***************************************************************************)
SlotAt(i) == IF TailIndex + i <= Capacity THEN TailIndex + i ELSE TailIndex + i - Capacity - 1

Contents ==
  [i \in 1 .. SizeOf(HeadIndex, TailIndex) |->
     IF i = 1 /\ consAt = "release" THEN held ELSE slots[SlotAt(i - 1)]]

Fifo == INSTANCE BoundedFifo WITH queue <- Contents

\* The lock-free ring implements the bounded FIFO.
ImplementsFifo == Fifo!Spec

=============================================================================
