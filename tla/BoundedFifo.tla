----------------------------- MODULE BoundedFifo -----------------------------
(***************************************************************************)
(* What the capture path asks of SpscRingBuffer                            *)
(* (libs/cpp/audio-core/include/voxmesh/audio/ring_buffer.hpp): a bounded  *)
(* queue whose two operations take effect at one point in time, hand items *)
(* over in the order they were offered, each at most once, and lose none   *)
(* that was accepted.  Items are numbered by the attempts to push them, so *)
(* that a rejected attempt leaves a hole in the numbers.                   *)
(***************************************************************************)
EXTENDS Naturals, Sequences

CONSTANTS Capacity,  \* items the queue holds
          MaxItems   \* bound: attempts to push

VARIABLES queue,     \* the items inside, oldest first
          taken      \* the items handed to the consumer, oldest first

fifoVars == <<queue, taken>>

TypeOK == queue \in Seq(1 .. MaxItems) /\ taken \in Seq(1 .. MaxItems)

Init == queue = <<>> /\ taken = <<>>

\* Later than everything accepted before.
Newer(item) ==
  /\ \A i \in 1 .. Len(queue) : queue[i] < item
  /\ \A i \in 1 .. Len(taken) : taken[i] < item

Push ==
  \E item \in 1 .. MaxItems :
    /\ Len(queue) < Capacity
    /\ Newer(item)
    /\ queue' = Append(queue, item)
    /\ UNCHANGED taken

Pop ==
  /\ queue # <<>>
  /\ queue' = Tail(queue)
  /\ taken' = Append(taken, Head(queue))

Next == Push \/ Pop

Spec == Init /\ [][Next]_fifoVars

=============================================================================
