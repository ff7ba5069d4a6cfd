--------------------------- MODULE SpscRingProofs ---------------------------
(***************************************************************************)
(* Theorems about SpscRing for every capacity and every number of items.   *)
(*                                                                         *)
(* The argument counts: the producer's store number n is compared with the *)
(* consumer's, stale reads included (CountInv); two indexes that are fewer *)
(* than Capacity + 1 stores apart are equal only when the numbers are      *)
(* (IndexInv); a slot is touched last by the operation whose index it is   *)
(* (AccessInv); so what lies between the indexes is the queue (ItemInv).   *)
(***************************************************************************)
EXTENDS SpscRing, SequenceTheorems, TLAPS

\* The index d steps ahead, for d up to the number of slots.
Ahead(index, d) == IF index + d <= Capacity THEN index + d ELSE index + d - Capacity - 1

\* Where both threads are, in stores and in what they have read of the peer's.
CountInv ==
  /\ prodKnows = prodSeen - 1 /\ consKnows = consSeen - 1
  /\ prodSeen <= Len(tails) /\ consSeen <= Len(heads)
  /\ Pops < consSeen
  /\ consAt \in {"take", "release"} => Pops + 1 < consSeen
  /\ Pushes < Capacity + prodSeen
  /\ prodAt \in {"store", "publish"} => Pushes + 1 < Capacity + prodSeen
  /\ joined => prodAt = "idle" /\ consSeen = Len(heads)
  /\ drained => joined /\ consAt = "idle" /\ Pops = Pushes

\* The counters and the hand-over agree with the stores.
StatsInv ==
  /\ pushed = IF prodAt = "count" THEN Pushes - 1 ELSE Pushes
  /\ popped = IF consAt = "count" THEN Pops - 1 ELSE Pops
  /\ Len(taken) = Pops
  /\ offered = Pushes + rejected + (IF prodAt \in {"store", "publish"} THEN 1 ELSE 0)

\* A head index is as far ahead of a tail index as there are stores between them.
IndexInv ==
  \A a \in 1 .. Len(tails), b \in 1 .. Len(heads) :
    a <= b /\ b <= a + Capacity => heads[b] = Ahead(tails[a], b - a)

\* The operation that touched a slot last has the slot's number as its index.
AccessInv ==
  \A i \in Slots :
    /\ lastGot[i] <= Pops + (IF consAt = "release" THEN 1 ELSE 0)
    /\ lastGot[i] > 0 => tails[lastGot[i]] = i
    /\ lastPut[i] <= Pushes + (IF prodAt = "publish" THEN 1 ELSE 0)
    /\ lastPut[i] > 0 => heads[lastPut[i]] = i

\* What both refinement and hand-over order need of the items in the ring.
ItemInv ==
  /\ \A i \in 1 .. Pushes - Pops :
       /\ Contents[i] \in 1 .. offered
       /\ prodAt \in {"store", "publish"} => Contents[i] < offered
       /\ \A j \in 1 .. i - 1 : Contents[j] < Contents[i]
       /\ \A k \in 1 .. Len(taken) : taken[k] < Contents[i]
  /\ \A k \in 1 .. Len(taken) :
       /\ taken[k] \in 1 .. offered
       /\ prodAt \in {"store", "publish"} => taken[k] < offered
  /\ prodAt = "publish" => slots[HeadIndex] = offered

RInv == TypeOK /\ CountInv /\ StatsInv /\ IndexInv /\ AccessInv

-----------------------------------------------------------------------------
(* Types                                                                   *)

\* The current indexes are slots.
LEMMA IndexType ==
  ASSUME TypeOK
  PROVE  /\ HeadIndex \in Slots /\ TailIndex \in Slots
         /\ Increment(HeadIndex) \in Slots /\ Increment(TailIndex) \in Slots
         /\ Pushes \in Nat /\ Pops \in Nat
         /\ Len(heads) = Pushes + 1 /\ Len(tails) = Pops + 1
<1>1. heads \in Seq(Slots) /\ tails \in Seq(Slots)
  BY DEF TypeOK, ProdTypes, ConsTypes
<1>2. Len(heads) \in Nat /\ Len(heads) > 0 /\ Len(tails) \in Nat /\ Len(tails) > 0
  BY <1>1, LenProperties DEF TypeOK, ProdTypes, ConsTypes
<1>3. HeadIndex \in Slots
  BY <1>1, <1>2, ElementOfSeq DEF HeadIndex
<1>4. TailIndex \in Slots
  BY <1>1, <1>2, ElementOfSeq DEF TailIndex
<1>5. \A i \in Slots : Increment(i) \in Slots
  BY RingAssumption DEF Slots, Increment
<1> QED
  BY <1>2, <1>3, <1>4, <1>5 DEF Pushes, Pops

\* The initial state is typed.
LEMMA InitType == Init => TypeOK
<1> SUFFICES ASSUME Init PROVE TypeOK
  OBVIOUS
<1>1. 0 \in Slots
  BY RingAssumption DEF Slots
<1>2. ProdTypes
  BY <1>1, RingAssumption DEF Init, ProdTypes
<1>3. ConsTypes
  <2>1. drained \in BOOLEAN
    BY Zenon DEF Init
  <2> QED
    BY <1>1, <2>1, RingAssumption DEF Init, ConsTypes
<1>4. SharedTypes
  <2>1. joined \in BOOLEAN
    BY Zenon DEF Init
  <2>2. slots \in [Slots -> 0 .. MaxItems]
    BY RingAssumption DEF Init
  <2> QED
    BY <2>1, <2>2 DEF SharedTypes
<1> QED
  BY <1>2, <1>3, <1>4 DEF TypeOK

\* Storing the head index.
LEMMA PublishHeads ==
  ASSUME TypeOK, PushPublish
  PROVE  /\ heads' \in Seq(Slots)
         /\ Len(heads') = Len(heads) + 1
         /\ Pushes' = Pushes + 1
         /\ HeadIndex' = Increment(HeadIndex)
         /\ \A b \in 1 .. Len(heads) : heads'[b] = heads[b]
         /\ heads'[Len(heads) + 1] = Increment(HeadIndex)
<1>1. Increment(HeadIndex) \in Slots /\ heads \in Seq(Slots)
  BY IndexType DEF TypeOK, ProdTypes
<1>2. heads' = Append(heads, Increment(HeadIndex))
  BY DEF PushPublish
<1> QED
  BY <1>1, <1>2, AppendProperties DEF Pushes, HeadIndex

\* Storing the tail index.
LEMMA ReleaseTails ==
  ASSUME TypeOK, PopRelease
  PROVE  /\ tails' \in Seq(Slots)
         /\ Len(tails') = Len(tails) + 1
         /\ Pops' = Pops + 1
         /\ TailIndex' = Increment(TailIndex)
         /\ \A a \in 1 .. Len(tails) : tails'[a] = tails[a]
         /\ tails'[Len(tails) + 1] = Increment(TailIndex)
<1>1. Increment(TailIndex) \in Slots /\ tails \in Seq(Slots)
  BY IndexType DEF TypeOK, ConsTypes
<1>2. tails' = Append(tails, Increment(TailIndex))
  BY DEF PopRelease
<1> QED
  BY <1>1, <1>2, AppendProperties DEF Pops, TailIndex

\* The consumer hands its item over.
LEMMA ReleaseTaken ==
  ASSUME TypeOK, PopRelease
  PROVE  /\ taken' \in Seq(0 .. MaxItems)
         /\ Len(taken') = Len(taken) + 1
         /\ \A k \in 1 .. Len(taken) : taken'[k] = taken[k]
         /\ taken'[Len(taken) + 1] = held
<1>1. taken \in Seq(0 .. MaxItems) /\ held \in 0 .. MaxItems
  BY DEF TypeOK, ConsTypes
<1>2. taken' = Append(taken, held)
  BY DEF PopRelease
<1> QED
  BY <1>1, <1>2, AppendProperties

\* Every step keeps the types.
LEMMA TypeNext == TypeOK /\ [Next]_vars => TypeOK'
<1> SUFFICES ASSUME TypeOK, [Next]_vars PROVE ProdTypes' /\ ConsTypes' /\ SharedTypes'
  BY DEF TypeOK
<1>0. ProdTypes /\ ConsTypes /\ SharedTypes
  BY DEF TypeOK
<1>i. HeadIndex \in Slots /\ TailIndex \in Slots /\ Pushes \in Nat /\ Pops \in Nat
  BY IndexType
<1>p. UNCHANGED prodVars => ProdTypes'
  BY <1>0 DEF ProdTypes, prodVars
<1>c. UNCHANGED consVars => ConsTypes'
  BY <1>0 DEF ConsTypes, consVars
<1>s. UNCHANGED <<slots, joined>> => SharedTypes'
  BY <1>0 DEF SharedTypes
<1>1. CASE PushLoad
  <2>1. UNCHANGED <<heads, lastPut, pushed, slots, joined>> /\ UNCHANGED consVars
    BY <1>1 DEF PushLoad
  <2>2. prodSeen' \in Nat \ {0} /\ prodKnows' \in Nat
    <3>1. Len(tails) \in Nat
      BY <1>0, LenProperties DEF ConsTypes
    <3> QED
      BY <1>1, <1>0, <3>1 DEF PushLoad, Acquire, ProdTypes
  <2>3. prodAt' \in {"idle", "store"} /\ offered' \in 0 .. MaxItems
    BY <1>1, <1>0, RingAssumption DEF PushLoad, ProdTypes
  <2>4. rejected' \in Nat
    BY <1>1, <1>0 DEF PushLoad, ProdTypes
  <2> QED
    BY <1>0, <1>c, <2>1, <2>2, <2>3, <2>4 DEF ProdTypes, SharedTypes
<1>2. CASE PushStore
  BY <1>2, <1>0, <1>i, <1>c DEF PushStore, ProdTypes, SharedTypes
<1>3. CASE PushPublish
  <2>1. heads' \in Seq(Slots) /\ Len(heads') > 0
    BY <1>3, <1>0, PublishHeads DEF ProdTypes
  <2> QED
    BY <1>3, <1>0, <1>c, <2>1 DEF PushPublish, ProdTypes, SharedTypes
<1>4. CASE PushCount
  BY <1>4, <1>0, <1>c DEF PushCount, ProdTypes, SharedTypes
<1>5. CASE Join
  <2>1. consSeen' \in Nat \ {0} /\ consKnows' \in Nat
    BY <1>5, <1>i, IndexType DEF Join
  <2> QED
    BY <1>5, <1>0, <1>p, <2>1 DEF Join, ConsTypes, SharedTypes
<1>6. CASE PopLoad
  <2>1. UNCHANGED <<tails, lastGot, held, taken, popped, slots, joined>> /\ UNCHANGED prodVars
    BY <1>6 DEF PopLoad
  <2>2. consSeen' \in Nat \ {0} /\ consKnows' \in Nat
    <3>1. Len(heads) \in Nat
      BY <1>0, LenProperties DEF ProdTypes
    <3> QED
      BY <1>6, <1>0, <3>1 DEF PopLoad, Acquire, ConsTypes
  <2>3. consAt' \in {"idle", "take"} /\ drained' \in BOOLEAN
    BY <1>6, <1>0 DEF PopLoad, ConsTypes, SharedTypes
  <2> QED
    BY <1>0, <1>p, <1>s, <2>1, <2>2, <2>3 DEF ConsTypes
<1>7. CASE PopTake
  BY <1>7, <1>0, <1>i, <1>p, RingAssumption DEF PopTake, ConsTypes, SharedTypes
<1>8. CASE PopRelease
  <2>1. tails' \in Seq(Slots) /\ Len(tails') > 0 /\ taken' \in Seq(0 .. MaxItems)
    BY <1>8, <1>0, ReleaseTails, ReleaseTaken DEF ConsTypes
  <2> QED
    BY <1>8, <1>0, <1>p, <1>s, <2>1, RingAssumption DEF PopRelease, ConsTypes
<1>9. CASE PopCount
  BY <1>9, <1>0, <1>p DEF PopCount, ConsTypes, SharedTypes
<1>10. CASE UNCHANGED vars
  BY <1>10, <1>p, <1>c, <1>s DEF vars
<1> QED
  BY <1>1, <1>2, <1>3, <1>4, <1>5, <1>6, <1>7, <1>8, <1>9, <1>10
  DEF Next, Producer, Consumer

-----------------------------------------------------------------------------
(* Indexes                                                                 *)

\* Walking ahead from a slot stays in the slots and meets each slot once.
LEMMA AheadSlot ==
  ASSUME NEW i \in Slots
  PROVE  /\ \A d \in 0 .. Capacity : Ahead(i, d) \in Slots
         /\ Ahead(i, 0) = i
         /\ \A d \in 1 .. Capacity : Ahead(i, d) # i
         /\ \A d, e \in 0 .. Capacity : Ahead(i, d) = Ahead(i, e) => d = e
BY RingAssumption DEF Ahead, Slots

\* One step of either index is one step of the walk.
LEMMA AheadStep ==
  ASSUME NEW i \in Slots
  PROVE  /\ \A d \in 0 .. Capacity : d < Capacity => Increment(Ahead(i, d)) = Ahead(i, d + 1)
         /\ Increment(Ahead(i, Capacity)) = i
         /\ \A d \in 1 .. Capacity : Ahead(Increment(i), d - 1) = Ahead(i, d)
BY RingAssumption DEF Ahead, Slots, Increment

\* size() measures the walk from the tail to the head.
LEMMA SizeOfAhead ==
  ASSUME NEW i \in Slots, NEW d \in 0 .. Capacity
  PROVE  SizeOf(Ahead(i, d), i) = d
BY RingAssumption DEF Ahead, Slots, SizeOf

-----------------------------------------------------------------------------
(* Counting                                                                *)

\* The sizes that the counting arguments use, as numbers.
LEMMA CountType ==
  ASSUME TypeOK
  PROVE  /\ Capacity \in Nat /\ MaxItems \in Nat
         /\ Pushes \in Nat /\ Len(heads) = Pushes + 1
         /\ Pops \in Nat /\ Len(tails) = Pops + 1
         /\ Len(taken) \in Nat
         /\ prodSeen \in Nat \ {0} /\ consSeen \in Nat \ {0}
         /\ prodKnows \in Nat /\ consKnows \in Nat
         /\ offered \in Nat /\ pushed \in Nat /\ popped \in Nat /\ rejected \in Nat
BY IndexType, RingAssumption, LenProperties DEF TypeOK, ProdTypes, ConsTypes

\* The producer's reads and stores keep the counts.
LEMMA CountProducer ==
  ASSUME TypeOK, CountInv, IndexInv, Producer
  PROVE  CountInv'
<1>t. /\ Capacity \in Nat /\ prodSeen \in Nat \ {0} /\ consSeen \in Nat \ {0}
      /\ Pushes \in Nat /\ Len(heads) = Pushes + 1
      /\ Pops \in Nat /\ Len(tails) = Pops + 1
  BY CountType
<1>c. UNCHANGED <<tails, consAt, consSeen, consKnows, drained, joined>> /\ Pops' = Pops
  BY DEF Producer, PushLoad, PushStore, PushPublish, PushCount, consVars, Pops
<1>1. CASE PushLoad
  <2>1. PICK k \in prodSeen .. Len(tails) :
          /\ prodSeen' = k
          /\ prodKnows' = k - 1
          /\ \/ Increment(HeadIndex) = tails[k] /\ UNCHANGED prodAt
             \/ Increment(HeadIndex) # tails[k] /\ prodAt' = "store"
    BY <1>1 DEF PushLoad, Acquire
  <2>2. k \in Nat \ {0} /\ prodSeen <= k /\ k <= Pops + 1
    BY <1>t, <2>1
  <2>3. Pushes < Capacity + prodSeen /\ Pops < consSeen /\ consSeen <= Pushes + 1
    BY <1>t DEF CountInv
  <2>4. ASSUME prodAt' = "store", Pushes + 1 >= Capacity + k PROVE FALSE
    \* Otherwise the producer would have found the ring full.
    <3>1. Pushes + 1 = Capacity + k
      BY <1>t, <2>2, <2>3, <2>4
    <3>2. k \in 1 .. Len(tails) /\ Len(heads) \in 1 .. Len(heads)
          /\ k <= Len(heads) /\ Len(heads) <= k + Capacity /\ Len(heads) - k = Capacity
      BY <1>t, <2>2, <2>3, <3>1
    <3>3. heads[Len(heads)] = Ahead(tails[k], Len(heads) - k)
      BY <3>2 DEF IndexInv
    <3>4. HeadIndex = Ahead(tails[k], Capacity)
      BY <3>2, <3>3 DEF HeadIndex
    <3>5. tails[k] \in Slots
      <4>1. tails \in Seq(Slots)
        BY DEF TypeOK, ConsTypes
      <4> QED
        BY <3>2, <4>1, ElementOfSeq
    <3>6. Increment(HeadIndex) = tails[k]
      BY <3>4, <3>5, AheadStep
    <3>7. prodAt = "idle"
      BY <1>1 DEF PushLoad
    <3> QED
      BY <2>1, <2>4, <3>6, <3>7
  <2>5. UNCHANGED heads /\ prodAt = "idle" /\ ~joined /\ Pushes' = Pushes
    BY <1>1 DEF PushLoad, Pushes
  <2>6. ~drained
    BY <2>5 DEF CountInv
  <2>7. prodAt' = "store" => Pushes + 1 < Capacity + k
    BY <2>4, <1>t, <2>2
  <2> QED
    BY <1>t, <1>c, <2>1, <2>2, <2>3, <2>5, <2>6, <2>7 DEF CountInv
<1>2. CASE PushStore
  <2>1. UNCHANGED <<heads, prodSeen, prodKnows>> /\ Pushes' = Pushes
        /\ prodAt = "store" /\ prodAt' = "publish"
    BY <1>2 DEF PushStore, Pushes
  <2> QED
    BY <1>c, <2>1 DEF CountInv
<1>3. CASE PushPublish
  <2>1. UNCHANGED <<prodSeen, prodKnows>> /\ Pushes' = Pushes + 1
        /\ Len(heads') = Len(heads) + 1 /\ prodAt = "publish" /\ prodAt' = "count"
    BY <1>3, PublishHeads DEF PushPublish
  <2> QED
    BY <1>t, <1>c, <2>1 DEF CountInv
<1>4. CASE PushCount
  <2>1. UNCHANGED <<heads, prodSeen, prodKnows>> /\ Pushes' = Pushes
        /\ prodAt = "count" /\ prodAt' = "idle"
    BY <1>4 DEF PushCount, Pushes
  <2> QED
    BY <1>c, <2>1 DEF CountInv
<1> QED
  BY <1>1, <1>2, <1>3, <1>4 DEF Producer

\* The consumer's reads and stores keep the counts.
LEMMA CountConsumer ==
  ASSUME TypeOK, CountInv, IndexInv, Consumer
  PROVE  CountInv'
<1>t. /\ Capacity \in Nat /\ prodSeen \in Nat \ {0} /\ consSeen \in Nat \ {0}
      /\ Pushes \in Nat /\ Len(heads) = Pushes + 1
      /\ Pops \in Nat /\ Len(tails) = Pops + 1
  BY CountType
<1>p. UNCHANGED <<heads, prodAt, prodSeen, prodKnows, joined>> /\ Pushes' = Pushes
  BY DEF Consumer, PopLoad, PopTake, PopRelease, PopCount, prodVars, Pushes
<1>n. /\ Pops < consSeen /\ consSeen <= Pushes + 1
      /\ prodSeen <= Pops + 1 /\ Pushes < Capacity + prodSeen
  BY <1>t DEF CountInv
<1>1. CASE PopLoad
  <2>1. PICK k \in consSeen .. Len(heads) :
          /\ consSeen' = k
          /\ consKnows' = k - 1
          /\ \/ TailIndex = heads[k] /\ drained' = joined /\ UNCHANGED consAt
             \/ TailIndex # heads[k] /\ consAt' = "take" /\ UNCHANGED drained
    BY <1>1 DEF PopLoad, Acquire
  <2>2. UNCHANGED tails /\ consAt = "idle" /\ ~drained /\ Pops' = Pops
    BY <1>1 DEF PopLoad, Pops
  <2>3. /\ k \in Nat \ {0} /\ consSeen <= k /\ k <= Pushes + 1
        /\ Len(tails) \in 1 .. Len(tails) /\ k \in 1 .. Len(heads)
        /\ Len(tails) <= k /\ k <= Len(tails) + Capacity /\ k - Len(tails) \in 0 .. Capacity
    BY <1>t, <1>n, <2>1
  <2>4. heads[k] = Ahead(TailIndex, k - Len(tails))
    BY <2>3 DEF IndexInv, TailIndex
  <2>5. TailIndex \in Slots
    BY IndexType
  <2>6. TailIndex = heads[k] => k = Pops + 1
    <3>1. k # Pops + 1 => k - Len(tails) \in 1 .. Capacity
      BY <1>t, <2>3
    <3> QED
      BY <2>4, <2>5, <3>1, AheadSlot
  <2>7. TailIndex # heads[k] => Pops + 1 < k
    <3>1. k = Pops + 1 => k - Len(tails) = 0
      BY <1>t, <2>3
    <3>2. k = Pops + 1 => heads[k] = TailIndex
      BY <2>4, <2>5, <3>1, AheadSlot
    <3> QED
      BY <3>2, <1>t, <1>n, <2>3
  <2>8. joined => prodAt = "idle" /\ consSeen = Pushes + 1
    BY <1>t DEF CountInv
  <2> QED
    BY <1>t, <1>p, <1>n, <2>1, <2>2, <2>3, <2>6, <2>7, <2>8 DEF CountInv
<1>2. CASE PopTake
  <2>1. UNCHANGED <<tails, consSeen, consKnows, drained>> /\ Pops' = Pops
        /\ consAt = "take" /\ consAt' = "release"
    BY <1>2 DEF PopTake, Pops
  <2> QED
    BY <1>p, <2>1 DEF CountInv
<1>3. CASE PopRelease
  <2>1. UNCHANGED <<consSeen, consKnows, drained>> /\ Pops' = Pops + 1
        /\ Len(tails') = Len(tails) + 1 /\ consAt = "release" /\ consAt' = "count"
    BY <1>3, ReleaseTails DEF PopRelease
  <2> QED
    BY <1>t, <1>p, <1>n, <2>1 DEF CountInv
<1>4. CASE PopCount
  <2>1. UNCHANGED <<tails, consSeen, consKnows, drained>> /\ Pops' = Pops
        /\ consAt = "count" /\ consAt' = "idle"
    BY <1>4 DEF PopCount, Pops
  <2> QED
    BY <1>p, <2>1 DEF CountInv
<1> QED
  BY <1>1, <1>2, <1>3, <1>4 DEF Consumer

\* Every step keeps the counts.
LEMMA CountNext ==
  ASSUME TypeOK, CountInv, IndexInv, [Next]_vars
  PROVE  CountInv'
<1>1. CASE Join
  <2>1. UNCHANGED <<heads, tails, prodAt, consAt, prodSeen, prodKnows, drained>>
        /\ Pushes' = Pushes /\ Pops' = Pops
        /\ prodAt = "idle" /\ ~joined /\ consSeen' = Len(heads) /\ consKnows' = Pushes
    BY <1>1 DEF Join, prodVars, Pushes, Pops
  <2>2. /\ Pushes \in Nat /\ Len(heads) = Pushes + 1 /\ Pops \in Nat /\ Len(tails) = Pops + 1
        /\ consSeen \in Nat
    BY CountType
  <2> QED
    BY <2>1, <2>2 DEF CountInv
<1>2. CASE UNCHANGED vars
  BY <1>2 DEF vars, prodVars, consVars, CountInv, Pushes, Pops
<1> QED
  BY <1>1, <1>2, CountProducer, CountConsumer DEF Next

-----------------------------------------------------------------------------
(* Indexes and slots                                                       *)

\* Every stored index is a slot.
LEMMA StoredType ==
  ASSUME TypeOK
  PROVE  /\ \A b \in 1 .. Len(heads) : heads[b] \in Slots
         /\ \A a \in 1 .. Len(tails) : tails[a] \in Slots
<1>1. heads \in Seq(Slots) /\ tails \in Seq(Slots)
  BY DEF TypeOK, ProdTypes, ConsTypes
<1> QED
  BY <1>1, ElementOfSeq

\* Both stores keep the indexes as far apart as they are numbered.
LEMMA IndexNext ==
  ASSUME TypeOK, CountInv, IndexInv, [Next]_vars
  PROVE  IndexInv'
<1>t. /\ Capacity \in Nat /\ prodSeen \in Nat \ {0} /\ consSeen \in Nat \ {0}
      /\ Pushes \in Nat /\ Len(heads) = Pushes + 1
      /\ Pops \in Nat /\ Len(tails) = Pops + 1
  BY CountType
<1>n. /\ Pops < consSeen /\ consSeen <= Pushes + 1
      /\ prodSeen <= Pops + 1 /\ Pushes < Capacity + prodSeen
  BY <1>t DEF CountInv
<1>1. CASE UNCHANGED <<heads, tails>>
  BY <1>1 DEF IndexInv
<1>2. CASE PushPublish
  <2>1. UNCHANGED tails
    BY <1>2 DEF PushPublish, consVars
  <2> SUFFICES ASSUME NEW a \in 1 .. Len(tails), NEW b \in 1 .. Len(heads'),
                      a <= b, b <= a + Capacity
               PROVE  heads'[b] = Ahead(tails[a], b - a)
    BY <2>1 DEF IndexInv
  <2>2. CASE b <= Len(heads)
    BY <2>2, <1>2, <1>t, PublishHeads DEF IndexInv
  <2>3. CASE b > Len(heads)
    <3>1. b = Len(heads) + 1
      BY <2>3, <1>2, <1>t, PublishHeads
    <3>2. heads'[b] = Increment(HeadIndex)
      BY <3>1, <1>2, PublishHeads
    <3>3. a <= Pushes + 1 /\ b = Pushes + 2 /\ b - a >= 1 /\ b - 1 - a \in 0 .. Capacity
          /\ b - 1 - a < Capacity /\ Len(heads) = b - 1 /\ b - 1 \in 1 .. Len(heads)
      BY <1>t, <1>n, <3>1
    <3>4. HeadIndex = Ahead(tails[a], b - 1 - a)
      BY <3>3, <1>t DEF IndexInv, HeadIndex
    <3>5. Increment(Ahead(tails[a], b - 1 - a)) = Ahead(tails[a], b - 1 - a + 1)
      BY <3>3, StoredType, AheadStep
    <3>6. b - 1 - a + 1 = b - a
      BY <3>3, <1>t
    <3> QED
      BY <3>2, <3>4, <3>5, <3>6
  <2> QED
    BY <2>2, <2>3, <1>t, <1>2, PublishHeads
<1>3. CASE PopRelease
  <2>1. UNCHANGED heads /\ consAt = "release"
    BY <1>3 DEF PopRelease, prodVars
  <2> SUFFICES ASSUME NEW a \in 1 .. Len(tails'), NEW b \in 1 .. Len(heads),
                      a <= b, b <= a + Capacity
               PROVE  heads[b] = Ahead(tails'[a], b - a)
    BY <2>1 DEF IndexInv
  <2>2. CASE a <= Len(tails)
    BY <2>2, <1>3, <1>t, ReleaseTails DEF IndexInv
  <2>3. CASE a > Len(tails)
    <3>1. a = Len(tails) + 1
      BY <2>3, <1>3, <1>t, ReleaseTails
    <3>2. tails'[a] = Increment(TailIndex)
      BY <3>1, <1>3, ReleaseTails
    <3>3. a - 1 = Len(tails) /\ a - 1 \in 1 .. Len(tails) /\ a - 1 <= b
          /\ b <= a - 1 + Capacity /\ b - (a - 1) \in 1 .. Capacity
          /\ b - (a - 1) - 1 = b - a
      BY <1>t, <1>n, <3>1
    <3>4. heads[b] = Ahead(TailIndex, b - (a - 1))
      BY <3>3 DEF IndexInv, TailIndex
    <3>5. Ahead(Increment(TailIndex), b - (a - 1) - 1) = Ahead(TailIndex, b - (a - 1))
      BY <3>3, IndexType, AheadStep
    <3> QED
      BY <3>2, <3>3, <3>4, <3>5
  <2> QED
    BY <2>2, <2>3, <1>t, <1>3, ReleaseTails
<1> QED
  BY <1>1, <1>2, <1>3
  DEF Next, Producer, Consumer, PushLoad, PushStore, PushCount, Join, PopLoad, PopTake,
      PopCount, vars, prodVars, consVars

\* What the counters count.
LEMMA StatsNext ==
  ASSUME TypeOK, CountInv, StatsInv, [Next]_vars
  PROVE  StatsInv'
<1>t. /\ Pushes \in Nat /\ Pops \in Nat /\ Len(taken) \in Nat
      /\ offered \in Nat /\ pushed \in Nat /\ popped \in Nat /\ rejected \in Nat
  BY CountType
<1>1. CASE PushLoad
  <2>1. /\ UNCHANGED <<popped, pushed, taken, consAt>> /\ Pushes' = Pushes /\ Pops' = Pops
        /\ prodAt = "idle" /\ offered' = offered + 1
        /\ \/ rejected' = rejected + 1 /\ prodAt' = "idle"
           \/ rejected' = rejected /\ prodAt' = "store"
    BY <1>1 DEF PushLoad, consVars, Pushes, Pops
  <2> QED
    BY <1>t, <2>1 DEF StatsInv
<1>2. CASE PushStore
  <2>1. UNCHANGED <<popped, pushed, taken, consAt, offered, rejected>>
        /\ Pushes' = Pushes /\ Pops' = Pops /\ prodAt = "store" /\ prodAt' = "publish"
    BY <1>2 DEF PushStore, consVars, Pushes, Pops
  <2> QED
    BY <1>t, <2>1 DEF StatsInv
<1>3. CASE PushPublish
  <2>1. UNCHANGED <<popped, pushed, taken, consAt, offered, rejected>>
        /\ Pushes' = Pushes + 1 /\ Pops' = Pops /\ prodAt = "publish" /\ prodAt' = "count"
    BY <1>3, PublishHeads DEF PushPublish, consVars, Pops
  <2> QED
    BY <1>t, <2>1 DEF StatsInv
<1>4. CASE PushCount
  <2>1. UNCHANGED <<popped, taken, consAt, offered, rejected>> /\ pushed' = pushed + 1
        /\ Pushes' = Pushes /\ Pops' = Pops /\ prodAt = "count" /\ prodAt' = "idle"
    BY <1>4 DEF PushCount, consVars, Pushes, Pops
  <2> QED
    BY <1>t, <2>1 DEF StatsInv
<1>5. CASE PopRelease
  <2>1. UNCHANGED <<popped, pushed, prodAt, offered, rejected>>
        /\ Pushes' = Pushes /\ Pops' = Pops + 1 /\ Len(taken') = Len(taken) + 1
        /\ consAt = "release" /\ consAt' = "count"
    BY <1>5, ReleaseTails, ReleaseTaken DEF PopRelease, prodVars, Pushes
  <2> QED
    BY <1>t, <2>1 DEF StatsInv
<1>6. CASE PopCount
  <2>1. UNCHANGED <<pushed, prodAt, offered, rejected, taken>> /\ popped' = popped + 1
        /\ Pushes' = Pushes /\ Pops' = Pops /\ consAt = "count" /\ consAt' = "idle"
    BY <1>6 DEF PopCount, prodVars, Pushes, Pops
  <2> QED
    BY <1>t, <2>1 DEF StatsInv
<1>7. CASE PopLoad \/ PopTake
  <2>1. UNCHANGED <<pushed, popped, prodAt, offered, rejected, taken>>
        /\ Pushes' = Pushes /\ Pops' = Pops /\ consAt # "count" /\ consAt' # "count"
    BY <1>7 DEF PopLoad, PopTake, prodVars, Pushes, Pops
  <2> QED
    BY <1>t, <2>1 DEF StatsInv
<1>8. CASE Join \/ UNCHANGED vars
  BY <1>8 DEF Join, vars, prodVars, consVars, StatsInv, Pushes, Pops
<1> QED
  BY <1>1, <1>2, <1>3, <1>4, <1>5, <1>6, <1>7, <1>8 DEF Next, Producer, Consumer

\* The last access to a slot is that of the operation with its index.
LEMMA AccessNext ==
  ASSUME TypeOK, AccessInv, [Next]_vars
  PROVE  AccessInv'
<1>t. /\ Pushes \in Nat /\ Len(heads) = Pushes + 1
      /\ Pops \in Nat /\ Len(tails) = Pops + 1
      /\ lastPut \in [Slots -> Nat] /\ lastGot \in [Slots -> Nat]
  BY CountType DEF TypeOK, ProdTypes, ConsTypes
<1>i. HeadIndex \in Slots /\ TailIndex \in Slots
  BY IndexType
<1>1. CASE PushStore
  <2>1. UNCHANGED <<heads, tails, consAt, lastGot>> /\ Pushes' = Pushes /\ Pops' = Pops
        /\ prodAt' = "publish" /\ prodAt = "store"
        /\ lastPut' = [lastPut EXCEPT ![HeadIndex] = Pushes + 1]
    BY <1>1 DEF PushStore, consVars, Pushes, Pops
  <2>2. heads[Pushes + 1] = HeadIndex
    BY <1>t DEF HeadIndex
  <2> QED
    BY <1>t, <1>i, <2>1, <2>2 DEF AccessInv
<1>2. CASE PushPublish
  <2>1. UNCHANGED <<tails, consAt, lastGot, lastPut>> /\ Pushes' = Pushes + 1 /\ Pops' = Pops
        /\ prodAt = "publish" /\ prodAt' = "count"
    BY <1>2, PublishHeads DEF PushPublish, consVars, Pops
  <2>2. \A b \in 1 .. Len(heads) : heads'[b] = heads[b]
    BY <1>2, PublishHeads
  <2> QED
    BY <1>t, <2>1, <2>2 DEF AccessInv
<1>3. CASE PopTake
  <2>1. UNCHANGED <<heads, tails, prodAt, lastPut>> /\ Pushes' = Pushes /\ Pops' = Pops
        /\ consAt' = "release" /\ consAt = "take"
        /\ lastGot' = [lastGot EXCEPT ![TailIndex] = Pops + 1]
    BY <1>3 DEF PopTake, prodVars, Pushes, Pops
  <2>2. tails[Pops + 1] = TailIndex
    BY <1>t DEF TailIndex
  <2> QED
    BY <1>t, <1>i, <2>1, <2>2 DEF AccessInv
<1>4. CASE PopRelease
  <2>1. UNCHANGED <<heads, prodAt, lastGot, lastPut>> /\ Pushes' = Pushes /\ Pops' = Pops + 1
        /\ consAt = "release" /\ consAt' = "count"
    BY <1>4, ReleaseTails DEF PopRelease, prodVars, Pushes
  <2>2. \A a \in 1 .. Len(tails) : tails'[a] = tails[a]
    BY <1>4, ReleaseTails
  <2> QED
    BY <1>t, <2>1, <2>2 DEF AccessInv
<1>5. CASE PushLoad \/ PushCount \/ Join \/ PopLoad \/ PopCount \/ UNCHANGED vars
  <2>1. UNCHANGED <<heads, tails, lastPut, lastGot>> /\ Pushes' = Pushes /\ Pops' = Pops
        /\ (prodAt' = "publish" <=> prodAt = "publish")
        /\ (consAt' = "release" <=> consAt = "release")
    BY <1>5 DEF PushLoad, PushCount, Join, PopLoad, PopCount, vars, prodVars, consVars,
               Pushes, Pops
  <2> QED
    BY <1>t, <2>1 DEF AccessInv
<1> QED
  BY <1>1, <1>2, <1>3, <1>4, <1>5 DEF Next, Producer, Consumer

\* The initial state satisfies the counting invariants.
LEMMA InitInv == Init => RInv
<1> SUFFICES ASSUME Init PROVE RInv
  OBVIOUS
<1>1. TypeOK
  BY InitType
<1>2. Capacity \in Nat /\ Len(heads) = 1 /\ Len(tails) = 1 /\ Pushes = 0 /\ Pops = 0
      /\ Len(taken) = 0
  BY RingAssumption DEF Init, Pushes, Pops
<1>3. CountInv
  BY <1>2 DEF Init, CountInv
<1>4. StatsInv
  BY <1>2 DEF Init, StatsInv
<1>5. IndexInv
  BY <1>2, RingAssumption DEF Init, IndexInv, Ahead
<1>6. AccessInv
  BY <1>2, RingAssumption DEF Init, AccessInv, Slots
<1> QED
  BY <1>1, <1>3, <1>4, <1>5, <1>6 DEF RInv

\* The counting invariants are inductive.
LEMMA Induction == Spec => []RInv
<1>1. RInv /\ [Next]_vars => RInv'
  BY TypeNext, CountNext, StatsNext, IndexNext, AccessNext DEF RInv
<1> QED
  BY InitInv, <1>1, PTL DEF Spec

-----------------------------------------------------------------------------
(* Theorems                                                                *)

(***************************************************************************)
(* Whatever the capacity, neither index leaves the slots and every counter *)
(* of the ring keeps its type.                                             *)
(***************************************************************************)
THEOREM RingTypes == Spec => []TypeOK
<1>1. RInv => TypeOK
  BY DEF RInv
<1> QED
  BY Induction, <1>1, PTL

(***************************************************************************)
(* tryPush and tryPop never touch a slot concurrently: the acquire loads   *)
(* that let them past the full and the empty test order them after the     *)
(* peer's last access to the slot.                                         *)
(***************************************************************************)
THEOREM RaceFree == Spec => []NoSlotRace
<1>1. RInv => NoSlotRace
  <2> SUFFICES ASSUME RInv PROVE NoSlotRace
    OBVIOUS
  <2>t. /\ Capacity \in Nat /\ prodSeen \in Nat \ {0} /\ consSeen \in Nat \ {0}
        /\ Pushes \in Nat /\ Len(heads) = Pushes + 1
        /\ Pops \in Nat /\ Len(tails) = Pops + 1
        /\ lastPut \in [Slots -> Nat] /\ lastGot \in [Slots -> Nat]
    BY CountType DEF RInv, TypeOK, ProdTypes, ConsTypes
  <2>n. /\ Pops < consSeen /\ consSeen <= Pushes + 1
        /\ prodSeen <= Pops + 1 /\ Pushes < Capacity + prodSeen
        /\ prodKnows = prodSeen - 1 /\ consKnows = consSeen - 1
    BY <2>t DEF RInv, CountInv
  <2>i. HeadIndex \in Slots /\ TailIndex \in Slots
    BY IndexType DEF RInv
  <2>1. ASSUME prodAt = "store", prodKnows < lastGot[HeadIndex] PROVE FALSE
    <3> DEFINE g == lastGot[HeadIndex]
    <3>1. g \in Nat /\ g >= prodSeen /\ g > 0
      BY <2>t, <2>n, <2>i, <2>1
    <3>2. g <= Pushes
      <4>1. g <= Pops \/ (g <= Pops + 1 /\ consAt = "release")
        BY <2>i, <2>t, <3>1 DEF RInv, AccessInv
      <4>2. consAt = "release" => Pops + 1 < consSeen
        BY DEF RInv, CountInv
      <4> QED
        BY <4>1, <4>2, <2>t, <2>n, <3>1
    <3>3. tails[g] = HeadIndex
      BY <3>1, <2>i DEF RInv, AccessInv
    <3>4. Pushes + 1 < Capacity + prodSeen
      BY <2>1 DEF RInv, CountInv
    <3>5. g <= Pops + 1
      BY <2>i, <2>t, <3>1 DEF RInv, AccessInv
    <3>6. g \in 1 .. Len(tails) /\ Len(heads) \in 1 .. Len(heads) /\ g <= Len(heads)
          /\ Len(heads) <= g + Capacity /\ Len(heads) - g \in 1 .. Capacity
      BY <2>t, <3>1, <3>2, <3>4, <3>5
    <3>7. HeadIndex = Ahead(tails[g], Len(heads) - g)
      BY <3>6 DEF RInv, IndexInv, HeadIndex
    <3> QED
      BY <3>3, <3>6, <3>7, <2>i, AheadSlot
  <2>2. ASSUME consAt = "take", consKnows < lastPut[TailIndex] PROVE FALSE
    <3> DEFINE p == lastPut[TailIndex]
    <3>1. p \in Nat /\ p >= consSeen /\ p > 0
      BY <2>t, <2>n, <2>i, <2>2
    <3>2. Pops + 1 < consSeen
      BY <2>2 DEF RInv, CountInv
    <3>3. heads[p] = TailIndex
      BY <3>1, <2>i DEF RInv, AccessInv
    <3>4. p <= Pushes \/ (p <= Pushes + 1 /\ prodAt = "publish")
      BY <2>i, <2>t, <3>1 DEF RInv, AccessInv
    <3>5. prodAt = "publish" => Pushes + 1 < Capacity + prodSeen
      BY DEF RInv, CountInv
    <3>6. p \in 1 .. Len(heads) /\ Len(tails) \in 1 .. Len(tails) /\ Len(tails) <= p
          /\ p <= Len(tails) + Capacity /\ p - Len(tails) \in 1 .. Capacity
      BY <2>t, <2>n, <3>1, <3>2, <3>4, <3>5
    <3>7. heads[p] = Ahead(TailIndex, p - Len(tails))
      BY <3>6 DEF RInv, IndexInv, TailIndex
    <3> QED
      BY <3>3, <3>6, <3>7, <2>i, AheadSlot
  <2> QED
    BY <2>1, <2>2, <2>t, <2>n, <2>i DEF NoSlotRace
<1> QED
  BY Induction, <1>1, PTL

\* How much is in the ring, as size() computes it.
SizeFact ==
  /\ Pushes - Pops \in 0 .. Capacity
  /\ HeadIndex = Ahead(TailIndex, Pushes - Pops)
  /\ SizeOf(HeadIndex, TailIndex) = Pushes - Pops

\* That holds in every state of the invariant.
LEMMA SizeCounts == RInv => SizeFact
<1> SUFFICES ASSUME RInv PROVE SizeFact
  OBVIOUS
<1>t. /\ Capacity \in Nat /\ prodSeen \in Nat \ {0} /\ consSeen \in Nat \ {0}
      /\ Pushes \in Nat /\ Len(heads) = Pushes + 1
      /\ Pops \in Nat /\ Len(tails) = Pops + 1
  BY CountType DEF RInv
<1>n. /\ Pops < consSeen /\ consSeen <= Pushes + 1
      /\ prodSeen <= Pops + 1 /\ Pushes < Capacity + prodSeen
  BY <1>t DEF RInv, CountInv
<1>1. /\ Pushes - Pops \in 0 .. Capacity /\ Len(heads) - Len(tails) = Pushes - Pops
      /\ Len(heads) \in 1 .. Len(heads) /\ Len(tails) \in 1 .. Len(tails)
      /\ Len(tails) <= Len(heads) /\ Len(heads) <= Len(tails) + Capacity
  BY <1>t, <1>n
<1>2. HeadIndex = Ahead(TailIndex, Pushes - Pops)
  BY <1>1 DEF RInv, IndexInv, HeadIndex, TailIndex
<1>3. TailIndex \in Slots
  BY IndexType DEF RInv
<1> QED
  BY <1>1, <1>2, <1>3, SizeOfAhead DEF SizeFact

\* size() and the statistics are exact while both threads are outside the ring.
THEOREM RestIsExact == Spec => []ExactAtRest
<1>1. RInv => ExactAtRest
  <2> SUFFICES ASSUME RInv, prodAt = "idle", consAt = "idle"
               PROVE  /\ SizeOf(HeadIndex, TailIndex) = pushed - popped
                      /\ pushed + rejected = offered
                      /\ popped = Len(taken)
    BY DEF ExactAtRest
  <2>1. pushed = Pushes /\ popped = Pops /\ Len(taken) = Pops /\ offered = Pushes + rejected + 0
    BY DEF RInv, StatsInv
  <2>2. Pushes \in Nat /\ rejected \in Nat
    BY CountType DEF RInv
  <2> QED
    BY <2>1, <2>2, SizeCounts DEF SizeFact
<1> QED
  BY Induction, <1>1, PTL

\* Draining a joined ring takes every item it ever accepted.
THEOREM DrainIsComplete == Spec => []DrainTakesAll
<1>1. RInv => DrainTakesAll
  BY DEF RInv, DrainTakesAll, CountInv, StatsInv
<1> QED
  BY Induction, <1>1, PTL

(***************************************************************************)
(* tryPush rejects an item only when, by what it knows of the consumer,    *)
(* Capacity items are inside: the ring never wastes a slot.                *)
(***************************************************************************)
THEOREM RejectsFullRings == Spec => RejectsOnlyWhenFull
<1>1. RInv /\ [Next]_vars => [rejected' # rejected => Pushes - prodKnows' = Capacity]_vars
  <2> SUFFICES ASSUME RInv, Next, rejected' # rejected PROVE Pushes - prodKnows' = Capacity
    BY DEF vars, prodVars
  <2>1. PushLoad
    BY DEF Next, Producer, Consumer, PushStore, PushPublish, PushCount, Join, PopLoad, PopTake,
           PopRelease, PopCount, prodVars
  <2>2. PICK k \in prodSeen .. Len(tails) :
          prodKnows' = k - 1 /\ Increment(HeadIndex) = tails[k]
    BY <2>1 DEF PushLoad, Acquire
  <2>t. /\ Capacity \in Nat /\ prodSeen \in Nat \ {0} /\ consSeen \in Nat \ {0}
        /\ Pushes \in Nat /\ Len(heads) = Pushes + 1
        /\ Pops \in Nat /\ Len(tails) = Pops + 1
    BY CountType DEF RInv
  <2>n. /\ Pops < consSeen /\ consSeen <= Pushes + 1
        /\ prodSeen <= Pops + 1 /\ Pushes < Capacity + prodSeen
    BY <2>t DEF RInv, CountInv
  <2>3. /\ k \in 1 .. Len(tails) /\ Len(heads) \in 1 .. Len(heads) /\ k <= Len(heads)
        /\ Len(heads) <= k + Capacity /\ Len(heads) - k \in 0 .. Capacity
    BY <2>t, <2>n, <2>2
  <2>4. HeadIndex = Ahead(tails[k], Len(heads) - k) /\ tails[k] \in Slots
    BY <2>3, StoredType DEF RInv, IndexInv, HeadIndex
  <2>5. ASSUME Len(heads) - k < Capacity PROVE FALSE
    <3>1. Increment(HeadIndex) = Ahead(tails[k], Len(heads) - k + 1)
      BY <2>3, <2>4, <2>5, AheadStep
    <3>2. Len(heads) - k + 1 \in 1 .. Capacity
      BY <2>t, <2>3, <2>5
    <3> QED
      BY <2>2, <2>4, <3>1, <3>2, AheadSlot
  <2> QED
    BY <2>t, <2>2, <2>3, <2>5
<1> QED
  BY Induction, <1>1, PTL DEF Spec, RejectsOnlyWhenFull

-----------------------------------------------------------------------------
(* The ring implements the bounded FIFO.                                   *)

\* Where the ring's i-th item is.
ItemAt(i) == IF i = 1 /\ consAt = "release" THEN held ELSE slots[Ahead(TailIndex, i - 1)]

\* The queue has as many items as there are pushes without their pop.
ContentsFact ==
  /\ Contents = [i \in 1 .. Pushes - Pops |-> ItemAt(i)]
  /\ Pushes - Pops \in Nat
  /\ \A i \in 1 .. Pushes - Pops : Contents[i] = ItemAt(i)
  /\ \A i \in 1 .. Pushes - Pops : Ahead(TailIndex, i - 1) \in Slots

\* That holds in every state of the invariant.
LEMMA ContentsAre == RInv => ContentsFact
<1> SUFFICES ASSUME RInv PROVE ContentsFact
  OBVIOUS
<1>1. SizeOf(HeadIndex, TailIndex) = Pushes - Pops /\ Pushes - Pops \in 0 .. Capacity
  BY SizeCounts DEF SizeFact
<1>t. Capacity \in Nat /\ Pushes \in Nat /\ Pops \in Nat /\ TailIndex \in Slots
  BY CountType, IndexType DEF RInv
<1>2. ASSUME NEW i \in 1 .. Pushes - Pops
      PROVE  SlotAt(i - 1) = Ahead(TailIndex, i - 1)
  BY <1>1, <1>t DEF SlotAt, Ahead, Slots
<1>3. Contents = [i \in 1 .. Pushes - Pops |-> ItemAt(i)]
  BY <1>1, <1>2 DEF Contents, ItemAt
<1>4. \A i \in 1 .. Pushes - Pops : Ahead(TailIndex, i - 1) \in Slots
  <2>1. \A i \in 1 .. Pushes - Pops : i - 1 \in 0 .. Capacity
    BY <1>1, <1>t
  <2> QED
    BY <2>1, <1>t, AheadSlot
<1> QED
  BY <1>1, <1>3, <1>4, <1>t DEF ContentsFact

\* A function over an initial segment of the positive integers is a sequence.
LEMMA FunctionIsSeq ==
  ASSUME NEW S, NEW n \in Nat, NEW f \in [1 .. n -> S]
  PROVE  f \in Seq(S) /\ Len(f) = n
<1>1. f \in Seq(S)
  BY SeqDef
<1> QED
  BY <1>1, LenProperties

\* The items in the ring and those handed over, as sequences of attempts.
QueueTypes ==
  /\ Contents \in Seq(1 .. MaxItems) /\ Len(Contents) = Pushes - Pops
  /\ taken \in Seq(1 .. MaxItems) /\ Len(taken) = Pops

\* That holds in every state of the invariants.
LEMMA ContentsType == RInv /\ ItemInv => QueueTypes
<1> SUFFICES ASSUME RInv, ItemInv PROVE QueueTypes
  OBVIOUS
<1>1. Contents = [i \in 1 .. Pushes - Pops |-> ItemAt(i)] /\ Pushes - Pops \in Nat
  BY ContentsAre DEF ContentsFact
<1>2. offered \in 0 .. MaxItems /\ MaxItems \in Nat /\ taken \in Seq(0 .. MaxItems)
  BY RingAssumption DEF RInv, TypeOK, ProdTypes, ConsTypes
<1>3. \A i \in 1 .. Pushes - Pops : Contents[i] \in 1 .. MaxItems
  BY <1>2 DEF ItemInv
<1>4. Contents \in [1 .. Pushes - Pops -> 1 .. MaxItems]
  BY <1>1, <1>3
<1>5. \A k \in 1 .. Len(taken) : taken[k] \in 1 .. MaxItems
  BY <1>2 DEF ItemInv
<1>6. taken \in [1 .. Len(taken) -> 1 .. MaxItems] /\ Len(taken) \in Nat
  <2>1. taken \in [1 .. Len(taken) -> 0 .. MaxItems] /\ Len(taken) \in Nat
    BY <1>2, LenProperties
  <2> QED
    BY <2>1, <1>5
<1>7. Len(taken) = Pops
  BY DEF RInv, StatsInv
<1> QED
  BY <1>1, <1>4, <1>6, <1>7, FunctionIsSeq DEF QueueTypes

\* Every step but a publication and a release leaves the queue as it is.
LEMMA ContentsKept ==
  ASSUME RInv, RInv', ItemInv, [Next]_vars, UNCHANGED <<heads, tails>>
  PROVE  Contents' = Contents
<1>f. ContentsFact'
  BY ContentsAre, PTL
<1>t. /\ Capacity \in Nat /\ Pushes \in Nat /\ Pops \in Nat
      /\ HeadIndex \in Slots /\ TailIndex \in Slots
      /\ slots \in [Slots -> 0 .. MaxItems]
  BY CountType, IndexType DEF RInv, TypeOK, SharedTypes
<1>s. Pushes - Pops \in 0 .. Capacity /\ HeadIndex = Ahead(TailIndex, Pushes - Pops)
  BY SizeCounts DEF SizeFact
<1>u. Pushes' = Pushes /\ Pops' = Pops /\ TailIndex' = TailIndex
  BY DEF Pushes, Pops, TailIndex
<1>1. \A i \in 1 .. Pushes - Pops : ItemAt(i)' = ItemAt(i)
  <2>1. CASE PushStore
    <3>1. slots' = [slots EXCEPT ![HeadIndex] = offered] /\ UNCHANGED <<consAt, held>>
      BY <2>1 DEF PushStore, consVars
    <3>2. \A i \in 1 .. Pushes - Pops :
            Ahead(TailIndex, i - 1) \in Slots /\ Ahead(TailIndex, i - 1) # HeadIndex
      <4>1. \A i \in 1 .. Pushes - Pops : i - 1 \in 0 .. Capacity /\ i - 1 # Pushes - Pops
        BY <1>t, <1>s
      <4> QED
        BY <4>1, <1>t, <1>s, AheadSlot
    <3> QED
      BY <1>t, <1>u, <3>1, <3>2 DEF ItemAt, Ahead
  <2>2. CASE PopTake
    <3>1. slots' = [slots EXCEPT ![TailIndex] = 0] /\ held' = slots[TailIndex]
          /\ consAt = "take" /\ consAt' = "release"
      BY <2>2 DEF PopTake
    <3>2. Ahead(TailIndex, 0) = TailIndex
      BY <1>t, AheadSlot
    <3>3. ItemAt(1)' = ItemAt(1)
      BY <1>u, <3>1, <3>2 DEF ItemAt
    <3>4. ASSUME NEW i \in 1 .. Pushes - Pops, i # 1
          PROVE  Ahead(TailIndex, i - 1) \in Slots /\ Ahead(TailIndex, i - 1) # TailIndex
      <4>1. i - 1 \in 1 .. Capacity /\ i - 1 \in 0 .. Capacity
        BY <1>t, <1>s, <3>4
      <4> QED
        BY <4>1, <1>t, AheadSlot
    <3>5. ASSUME NEW i \in 1 .. Pushes - Pops, i # 1 PROVE ItemAt(i)' = ItemAt(i)
      <4>1. Ahead(TailIndex, i - 1)' = Ahead(TailIndex, i - 1)
        BY <1>u DEF Ahead
      <4> QED
        BY <1>t, <3>1, <3>4, <3>5, <4>1 DEF ItemAt
    <3> QED
      BY <3>3, <3>5
  <2>3. CASE PushLoad \/ PushCount \/ Join \/ PopLoad \/ PopCount \/ UNCHANGED vars
    <3>1. UNCHANGED <<slots, held>> /\ (consAt' = "release" <=> consAt = "release")
      BY <2>3 DEF PushLoad, PushCount, Join, PopLoad, PopCount, vars, prodVars, consVars
    <3> QED
      BY <1>u, <3>1 DEF ItemAt, Ahead
  <2>4. ~PushPublish /\ ~PopRelease
    <3>1. PushPublish => Len(heads') = Len(heads) + 1
      BY PublishHeads DEF RInv
    <3>2. PopRelease => Len(tails') = Len(tails) + 1
      BY ReleaseTails DEF RInv
    <3>3. Len(heads) \in Nat /\ Len(tails) \in Nat
      <4>1. TypeOK
        BY DEF RInv
      <4>2. Len(heads) = Pushes + 1 /\ Len(tails) = Pops + 1
        BY <4>1, CountType, Zenon
      <4> QED
        BY <1>t, <4>2
    <3> QED
      BY <3>1, <3>2, <3>3
  <2>5. PushPublish \/ PopRelease \/ (PushLoad \/ PushCount \/ Join
          \/ PopLoad \/ PopCount) \/ PushStore \/ PopTake \/ UNCHANGED vars
    BY DEF Next, Producer, Consumer
  <2> QED
    BY <2>1, <2>2, <2>3, <2>4, <2>5, Zenon
<1>2. Contents = [i \in 1 .. Pushes - Pops |-> ItemAt(i)]
  BY ContentsAre DEF ContentsFact
<1>3. Contents' = [i \in 1 .. Pushes' - Pops' |-> ItemAt(i)']
  BY <1>f DEF ContentsFact
<1> QED
  BY <1>1, <1>2, <1>3, <1>u

\* Publishing the head index appends the item.
LEMMA PublishAppends ==
  ASSUME RInv, RInv', ItemInv, PushPublish
  PROVE  /\ Pushes' = Pushes + 1 /\ Pops' = Pops
         /\ Pushes - Pops < Capacity
         /\ \A i \in 1 .. Pushes - Pops : Contents'[i] = Contents[i]
         /\ Contents'[Pushes - Pops + 1] = offered
<1>z. SizeFact'
  BY SizeCounts, PTL
<1>f. ContentsFact'
  BY ContentsAre, PTL
<1>t. /\ Capacity \in Nat /\ Pushes \in Nat /\ Pops \in Nat
      /\ HeadIndex \in Slots /\ TailIndex \in Slots
  BY CountType, IndexType DEF RInv
<1>s. Pushes - Pops \in 0 .. Capacity /\ HeadIndex = Ahead(TailIndex, Pushes - Pops)
  BY SizeCounts DEF SizeFact
<1>u. Pushes' = Pushes + 1 /\ Pops' = Pops /\ TailIndex' = TailIndex
      /\ UNCHANGED <<slots, held, consAt>> /\ prodAt = "publish"
  BY PublishHeads DEF PushPublish, Pops, TailIndex, consVars, RInv
<1>1. Pushes - Pops < Capacity
  <2>1. Pushes' - Pops' \in 0 .. Capacity
    BY <1>z DEF SizeFact
  <2> QED
    BY <2>1, <1>t, <1>u
<1>2. \A i : ItemAt(i)' = ItemAt(i)
  BY <1>u DEF ItemAt, Ahead
<1>3. \A i \in 1 .. Pushes' - Pops' : Contents'[i] = ItemAt(i)'
  BY <1>f DEF ContentsFact
<1>4. \A i \in 1 .. Pushes - Pops : Contents[i] = ItemAt(i)
  BY ContentsAre DEF ContentsFact
<1>5. \A i \in 1 .. Pushes - Pops : Contents'[i] = Contents[i]
  <2>1. \A i \in 1 .. Pushes - Pops : i \in 1 .. Pushes' - Pops'
    BY <1>t, <1>u
  <2> QED
    BY <2>1, <1>2, <1>3, <1>4
<1>6. Contents'[Pushes - Pops + 1] = offered
  <2>1. Pushes - Pops + 1 \in 1 .. Pushes' - Pops' /\ Pushes - Pops + 1 - 1 = Pushes - Pops
    BY <1>t, <1>u, <1>s
  <2>2. ~(Pushes - Pops + 1 = 1 /\ consAt = "release")
    <3>1. consAt = "release" => Pops + 1 < consSeen /\ consSeen <= Pushes + 1
      BY <1>t, CountType DEF RInv, CountInv
    <3>2. consSeen \in Nat
      BY CountType DEF RInv
    <3> QED
      BY <3>1, <3>2, <1>t
  <2>3. ItemAt(Pushes - Pops + 1) = slots[HeadIndex]
    BY <2>1, <2>2, <1>s DEF ItemAt
  <2>4. slots[HeadIndex] = offered
    BY <1>u DEF ItemInv
  <2> QED
    BY <2>1, <2>3, <2>4, <1>2, <1>3
<1> QED
  BY <1>u, <1>1, <1>5, <1>6

\* Releasing the slot hands over the head of the queue.
LEMMA ReleaseRemoves ==
  ASSUME RInv, RInv', ItemInv, PopRelease
  PROVE  /\ Pushes' = Pushes /\ Pops' = Pops + 1 /\ Pushes - Pops > 0
         /\ held = Contents[1]
         /\ \A i \in 1 .. Pushes - Pops - 1 : Contents'[i] = Contents[i + 1]
<1>z. SizeFact'
  BY SizeCounts, PTL
<1>f. ContentsFact'
  BY ContentsAre, PTL
<1>t. /\ Capacity \in Nat /\ Pushes \in Nat /\ Pops \in Nat /\ TailIndex \in Slots
  BY CountType, IndexType DEF RInv
<1>s. Pushes - Pops \in 0 .. Capacity
  BY SizeCounts DEF SizeFact
<1>u. Pushes' = Pushes /\ Pops' = Pops + 1 /\ TailIndex' = Increment(TailIndex)
      /\ UNCHANGED slots /\ consAt = "release" /\ consAt' = "count"
  BY ReleaseTails DEF PopRelease, Pushes, prodVars, RInv
<1>1. Pushes - Pops > 0
  <2>1. Pushes' - Pops' \in 0 .. Capacity
    BY <1>z DEF SizeFact
  <2> QED
    BY <2>1, <1>t, <1>u
<1>2. held = Contents[1]
  <2>1. 1 \in 1 .. Pushes - Pops
    BY <1>1, <1>t
  <2> QED
    BY <2>1, <1>u, ContentsAre DEF ContentsFact, ItemAt
<1>3. ASSUME NEW i \in 1 .. Pushes - Pops - 1 PROVE Contents'[i] = Contents[i + 1]
  <2>1. /\ i \in 1 .. Pushes' - Pops' /\ i + 1 \in 1 .. Pushes - Pops
        /\ i \in 1 .. Capacity /\ i + 1 # 1 /\ i + 1 - 1 = i
    BY <1>t, <1>s, <1>u
  <2>2. Contents'[i] = ItemAt(i)' /\ Contents[i + 1] = ItemAt(i + 1)
    BY <2>1, <1>f, ContentsAre DEF ContentsFact
  <2>3. ItemAt(i + 1) = slots[Ahead(TailIndex, i)]
    BY <2>1 DEF ItemAt
  <2>4. ItemAt(i)' = slots[Ahead(Increment(TailIndex), i - 1)]
    BY <1>u DEF ItemAt, Ahead
  <2>5. Ahead(Increment(TailIndex), i - 1) = Ahead(TailIndex, i)
    BY <2>1, <1>t, AheadStep
  <2> QED
    BY <2>2, <2>3, <2>4, <2>5
<1> QED
  BY <1>u, <1>1, <1>2, <1>3

\* The items stay ordered, and newer than everything handed over.
LEMMA ItemNext ==
  ASSUME RInv, RInv', ItemInv, [Next]_vars
  PROVE  ItemInv'
<1>t. /\ Pushes \in Nat /\ Pops \in Nat /\ offered \in Nat
      /\ Len(taken) \in Nat /\ Len(taken) = Pops
      /\ HeadIndex \in Slots /\ TailIndex \in Slots
      /\ slots \in [Slots -> 0 .. MaxItems]
  BY CountType, IndexType DEF RInv, StatsInv, TypeOK, SharedTypes
<1>s. Pushes - Pops \in 0 .. Capacity /\ HeadIndex = Ahead(TailIndex, Pushes - Pops)
  BY SizeCounts DEF SizeFact
<1>1. CASE UNCHANGED <<heads, tails>>
  <2>1. Contents' = Contents /\ Pushes' = Pushes /\ Pops' = Pops /\ HeadIndex' = HeadIndex
        /\ TailIndex' = TailIndex
    BY <1>1, ContentsKept DEF Pushes, Pops, HeadIndex, TailIndex
  <2>2. UNCHANGED taken
    <3>1. PopRelease => Len(tails') = Len(tails) + 1
      BY ReleaseTails DEF RInv
    <3>2. ~PopRelease
      BY <1>1, <3>1, <1>t, CountType DEF RInv
    <3> QED
      BY <3>2 DEF Next, Producer, Consumer, PushLoad, PushStore, PushPublish, PushCount, Join,
                  PopLoad, PopTake, PopCount, vars, consVars
  <2>3. \/ offered' = offered /\ (prodAt' \in {"store", "publish"} => prodAt \in {"store", "publish"})
        \/ offered' = offered + 1
    BY DEF Next, Producer, Consumer, PushLoad, PushStore, PushPublish, PushCount, Join,
           PopLoad, PopTake, PopRelease, PopCount, vars, prodVars, consVars
  <2>4. /\ \A i \in 1 .. Pushes - Pops :
             /\ Contents[i] \in 1 .. offered
             /\ prodAt \in {"store", "publish"} => Contents[i] < offered
             /\ \A j \in 1 .. i - 1 : Contents[j] < Contents[i]
             /\ \A k \in 1 .. Len(taken) : taken[k] < Contents[i]
        /\ \A k \in 1 .. Len(taken) :
             taken[k] \in 1 .. offered /\ (prodAt \in {"store", "publish"} => taken[k] < offered)
    BY DEF ItemInv
  <2>5. \A x \in 1 .. offered :
          /\ x \in 1 .. offered'
          /\ (prodAt \in {"store", "publish"} => x < offered) =>
               (prodAt' \in {"store", "publish"} => x < offered')
    BY <1>t, <2>3
  <2>6. prodAt' = "publish" => slots'[HeadIndex] = offered'
    <3>1. CASE PushStore
      BY <3>1, <1>t DEF PushStore
    <3>2. CASE PopTake
      <4>1. slots' = [slots EXCEPT ![TailIndex] = 0] /\ UNCHANGED <<prodAt, offered>>
            /\ consAt = "take"
        BY <3>2 DEF PopTake, prodVars
      <4>2. HeadIndex # TailIndex
        <5>1. Pops + 1 < consSeen /\ consSeen <= Pushes + 1 /\ consSeen \in Nat
          BY <4>1, CountType DEF RInv, CountInv
        <5>2. Pushes - Pops \in 1 .. Capacity
          BY <5>1, <1>t, <1>s
        <5> QED
          BY <5>2, <1>s, <1>t, AheadSlot
      <4> QED
        BY <4>1, <4>2, <1>t DEF ItemInv
    <3>3. CASE ~PushStore /\ ~PopTake
      <4>1. UNCHANGED slots
            /\ (prodAt' = "publish" => prodAt = "publish" /\ offered' = offered)
        BY <3>3 DEF Next, Producer, Consumer, PushLoad, PushPublish, PushCount, Join, PopLoad,
           PopRelease, PopCount, vars, prodVars, consVars
      <4> QED
        BY <4>1 DEF ItemInv
    <3> QED
      BY <3>1, <3>2, <3>3
  <2> QED
    BY <2>1, <2>2, <2>4, <2>5, <2>6 DEF ItemInv
<1>2. CASE PushPublish
  <2>1. /\ Pushes' = Pushes + 1 /\ Pops' = Pops
        /\ \A i \in 1 .. Pushes - Pops : Contents'[i] = Contents[i]
        /\ Contents'[Pushes - Pops + 1] = offered
    BY <1>2, PublishAppends
  <2>2. UNCHANGED <<offered, taken>> /\ prodAt = "publish" /\ prodAt' = "count"
    BY <1>2 DEF PushPublish, consVars
  <2>3. \A k \in 1 .. Len(taken) : taken[k] \in 1 .. offered /\ taken[k] < offered
    BY <2>2 DEF ItemInv
  <2>4. ASSUME NEW i \in 1 .. Pushes' - Pops'
        PROVE  /\ Contents'[i] \in 1 .. offered
               /\ \A j \in 1 .. i - 1 : Contents'[j] < Contents'[i]
               /\ \A k \in 1 .. Len(taken) : taken[k] < Contents'[i]
    <3>1. CASE i \in 1 .. Pushes - Pops
      <4>1. \A j \in 1 .. i - 1 : j \in 1 .. Pushes - Pops
        BY <3>1, <1>t
      <4> QED
        BY <3>1, <4>1, <2>1 DEF ItemInv
    <3>2. CASE i = Pushes - Pops + 1
      <4>1. \A j \in 1 .. i - 1 : j \in 1 .. Pushes - Pops
        BY <3>2, <1>t
      <4>2. \A j \in 1 .. Pushes - Pops : Contents[j] \in 1 .. offered /\ Contents[j] < offered
        BY <2>2 DEF ItemInv
      <4>3. offered \in 1 .. offered
        <5>1. offered = Pushes + rejected + 1 /\ rejected \in Nat
          BY <2>2, CountType DEF RInv, StatsInv
        <5> QED
          BY <5>1, <1>t
      <4> QED
        BY <3>2, <4>1, <4>2, <4>3, <2>1, <2>3
    <3> QED
      BY <3>1, <3>2, <2>1, <1>t
  <2> QED
    BY <2>2, <2>3, <2>4 DEF ItemInv
<1>3. CASE PopRelease
  <2>1. /\ Pushes' = Pushes /\ Pops' = Pops + 1 /\ Pushes - Pops > 0
        /\ held = Contents[1]
        /\ \A i \in 1 .. Pushes - Pops - 1 : Contents'[i] = Contents[i + 1]
    BY <1>3, ReleaseRemoves
  <2>2. UNCHANGED <<offered, slots, prodAt, heads>> /\ HeadIndex' = HeadIndex
    BY <1>3 DEF PopRelease, prodVars, HeadIndex
  <2>3. /\ Len(taken') = Len(taken) + 1
        /\ \A k \in 1 .. Len(taken) : taken'[k] = taken[k]
        /\ taken'[Len(taken) + 1] = held
    BY <1>3, ReleaseTaken DEF RInv
  <2>4. 1 \in 1 .. Pushes - Pops
    BY <2>1, <1>t
  <2>5. ASSUME NEW k \in 1 .. Len(taken')
        PROVE  /\ taken'[k] \in 1 .. offered
               /\ prodAt \in {"store", "publish"} => taken'[k] < offered
               /\ \A i \in 2 .. Pushes - Pops : taken'[k] < Contents[i]
    <3>0. \A i \in 2 .. Pushes - Pops : i \in 1 .. Pushes - Pops /\ 1 \in 1 .. i - 1
      BY <1>t
    <3>1. CASE k \in 1 .. Len(taken)
      BY <3>0, <3>1, <2>3 DEF ItemInv
    <3>2. CASE k = Len(taken) + 1
      BY <3>0, <3>2, <2>1, <2>3, <2>4 DEF ItemInv
    <3> QED
      BY <3>1, <3>2, <2>3, <1>t
  <2>6. ASSUME NEW i \in 1 .. Pushes' - Pops'
        PROVE  /\ Contents'[i] \in 1 .. offered
               /\ prodAt \in {"store", "publish"} => Contents'[i] < offered
               /\ \A j \in 1 .. i - 1 : Contents'[j] < Contents'[i]
               /\ \A k \in 1 .. Len(taken') : taken'[k] < Contents'[i]
    <3>1. /\ i \in 1 .. Pushes - Pops - 1 /\ i + 1 \in 2 .. Pushes - Pops
          /\ i + 1 \in 1 .. Pushes - Pops
          /\ \A j \in 1 .. i - 1 : j \in 1 .. Pushes - Pops - 1 /\ j + 1 \in 1 .. (i + 1) - 1
      BY <2>1, <1>t
    <3>2. Contents'[i] = Contents[i + 1] /\ \A j \in 1 .. i - 1 : Contents'[j] = Contents[j + 1]
      BY <3>1, <2>1
    <3>3. \A j \in 1 .. (i + 1) - 1 : Contents[j] < Contents[i + 1]
      BY <3>1 DEF ItemInv
    <3>4. \A k \in 1 .. Len(taken') : taken'[k] < Contents[i + 1]
      BY <3>1, <2>5
    <3>5. Contents[i + 1] \in 1 .. offered
          /\ (prodAt \in {"store", "publish"} => Contents[i + 1] < offered)
      BY <3>1 DEF ItemInv
    <3> QED
      BY <3>1, <3>2, <3>3, <3>4, <3>5
  <2>7. prodAt = "publish" => slots[HeadIndex] = offered
    BY DEF ItemInv
  <2> QED
    BY <2>2, <2>5, <2>6, <2>7 DEF ItemInv
<1> QED
  BY <1>1, <1>2, <1>3
  DEF Next, Producer, Consumer, PushLoad, PushStore, PushCount, Join, PopLoad, PopTake,
      PopCount, vars, prodVars, consVars

\* A newly made ring is an empty queue.
LEMMA InitFifo == Init => ItemInv /\ Contents = <<>>
<1> SUFFICES ASSUME Init PROVE ItemInv /\ Contents = <<>>
  OBVIOUS
<1>1. RInv
  BY InitInv
<1>2. Pushes = 0 /\ Pops = 0 /\ Len(taken) = 0 /\ prodAt = "idle"
  BY DEF Init, Pushes, Pops
<1>3. Contents = [i \in 1 .. Pushes - Pops |-> ItemAt(i)]
  BY <1>1, ContentsAre DEF ContentsFact
<1>4. Contents = <<>>
  BY <1>2, <1>3
<1> QED
  BY <1>2, <1>4 DEF ItemInv

\* The items satisfy their invariant throughout.
LEMMA ItemInduction == Spec => []ItemInv
<1>1. RInv /\ RInv' /\ ItemInv /\ [Next]_vars => ItemInv'
  BY ItemNext
<1>2. Init => ItemInv
  BY InitFifo
<1> QED
  BY <1>1, <1>2, Induction, PTL DEF Spec

\* Every step of the ring is a push, a pop or nothing in the queue.
LEMMA FifoStep ==
  ASSUME RInv, RInv', ItemInv, ItemInv', [Next]_vars
  PROVE  [Fifo!Next]_(Fifo!fifoVars)
<1>t. Pushes \in Nat /\ Pops \in Nat /\ Pushes - Pops \in Nat /\ MaxItems \in Nat
  BY CountType, ContentsAre DEF RInv, ContentsFact
<1>q. /\ Contents \in Seq(1 .. MaxItems) /\ Len(Contents) = Pushes - Pops
      /\ taken \in Seq(1 .. MaxItems)
  BY ContentsType DEF QueueTypes
<1>r. Contents' \in Seq(1 .. MaxItems) /\ Len(Contents') = Pushes' - Pops'
  <2>1. QueueTypes'
    BY ContentsType, PTL
  <2> QED
    BY <2>1 DEF QueueTypes
<1>1. CASE UNCHANGED <<heads, tails>>
  <2>1. Contents' = Contents
    BY <1>1, ContentsKept
  <2>2. UNCHANGED taken
    <3>1. PopRelease => Len(tails') = Len(tails) + 1
      BY ReleaseTails DEF RInv
    <3>2. ~PopRelease
      BY <1>1, <3>1, CountType DEF RInv
    <3> QED
      BY <3>2 DEF Next, Producer, Consumer, PushLoad, PushStore, PushPublish, PushCount, Join,
                  PopLoad, PopTake, PopCount, vars, consVars
  <2> QED
    BY <2>1, <2>2 DEF Fifo!fifoVars
<1>2. CASE PushPublish
  <2>1. /\ Pushes' = Pushes + 1 /\ Pops' = Pops /\ Pushes - Pops < Capacity
        /\ \A i \in 1 .. Pushes - Pops : Contents'[i] = Contents[i]
        /\ Contents'[Pushes - Pops + 1] = offered
    BY <1>2, PublishAppends
  <2>2. UNCHANGED taken /\ prodAt = "publish"
    BY <1>2 DEF PushPublish, consVars
  <2>3. offered \in 1 .. MaxItems
    <3>1. offered \in 0 .. MaxItems
      BY DEF RInv, TypeOK, ProdTypes
    <3>2. offered = Pushes + rejected + 1 /\ rejected \in Nat
      BY <2>2, CountType DEF RInv, StatsInv
    <3> QED
      BY <3>1, <3>2, <1>t
  <2>4. Contents' = Append(Contents, offered)
    <3>1. /\ Append(Contents, offered) \in Seq(1 .. MaxItems)
          /\ Len(Append(Contents, offered)) = Len(Contents) + 1
          /\ \A i \in 1 .. Len(Contents) : Append(Contents, offered)[i] = Contents[i]
          /\ Append(Contents, offered)[Len(Contents) + 1] = offered
      BY <1>q, <2>3, AppendProperties
    <3>2. Len(Contents') = Len(Append(Contents, offered))
      BY <1>q, <1>r, <2>1, <3>1, <1>t
    <3>3. \A i \in 1 .. Len(Contents') : Contents'[i] = Append(Contents, offered)[i]
      <4>1. \A i \in 1 .. Len(Contents') :
              i \in 1 .. Pushes - Pops \/ i = Pushes - Pops + 1
        BY <1>r, <2>1, <1>t
      <4> QED
        BY <4>1, <2>1, <3>1, <1>q
    <3> QED
      BY <1>r, <3>1, <3>2, <3>3, SeqEqual
  <2>5. Fifo!Newer(offered)
    <3>1. \A i \in 1 .. Pushes - Pops : Contents[i] < offered
      BY <2>2 DEF ItemInv
    <3>2. \A k \in 1 .. Len(taken) : taken[k] < offered
      BY <2>2 DEF ItemInv
    <3> QED
      BY <3>1, <3>2, <1>q DEF Fifo!Newer
  <2> QED
    BY <2>1, <2>2, <2>3, <2>4, <2>5, <1>q DEF Fifo!Next, Fifo!Push
<1>3. CASE PopRelease
  <2>1. /\ Pushes' = Pushes /\ Pops' = Pops + 1 /\ Pushes - Pops > 0
        /\ held = Contents[1]
        /\ \A i \in 1 .. Pushes - Pops - 1 : Contents'[i] = Contents[i + 1]
    BY <1>3, ReleaseRemoves
  <2>2. Contents # <<>>
    BY <2>1, <1>q, EmptySeq
  <2>3. Head(Contents) = held
    BY <2>1, <1>q, <2>2
  <2>4. Contents' = Tail(Contents)
    <3>1. /\ Tail(Contents) \in Seq(1 .. MaxItems) /\ Len(Tail(Contents)) = Len(Contents) - 1
          /\ \A i \in 1 .. Len(Tail(Contents)) : Tail(Contents)[i] = Contents[i + 1]
      BY <1>q, <2>2, HeadTailProperties
    <3>2. Len(Contents') = Len(Tail(Contents)) /\ Len(Contents') = Pushes - Pops - 1
      BY <1>q, <1>r, <2>1, <3>1, <1>t
    <3>3. \A i \in 1 .. Len(Contents') : Contents'[i] = Tail(Contents)[i]
      BY <3>1, <3>2, <2>1
    <3> QED
      BY <1>r, <3>1, <3>2, <3>3, SeqEqual
  <2>5. taken' = Append(taken, held)
    BY <1>3 DEF PopRelease
  <2> QED
    BY <2>2, <2>3, <2>4, <2>5 DEF Fifo!Next, Fifo!Pop
<1> QED
  BY <1>1, <1>2, <1>3
  DEF Next, Producer, Consumer, PushLoad, PushStore, PushCount, Join, PopLoad, PopTake,
      PopCount, vars, prodVars, consVars

(***************************************************************************)
(* SpscRingBuffer is a bounded FIFO: tryPush takes effect where head_ is   *)
(* stored, tryPop where tail_ is, whatever values the two threads read of  *)
(* each other's index.                                                     *)
(***************************************************************************)
THEOREM RingIsFifo == Spec => ImplementsFifo
<1>1. Init => Fifo!Init
  BY InitFifo DEF Fifo!Init, Init
<1>2. RInv /\ RInv' /\ ItemInv /\ ItemInv' /\ [Next]_vars => [Fifo!Next]_(Fifo!fifoVars)
  BY FifoStep
<1> QED
  BY <1>1, <1>2, Induction, ItemInduction, PTL DEF Spec, ImplementsFifo, Fifo!Spec

=============================================================================
