--------------------------- MODULE ProducerProofs ---------------------------
(***************************************************************************)
(* What SttProducer promises for every pair of rates, filter length, frame *)
(* size and sequence of input frames: the stream is its reference, its     *)
(* flags mark the resets, its timestamps count the audio.                  *)
(*                                                                         *)
(* The reference counts the samples due in everything heard so far, the    *)
(* code in the frame at hand.  What joins them is a closed form: from a    *)
(* phase, the k-th sample due is DueAt(F, from, k), and DueCount(F, from,  *)
(* n) of n samples are due.  The bijection between the two gives every     *)
(* cardinality the reference is made of.                                   *)
(***************************************************************************)
EXTENDS SttProducer, FiniteSetTheorems, SequenceTheorems, TLAPS

-----------------------------------------------------------------------------
(* Division with remainder.                                                *)

\* Dividend, quotient and remainder.
LEMMA Division ==
  ASSUME NEW a \in Nat, NEW b \in Nat \ {0}
  PROVE  a \div b \in Nat /\ a % b \in 0 .. b - 1 /\ a = b * (a \div b) + (a % b)
BY SMT

\* Where they are determined by each other.
LEMMA DivisionIs ==
  ASSUME NEW b \in Nat \ {0}, NEW q \in Nat, NEW r \in 0 .. b - 1
  PROVE  (b * q + r) \div b = q /\ (b * q + r) % b = r
BY SMT

\* The multiples of a number.
LEMMA Multiple ==
  ASSUME NEW b \in Nat \ {0}, NEW q \in Nat
  PROVE  (b * q) \div b = q /\ (b * q) % b = 0
BY SMT

\* The remainder of a sum needs only the remainder of its first part.
LEMMA RemainderOfSum ==
  ASSUME NEW x \in Nat, NEW y \in Nat, NEW b \in Nat \ {0}
  PROVE  ((x % b) + y) % b = (x + y) % b
<1>. DEFINE q == x \div b
            r == x % b
            p == (r + y) \div b
            s == (r + y) % b
<1>1. q \in Nat /\ r \in 0 .. b - 1 /\ x = b * q + r
  BY Division
<1>2. r + y \in Nat
  BY <1>1
<1>3. p \in Nat /\ s \in 0 .. b - 1 /\ r + y = b * p + s
  BY <1>2, Division
<1>. HIDE DEF q, r, p, s
<1>4. q + p \in Nat /\ x + y = b * (q + p) + s
  BY <1>1, <1>3
<1>5. (b * (q + p) + s) % b = s
  BY <1>3, <1>4, DivisionIs
<1>. QED
  BY <1>4, <1>5 DEF s, r

\* The first n numbers are n.
LEMMA IntervalSize ==
  ASSUME NEW n \in Nat
  PROVE  IsFiniteSet(1 .. n) /\ Cardinality(1 .. n) = n
<1>1. 1 \in Int /\ n \in Int
  OBVIOUS
<1>2. IsFiniteSet(1 .. n) /\ Cardinality(1 .. n) = IF 1 > n THEN 0 ELSE n - 1 + 1
  BY <1>1, FS_Interval, Zenon
<1>. QED
  BY <1>2

-----------------------------------------------------------------------------
(* The samples due from a phase.                                           *)

\* A sample of the turn that is under way was due before.
Begun(from) == IF from = 0 THEN 0 ELSE 1

\* How many of the next n samples are due, and which is the k-th.
DueCount(F, from, n) == (from + n + F - 1) \div F - Begun(from)
DueAt(F, from, k) == F * (k - 1 + Begun(from)) + 1 - from

LEMMA DueType ==
  ASSUME NEW F \in Nat \ {0}, NEW from \in 0 .. F - 1, NEW k \in Int
  PROVE  DueAt(F, from, k) \in Int
BY DEF DueAt, Begun

\* The samples due are DueAt(F, from, 1), ..., DueAt(F, from, DueCount(F, from, n)).
LEMMA DuePositions ==
  ASSUME NEW F \in Nat \ {0}, NEW from \in 0 .. F - 1, NEW n \in Nat
  PROVE  /\ DueCount(F, from, n) \in Nat
         /\ \A k \in 1 .. DueCount(F, from, n) :
              DueAt(F, from, k) \in 1 .. n /\ (from + DueAt(F, from, k) - 1) % F = 0
         /\ \A j \in 1 .. n :
              (from + j - 1) % F = 0 =>
                \E k \in 1 .. DueCount(F, from, n) : j = DueAt(F, from, k)
<1>. DEFINE B == Begun(from)
            q == (from + n + F - 1) \div F
            r == (from + n + F - 1) % F
<1>1. B \in {0, 1} /\ (B = 0 <=> from = 0)
  BY DEF Begun
<1>2. q \in Nat /\ r \in 0 .. F - 1 /\ from + n + F - 1 = F * q + r
  <2>1. from + n + F - 1 \in Nat
    OBVIOUS
  <2>. QED
    BY <2>1, Division
<1>. HIDE DEF B, q, r
<1>3. q - B \in Nat
  <2>1. CASE from = 0
    BY <2>1, <1>1, <1>2
  <2>2. CASE from # 0
    <3>1. F * q > 0
      BY <2>2, <1>2
    <3>2. q > 0
      BY <3>1, <1>2
    <3>. QED
      BY <3>2, <1>1, <1>2
  <2>. QED
    BY <2>1, <2>2
<1>4. ASSUME NEW k \in 1 .. q - B
      PROVE  /\ F * (k - 1 + B) + 1 - from \in 1 .. n
             /\ (from + (F * (k - 1 + B) + 1 - from) - 1) % F = 0
  <2>1. k - 1 + B \in Nat /\ k + B <= q
    BY <1>1, <1>2, <1>3
  <2>. DEFINE d == F * (k - 1 + B)
              e == F * q
  <2>2. d \in Int /\ e \in Int /\ from + n + F - 1 = e + r
    BY <2>1, <1>2
  <2>3. d + F <= e
    <3>1. F * (k + B) <= F * q
      BY <2>1, <1>1, <1>2
    <3>. QED
      BY <3>1, <2>1, <1>1
  <2>4. d >= from
    BY <1>1, <2>1
  <2>5. d % F = 0
    BY <2>1, Multiple
  <2>. HIDE DEF d, e
  <2>6. d + 1 - from \in 1 .. n
    BY <2>2, <2>3, <2>4, <1>2
  <2>7. from + (d + 1 - from) - 1 = d
    BY <2>2
  <2>. QED
    BY <2>5, <2>6, <2>7 DEF d
<1>5. ASSUME NEW j \in 1 .. n, (from + j - 1) % F = 0
      PROVE  \E k \in 1 .. q - B : j = F * (k - 1 + B) + 1 - from
  <2>. DEFINE p == (from + j - 1) \div F
  <2>1. p \in Nat /\ from + j - 1 = F * p
    <3>1. from + j - 1 \in Nat
      OBVIOUS
    <3>. QED
      BY <3>1, <1>5, Division
  <2>. HIDE DEF p
  <2>2. F * p < F * q
    BY <2>1, <1>2
  <2>3. p < q
    BY <2>1, <2>2, <1>2
  <2>4. p >= B
    <3>1. CASE from = 0
      BY <3>1, <2>1, <1>1
    <3>2. CASE from # 0
      <4>1. F * p > 0
        BY <3>2, <2>1
      <4>. QED
        BY <4>1, <2>1, <1>1
    <3>. QED
      BY <3>1, <3>2
  <2>. DEFINE k == p - B + 1
  <2>5. k \in 1 .. q - B /\ k - 1 + B = p
    BY <2>1, <2>3, <2>4, <1>1, <1>2
  <2>. HIDE DEF k
  <2>6. j = F * (k - 1 + B) + 1 - from
    BY <2>1, <2>5
  <2>. QED
    BY <2>5, <2>6
<1>. QED
  BY <1>3, <1>4, <1>5 DEF DueCount, DueAt, B, q

\* The positions increase, and their number up to the k-th is k.
LEMMA DueOrder ==
  ASSUME NEW F \in Nat \ {0}, NEW from \in 0 .. F - 1, NEW k \in Nat \ {0}
  PROVE  /\ DueCount(F, from, DueAt(F, from, k)) = k
         /\ \A l \in Nat \ {0} : DueAt(F, from, k) = DueAt(F, from, l) => k = l
<1>. DEFINE B == Begun(from)
<1>1. B \in {0, 1}
  BY DEF Begun
<1>. HIDE DEF B
<1>2. k + B \in Nat /\ k - 1 + B \in Nat
  BY <1>1
<1>. DEFINE d == F * (k - 1 + B)
<1>3. d \in Int /\ d + F = F * (k + B)
  BY <1>2, <1>1
<1>4. (F * (k + B)) \div F = k + B
  BY <1>2, Multiple
<1>5. F * (k + B) \in Int
  BY <1>2
<1>. HIDE DEF d
<1>6. from + (d + 1 - from) + F - 1 = F * (k + B)
  BY <1>3, <1>5
<1>7. (from + (d + 1 - from) + F - 1) \div F - B = k
  BY <1>4, <1>6, <1>1
<1>8. ASSUME NEW l \in Nat \ {0}, d + 1 - from = F * (l - 1 + B) + 1 - from
      PROVE  k = l
  <2>1. F * (k - 1 + B) = F * (l - 1 + B)
    BY <1>1, <1>3, <1>8 DEF d
  <2>2. k - 1 + B = l - 1 + B
    BY <2>1, <1>1
  <2>. QED
    BY <2>2, <1>1
<1>. QED
  BY <1>3, <1>7, <1>8 DEF DueCount, DueAt, B, d

\* The samples due among n after L others.
DueAfter(F, from, L, n) == {i \in L + 1 .. L + n : (from + (i - L) - 1) % F = 0}

\* There are DueCount(F, from, n) of them.
LEMMA DueCardinality ==
  ASSUME NEW F \in Nat \ {0}, NEW from \in 0 .. F - 1, NEW L \in Nat, NEW n \in Nat
  PROVE  /\ IsFiniteSet(DueAfter(F, from, L, n))
         /\ Cardinality(DueAfter(F, from, L, n)) = DueCount(F, from, n)
<1>. DEFINE N == DueCount(F, from, n)
            T == DueAfter(F, from, L, n)
            f == [k \in 1 .. N |-> L + DueAt(F, from, k)]
<1>1. N \in Nat
  BY DuePositions
<1>2. ASSUME NEW k \in 1 .. N
      PROVE  L + DueAt(F, from, k) \in T
  <2>1. DueAt(F, from, k) \in 1 .. n /\ (from + DueAt(F, from, k) - 1) % F = 0
    BY DuePositions
  <2>. DEFINE d == DueAt(F, from, k)
  <2>. HIDE DEF d
  <2>2. L + d \in L + 1 .. L + n /\ (L + d) - L = d
    BY <2>1 DEF d
  <2>3. (from + ((L + d) - L) - 1) % F = 0
    BY <2>1, <2>2 DEF d
  <2>. QED
    BY <2>2, <2>3 DEF DueAfter, d
<1>3. ASSUME NEW i \in T
      PROVE  \E k \in 1 .. N : i = L + DueAt(F, from, k)
  <2>1. i - L \in 1 .. n /\ (from + (i - L) - 1) % F = 0
    BY DEF DueAfter
  <2>2. \A j \in 1 .. n :
          (from + j - 1) % F = 0 => \E k \in 1 .. N : j = DueAt(F, from, k)
    BY DuePositions
  <2>. PICK k \in 1 .. N : i - L = DueAt(F, from, k)
    BY <2>1, <2>2
  <2>3. i \in Int
    BY DEF DueAfter
  <2>4. i = L + DueAt(F, from, k)
    BY <2>3, DueType
  <2>. QED
    BY <2>4
<1>4. ASSUME NEW k \in 1 .. N, NEW l \in 1 .. N, L + DueAt(F, from, k) = L + DueAt(F, from, l)
      PROVE  k = l
  <2>1. k \in Nat \ {0} /\ l \in Nat \ {0}
    BY <1>1
  <2>2. DueAt(F, from, k) \in Int /\ DueAt(F, from, l) \in Int
    BY <2>1, DueType
  <2>3. \A a, b \in Int : L + a = L + b => a = b
    OBVIOUS
  <2>4. DueAt(F, from, k) = DueAt(F, from, l)
    BY <1>4, <2>2, <2>3, Zenon
  <2>. QED
    BY <2>1, <2>4, DueOrder
<1>. HIDE DEF N, T
<1>5. f \in [1 .. N -> T]
  BY <1>2
<1>6. f \in Bijection(1 .. N, T)
  BY <1>3, <1>4, <1>5 DEF Bijection, Injection, Surjection, IsInjective
<1>7. ExistsBijection(1 .. N, T)
  BY <1>6 DEF ExistsBijection
<1>. QED
  BY <1>1, <1>7, FS_CountingElements, FS_NatBijection DEF N, T

-----------------------------------------------------------------------------
(* The invariant.                                                          *)

Heard == [time : Nat, resets : Nat]
Samples == [first : Int, last : Nat]
Frames == [timestamp : Nat, disc : BOOLEAN, samples : Seq(Samples)]

TypeInv ==
  /\ format \in StreamFormats
  /\ heard \in Seq(Heard) /\ emitted \in Seq(Frames) /\ pending \in Seq(Samples)
  /\ phase \in Nat /\ filled \in Nat /\ resets \in Nat /\ samplesEmitted \in Nat
  /\ pendingDisc \in BOOLEAN
  /\ anchor \in Seq(Nat) /\ Len(anchor) <= 1 /\ clock \in Nat /\ calls \in Nat
  /\ ~Created => heard = <<>> /\ emitted = <<>>

\* The samples due in everything heard, and the first one since reset().
DueSamples == {i \in 1 .. Len(heard) : IsDue(i)}
Epoch == Cardinality({j \in 1 .. Len(heard) : heard[j].resets < resets}) + 1

\* The filter knows how far the present stretch has come.
FilterInv ==
  /\ phase = (Len(heard) - Epoch + 1) % Factor
  /\ filled = FilterWidth(0, Len(heard) - Epoch + 1)
  /\ \A i \in 1 .. Len(heard) : heard[i].resets <= resets

\* The samples of the stream were heard, and fill whole frames up to pending.
StreamInv ==
  /\ samplesEmitted = FrameSize * Len(emitted)
  /\ \A k \in 1 .. StreamLength : SampleAt(k).last \in 1 .. Len(heard)

\* The flag is due exactly when the last sample sent is of an earlier stretch.
FlagInv == pendingDisc <=> ResetsBefore(samplesEmitted) # resets

ProducerInv ==
  /\ TypeInv
  /\ Created => FilterInv /\ StreamInv /\ FlagInv
  /\ StreamIsTheReference /\ FlagsMarkResets

\* What the turn under way still lacks.
Pad(F, from) == F * Begun(from) - from

\* At the k-th sample, and at the end of what was heard, the stream is ahead
\* by what the resets cut off.
AheadInv ==
  /\ Factor * StreamLength - Len(heard) - Pad(Factor, phase) \in 0 .. (Factor - 1) * resets
  /\ \A k \in 1 .. StreamLength :
       Factor * (k - 1) - (SampleAt(k).last - 1)
         \in 0 .. (Factor - 1) * heard[SampleAt(k).last].resets

\* The anchor is the first sample's time, and frames are stamped from it.
AnchorInv ==
  /\ IF heard = <<>> THEN anchor = <<>> ELSE anchor = <<heard[1].time>>
  /\ \A n \in 1 .. Len(emitted) :
       emitted[n].timestamp = Stamp(anchor[1], FrameSize * (n - 1))

-----------------------------------------------------------------------------
(* The sizes, and what the decimator returns.                              *)

\* What a producer that create() returned can rely on.
LEMMA Sizes ==
  ASSUME TypeInv, Created
  PROVE  /\ Factor \in Nat \ {0} /\ FrameSize \in Nat \ {0} /\ TapCount \in Nat \ {0}
         /\ format.hz \in Nat \ {0} /\ InputHz = format.hz * Factor
         /\ InputHz \in Nat \ {0} /\ Second \in Nat \ {0}
         /\ FrameSamples \subseteq Nat /\ Skips \subseteq Nat
<1>1. /\ InputHz \in Nat \ {0} /\ Second \in Nat \ {0} /\ Taps \in Nat \ {0}
      /\ FrameSamples \subseteq Nat /\ Skips \subseteq Nat
  BY ProducerAssumption DEF ProducerAssumption
<1>2. format.hz \in Nat /\ format.ms \in Nat
  BY ProducerAssumption DEF ProducerAssumption, TypeInv
<1>3. format.hz \in Nat \ {0} /\ InputHz % format.hz = 0 /\ FrameSize > 0
  BY <1>2 DEF Created
<1>4. Factor \in Nat /\ InputHz = format.hz * Factor + (InputHz % format.hz)
  BY <1>1, <1>3, Division DEF Factor
<1>5. Factor # 0
  BY <1>1, <1>3, <1>4
<1>6. format.hz * format.ms \in Nat
  BY <1>2
<1>7. FrameSize \in Nat
  BY <1>6, Division DEF FrameSize
<1>8. TapCount \in Nat \ {0}
  BY <1>1 DEF TapCount
<1>. QED
  BY <1>1, <1>3, <1>4, <1>5, <1>7, <1>8

\* FirDecimator::process() yields the samples due, in order.
LEMMA DecimateIs ==
  ASSUME TypeInv, Created,
         NEW size \in Nat, NEW from \in 0 .. Factor - 1, NEW history \in Nat
  PROVE  Decimate(size, from, history) =
           [k \in 1 .. DueCount(Factor, from, size) |->
              Filtered(DueAt(Factor, from, k), history)]
<1>. DEFINE F == Factor
            N == DueCount(F, from, size)
            due == DueIn(size, from)
            rank(i) == Cardinality({j \in due : j <= i})
<1>1. F \in Nat \ {0} /\ N \in Nat
  BY Sizes, DuePositions
<1>2. Cardinality(due) = N
  <2>1. DueAfter(F, from, 0, size) = due
    BY DEF DueAfter, DueIn
  <2>2. 0 \in Nat /\ F \in Nat \ {0} /\ from \in 0 .. F - 1
    BY <1>1
  <2>. HIDE DEF F, due
  <2>3. Cardinality(DueAfter(F, from, 0, size)) = DueCount(F, from, size)
    BY <2>2, DueCardinality, Zenon
  <2>. QED
    BY <2>1, <2>3
<1>3. ASSUME NEW k \in 1 .. N
      PROVE  DueAt(F, from, k) \in due /\ rank(DueAt(F, from, k)) = k
  <2>. DEFINE d == DueAt(F, from, k)
  <2>1. d \in 1 .. size /\ (from + d - 1) % F = 0
    BY <1>1, DuePositions
  <2>2. DueCount(F, from, d) = k
    BY <1>1, DueOrder
  <2>. HIDE DEF d, F
  <2>3. {j \in due : j <= d} = DueAfter(F, from, 0, d)
    BY <2>1 DEF DueAfter, DueIn, F
  <2>4. 0 \in Nat /\ F \in Nat \ {0} /\ from \in 0 .. F - 1 /\ d \in Nat
    BY <1>1, <2>1 DEF F
  <2>5. Cardinality(DueAfter(F, from, 0, d)) = DueCount(F, from, d)
    BY <2>4, DueCardinality, Zenon
  <2>. QED
    BY <2>1, <2>2, <2>3, <2>5 DEF d, F, DueIn
<1>4. ASSUME NEW k \in 1 .. N
      PROVE  NthDue(size, from, k) = DueAt(F, from, k)
  <2>1. ASSUME NEW i \in due, rank(i) = k
        PROVE  i = DueAt(F, from, k)
    <3>1. PICK m \in 1 .. N : i = DueAt(F, from, m)
      BY <1>1, DuePositions DEF DueIn
    <3>2. rank(i) = m
      BY <1>3, <3>1
    <3>. QED
      BY <2>1, <3>1, <3>2
  <2>. QED
    BY <1>3, <2>1 DEF NthDue
<1>. QED
  BY <1>2, <1>4 DEF Decimate

-----------------------------------------------------------------------------
(* The loop that cuts frames.                                              *)

\* A function on the first n numbers is a sequence.
LEMMA FunctionIsSeq ==
  ASSUME NEW S, NEW n \in Nat, NEW f \in [1 .. n -> S]
  PROVE  f \in Seq(S) /\ Len(f) = n
<1>1. f \in Seq(S)
  BY SeqDef
<1>2. Len(f) \in Nat /\ DOMAIN f = 1 .. Len(f) /\ DOMAIN f = 1 .. n
  BY <1>1, LenProperties
<1>3. \A m \in Nat : 1 .. m = 1 .. n => m = n
  OBVIOUS
<1>. QED
  BY <1>1, <1>2, <1>3

\* A duration is a natural number of ticks.
LEMMA DurationType ==
  ASSUME NEW n \in Nat, NEW hz \in Nat \ {0}
  PROVE  Duration(n, hz) \in Nat
<1>1. n * Second \in Nat
  BY ProducerAssumption DEF ProducerAssumption
<1>. QED
  BY <1>1, Division DEF Duration

\* A frame cut out of a pool that fills it.
LEMMA OutputFrameIs ==
  ASSUME TypeInv, Created, NEW pool \in Seq(Samples), NEW disc \in BOOLEAN, NEW since \in Nat,
         NEW k \in 1 .. Len(pool) \div FrameSize
  PROVE  /\ OutputFrame(pool, disc, since, k) \in Frames
         /\ \A i \in 1 .. FrameSize :
              OutputFrame(pool, disc, since, k).samples[i] = pool[FrameSize * (k - 1) + i]
         /\ OutputFrame(pool, disc, since, k).disc = (disc /\ k = 1)
         /\ OutputFrame(pool, disc, since, k).timestamp
              = Stamp(since, samplesEmitted + FrameSize * (k - 1))
<1>. DEFINE F == FrameSize
            P == Len(pool)
            c == P \div F
            b == (k - 1) * F
            s == SubSeq(pool, b + 1, b + F)
<1>1. F \in Nat \ {0} /\ P \in Nat
  BY Sizes, LenProperties
<1>2. c \in Nat /\ F * c <= P
  <2>1. c \in Nat /\ P % F \in 0 .. F - 1 /\ P = F * c + (P % F)
    BY <1>1, Division
  <2>. HIDE DEF F, P, c
  <2>2. F * c \in Nat
    BY <2>1, <1>1
  <2>. QED
    BY <2>1, <2>2, <1>1
<1>3. b \in Nat /\ b + F <= P /\ b = F * (k - 1)
  <2>. HIDE DEF F, P, c
  <2>1. k \in Nat \ {0} /\ k <= c
    BY <1>2 DEF F, P, c
  <2>2. F * k <= F * c
    BY <2>1, <1>1, <1>2
  <2>3. b \in Nat /\ b = F * (k - 1) /\ b + F = F * k
    BY <2>1, <1>1
  <2>4. F * c \in Nat
    BY <1>1, <1>2
  <2>. QED
    BY <2>2, <2>3, <2>4, <1>1, <1>2
<1>. HIDE DEF F, P, c, b
<1>4. b + 1 \in Int /\ b + F \in Int /\ (b + F) - (b + 1) + 1 = F
  BY <1>1, <1>3
<1>5. \A i \in b + 1 .. b + F : pool[i] \in Samples
  <2>1. b + 1 .. b + F \subseteq 1 .. P
    BY <1>1, <1>3
  <2>. QED
    BY <2>1, ElementOfSeq DEF P
<1>6. s \in Seq(Samples) /\ \A i \in 1 .. F : s[i] = pool[(b + 1) + i - 1]
  <2>1. \A i \in 1 .. (b + F) - (b + 1) + 1 : s[i] = pool[(b + 1) + i - 1]
    BY <1>4, <1>5, SubSeqProperties
  <2>2. s \in Seq(Samples)
    BY <1>4, <1>5, SubSeqProperties, Zenon
  <2>. HIDE DEF s
  <2>. QED
    BY <2>1, <2>2, <1>4
<1>7. ASSUME NEW i \in 1 .. F
      PROVE  s[i] = pool[b + i]
  <2>1. (b + 1) + i - 1 = b + i
    BY <1>1, <1>3
  <2>. QED
    BY <2>1, <1>6
<1>8. samplesEmitted + b \in Nat
  BY <1>3 DEF TypeInv
<1>9. format.hz \in Nat \ {0}
  BY Sizes
<1>10. Stamp(since, samplesEmitted + b) \in Nat
  <2>1. Duration(samplesEmitted + b, format.hz) \in Nat
    BY <1>8, <1>9, DurationType
  <2>. QED
    BY <2>1 DEF Stamp
<1>. DEFINE stamp == Stamp(since, samplesEmitted + b)
<1>11. OutputFrame(pool, disc, since, k) = [timestamp |-> stamp, disc |-> disc /\ k = 1, samples |-> s]
  BY DEF OutputFrame, b, F
<1>. HIDE DEF s, stamp
<1>12. OutputFrame(pool, disc, since, k) \in Frames
  BY <1>6, <1>10, <1>11 DEF Frames, stamp
<1>. QED
  BY <1>3, <1>7, <1>11, <1>12 DEF F, stamp

\* What the loop does to the stream: it appends the pool's samples beyond those
\* sent, cuts off what fills frames, and stamps each frame by its place.
Extended(pool, disc, since) ==
  /\ emitted' \in Seq(Frames) /\ pending' \in Seq(Samples) /\ samplesEmitted' \in Nat
  /\ samplesEmitted' = FrameSize * Len(emitted')
  /\ Len(pending') < FrameSize
  /\ StreamLength' = samplesEmitted + Len(pool)
  /\ \A k \in 1 .. samplesEmitted : SampleAt(k)' = SampleAt(k)
  /\ \A k \in samplesEmitted + 1 .. samplesEmitted + Len(pool) :
       SampleAt(k)' = pool[k - samplesEmitted]
  /\ Len(emitted') = Len(emitted) + Len(pool) \div FrameSize
  /\ \A n \in 1 .. Len(emitted) : emitted'[n] = emitted[n]
  /\ \A n \in Len(emitted) + 1 .. Len(emitted') :
       /\ emitted'[n].disc = (disc /\ n = Len(emitted) + 1)
       /\ emitted'[n].timestamp = Stamp(since, FrameSize * (n - 1))

LEMMA Emission ==
  ASSUME TypeInv, Created, samplesEmitted = FrameSize * Len(emitted), format' = format,
         NEW pool \in Seq(Samples), NEW disc \in BOOLEAN, NEW since \in Nat,
         Emit(pool, disc, since)
  PROVE  Extended(pool, disc, since)
<1>. DEFINE F == FrameSize
            P == Len(pool)
            M == Len(emitted)
            E == samplesEmitted
            c == P \div F
            new == [j \in 1 .. c |-> OutputFrame(pool, disc, since, j)]
<1>1. F \in Nat \ {0} /\ P \in Nat /\ M \in Nat /\ E \in Nat /\ E = F * M /\ F' = F
  BY Sizes, LenProperties DEF TypeInv, FrameSize
<1>2. c \in Nat /\ F * c \in Nat /\ F * c <= P /\ P < F * c + F
  <2>1. c \in Nat /\ P % F \in 0 .. F - 1 /\ P = F * c + (P % F)
    BY <1>1, Division
  <2>. HIDE DEF F, P, c
  <2>2. F * c \in Nat
    BY <2>1, <1>1
  <2>. QED
    BY <2>1, <2>2, <1>1
<1>3. \A j \in 1 .. c :
        /\ OutputFrame(pool, disc, since, j) \in Frames
        /\ \A i \in 1 .. F : OutputFrame(pool, disc, since, j).samples[i] = pool[F * (j - 1) + i]
  BY OutputFrameIs
<1>4. new \in Seq(Frames) /\ Len(new) = c
  <2>. HIDE DEF c
  <2>1. new \in [1 .. c -> Frames]
    BY <1>3
  <2>. QED
    BY <2>1, <1>2, FunctionIsSeq
<1>5. emitted \in Seq(Frames) /\ emitted' = emitted \o new
  BY DEF Emit, TypeInv
<1>. HIDE DEF new
<1>6. emitted' \in Seq(Frames) /\ Len(emitted') = M + c
  <2>1. emitted \o new \in Seq(Frames) /\ Len(emitted \o new) = Len(emitted) + Len(new)
    BY <1>4, <1>5, ConcatProperties
  <2>. QED
    BY <2>1, <1>4, <1>5
<1>7. \A n \in 1 .. M + c : emitted'[n] = IF n <= M THEN emitted[n] ELSE new[n - M]
  <2>1. \A n \in 1 .. Len(emitted) + Len(new) :
          (emitted \o new)[n] = IF n <= Len(emitted) THEN emitted[n] ELSE new[n - Len(emitted)]
    BY <1>4, <1>5, ConcatProperties
  <2>. QED
    BY <2>1, <1>4, <1>5
<1>8. ASSUME NEW n \in M + 1 .. M + c
      PROVE  n - M \in 1 .. c /\ emitted'[n] = OutputFrame(pool, disc, since, n - M)
  <2>. HIDE DEF c, M
  <2>1. n - M \in 1 .. c /\ n \in 1 .. M + c /\ ~(n <= M)
    BY <1>1, <1>2
  <2>2. emitted'[n] = new[n - M]
    BY <2>1, <1>7
  <2>. QED
    BY <2>1, <2>2 DEF new
<1>9. samplesEmitted' = E + F * c /\ pending' = SubSeq(pool, F * c + 1, P)
  <2>1. c * F = F * c
    BY <1>1, <1>2
  <2>. QED
    BY <2>1 DEF Emit
<1>10. /\ pending' \in Seq(Samples)
       /\ Len(pending') = P - F * c
       /\ \A i \in 1 .. P - F * c : pending'[i] = pool[F * c + i]
  <2>. DEFINE d == F * c
  <2>1. d \in Nat /\ d <= P
    BY <1>2
  <2>2. pending' = SubSeq(pool, d + 1, P)
    BY <1>9
  <2>. DEFINE m == d + 1
  <2>. HIDE DEF d, P
  <2>3. m \in Int /\ P \in Int /\ m .. P \subseteq 1 .. P
    BY <2>1, <1>1
  <2>4. \A i \in m .. P : pool[i] \in Samples
    BY <2>3, ElementOfSeq DEF P
  <2>. HIDE DEF m
  <2>5. SubSeq(pool, m, P) \in Seq(Samples)
    BY <2>3, <2>4, SubSeqProperties
  <2>6. Len(SubSeq(pool, m, P)) = IF m <= P THEN P - m + 1 ELSE 0
    BY <2>3, <2>4, SubSeqProperties
  <2>7. \A i \in 1 .. P - m + 1 : SubSeq(pool, m, P)[i] = pool[m + i - 1]
    BY <2>3, <2>4, SubSeqProperties
  <2>. USE DEF m
  <2>8. Len(pending') = P - d
    BY <2>1, <2>2, <2>6, <1>1
  <2>9. ASSUME NEW i \in 1 .. P - d
        PROVE  pending'[i] = pool[d + i]
    <3>1. i \in 1 .. P - (d + 1) + 1 /\ d + 1 + i - 1 = d + i
      BY <2>1, <1>1
    <3>. QED
      BY <3>1, <2>2, <2>7
  <2>. QED
    BY <2>2, <2>5, <2>8, <2>9 DEF d
<1>11. samplesEmitted' = F * (M + c) /\ samplesEmitted' \in Nat
  <2>. HIDE DEF F, M, c, E
  <2>1. F * (M + c) = F * M + F * c
    BY <1>1, <1>2
  <2>2. E + F * c \in Nat
    BY <1>1, <1>2
  <2>. QED
    BY <2>1, <2>2, <1>1, <1>9
<1>12. Len(pending') < F /\ samplesEmitted' + Len(pending') = E + P
  <2>. DEFINE d == F * c
  <2>1. d \in Nat /\ d <= P /\ P < d + F /\ Len(pending') = P - d /\ samplesEmitted' = E + d
    BY <1>2, <1>9, <1>10
  <2>. HIDE DEF d, P, F, E
  <2>. QED
    BY <2>1, <1>1
<1>13. ASSUME NEW k \in 1 .. E
       PROVE  SampleAt(k)' = SampleAt(k)
  <2>. DEFINE q == (k - 1) \div F
  <2>1. q \in Nat /\ F * q <= k - 1
    <3>1. k - 1 \in Nat
      BY <1>1
    <3>2. q \in Nat /\ (k - 1) % F \in 0 .. F - 1 /\ k - 1 = F * q + ((k - 1) % F)
      BY <1>1, <3>1, Division
    <3>. HIDE DEF F, q
    <3>. QED
      BY <3>1, <3>2, <1>1
  <2>. HIDE DEF q, F, M, c, E
  <2>2. F * q < F * M
    BY <2>1, <1>1
  <2>3. q < M
    BY <2>1, <2>2, <1>1
  <2>4. q + 1 \in 1 .. M /\ q + 1 \in 1 .. M + c /\ q + 1 <= M
    BY <2>1, <2>3, <1>1, <1>2
  <2>5. emitted'[q + 1] = emitted[q + 1]
    BY <2>4, <1>7
  <2>6. k <= E /\ k <= samplesEmitted'
    <3>1. \A d \in Nat : samplesEmitted' = E + d => k <= samplesEmitted'
      BY <1>1
    <3>. QED
      BY <3>1, <1>1, <1>2, <1>9
  <2>. QED
    BY <2>5, <2>6, <1>1 DEF SampleAt, q, F, E
<1>14. ASSUME NEW k \in E + 1 .. E + P, k <= samplesEmitted'
       PROVE  SampleAt(k)' = pool[k - E]
  <2>. DEFINE q == (k - 1) \div F
              r == (k - 1) % F
  <2>1. q \in Nat /\ r \in 0 .. F - 1 /\ k - 1 = F * q + r
    <3>1. k - 1 \in Nat
      BY <1>1
    <3>. QED
      BY <1>1, <3>1, Division
  <2>. HIDE DEF q, r, F, M, c, E, P
  <2>2. F * M < F * (q + 1) /\ F * q < F * (M + c)
    BY <2>1, <1>1, <1>2, <1>11, <1>14
  <2>3. M < q + 1 /\ q < M + c
    BY <2>1, <2>2, <1>1, <1>2
  <2>. DEFINE n == q + 1
              j == n - M
              i == r + 1
  <2>4. n \in M + 1 .. M + c /\ j \in 1 .. c /\ i \in 1 .. F
    BY <2>1, <2>3, <1>1, <1>2
  <2>5. F * (j - 1) + i = k - E
    BY <2>1, <1>1
  <2>. HIDE DEF n, i
  <2>6. emitted'[n] = OutputFrame(pool, disc, since, j)
    BY <2>4, <1>8
  <2>. HIDE DEF j
  <2>7. emitted'[n].samples[i] = pool[k - E]
    BY <2>4, <2>5, <2>6, <1>3
  <2>. QED
    BY <2>7, <1>1, <1>14 DEF SampleAt, n, i, q, r, F
<1>15. ASSUME NEW k \in E + 1 .. E + P, ~(k <= samplesEmitted')
       PROVE  SampleAt(k)' = pool[k - E]
  <2>. DEFINE d == F * c
  <2>1. d \in Nat /\ samplesEmitted' = E + d /\ \A i \in 1 .. P - d : pending'[i] = pool[d + i]
    BY <1>2, <1>9, <1>10
  <2>. HIDE DEF d, F, M, c, E, P
  <2>2. k - samplesEmitted' \in 1 .. P - d /\ d + (k - samplesEmitted') = k - E
    BY <2>1, <1>1, <1>15
  <2>. QED
    BY <2>1, <2>2, <1>15 DEF SampleAt
<1>16. ASSUME NEW n \in M + 1 .. M + c
       PROVE  /\ emitted'[n].disc = (disc /\ n = M + 1)
              /\ emitted'[n].timestamp = Stamp(since, F * (n - 1))
  <2>1. n - M \in 1 .. c /\ emitted'[n] = OutputFrame(pool, disc, since, n - M)
    BY <1>8
  <2>2. /\ OutputFrame(pool, disc, since, n - M).disc = (disc /\ n - M = 1)
        /\ OutputFrame(pool, disc, since, n - M).timestamp
             = Stamp(since, samplesEmitted + F * (n - M - 1))
    BY <2>1, OutputFrameIs
  <2>. HIDE DEF c, F, M
  <2>3. n - M = 1 <=> n = M + 1
    BY <1>1, <1>2
  <2>4. samplesEmitted + F * (n - M - 1) = F * (n - 1)
    BY <1>1, <1>2
  <2>. QED
    BY <2>1, <2>2, <2>3, <2>4
<1>17. \A n \in 1 .. M : emitted'[n] = emitted[n]
  <2>1. \A n \in 1 .. M : n \in 1 .. M + c /\ n <= M
    BY <1>1, <1>2
  <2>. QED
    BY <2>1, <1>7
<1>. QED
  BY <1>1, <1>6, <1>10, <1>11, <1>12, <1>13, <1>14, <1>15, <1>16, <1>17 DEF Extended, StreamLength

-----------------------------------------------------------------------------
(* One call of process(): the input's side.                                *)

\* Phase and history the filter starts a frame from: reset() clears them.
From(disc) == IF disc THEN 0 ELSE phase
History(disc) == IF disc THEN 0 ELSE filled

\* The frame's samples follow what was heard.
LEMMA HeardNext ==
  ASSUME TypeInv, NEW size \in Nat, NEW disc \in BOOLEAN, NEW skip \in Nat,
         Process(size, disc, skip)
  PROVE  /\ heard' \in Seq(Heard) /\ Len(heard') = Len(heard) + size
         /\ clock' \in Nat /\ resets' \in Nat
         /\ resets' = IF disc THEN resets + 1 ELSE resets
         /\ \A i \in 1 .. Len(heard) : heard'[i] = heard[i]
         /\ \A i \in Len(heard) + 1 .. Len(heard) + size :
              /\ heard'[i].resets = resets'
              /\ heard'[i].time = clock + skip + Duration(i - Len(heard) - 1, InputHz)
<1>. DEFINE L == Len(heard)
            time(n) == clock + skip + Duration(n, InputHz)
            new == [i \in 1 .. size |-> [time |-> time(i - 1), resets |-> resets']]
<1>1. Created /\ L \in Nat /\ clock \in Nat /\ InputHz \in Nat \ {0}
  BY Sizes, LenProperties DEF Process, TypeInv
<1>2. /\ heard' = heard \o new
      /\ resets' = IF disc THEN resets + 1 ELSE resets
      /\ clock' = time(size)
  BY DEF Process
<1>3. resets' \in Nat
  BY <1>2 DEF TypeInv
<1>4. ASSUME NEW n \in Nat
      PROVE  time(n) \in Nat
  <2>1. Duration(n, InputHz) \in Nat
    BY <1>1, DurationType
  <2>2. skip \in Nat /\ \A d \in Nat : clock + skip + d \in Nat
    BY <1>1
  <2>. QED
    BY <2>1, <2>2, Zenon
<1>. HIDE DEF time, L
<1>5. \A i \in 1 .. size : [time |-> time(i - 1), resets |-> resets'] \in Heard
  BY <1>3, <1>4 DEF Heard
<1>6. new \in Seq(Heard) /\ Len(new) = size
  <2>1. new \in [1 .. size -> Heard]
    BY <1>5
  <2>. QED
    BY <2>1, FunctionIsSeq
<1>7. \A i \in 1 .. size : new[i].resets = resets' /\ new[i].time = time(i - 1)
  OBVIOUS
<1>. HIDE DEF new
<1>8. heard \in Seq(Heard)
  BY DEF TypeInv
<1>9. heard \o new \in Seq(Heard) /\ Len(heard \o new) = Len(heard) + Len(new)
  BY <1>6, <1>8, ConcatProperties
<1>10. \A i \in 1 .. Len(heard) + Len(new) :
         (heard \o new)[i] = IF i <= Len(heard) THEN heard[i] ELSE new[i - Len(heard)]
  BY <1>6, <1>8, ConcatProperties
<1>11. \A i \in 1 .. L : heard'[i] = heard[i]
  BY <1>1, <1>2, <1>6, <1>10 DEF L
<1>12. ASSUME NEW i \in L + 1 .. L + size
       PROVE  heard'[i].resets = resets' /\ heard'[i].time = time(i - L - 1)
  <2>1. i - L \in 1 .. size /\ i \in 1 .. L + size /\ ~(i <= L)
    BY <1>1
  <2>2. heard'[i] = new[i - L]
    BY <2>1, <1>2, <1>6, <1>10 DEF L
  <2>. QED
    BY <2>1, <2>2, <1>7
<1>. QED
  BY <1>2, <1>3, <1>4, <1>6, <1>9, <1>11, <1>12 DEF L, time

\* What was heard keeps its stretch; the frame's samples belong to the present
\* one, whose length the filter knew before them.
LEMMA EpochNext ==
  ASSUME TypeInv, Created, FilterInv, NEW size \in Nat, NEW disc \in BOOLEAN, NEW skip \in Nat,
         Process(size, disc, skip)
  PROVE  /\ Epoch' \in 1 .. Len(heard) + 1
         /\ \A i \in 1 .. Len(heard) : EpochStart(i)' = EpochStart(i)
         /\ \A i \in Len(heard) + 1 .. Len(heard) + size : EpochStart(i)' = Epoch'
         /\ From(disc) = (Len(heard) + 1 - Epoch') % Factor
         /\ History(disc) = FilterWidth(0, Len(heard) + 1 - Epoch')
<1>. DEFINE L == Len(heard)
            old == {j \in 1 .. L : heard[j].resets < resets'}
<1>1. L \in Nat /\ resets \in Nat
  BY LenProperties DEF TypeInv
<1>2. /\ Len(heard') = L + size /\ resets' \in Nat
      /\ resets' = IF disc THEN resets + 1 ELSE resets
      /\ \A i \in 1 .. L : heard'[i] = heard[i]
      /\ \A i \in L + 1 .. L + size : heard'[i].resets = resets'
  BY HeardNext
<1>3. \A i \in 1 .. L : heard[i].resets <= resets /\ heard[i].resets \in Nat
  <2>1. \A i \in 1 .. L : heard[i] \in Heard
    BY ElementOfSeq DEF TypeInv
  <2>. QED
    BY <2>1 DEF FilterInv, Heard
<1>4. ASSUME NEW i \in L .. L + size
      PROVE  {j \in 1 .. i : heard'[j].resets < resets'} = old
  <2>1. ASSUME NEW j \in 1 .. i
        PROVE  heard'[j].resets < resets' <=> j <= L /\ heard[j].resets < resets'
    BY <1>1, <1>2
  <2>. QED
    BY <2>1, <1>1
<1>5. Epoch' = Cardinality(old) + 1
  <2>1. L + size \in L .. L + size
    BY <1>1
  <2>. QED
    BY <2>1, <1>2, <1>4 DEF Epoch
<1>6. ASSUME NEW i \in L + 1 .. L + size
      PROVE  EpochStart(i)' = Epoch'
  <2>1. heard'[i].resets = resets' /\ i \in L .. L + size
    BY <1>1, <1>2
  <2>2. {j \in 1 .. i : heard'[j].resets < heard'[i].resets} = old
    BY <2>1, <1>4
  <2>. HIDE DEF old
  <2>. QED
    BY <2>2, <1>5 DEF EpochStart
<1>7. ASSUME NEW i \in 1 .. L
      PROVE  EpochStart(i)' = EpochStart(i)
  <2>1. \A j \in 1 .. i : heard'[j] = heard[j]
    BY <1>1, <1>2
  <2>2. heard'[i] = heard[i]
    BY <1>2
  <2>3. {j \in 1 .. i : heard'[j].resets < heard'[i].resets}
          = {j \in 1 .. i : heard[j].resets < heard[i].resets}
    BY <2>1, <2>2
  <2>. QED
    BY <2>3 DEF EpochStart
<1>8. IsFiniteSet(1 .. L) /\ Cardinality(1 .. L) = L
  BY <1>1, IntervalSize
<1>9. Cardinality(old) \in 0 .. L
  <2>1. old \in SUBSET (1 .. L)
    OBVIOUS
  <2>2. IsFiniteSet(old) /\ Cardinality(old) <= L
    BY <2>1, <1>8, FS_Subset
  <2>. QED
    BY <2>2, FS_CardinalityType
<1>10. CASE disc
  <2>1. old = 1 .. L
    BY <1>1, <1>2, <1>3, <1>10
  <2>2. Epoch' = L + 1
    BY <2>1, <1>5, <1>8
  <2>3. From(disc) = 0 /\ History(disc) = 0 /\ L + 1 - Epoch' = 0
    BY <2>2, <1>1, <1>10 DEF From, History
  <2>4. 0 % Factor = 0
    BY Sizes
  <2>5. FilterWidth(0, 0) = 0
    BY Sizes DEF FilterWidth
  <2>. QED
    BY <2>2, <2>3, <2>4, <2>5, <1>1, <1>6, <1>7
<1>11. CASE ~disc
  <2>1. Epoch' = Epoch
    BY <1>2, <1>5, <1>11 DEF Epoch
  <2>. HIDE DEF L, old
  <2>2. L - Epoch + 1 = L + 1 - Epoch'
    BY <2>1, <1>1, <1>5, <1>9
  <2>3. From(disc) = phase /\ History(disc) = filled
    BY <1>11 DEF From, History
  <2>. QED
    BY <2>2, <2>3, <1>1, <1>5, <1>6, <1>7, <1>9 DEF FilterInv, L
<1>. QED
  BY <1>10, <1>11

\* The filter's two numbers go on counting the stretch.
LEMMA FilterNext ==
  ASSUME TypeInv, Created, FilterInv, NEW size \in Nat, NEW disc \in BOOLEAN, NEW skip \in Nat,
         Process(size, disc, skip)
  PROVE  FilterInv' /\ phase' \in 0 .. Factor - 1 /\ filled' \in Nat
<1>. DEFINE L == Len(heard)
            x == L + 1 - Epoch'
<1>1. /\ L \in Nat /\ resets \in Nat /\ Factor \in Nat \ {0} /\ TapCount \in Nat \ {0}
      /\ Factor' = Factor /\ TapCount' = TapCount
  BY Sizes, LenProperties DEF TypeInv, Process, Factor, TapCount
<1>2. Epoch' \in 1 .. L + 1 /\ From(disc) = x % Factor /\ History(disc) = FilterWidth(0, x)
  BY EpochNext
<1>3. phase' = (From(disc) + size) % Factor /\ filled' = FilterWidth(History(disc), size)
  BY DEF Process, From, History
<1>4. /\ Len(heard') = L + size
      /\ resets' = IF disc THEN resets + 1 ELSE resets
      /\ \A i \in 1 .. L : heard'[i] = heard[i]
      /\ \A i \in L + 1 .. L + size : heard'[i].resets = resets'
  BY HeardNext
<1>. HIDE DEF x
<1>5. x \in Nat /\ Len(heard') - Epoch' + 1 = x + size
  <2>1. \A e \in 1 .. L + 1 : L + 1 - e \in Nat /\ L + size - e + 1 = L + 1 - e + size
    BY <1>1
  <2>2. x \in Nat /\ L + size - Epoch' + 1 = x + size
    BY <2>1, <1>2, Zenon DEF x
  <2>3. Len(heard') = L + size
    BY <1>4
  <2>4. Epoch' \in Int /\ L + size \in Int
    BY <1>1, <1>2
  <2>. QED
    BY <2>2, <2>3, <2>4
<1>6. phase' = (x + size) % Factor
  <2>1. ((x % Factor) + size) % Factor = (x + size) % Factor
    BY <1>1, <1>5, RemainderOfSum
  <2>. QED
    BY <2>1, <1>2, <1>3
<1>7. phase' \in 0 .. Factor - 1
  <2>1. x + size \in Nat
    BY <1>5
  <2>. QED
    BY <2>1, <1>1, <1>6, Division
<1>8. filled' \in Nat /\ filled' = IF 0 + (x + size) < TapCount THEN 0 + (x + size) ELSE TapCount
  <2>1. FilterWidth(FilterWidth(0, x), size) = FilterWidth(0, x + size)
    BY <1>1, <1>5 DEF FilterWidth
  <2>2. FilterWidth(0, x + size) \in Nat
    BY <1>1, <1>5 DEF FilterWidth
  <2>. QED
    BY <2>1, <2>2, <1>2, <1>3 DEF FilterWidth
<1>9. ASSUME NEW i \in 1 .. Len(heard')
      PROVE  heard'[i].resets <= resets'
  <2>1. \A j \in 1 .. L : heard[j] \in Heard
    BY ElementOfSeq DEF TypeInv
  <2>2. \A j \in 1 .. L : heard[j].resets \in Nat /\ heard[j].resets <= resets
    BY <2>1 DEF FilterInv, Heard
  <2>3. CASE i <= L
    <3>1. i \in 1 .. L
      BY <2>3, <1>1, <1>4
    <3>2. heard'[i] = heard[i] /\ heard[i].resets \in Nat /\ heard[i].resets <= resets
      BY <3>1, <2>2, <1>4
    <3>3. resets \in Nat /\ resets' \in Nat /\ resets <= resets'
      BY <1>1, <1>4
    <3>. QED
      BY <3>2, <3>3
  <2>4. CASE ~(i <= L)
    <3>1. heard'[i].resets = resets'
      BY <2>4, <1>1, <1>4
    <3>. QED
      BY <3>1, <1>1, <1>4
  <2>. QED
    BY <2>3, <2>4
<1>10. FilterInv'
  <2>1. phase' = (Len(heard') - Epoch' + 1) % Factor'
    BY <1>1, <1>5, <1>6
  <2>2. filled' = FilterWidth(0, Len(heard) - Epoch + 1)'
    BY <1>1, <1>5, <1>8 DEF FilterWidth
  <2>. QED
    BY <2>1, <2>2, <1>9 DEF FilterInv
<1>. QED
  BY <1>7, <1>8, <1>10

\* The samples due are those that were, and those of the frame from the phase.
LEMMA DueNext ==
  ASSUME TypeInv, Created, FilterInv, NEW size \in Nat, NEW disc \in BOOLEAN, NEW skip \in Nat,
         Process(size, disc, skip)
  PROVE  /\ From(disc) \in 0 .. Factor - 1 /\ History(disc) \in Nat
         /\ DueSamples' = DueSamples \cup DueAfter(Factor, From(disc), Len(heard), size)
<1>. DEFINE F == Factor
            L == Len(heard)
            x == L + 1 - Epoch'
            from == From(disc)
<1>1. L \in Nat /\ F \in Nat \ {0} /\ F' = F /\ TapCount \in Nat \ {0}
  BY Sizes, LenProperties DEF TypeInv, Process, Factor
<1>2. /\ Epoch' \in 1 .. L + 1 /\ from = x % F /\ History(disc) = FilterWidth(0, x)
      /\ \A i \in 1 .. L : EpochStart(i)' = EpochStart(i)
      /\ \A i \in L + 1 .. L + size : EpochStart(i)' = Epoch'
  BY EpochNext
<1>3. Len(heard') = L + size
  BY HeardNext
<1>4. x \in Nat
  <2>1. \A e \in 1 .. L + 1 : L + 1 - e \in Nat
    BY <1>1
  <2>. QED
    BY <2>1, <1>2, Zenon
<1>5. from \in 0 .. F - 1
  BY <1>1, <1>2, <1>4, Division
<1>6. History(disc) \in Nat
  <2>. HIDE DEF x
  <2>. QED
    BY <1>1, <1>2, <1>4 DEF FilterWidth
<1>7. \A i \in 1 .. L : IsDue(i)' <=> IsDue(i)
  BY <1>1, <1>2 DEF IsDue
<1>8. ASSUME NEW i \in L + 1 .. L + size
      PROVE  IsDue(i)' <=> (from + (i - L) - 1) % F = 0
  <2>. DEFINE y == i - L - 1
  <2>. HIDE DEF L, F, x, from
  <2>1. y \in Nat /\ from + (i - L) - 1 = from + y
    BY <1>1, <1>5 DEF y
  <2>2. i - Epoch' = x + y
    BY <1>1, <1>2 DEF x, y
  <2>3. IsDue(i)' <=> (x + y) % F = 0
    BY <1>1, <1>2, <2>2 DEF IsDue, F
  <2>. HIDE DEF y
  <2>4. (from + y) % F = (x + y) % F
    BY <2>1, <1>1, <1>2, <1>4, RemainderOfSum
  <2>. QED
    BY <2>1, <2>3, <2>4
<1>9. DueSamples' = {i \in 1 .. L + size : IsDue(i)'}
  BY <1>3 DEF DueSamples
<1>10. 1 .. L + size = (1 .. L) \cup (L + 1 .. L + size)
  <2>. HIDE DEF L
  <2>. QED
    BY <1>1
<1>11. DueSamples' = DueSamples \cup DueAfter(F, from, L, size)
  <2>. HIDE DEF F, from
  <2>. QED
    BY <1>7, <1>8, <1>9, <1>10 DEF DueSamples, DueAfter
<1>. QED
  BY <1>5, <1>6, <1>11

-----------------------------------------------------------------------------
(* One call of process(): the output's side.                               *)

\* There is an anchor from the first call on.
LEMMA AnchorNext ==
  ASSUME TypeInv, NEW size \in Nat, NEW disc \in BOOLEAN, NEW skip \in Nat,
         Process(size, disc, skip)
  PROVE  anchor' \in Seq(Nat) /\ Len(anchor') = 1 /\ anchor'[1] \in Nat
<1>1. anchor' = IF anchor = <<>> THEN <<clock + skip>> ELSE anchor
  BY DEF Process
<1>2. anchor \in Seq(Nat) /\ Len(anchor) \in Nat /\ clock + skip \in Nat
  BY LenProperties DEF TypeInv
<1>3. CASE anchor = <<>>
  <2>. DEFINE t == clock + skip
  <2>1. t \in Nat /\ anchor' = <<t>>
    BY <1>1, <1>2, <1>3
  <2>. HIDE DEF t
  <2>. QED
    BY <2>1
<1>4. CASE anchor # <<>>
  <2>1. <<>> \in Seq(Nat) /\ Len(<<>>) = 0
    BY EmptySeq
  <2>2. ASSUME Len(anchor) = 0
        PROVE  anchor = <<>>
    <3>1. Len(anchor) = Len(<<>>)
      BY <2>1, <2>2
    <3>2. \A i \in 1 .. Len(anchor) : anchor[i] = <<>>[i]
      BY <2>2
    <3>. QED
      BY <3>1, <3>2, <1>2, <2>1, SeqEqual, Zenon
  <2>3. \A n \in Nat : n <= 1 /\ n # 0 => n = 1
    OBVIOUS
  <2>4. Len(anchor) = 1
    BY <2>2, <2>3, <1>2, <1>4, Zenon DEF TypeInv
  <2>5. 1 \in 1 .. Len(anchor)
    BY <2>4
  <2>6. anchor[1] \in Nat
    BY <1>2, <2>5, ElementOfSeq
  <2>. QED
    BY <1>1, <1>2, <1>4, <2>4, <2>6
<1>. QED
  BY <1>3, <1>4

\* The frames and the N samples it adds.
StreamGrows(disc, N) ==
  /\ N \in Nat
  /\ emitted' \in Seq(Frames) /\ pending' \in Seq(Samples) /\ samplesEmitted' \in Nat
  /\ anchor' \in Seq(Nat) /\ Len(anchor') = 1
  /\ samplesEmitted' = FrameSize * Len(emitted') /\ Len(pending') < FrameSize
  /\ StreamLength' = StreamLength + N
  /\ \A k \in 1 .. StreamLength : SampleAt(k)' = SampleAt(k)
  /\ \A k \in StreamLength + 1 .. StreamLength + N :
       SampleAt(k)' = Filtered(DueAt(Factor, From(disc), k - StreamLength), History(disc))
  /\ Len(emitted') = Len(emitted) + (Len(pending) + N) \div FrameSize
  /\ pendingDisc' = StillDue(pendingDisc \/ disc, (Len(pending) + N) \div FrameSize)
  /\ \A n \in 1 .. Len(emitted) : emitted'[n] = emitted[n]
  /\ \A n \in Len(emitted) + 1 .. Len(emitted') :
       /\ emitted'[n].disc = ((pendingDisc \/ disc) /\ n = Len(emitted) + 1)
       /\ emitted'[n].timestamp = Stamp(anchor'[1], FrameSize * (n - 1))

LEMMA StreamNext ==
  ASSUME TypeInv, FilterInv, StreamInv,
         NEW size \in Nat, NEW disc \in BOOLEAN, NEW skip \in Nat,
         Process(size, disc, skip),
         NEW N, N = DueCount(Factor, From(disc), size)
  PROVE  StreamGrows(disc, N)
<1>. DEFINE F == Factor
            from == From(disc)
            sample(k) == Filtered(DueAt(F, from, k), History(disc))
            new == [k \in 1 .. N |-> sample(k)]
            pool == pending \o new
            flag == pendingDisc \/ disc
            r == Len(pending)
            E == samplesEmitted
<1>1. /\ Created /\ F \in Nat \ {0} /\ TapCount \in Nat
      /\ Len(heard) \in Nat /\ r \in Nat /\ E \in Nat
      /\ pending \in Seq(Samples)
  BY Sizes, LenProperties DEF Process, TypeInv
<1>2. from \in 0 .. F - 1 /\ History(disc) \in Nat
  BY <1>1, DueNext
<1>3. N \in Nat /\ \A k \in 1 .. N : DueAt(F, from, k) \in 1 .. size
  BY <1>1, <1>2, DuePositions
<1>4. ASSUME NEW k \in 1 .. N
      PROVE  sample(k) \in Samples
  <2>. DEFINE d == DueAt(F, from, k)
  <2>1. d \in Nat
    BY <1>3
  <2>. HIDE DEF d
  <2>2. FilterWidth(History(disc), d) \in Nat
    BY <2>1, <1>1, <1>2 DEF FilterWidth
  <2>3. Filtered(d, History(disc)) \in Samples
    BY <2>1, <2>2, <1>1 DEF Filtered, Samples
  <2>. QED
    BY <2>3 DEF d
<1>5. Decimate(size, from, History(disc)) = new
  <2>1. Created /\ size \in Nat /\ from \in 0 .. Factor - 1 /\ History(disc) \in Nat
    BY <1>1, <1>2
  <2>2. Decimate(size, from, History(disc)) = [k \in 1 .. DueCount(F, from, size) |-> sample(k)]
    BY <2>1, DecimateIs
  <2>. QED
    BY <2>2
<1>6. Emit(pool, flag, anchor'[1])
  BY <1>5 DEF Process, From, History
<1>. HIDE DEF sample
<1>7. new \in Seq(Samples) /\ Len(new) = N
  <2>1. new \in [1 .. N -> Samples]
    BY <1>4
  <2>. QED
    BY <2>1, <1>3, FunctionIsSeq
<1>8. \A k \in 1 .. N : new[k] = sample(k)
  OBVIOUS
<1>. HIDE DEF new
<1>9. pool \in Seq(Samples) /\ Len(pool) = Len(pending) + Len(new)
  BY <1>1, <1>7, ConcatProperties
<1>10. \A k \in 1 .. Len(pending) + Len(new) :
         pool[k] = IF k <= Len(pending) THEN pending[k] ELSE new[k - Len(pending)]
  BY <1>1, <1>7, ConcatProperties
<1>11. anchor' \in Seq(Nat) /\ Len(anchor') = 1 /\ anchor'[1] \in Nat
  BY AnchorNext
<1>12. flag \in BOOLEAN /\ format' = format /\ samplesEmitted = FrameSize * Len(emitted)
  BY DEF Process, StreamInv
<1>. HIDE DEF pool, flag
<1>13. /\ Created /\ samplesEmitted = FrameSize * Len(emitted) /\ format' = format
      /\ pool \in Seq(Samples) /\ flag \in BOOLEAN /\ anchor'[1] \in Nat
      /\ Emit(pool, flag, anchor'[1])
  BY <1>1, <1>6, <1>9, <1>11, <1>12
<1>14. Extended(pool, flag, anchor'[1])
  BY <1>13, Emission
<1>15. pendingDisc' = StillDue(flag, Len(pool) \div FrameSize)
  BY <1>6 DEF Emit
<1>16. Len(pool) = r + N /\ StreamLength = E + r
  BY <1>7, <1>9 DEF StreamLength
<1>. DEFINE T == StreamLength
<1>. HIDE DEF E, r, T
<1>17. ASSUME NEW k \in 1 .. T
       PROVE  SampleAt(k)' = SampleAt(k)
  <2>1. CASE k <= E
    <3>1. k \in 1 .. E
      BY <2>1, <1>1, <1>16 DEF T
    <3>. QED
      BY <3>1, <1>14 DEF Extended, E
  <2>2. CASE ~(k <= E)
    <3>1. E \in Nat /\ r \in Nat /\ N \in Nat /\ T = E + r /\ Len(pool) = r + N
      BY <1>1, <1>3, <1>16 DEF T
    <3>2. k \in E + 1 .. E + Len(pool) /\ k - E \in 1 .. Len(pool) /\ k - E <= r
      BY <2>2, <3>1
    <3>3. pool[k - E] = pending[k - E]
      BY <3>2, <1>9, <1>10 DEF r
    <3>4. SampleAt(k)' = pool[k - E]
      BY <3>2, <1>14 DEF Extended, E
    <3>5. SampleAt(k) = pending[k - E]
      BY <2>2 DEF SampleAt, E
    <3>. QED
      BY <3>3, <3>4, <3>5
  <2>. QED
    BY <2>1, <2>2
<1>18. ASSUME NEW k \in T + 1 .. T + N
       PROVE  SampleAt(k)' = sample(k - T)
  <2>. DEFINE j == k - E
              i == k - T
  <2>1. E \in Nat /\ r \in Nat /\ N \in Nat /\ T = E + r /\ Len(pool) = r + N
    BY <1>1, <1>3, <1>16 DEF T
  <2>2. /\ k \in E + 1 .. E + Len(pool) /\ j \in 1 .. r + N /\ ~(j <= r)
        /\ j - r = i /\ i \in 1 .. N
    BY <2>1
  <2>3. SampleAt(k)' = pool[j]
    BY <2>2, <1>14 DEF Extended, E
  <2>. HIDE DEF i, j
  <2>4. pool[j] = new[i]
    BY <2>2, <1>7, <1>10 DEF r
  <2>5. new[i] = sample(i)
    BY <2>2, <1>8
  <2>. QED
    BY <2>3, <2>4, <2>5 DEF i
<1>19. StreamLength' = T + N
  <2>1. StreamLength' = E + Len(pool)
    BY <1>14 DEF Extended, E
  <2>. QED
    BY <2>1, <1>1, <1>3, <1>16 DEF T
<1>. QED
  BY <1>3, <1>11, <1>14, <1>15, <1>16, <1>17, <1>18, <1>19 DEF StreamGrows, Extended, flag, sample, T, r

-----------------------------------------------------------------------------
(* The reference.                                                          *)

\* How many samples were due up to the i-th.
Rank(i) == Cardinality({j \in DueSamples : j <= i})

\* The samples due are a finite set of numbers.
LEMMA DueFinite ==
  ASSUME TypeInv
  PROVE  /\ DueSamples \subseteq 1 .. Len(heard) /\ IsFiniteSet(DueSamples)
         /\ Cardinality(DueSamples) \in Nat
         /\ \A i \in DueSamples : Rank(i) \in 1 .. Cardinality(DueSamples)
<1>1. Len(heard) \in Nat
  BY LenProperties DEF TypeInv
<1>2. DueSamples \subseteq 1 .. Len(heard)
  BY DEF DueSamples
<1>3. IsFiniteSet(DueSamples)
  BY <1>1, <1>2, IntervalSize, FS_Subset
<1>4. ASSUME NEW i \in DueSamples
      PROVE  Rank(i) \in 1 .. Cardinality(DueSamples)
  <2>. DEFINE S == {j \in DueSamples : j <= i}
  <2>1. S \in SUBSET DueSamples /\ i \in S
    BY <1>2
  <2>2. IsFiniteSet(S) /\ Cardinality(S) <= Cardinality(DueSamples)
    BY <2>1, <1>3, FS_Subset
  <2>3. Cardinality(S) # 0
    BY <2>1, <2>2, FS_EmptySet
  <2>4. Cardinality(S) \in Nat /\ Cardinality(DueSamples) \in Nat
    BY <2>2, <1>3, FS_CardinalityType
  <2>. QED
    BY <2>2, <2>3, <2>4 DEF Rank
<1>. QED
  BY <1>2, <1>3, <1>4, FS_CardinalityType

\* Finite sets of smaller and of larger numbers.
LEMMA SplitCardinality ==
  ASSUME NEW S, NEW T, IsFiniteSet(S), IsFiniteSet(T), S \cap T = {}
  PROVE  IsFiniteSet(S \cup T) /\ Cardinality(S \cup T) = Cardinality(S) + Cardinality(T)
<1>1. Cardinality(S) \in Nat /\ Cardinality(T) \in Nat
  BY FS_CardinalityType
<1>2. Cardinality(S \cap T) = 0
  BY FS_EmptySet
<1>3. /\ IsFiniteSet(S \cup T)
      /\ Cardinality(S \cup T) = Cardinality(S) + Cardinality(T) - Cardinality(S \cap T)
  BY FS_Union
<1>. QED
  BY <1>1, <1>2, <1>3

\* The ranks go on where they were.
LEMMA RankNext ==
  ASSUME TypeInv, FilterInv, NEW size \in Nat, NEW disc \in BOOLEAN, NEW skip \in Nat,
         Process(size, disc, skip),
         NEW N, N = DueCount(Factor, From(disc), size)
  PROVE  /\ Cardinality(DueSamples') = Cardinality(DueSamples) + N
         /\ \A i \in DueSamples : Rank(i)' = Rank(i)
         /\ \A i \in DueSamples' \ DueSamples :
              \E k \in 1 .. N :
                /\ i = Len(heard) + DueAt(Factor, From(disc), k)
                /\ Rank(i)' = Cardinality(DueSamples) + k
<1>. DEFINE F == Factor
            L == Len(heard)
            from == From(disc)
            D == DueSamples
            C == Cardinality(DueSamples)
            T(n) == DueAfter(F, from, L, n)
<1>1. /\ Created /\ F \in Nat \ {0} /\ L \in Nat
  BY Sizes, LenProperties DEF Process, TypeInv
<1>2. from \in 0 .. F - 1 /\ D' = D \cup T(size)
  BY <1>1, DueNext
<1>3. D \subseteq 1 .. L /\ IsFiniteSet(D) /\ C \in Nat
  BY DueFinite
<1>4. /\ N \in Nat
      /\ \A k \in 1 .. N : DueAt(F, from, k) \in 1 .. size
      /\ \A j \in 1 .. size :
           (from + j - 1) % F = 0 => \E k \in 1 .. N : j = DueAt(F, from, k)
  <2>1. DueCount(F, from, size) = N
    OBVIOUS
  <2>. HIDE DEF F, from
  <2>2. /\ DueCount(F, from, size) \in Nat
        /\ \A k \in 1 .. DueCount(F, from, size) : DueAt(F, from, k) \in 1 .. size
        /\ \A j \in 1 .. size :
             (from + j - 1) % F = 0 =>
               \E k \in 1 .. DueCount(F, from, size) : j = DueAt(F, from, k)
    BY <1>1, <1>2, DuePositions
  <2>. QED
    BY <2>1, <2>2
<1>. HIDE DEF F, L, from, D, C
<1>5. ASSUME NEW n \in Nat
      PROVE  Cardinality(D \cup T(n)) = C + DueCount(F, from, n)
  <2>1. IsFiniteSet(T(n)) /\ Cardinality(T(n)) = DueCount(F, from, n)
    BY <1>1, <1>2, DueCardinality
  <2>2. D \cap T(n) = {}
    BY <1>1, <1>3 DEF DueAfter
  <2>3. IsFiniteSet(D) /\ IsFiniteSet(T(n)) /\ D \cap T(n) = {}
    BY <2>1, <2>2, <1>3
  <2>4. Cardinality(D \cup T(n)) = Cardinality(D) + Cardinality(T(n))
    BY <2>3, SplitCardinality
  <2>. QED
    BY <2>1, <2>4 DEF C, D
<1>6. Cardinality(D') = C + N
  BY <1>2, <1>5 DEF F, from
<1>7. ASSUME NEW i \in D
      PROVE  Rank(i)' = Rank(i)
  <2>1. {j \in D' : j <= i} = {j \in D : j <= i}
    BY <1>1, <1>2, <1>3 DEF DueAfter
  <2>. QED
    BY <2>1 DEF Rank, D
<1>8. ASSUME NEW i \in D' \ D
      PROVE  \E k \in 1 .. N : i = L + DueAt(F, from, k) /\ Rank(i)' = C + k
  <2>. DEFINE d == i - L
  <2>1. i \in L + 1 .. L + size /\ (from + d - 1) % F = 0
    BY <1>2 DEF DueAfter
  <2>2. d \in 1 .. size /\ i = L + d
    BY <2>1, <1>1
  <2>3. \A j \in L + 1 .. L + size : j <= i <=> j \in L + 1 .. L + d
    BY <2>1, <1>1
  <2>4. {j \in D' : j <= i} = D \cup T(d)
    <3>1. \A j \in D : j <= i
      BY <2>1, <1>1, <1>3
    <3>2. \A j : j \in T(size) /\ j <= i <=> j \in T(d)
      BY <2>2, <2>3, <1>1 DEF DueAfter
    <3>. QED
      BY <3>1, <3>2, <1>2
  <2>. HIDE DEF d
  <2>5. PICK k \in 1 .. N : d = DueAt(F, from, k)
    BY <2>1, <2>2, <1>4
  <2>6. DueCount(F, from, d) = k
    BY <2>5, <1>1, <1>2, <1>4, DueOrder
  <2>7. Cardinality(D \cup T(d)) = C + k
    BY <2>2, <2>6, <1>5
  <2>8. Rank(i)' = C + k
    BY <2>4, <2>7 DEF Rank, D
  <2>. QED
    BY <2>2, <2>5, <2>8
<1>. QED
  BY <1>6, <1>7, <1>8 DEF F, L, from, D, C

\* A sample of the frame is filtered over as much of its stretch as the reference.
LEMMA FilteredIsReference ==
  ASSUME TypeInv, FilterInv, NEW size \in Nat, NEW disc \in BOOLEAN, NEW skip \in Nat,
         Process(size, disc, skip),
         NEW d \in 1 .. size, NEW i \in Nat, i = Len(heard) + d
  PROVE  Filtered(d, History(disc)) = Reference(i)'
<1>. DEFINE L == Len(heard)
            e == Epoch'
            x == L + 1 - e
            T == TapCount
<1>1. /\ Created /\ L \in Nat /\ T \in Nat \ {0} /\ T' = T
  BY Sizes, LenProperties DEF Process, TypeInv, TapCount, Factor
<1>2. i \in L + 1 .. L + size /\ i = L + d
  BY <1>1
<1>3. e \in 1 .. L + 1 /\ EpochStart(i)' = e /\ History(disc) = FilterWidth(0, x)
  BY <1>1, <1>2, EpochNext
<1>. HIDE DEF L, e, T
<1>4. x \in Nat /\ e = L + 1 - x
  BY <1>1, <1>3
<1>. HIDE DEF x
<1>. DEFINE w == FilterWidth(FilterWidth(0, x), d)
<1>5. w = IF x + d < T THEN x + d ELSE T
  BY <1>1, <1>4 DEF FilterWidth, T
<1>. HIDE DEF w
<1>6. i - w + 1 = IF i - T + 1 < e THEN e ELSE i - T + 1
  <2>1. CASE x + d < T
    <3>1. w = x + d /\ i - T + 1 < e
      BY <2>1, <1>1, <1>2, <1>4, <1>5
    <3>2. i - w + 1 = e
      BY <3>1, <1>1, <1>2, <1>4
    <3>. QED
      BY <3>1, <3>2
  <2>2. CASE ~(x + d < T)
    <3>1. w = T /\ ~(i - T + 1 < e)
      BY <2>2, <1>1, <1>2, <1>4, <1>5
    <3>. QED
      BY <3>1
  <2>. QED
    BY <2>1, <2>2
<1>7. Filtered(d, History(disc)) = [first |-> i - w + 1, last |-> i]
  BY <1>2, <1>3 DEF Filtered, w, L
<1>8. Reference(i)' = [first |-> IF i - T' + 1 < e THEN e ELSE i - T' + 1, last |-> i]
  BY <1>3 DEF Reference, T
<1>. QED
  BY <1>1, <1>6, <1>7, <1>8

\* What was heard keeps its reference.
LEMMA ReferenceNext ==
  ASSUME TypeInv, FilterInv, NEW size \in Nat, NEW disc \in BOOLEAN, NEW skip \in Nat,
         Process(size, disc, skip), NEW i \in 1 .. Len(heard)
  PROVE  Reference(i)' = Reference(i)
<1>1. Created /\ EpochStart(i)' = EpochStart(i)
  BY EpochNext DEF Process
<1>2. TapCount' = TapCount
  BY DEF Process, TapCount, Factor
<1>. QED
  BY <1>1, <1>2 DEF Reference

\* A call of process() keeps the stream the reference.
LEMMA ReferenceKept ==
  ASSUME TypeInv, FilterInv, StreamInv, StreamIsTheReference,
         NEW size \in Nat, NEW disc \in BOOLEAN, NEW skip \in Nat,
         Process(size, disc, skip)
  PROVE  StreamIsTheReference'
<1>. DEFINE N == DueCount(Factor, From(disc), size)
            C == Cardinality(DueSamples)
<1>1. Created /\ format' = format
  BY DEF Process
<1>2. C \in Nat /\ DueSamples \subseteq 1 .. Len(heard) /\ \A i \in DueSamples : Rank(i) \in 1 .. C
  BY DueFinite
<1>3. StreamLength = C /\ \A i \in DueSamples : SampleAt(Rank(i)) = Reference(i)
  BY <1>1 DEF StreamIsTheReference, DueSamples, Rank
<1>4. /\ Cardinality(DueSamples') = C + N
      /\ \A i \in DueSamples : Rank(i)' = Rank(i)
      /\ \A i \in DueSamples' \ DueSamples :
           \E k \in 1 .. N : i = Len(heard) + DueAt(Factor, From(disc), k) /\ Rank(i)' = C + k
  BY RankNext
<1>5. StreamGrows(disc, N)
  BY StreamNext
<1>6. /\ N \in Nat /\ Len(pending') < FrameSize
      /\ StreamLength' = C + N
      /\ \A k \in 1 .. C : SampleAt(k)' = SampleAt(k)
      /\ \A k \in C + 1 .. C + N :
           SampleAt(k)' = Filtered(DueAt(Factor, From(disc), k - C), History(disc))
  BY <1>3, <1>5 DEF StreamGrows
<1>7. \A k \in 1 .. N : DueAt(Factor, From(disc), k) \in 1 .. size
  <2>1. Factor \in Nat \ {0}
    BY <1>1, Sizes
  <2>2. From(disc) \in 0 .. Factor - 1
    BY <1>1, DueNext
  <2>. QED
    BY <2>1, <2>2, DuePositions
<1>. HIDE DEF N, C
<1>8. ASSUME NEW i \in DueSamples, NEW k, k = Rank(i)'
      PROVE  SampleAt(k)' = Reference(i)'
  <2>1. k = Rank(i) /\ k \in 1 .. C
    BY <1>2, <1>4, <1>8
  <2>2. Reference(i)' = Reference(i)
    BY <1>2, ReferenceNext
  <2>. QED
    BY <2>1, <2>2, <1>3, <1>6
<1>9. ASSUME NEW i \in DueSamples' \ DueSamples, NEW k, k = Rank(i)'
      PROVE  SampleAt(k)' = Reference(i)'
  <2>1. PICK m \in 1 .. N : i = Len(heard) + DueAt(Factor, From(disc), m) /\ k = C + m
    BY <1>4, <1>9
  <2>2. k \in C + 1 .. C + N /\ k - C = m
    BY <2>1, <1>2, <1>6
  <2>3. SampleAt(k)' = Filtered(DueAt(Factor, From(disc), m), History(disc))
    BY <2>2, <1>6
  <2>. QED
    BY <2>1, <2>3, <1>7, FilteredIsReference
<1>10. FrameSize' = FrameSize
  BY <1>1 DEF FrameSize
<1>. QED
  <2>1. ASSUME NEW i \in DueSamples'
        PROVE  SampleAt(Rank(i))' = Reference(i)'
    <3>1. \A k : k = Rank(i)' => SampleAt(k)' = Reference(i)'
      BY <1>8, <1>9
    <3>. QED
      BY <3>1 DEF SampleAt
  <2>2. Len(pending)' < FrameSize' /\ StreamLength' = Cardinality(DueSamples')
    BY <1>4, <1>6, <1>10
  <2>. QED
    BY <2>1, <2>2 DEF StreamIsTheReference, DueSamples, Rank

-----------------------------------------------------------------------------
(* One call of process(): where the stream's samples come from.            *)

\* The last input sample of those in the stream stays, that of the new ones is
\* in the frame.
LEMMA SamplesNext ==
  ASSUME TypeInv, FilterInv, StreamInv,
         NEW size \in Nat, NEW disc \in BOOLEAN, NEW skip \in Nat,
         Process(size, disc, skip),
         NEW N, N = DueCount(Factor, From(disc), size)
  PROVE  /\ \A k \in 1 .. StreamLength :
              SampleAt(k)' = SampleAt(k) /\ SampleAt(k).last \in 1 .. Len(heard)
         /\ \A k \in StreamLength + 1 .. StreamLength + N :
              /\ SampleAt(k)'.last = Len(heard) + DueAt(Factor, From(disc), k - StreamLength)
              /\ SampleAt(k)'.last \in Len(heard) + 1 .. Len(heard) + size
<1>. DEFINE F == Factor
            L == Len(heard)
            T == StreamLength
            from == From(disc)
<1>1. Created /\ F \in Nat \ {0} /\ L \in Nat /\ T \in Nat
  BY Sizes, LenProperties DEF Process, TypeInv, StreamLength
<1>2. from \in 0 .. F - 1
  BY <1>1, DueNext
<1>3. /\ N \in Nat /\ \A k \in 1 .. T : SampleAt(k)' = SampleAt(k)
      /\ \A k \in T + 1 .. T + N :
           SampleAt(k)' = Filtered(DueAt(F, from, k - T), History(disc))
  <2>1. StreamGrows(disc, N)
    BY StreamNext
  <2>. QED
    BY <2>1 DEF StreamGrows
<1>4. \A k \in 1 .. N : DueAt(F, from, k) \in 1 .. size
  BY <1>1, <1>2, DuePositions
<1>. HIDE DEF F, L, T, from
<1>5. ASSUME NEW k \in T + 1 .. T + N
      PROVE  SampleAt(k)'.last = L + DueAt(F, from, k - T)
  <2>1. SampleAt(k)' = Filtered(DueAt(F, from, k - T), History(disc))
    BY <1>3
  <2>2. \A d, h : Filtered(d, h).last = L + d
    BY DEF Filtered, L
  <2>. QED
    BY <2>1, <2>2, Zenon
<1>6. ASSUME NEW k \in T + 1 .. T + N
      PROVE  L + DueAt(F, from, k - T) \in L + 1 .. L + size
  <2>1. k - T \in 1 .. N
    BY <1>1, <1>3
  <2>2. DueAt(F, from, k - T) \in 1 .. size
    BY <2>1, <1>4
  <2>. QED
    BY <2>2, <1>1
<1>7. \A k \in 1 .. T : SampleAt(k).last \in 1 .. L
  BY DEF StreamInv, L, T
<1>. QED
  BY <1>3, <1>5, <1>6, <1>7 DEF F, L, T, from

\* A call of process() keeps the stream in whole frames of what was heard.
LEMMA StreamKept ==
  ASSUME TypeInv, FilterInv, StreamInv,
         NEW size \in Nat, NEW disc \in BOOLEAN, NEW skip \in Nat,
         Process(size, disc, skip)
  PROVE  StreamInv'
<1>. DEFINE N == DueCount(Factor, From(disc), size)
            L == Len(heard)
            T == StreamLength
<1>1. L \in Nat /\ T \in Nat /\ Len(heard') = L + size
  BY HeardNext, LenProperties DEF TypeInv, StreamLength
<1>2. /\ N \in Nat /\ StreamLength' = T + N /\ samplesEmitted' = FrameSize * Len(emitted')
  <2>1. StreamGrows(disc, N)
    BY StreamNext
  <2>. QED
    BY <2>1 DEF StreamGrows
<1>3. /\ \A k \in 1 .. T : SampleAt(k)' = SampleAt(k) /\ SampleAt(k).last \in 1 .. L
      /\ \A k \in T + 1 .. T + N : SampleAt(k)'.last \in L + 1 .. L + size
  BY SamplesNext
<1>. HIDE DEF N, L, T
<1>4. ASSUME NEW k \in 1 .. T + N
      PROVE  SampleAt(k)'.last \in 1 .. L + size
  <2>1. CASE k \in 1 .. T
    <3>1. SampleAt(k)'.last \in 1 .. L
      BY <2>1, <1>3
    <3>. QED
      BY <3>1, <1>1
  <2>2. CASE k \in T + 1 .. T + N
    <3>1. SampleAt(k)'.last \in L + 1 .. L + size
      BY <2>2, <1>3
    <3>. QED
      BY <3>1, <1>1
  <2>3. k \in 1 .. T \/ k \in T + 1 .. T + N
    BY <1>1, <1>2
  <2>. QED
    BY <2>1, <2>2, <2>3
<1>5. FrameSize' = FrameSize
  BY DEF Process, FrameSize
<1>. QED
  BY <1>1, <1>2, <1>4, <1>5 DEF StreamInv

-----------------------------------------------------------------------------
(* One call of process(): the flags.                                       *)

\* The resets up to the k-th sample are those before, or all of them.
LEMMA ResetsNext ==
  ASSUME TypeInv, FilterInv, StreamInv,
         NEW size \in Nat, NEW disc \in BOOLEAN, NEW skip \in Nat,
         Process(size, disc, skip),
         NEW N, N = DueCount(Factor, From(disc), size)
  PROVE  /\ \A k \in 0 .. StreamLength :
              ResetsBefore(k)' = ResetsBefore(k) /\ ResetsBefore(k) \in 0 .. resets
         /\ \A k \in StreamLength + 1 .. StreamLength + N : ResetsBefore(k)' = resets'
<1>. DEFINE L == Len(heard)
            T == StreamLength
<1>1. /\ L \in Nat /\ T \in Nat /\ resets \in Nat
      /\ \A i \in 1 .. L : heard'[i] = heard[i]
      /\ \A i \in L + 1 .. L + size : heard'[i].resets = resets'
  BY HeardNext, LenProperties DEF TypeInv, StreamLength
<1>2. /\ \A k \in 1 .. T : SampleAt(k)' = SampleAt(k) /\ SampleAt(k).last \in 1 .. L
      /\ \A k \in T + 1 .. T + N : SampleAt(k)'.last \in L + 1 .. L + size
  BY SamplesNext
<1>3. N \in Nat
  <2>1. StreamGrows(disc, N)
    BY StreamNext
  <2>. QED
    BY <2>1 DEF StreamGrows
<1>4. \A i \in 1 .. L : heard[i].resets \in 0 .. resets
  <2>1. \A i \in 1 .. L : heard[i] \in Heard
    BY ElementOfSeq DEF TypeInv
  <2>2. \A i \in 1 .. L : heard[i].resets \in Nat /\ heard[i].resets <= resets
    BY <2>1 DEF FilterInv, Heard
  <2>. QED
    BY <2>2, <1>1
<1>. HIDE DEF L, T
<1>5. ASSUME NEW k \in 0 .. T
      PROVE  ResetsBefore(k)' = ResetsBefore(k) /\ ResetsBefore(k) \in 0 .. resets
  <2>1. CASE k = 0
    BY <2>1, <1>1 DEF ResetsBefore
  <2>2. CASE k # 0
    <3>1. k \in 1 .. T
      BY <2>2, <1>1
    <3>. DEFINE i == SampleAt(k).last
    <3>2. i \in 1 .. L /\ SampleAt(k)' = SampleAt(k)
      BY <3>1, <1>2
    <3>3. ResetsBefore(k) = heard[i].resets /\ ResetsBefore(k)' = heard'[SampleAt(k)'.last].resets
      BY <2>2 DEF ResetsBefore
    <3>. HIDE DEF i
    <3>4. heard'[i] = heard[i] /\ heard[i].resets \in 0 .. resets
      BY <3>2, <1>1, <1>4
    <3>. QED
      BY <3>2, <3>3, <3>4 DEF i
  <2>. QED
    BY <2>1, <2>2
<1>6. ASSUME NEW k \in T + 1 .. T + N
      PROVE  ResetsBefore(k)' = resets'
  <2>1. k # 0 /\ SampleAt(k)'.last \in L + 1 .. L + size
    BY <1>1, <1>2, <1>3
  <2>2. ResetsBefore(k)' = heard'[SampleAt(k)'.last].resets
    BY <2>1 DEF ResetsBefore
  <2>. QED
    BY <2>1, <2>2, <1>1
<1>. QED
  BY <1>5, <1>6 DEF T

\* The flag that is due now is the one of the next frame.
LEMMA FlagNext ==
  ASSUME TypeInv, FilterInv, StreamInv, FlagInv,
         NEW size \in Nat, NEW disc \in BOOLEAN, NEW skip \in Nat,
         Process(size, disc, skip)
  PROVE  pendingDisc \/ disc <=> ResetsBefore(samplesEmitted) # resets'
<1>1. resets \in Nat /\ resets' = IF disc THEN resets + 1 ELSE resets
  BY HeardNext DEF TypeInv
<1>2. ResetsBefore(samplesEmitted) \in 0 .. resets
  <2>1. samplesEmitted \in 0 .. StreamLength
    BY LenProperties DEF TypeInv, StreamLength
  <2>. QED
    BY <2>1, ResetsNext
<1>3. CASE disc
  BY <1>1, <1>2, <1>3
<1>4. CASE ~disc
  BY <1>1, <1>4 DEF FlagInv
<1>. QED
  BY <1>3, <1>4

\* A call of process() flags the frames that hold the first sample after a reset.
LEMMA FlagsKept ==
  ASSUME TypeInv, FilterInv, StreamInv, FlagInv, FlagsMarkResets, Len(pending) < FrameSize,
         NEW size \in Nat, NEW disc \in BOOLEAN, NEW skip \in Nat,
         Process(size, disc, skip)
  PROVE  FlagInv' /\ FlagsMarkResets'
<1>. DEFINE N == DueCount(Factor, From(disc), size)
            F == FrameSize
            E == samplesEmitted
            M == Len(emitted)
            r == Len(pending)
            T == StreamLength
            c == (r + N) \div F
            flag == pendingDisc \/ disc
<1>1. /\ Created /\ F \in Nat \ {0} /\ F' = F
      /\ E \in Nat /\ M \in Nat /\ r \in Nat /\ T = E + r /\ r < F /\ E = F * M
  BY Sizes, LenProperties DEF Process, TypeInv, StreamLength, FrameSize, StreamInv
<1>2. /\ N \in Nat /\ Len(emitted') = M + c /\ samplesEmitted' = F * Len(emitted')
      /\ samplesEmitted' + Len(pending') = T + N
      /\ samplesEmitted' \in Nat /\ Len(pending') \in Nat
      /\ pendingDisc' = StillDue(flag, c)
      /\ \A n \in 1 .. M : emitted'[n] = emitted[n]
      /\ \A n \in M + 1 .. M + c : emitted'[n].disc = (flag /\ n = M + 1)
  <2>1. StreamGrows(disc, N)
    BY StreamNext
  <2>2. Len(emitted') = M + c
    BY <2>1 DEF StreamGrows
  <2>3. Len(pending') \in Nat
    BY <2>1, LenProperties DEF StreamGrows
  <2>. QED
    BY <2>1, <2>2, <2>3 DEF StreamGrows, StreamLength
<1>3. /\ \A k \in 0 .. T : ResetsBefore(k)' = ResetsBefore(k)
      /\ \A k \in T + 1 .. T + N : ResetsBefore(k)' = resets'
  BY ResetsNext
<1>4. flag <=> ResetsBefore(E) # resets'
  BY FlagNext
<1>5. c \in Nat
  <2>1. N \in Nat /\ r \in Nat /\ F \in Nat \ {0}
    BY <1>1, <1>2, Zenon
  <2>. HIDE DEF N, F, r
  <2>2. r + N \in Nat
    BY <2>1
  <2>. QED
    BY <2>1, <2>2, Division DEF c
<1>. HIDE DEF N, F, E, M, r, T, c
<1>6. F * (M + c) <= T + N
  <2>1. F * (M + c) = samplesEmitted'
    BY <1>2
  <2>. QED
    BY <2>1, <1>2
<1>7. ASSUME NEW n \in 0 .. M
      PROVE  F * n \in 0 .. T
  <2>1. F * n \in Nat /\ F * n <= F * M
    BY <1>1
  <2>. QED
    BY <2>1, <1>1
<1>8. ASSUME NEW n \in M + 1 .. M + c
      PROVE  F * n \in T + 1 .. T + N
  <2>1. n \in Nat /\ M + 1 <= n /\ n <= M + c /\ M + c \in Nat
    BY <1>1, <1>5
  <2>2. F * n \in Nat /\ F * (M + 1) <= F * n /\ F * n <= F * (M + c)
    BY <2>1, <1>1, <1>5
  <2>3. F * (M + 1) = E + F /\ F * (M + c) \in Nat
    BY <1>1, <1>5
  <2>. DEFINE x == F * n
              y == F * (M + c)
  <2>. HIDE DEF x, y
  <2>4. x \in Nat /\ y \in Nat /\ E + F <= x /\ x <= y /\ y <= T + N
    BY <2>2, <2>3, <1>6 DEF x, y
  <2>5. x \in T + 1 .. T + N
    BY <2>4, <1>1, <1>2
  <2>. QED
    BY <2>5 DEF x
<1>9. ASSUME NEW k, k = E
      PROVE  ResetsBefore(k)' = ResetsBefore(k) /\ (flag <=> ResetsBefore(k)' # resets')
  <2>1. k \in 0 .. T
    BY <1>1, <1>9
  <2>. QED
    BY <2>1, <1>3, <1>4, <1>9
<1>10. ASSUME NEW k, k = samplesEmitted'
       PROVE  pendingDisc' <=> ResetsBefore(k)' # resets'
  <2>1. CASE c = 0
    <3>1. k = E /\ pendingDisc' = flag
      BY <2>1, <1>1, <1>2, <1>10 DEF StillDue
    <3>. QED
      BY <3>1, <1>9
  <2>2. CASE c # 0
    <3>1. M + c \in M + 1 .. M + c
      BY <2>2, <1>1, <1>5
    <3>2. k \in T + 1 .. T + N
      BY <3>1, <1>2, <1>8, <1>10
    <3>3. ResetsBefore(k)' = resets' /\ pendingDisc' = FALSE
      BY <2>2, <3>2, <1>2, <1>3 DEF StillDue
    <3>. QED
      BY <3>3
  <2>. QED
    BY <2>1, <2>2
<1>11. ASSUME NEW n \in 1 .. M + c, NEW j, j = (n - 1) * F, NEW k, k = n * F
       PROVE  emitted'[n].disc <=> ResetsBefore(j)' # ResetsBefore(k)'
  <2>1. n \in Nat /\ n - 1 \in Nat /\ j = F * (n - 1) /\ k = F * n
    BY <1>1, <1>5, <1>11
  <2>2. CASE n <= M
    <3>1. n \in 1 .. M /\ n \in 0 .. M /\ n - 1 \in 0 .. M
      BY <2>1, <2>2, <1>1
    <3>2. j \in 0 .. T /\ k \in 0 .. T
      BY <2>1, <3>1, <1>7
    <3>3. ResetsBefore(j)' = ResetsBefore(j) /\ ResetsBefore(k)' = ResetsBefore(k)
      BY <3>2, <1>3
    <3>4. emitted[n].disc <=> ResetsBefore(j) # ResetsBefore(k)
      BY <3>1, <1>11 DEF FlagsMarkResets, HoldsReset, M, F
    <3>. QED
      BY <3>1, <3>3, <3>4, <1>2
  <2>3. CASE n = M + 1
    <3>1. n \in M + 1 .. M + c /\ j = E
      BY <2>1, <2>3, <1>1, <1>5
    <3>2. ResetsBefore(k)' = resets'
      BY <2>1, <3>1, <1>3, <1>8
    <3>3. emitted'[n].disc = flag
      BY <2>3, <3>1, <1>2
    <3>. QED
      BY <3>1, <3>2, <3>3, <1>9
  <2>4. CASE n > M + 1
    <3>1. n \in M + 1 .. M + c /\ n - 1 \in M + 1 .. M + c /\ n # M + 1
      BY <2>1, <2>4, <1>1, <1>5
    <3>2. ResetsBefore(j)' = resets' /\ ResetsBefore(k)' = resets'
      BY <2>1, <3>1, <1>3, <1>8
    <3>3. ~emitted'[n].disc
      BY <3>1, <1>2
    <3>. QED
      BY <3>2, <3>3
  <2>. QED
    BY <2>1, <2>2, <2>3, <2>4, <1>1
<1>12. ASSUME NEW n \in 1 .. Len(emitted')
       PROVE  emitted'[n].disc <=> HoldsReset(n)'
  <2>1. n \in 1 .. M + c
    BY <1>2
  <2>2. \A j, k : j = (n - 1) * F /\ k = n * F
                    => (emitted'[n].disc <=> ResetsBefore(j)' # ResetsBefore(k)')
    BY <2>1, <1>11
  <2>. QED
    BY <2>2, <1>1 DEF HoldsReset, ResetsBefore, SampleAt, F
<1>13. FlagInv'
  BY <1>10 DEF FlagInv, ResetsBefore, SampleAt
<1>14. FlagsMarkResets'
  BY <1>12 DEF FlagsMarkResets
<1>. QED
  BY <1>13, <1>14

-----------------------------------------------------------------------------
(* The stream is its reference, and its flags mark the resets.             *)

\* A call of process() keeps the types.
LEMMA TypeKept ==
  ASSUME TypeInv, FilterInv, StreamInv,
         NEW size \in Nat, NEW disc \in BOOLEAN, NEW skip \in Nat,
         Process(size, disc, skip)
  PROVE  TypeInv'
<1>. DEFINE N == DueCount(Factor, From(disc), size)
<1>1. Created /\ format' = format /\ calls' = calls + 1
  BY DEF Process
<1>2. format' \in StreamFormats /\ calls' \in Nat
  BY <1>1 DEF TypeInv
<1>3. heard' \in Seq(Heard) /\ clock' \in Nat /\ resets' \in Nat
  BY HeardNext
<1>4. phase' \in Nat /\ filled' \in Nat
  <2>1. phase' \in 0 .. Factor - 1 /\ filled' \in Nat
    BY <1>1, FilterNext
  <2>2. Factor \in Nat
    BY <1>1, Sizes
  <2>. QED
    BY <2>1, <2>2
<1>5. StreamGrows(disc, N)
  BY StreamNext
<1>. HIDE DEF N
<1>6. /\ emitted' \in Seq(Frames) /\ pending' \in Seq(Samples) /\ samplesEmitted' \in Nat
      /\ anchor' \in Seq(Nat) /\ Len(anchor') <= 1
  BY <1>5 DEF StreamGrows
<1>7. pendingDisc' \in BOOLEAN
  <2>1. pendingDisc' = StillDue(pendingDisc \/ disc, (Len(pending) + N) \div FrameSize)
    BY <1>5 DEF StreamGrows
  <2>. QED
    BY <2>1, Zenon DEF StillDue
<1>8. Created'
  BY <1>1 DEF Created, FrameSize
<1>. QED
  BY <1>2, <1>3, <1>4, <1>6, <1>7, <1>8 DEF TypeInv

\* The invariant holds before the first call, whatever create() returned.
LEMMA ProducerStarts == Init => ProducerInv
<1>. SUFFICES ASSUME Init
              PROVE  ProducerInv
  OBVIOUS
<1>1. Len(heard) = 0 /\ Len(emitted) = 0 /\ Len(pending) = 0 /\ Len(anchor) = 0
  <2>1. heard = <<>> /\ emitted = <<>> /\ pending = <<>> /\ anchor = <<>>
    BY DEF Init
  <2>. QED
    BY <2>1, EmptySeq
<1>2. TypeInv
  <2>1. heard \in Seq(Heard) /\ emitted \in Seq(Frames) /\ pending \in Seq(Samples)
        /\ anchor \in Seq(Nat)
    BY EmptySeq DEF Init
  <2>2. pendingDisc \in BOOLEAN
    BY DEF Init
  <2>. QED
    BY <1>1, <2>1, <2>2 DEF Init, TypeInv
<1>3. StreamLength = 0 /\ samplesEmitted = 0
  BY <1>1 DEF Init, StreamLength
<1>4. DueSamples = {} /\ {j \in 1 .. Len(heard) : heard[j].resets < resets} = {}
  BY <1>1 DEF DueSamples
<1>5. Epoch = 1
  <2>1. Cardinality({}) = 0
    BY FS_EmptySet
  <2>2. Epoch = Cardinality({}) + 1
    BY <1>4, Zenon DEF Epoch
  <2>. QED
    BY <2>1, <2>2
<1>6. ASSUME Created
      PROVE  FilterInv /\ StreamInv /\ FlagInv
  <2>1. Factor \in Nat \ {0} /\ TapCount \in Nat \ {0} /\ FrameSize \in Nat \ {0}
    BY <1>2, <1>6, Sizes
  <2>2. 0 % Factor = 0 /\ Len(heard) - Epoch + 1 = 0
    BY <1>1, <1>5, <2>1
  <2>3. FilterInv
    BY <1>1, <2>1, <2>2 DEF FilterInv, FilterWidth, Init
  <2>4. StreamInv
    BY <1>1, <1>3, <2>1 DEF StreamInv
  <2>5. FlagInv
    BY <1>3 DEF FlagInv, ResetsBefore, Init
  <2>. QED
    BY <2>3, <2>4, <2>5
<1>7. StreamIsTheReference
  <2>1. ASSUME Created
        PROVE  Len(pending) < FrameSize
    BY <1>1, <1>2, <2>1, Sizes
  <2>2. Cardinality({}) = 0
    BY FS_EmptySet
  <2>. QED
    BY <1>3, <1>4, <2>1, <2>2 DEF StreamIsTheReference, DueSamples
<1>8. FlagsMarkResets
  BY <1>1 DEF FlagsMarkResets
<1>. QED
  BY <1>2, <1>6, <1>7, <1>8 DEF ProducerInv

\* A frame of another format, or no call, changes nothing the invariant is about.
LEMMA ProducerRests ==
  ASSUME ProducerInv, UNCHANGED <<format, filterVars, outputVars, heard>>,
         clock' \in Nat, calls' \in Nat
  PROVE  ProducerInv'
<1>1. /\ format' = format /\ phase' = phase /\ filled' = filled /\ resets' = resets
      /\ pending' = pending /\ pendingDisc' = pendingDisc /\ anchor' = anchor
      /\ samplesEmitted' = samplesEmitted /\ emitted' = emitted /\ heard' = heard
  BY DEF filterVars, outputVars
<1>2. Created' <=> Created
  BY <1>1 DEF Created, FrameSize
<1>3. TypeInv'
  BY <1>1, <1>2 DEF ProducerInv, TypeInv
<1>4. Factor' = Factor /\ TapCount' = TapCount /\ FrameSize' = FrameSize
  BY <1>1 DEF Factor, TapCount, FrameSize
<1>5. FilterInv' <=> FilterInv
  BY <1>1, <1>4 DEF FilterInv, Epoch, FilterWidth
<1>6. StreamLength' = StreamLength /\ \A k : SampleAt(k)' = SampleAt(k)
  BY <1>1, <1>4 DEF StreamLength, SampleAt
<1>7. StreamInv' <=> StreamInv
  BY <1>1, <1>4, <1>6 DEF StreamInv
<1>8. \A k : ResetsBefore(k)' = ResetsBefore(k)
  BY <1>1, <1>6 DEF ResetsBefore
<1>9. FlagInv' <=> FlagInv
  <2>1. ASSUME NEW k, k = samplesEmitted
        PROVE  FlagInv' <=> (pendingDisc <=> ResetsBefore(k)' # resets)
    BY <1>1, <2>1 DEF FlagInv, ResetsBefore, SampleAt
  <2>2. ASSUME NEW k, k = samplesEmitted
        PROVE  FlagInv <=> (pendingDisc <=> ResetsBefore(k) # resets)
    BY <2>2 DEF FlagInv
  <2>. QED
    BY <1>8, <2>1, <2>2
<1>10. DueSamples' = DueSamples /\ \A i : Reference(i)' = Reference(i)
  BY <1>1, <1>4 DEF DueSamples, IsDue, EpochStart, Reference
<1>11. StreamIsTheReference'
  <2>1. /\ Created => Len(pending) < FrameSize /\ StreamLength = Cardinality(DueSamples)
        /\ \A i \in DueSamples : Created => SampleAt(Rank(i)) = Reference(i)
    BY DEF ProducerInv, StreamIsTheReference, DueSamples, Rank
  <2>2. \A i : Rank(i)' = Rank(i)
    BY <1>10 DEF Rank
  <2>3. ASSUME NEW i \in DueSamples', Created
        PROVE  SampleAt(Rank(i))' = Reference(i)'
    <3>1. \A k : k = Rank(i)' => SampleAt(k)' = Reference(i)'
      BY <1>6, <1>10, <2>1, <2>2, <2>3
    <3>. QED
      BY <3>1 DEF SampleAt
  <2>4. Created => Len(pending)' < FrameSize' /\ StreamLength' = Cardinality(DueSamples')
    BY <1>1, <1>4, <1>6, <1>10, <2>1
  <2>. QED
    BY <1>2, <2>3, <2>4 DEF StreamIsTheReference, DueSamples, Rank
<1>12. FlagsMarkResets'
  <2>1. ASSUME NEW n
        PROVE  HoldsReset(n)' <=> HoldsReset(n)
    <3>1. ASSUME NEW j, NEW k, j = (n - 1) * FrameSize, k = n * FrameSize
          PROVE  HoldsReset(n)' <=> ResetsBefore(j)' # ResetsBefore(k)'
      BY <1>4, <3>1 DEF HoldsReset, ResetsBefore, SampleAt
    <3>2. ASSUME NEW j, NEW k, j = (n - 1) * FrameSize, k = n * FrameSize
          PROVE  HoldsReset(n) <=> ResetsBefore(j) # ResetsBefore(k)
      BY <3>2 DEF HoldsReset
    <3>. QED
      BY <1>8, <3>1, <3>2
  <2>2. FlagsMarkResets
    BY DEF ProducerInv
  <2>. QED
    BY <1>1, <2>1, <2>2 DEF FlagsMarkResets
<1>. QED
  BY <1>2, <1>3, <1>5, <1>7, <1>9, <1>11, <1>12 DEF ProducerInv

\* Every call keeps the invariant.
LEMMA ProducerSteps == ProducerInv /\ [Next]_vars => ProducerInv'
<1>. SUFFICES ASSUME ProducerInv, [Next]_vars
              PROVE  ProducerInv'
  OBVIOUS
<1>1. ASSUME NEW size \in FrameSamples, NEW skip \in Skips, Reject(size, skip)
      PROVE  ProducerInv'
  <2>1. Created /\ TypeInv
    BY <1>1 DEF Reject, ProducerInv
  <2>2. size \in Nat /\ skip \in Nat /\ InputHz \in Nat \ {0} /\ clock \in Nat /\ calls \in Nat
    BY <2>1, Sizes DEF TypeInv
  <2>3. Duration(size, InputHz) \in Nat
    BY <2>2, DurationType
  <2>4. clock' \in Nat /\ calls' \in Nat
    BY <1>1, <2>2, <2>3 DEF Reject
  <2>5. UNCHANGED <<format, filterVars, outputVars, heard>>
    BY <1>1 DEF Reject
  <2>. QED
    BY <2>4, <2>5, ProducerRests
<1>2. ASSUME NEW size \in FrameSamples, NEW skip \in Skips, NEW disc \in BOOLEAN,
             Process(size, disc, skip)
      PROVE  ProducerInv'
  <2>1. Created /\ Created'
    BY <1>2 DEF Process, Created, FrameSize
  <2>2. /\ TypeInv /\ FilterInv /\ StreamInv /\ FlagInv
        /\ StreamIsTheReference /\ FlagsMarkResets /\ Len(pending) < FrameSize
    BY <2>1 DEF ProducerInv, StreamIsTheReference
  <2>3. size \in Nat /\ skip \in Nat
    BY <2>1, <2>2, Sizes
  <2>4. TypeInv' /\ StreamInv' /\ StreamIsTheReference'
    BY <1>2, <2>2, <2>3, TypeKept, StreamKept, ReferenceKept
  <2>5. FilterInv'
    BY <1>2, <2>1, <2>2, <2>3, FilterNext
  <2>6. FlagInv' /\ FlagsMarkResets'
    BY <1>2, <2>2, <2>3, FlagsKept
  <2>. QED
    BY <2>1, <2>4, <2>5, <2>6 DEF ProducerInv
<1>3. CASE UNCHANGED vars
  <2>1. clock' = clock /\ calls' = calls /\ UNCHANGED <<format, filterVars, outputVars, heard>>
    BY <1>3 DEF vars
  <2>2. clock' \in Nat /\ calls' \in Nat
    BY <2>1 DEF ProducerInv, TypeInv
  <2>. QED
    BY <2>1, <2>2, ProducerRests
<1>. QED
  BY <1>1, <1>2, <1>3 DEF Next

\* Whatever process() is called with, the producer keeps its invariant.
THEOREM ProducerHolds == Spec => []ProducerInv
BY ProducerStarts, ProducerSteps, PTL DEF Spec

\* The types of the producer's state, for every configuration.
THEOREM ProducerTypes == Spec => []TypeInv
<1>1. ProducerInv => TypeInv
  BY DEF ProducerInv
<1>. QED
  BY <1>1, ProducerHolds, PTL

\* SttStreamProducer::process() neither loses nor repeats nor smears a sample:
\* what it sent and what waits is every Factor-th sample of each stretch, filtered
\* over that stretch only, for every filter length, frame size and input.
THEOREM StreamIsReference == Spec => []StreamIsTheReference
<1>1. ProducerInv => StreamIsTheReference
  BY DEF ProducerInv
<1>. QED
  BY <1>1, ProducerHolds, PTL

\* The frames flagged discontinuous are exactly those that hold the first sample
\* after a reset, however many calls it takes to fill them.
THEOREM FlagsAreResets == Spec => []FlagsMarkResets
<1>1. ProducerInv => FlagsMarkResets
  BY DEF ProducerInv
<1>. QED
  BY <1>1, ProducerHolds, PTL

-----------------------------------------------------------------------------
(* The timestamps.                                                         *)

\* The output samples of a call last as long as its input, but for the change
\* in what the turn under way lacks.
LEMMA PadNext ==
  ASSUME NEW F \in Nat \ {0}, NEW from \in 0 .. F - 1, NEW size \in Nat
  PROVE  /\ Pad(F, from) \in 0 .. F - 1
         /\ F * DueCount(F, from, size) - size = Pad(F, (from + size) % F) - Pad(F, from)
<1>. DEFINE q == (from + size) \div F
            r == (from + size) % F
            b == Begun(r)
            c == Begun(from)
<1>1. q \in Nat /\ r \in 0 .. F - 1 /\ from + size = F * q + r
  <2>1. from + size \in Nat
    OBVIOUS
  <2>. QED
    BY <2>1, Division
<1>2. c \in {0, 1} /\ (c = 0 <=> from = 0) /\ b \in {0, 1} /\ (b = 0 <=> r = 0)
  BY DEF Begun
<1>. HIDE DEF q, r, b, c
<1>3. F * c - from \in 0 .. F - 1
  <2>1. CASE c = 0
    BY <2>1, <1>2
  <2>2. CASE c = 1
    BY <2>2, <1>2
  <2>. QED
    BY <2>1, <2>2, <1>2
<1>4. (from + size + F - 1) \div F = q + b
  <2>1. CASE b = 0
    <3>1. F - 1 \in 0 .. F - 1 /\ from + size + F - 1 = F * q + (F - 1)
      BY <2>1, <1>1, <1>2
    <3>2. (F * q + (F - 1)) \div F = q
      BY <3>1, <1>1, DivisionIs
    <3>. QED
      BY <2>1, <3>1, <3>2, <1>1
  <2>2. CASE b = 1
    <3>1. r - 1 \in 0 .. F - 1 /\ q + 1 \in Nat
      BY <2>2, <1>1, <1>2
    <3>2. (F * (q + 1) + (r - 1)) \div F = q + 1
      BY <3>1, DivisionIs
    <3>3. F * (q + 1) = F * q + F
      BY <1>1
    <3>4. from + size + F - 1 = F * (q + 1) + (r - 1)
      BY <3>1, <3>3, <1>1
    <3>. QED
      BY <2>2, <3>2, <3>4
  <2>. QED
    BY <2>1, <2>2, <1>2
<1>5. F * (q + b - c) = F * q + F * b - F * c
  BY <1>1, <1>2
<1>6. F * (q + b - c) - size = (F * b - r) - (F * c - from)
  <2>. DEFINE u == F * q
              v == F * b
              w == F * c
              x == F * (q + b - c)
  <2>1. u \in Int /\ v \in Int /\ w \in Int /\ x = u + v - w /\ from + size = u + r
    BY <1>1, <1>2, <1>5
  <2>. HIDE DEF u, v, w, x
  <2>2. x - size = (v - r) - (w - from)
    BY <2>1, <1>1
  <2>. QED
    BY <2>2 DEF v, w, x
<1>7. DueCount(F, from, size) = q + b - c
  <2>. DEFINE x == (from + size + F - 1) \div F
  <2>1. DueCount(F, from, size) = x - c /\ x = q + b
    BY <1>4 DEF DueCount, c
  <2>. HIDE DEF x
  <2>. QED
    BY <2>1, <1>1, <1>2
<1>8. Pad(F, from) = F * c - from /\ Pad(F, r) = F * b - r
  BY DEF Pad, b, c
<1>9. F * DueCount(F, from, size) - size = Pad(F, r) - Pad(F, from)
  BY <1>6, <1>7, <1>8
<1>10. Pad(F, from) \in 0 .. F - 1
  BY <1>3, <1>8, Zenon
<1>. QED
  BY <1>9, <1>10, Zenon DEF r

\* The phase is one.
LEMMA PhaseType ==
  ASSUME TypeInv, Created, FilterInv
  PROVE  phase \in 0 .. Factor - 1
<1>. DEFINE L == Len(heard)
            old == {j \in 1 .. L : heard[j].resets < resets}
<1>1. L \in Nat /\ Factor \in Nat \ {0}
  BY Sizes, LenProperties DEF TypeInv
<1>2. Cardinality(old) \in 0 .. L
  <2>1. old \in SUBSET (1 .. L)
    OBVIOUS
  <2>2. IsFiniteSet(1 .. L) /\ Cardinality(1 .. L) = L
    BY <1>1, IntervalSize
  <2>3. IsFiniteSet(old) /\ Cardinality(old) <= L
    BY <2>1, <2>2, FS_Subset
  <2>. QED
    BY <2>3, FS_CardinalityType
<1>3. L - Epoch + 1 \in Nat
  BY <1>1, <1>2 DEF Epoch
<1>. QED
  BY <1>1, <1>3, Division DEF FilterInv

\* A reset puts the stream ahead by what the turn under way lacked; nothing
\* else does.
LEMMA AheadNext ==
  ASSUME TypeInv, FilterInv, StreamInv, AheadInv,
         NEW size \in Nat, NEW disc \in BOOLEAN, NEW skip \in Nat,
         Process(size, disc, skip)
  PROVE  AheadInv'
<1>. DEFINE F == Factor
            L == Len(heard)
            T == StreamLength
            from == From(disc)
            N == DueCount(F, from, size)
            R == resets'
            ahead == F * T - L - Pad(F, from)
<1>1. /\ Created /\ F \in Nat \ {0} /\ F' = F
      /\ L \in Nat /\ T \in Nat /\ resets \in Nat
  BY Sizes, LenProperties DEF Process, TypeInv, StreamLength, Factor
<1>2. from \in 0 .. F - 1 /\ phase \in 0 .. F - 1
  BY <1>1, DueNext, PhaseType
<1>3. /\ Len(heard') = L + size /\ R \in Nat
      /\ R = IF disc THEN resets + 1 ELSE resets
      /\ \A i \in 1 .. L : heard'[i] = heard[i]
      /\ \A i \in L + 1 .. L + size : heard'[i].resets = R
  BY HeardNext
<1>4. N \in Nat /\ StreamLength' = T + N
  <2>1. StreamGrows(disc, N)
    BY StreamNext
  <2>. QED
    BY <2>1 DEF StreamGrows
<1>5. /\ \A k \in 1 .. T : SampleAt(k)' = SampleAt(k) /\ SampleAt(k).last \in 1 .. L
      /\ \A k \in T + 1 .. T + N :
           /\ SampleAt(k)'.last = L + DueAt(F, from, k - T)
           /\ SampleAt(k)'.last \in L + 1 .. L + size
  BY SamplesNext
<1>6. phase' = (from + size) % F
  BY DEF Process, From
<1>7. /\ Pad(F, from) \in 0 .. F - 1 /\ Pad(F, phase) \in 0 .. F - 1 /\ Pad(F, phase') \in 0 .. F - 1
      /\ F * N - size = Pad(F, phase') - Pad(F, from)
  <2>1. phase' \in 0 .. F - 1
    BY <1>1, FilterNext
  <2>. HIDE DEF F, from
  <2>. QED
    BY <2>1, <1>1, <1>2, <1>6, PadNext
<1>8. /\ F * T - L - Pad(F, phase) \in 0 .. (F - 1) * resets
      /\ \A k \in 1 .. T :
           F * (k - 1) - (SampleAt(k).last - 1) \in 0 .. (F - 1) * heard[SampleAt(k).last].resets
  BY DEF AheadInv
<1>9. disc => from = 0
  BY DEF From
<1>10. ~disc => from = phase
  BY DEF From
<1>. HIDE DEF F, L, T, from, N, R
<1>11. ahead \in 0 .. (F - 1) * R
  <2>. DEFINE u == F * T
              v == (F - 1) * resets
  <2>1. u \in Int /\ v \in Int
    BY <1>1
  <2>2. CASE disc
    <3>1. Pad(F, from) = 0
      BY <2>2, <1>1, <1>9 DEF Pad, Begun
    <3>2. (F - 1) * R = v + (F - 1)
      BY <2>2, <1>1, <1>3
    <3>. DEFINE w == (F - 1) * R
    <3>. HIDE DEF u, v, w
    <3>3. u - L \in 0 .. w
      BY <2>1, <3>2, <1>1, <1>7, <1>8 DEF u, v, w
    <3>. QED
      BY <2>1, <3>1, <3>3, <1>1 DEF u, w
  <2>3. CASE ~disc
    BY <2>3, <1>3, <1>8, <1>10
  <2>. QED
    BY <2>2, <2>3
<1>12. F * (T + N) - (L + size) - Pad(F, phase') = ahead
  <2>. DEFINE u == F * T
              v == F * N
              w == F * (T + N)
  <2>1. u \in Int /\ v \in Int /\ w = u + v
    BY <1>1, <1>4
  <2>2. v - size = Pad(F, phase') - Pad(F, from)
    BY <1>7
  <2>. HIDE DEF u, v, w
  <2>3. w - (L + size) - Pad(F, phase') = u - L - Pad(F, from)
    BY <2>1, <2>2, <1>1, <1>7
  <2>. QED
    BY <2>3 DEF u, w
<1>13. ASSUME NEW k \in 1 .. T
       PROVE  F * (k - 1) - (SampleAt(k)'.last - 1)
                \in 0 .. (F - 1) * heard'[SampleAt(k)'.last].resets
  <2>1. SampleAt(k)' = SampleAt(k) /\ heard'[SampleAt(k).last] = heard[SampleAt(k).last]
    BY <1>3, <1>5
  <2>. QED
    BY <2>1, <1>8
<1>14. ASSUME NEW k \in T + 1 .. T + N
       PROVE  F * (k - 1) - (SampleAt(k)'.last - 1)
                \in 0 .. (F - 1) * heard'[SampleAt(k)'.last].resets
  <2>. DEFINE b == Begun(from)
              i == SampleAt(k)'.last
  <2>1. i = L + DueAt(F, from, k - T) /\ i \in L + 1 .. L + size
    BY <1>5
  <2>2. heard'[i].resets = R
    BY <2>1, <1>3
  <2>3. b \in {0, 1} /\ k - T \in Nat
    BY <1>1, <1>4 DEF Begun
  <2>4. DueAt(F, from, k - T) = F * (k - T - 1 + b) + 1 - from /\ Pad(F, from) = F * b - from
    BY DEF DueAt, Pad
  <2>. HIDE DEF i, b
  <2>5. F * (k - 1) - (i - 1) = ahead
    <3>. DEFINE u == F * T
                v == F * (k - T - 1)
                w == F * b
                x == F * (k - 1)
                y == F * (k - T - 1 + b)
    <3>1. u \in Int /\ v \in Int /\ w \in Int /\ x = u + v /\ y = v + w
      BY <2>3, <1>1
    <3>2. i = L + (y + 1 - from) /\ Pad(F, from) = w - from
      BY <2>1, <2>4
    <3>. HIDE DEF u, v, w, x, y
    <3>3. x - (i - 1) = u - L - Pad(F, from)
      BY <3>1, <3>2, <1>1, <1>2
    <3>. QED
      BY <3>3 DEF x, u
  <2>. QED
    BY <2>2, <2>5, <1>11 DEF i
<1>15. ASSUME NEW k \in 1 .. StreamLength'
       PROVE  F * (k - 1) - (SampleAt(k)'.last - 1)
                \in 0 .. (F - 1) * heard'[SampleAt(k)'.last].resets
  <2>1. k \in 1 .. T \/ k \in T + 1 .. T + N
    BY <1>1, <1>4
  <2>. QED
    BY <2>1, <1>13, <1>14
<1>16. F * StreamLength' - Len(heard') - Pad(F, phase') \in 0 .. (F - 1) * R
  BY <1>3, <1>4, <1>11, <1>12
<1>. QED
  BY <1>1, <1>15, <1>16 DEF AheadInv, Pad, F, R

\* The anchor stays the time of the first sample, and the frames' reference.
LEMMA AnchorKept ==
  ASSUME TypeInv, FilterInv, StreamInv, AnchorInv,
         NEW size \in Nat \ {0}, NEW disc \in BOOLEAN, NEW skip \in Nat,
         Process(size, disc, skip)
  PROVE  AnchorInv'
<1>. DEFINE L == Len(heard)
            M == Len(emitted)
            F == FrameSize
            N == DueCount(Factor, From(disc), size)
<1>1. /\ Created /\ L \in Nat /\ M \in Nat /\ F \in Nat \ {0} /\ F' = F /\ format' = format
      /\ heard \in Seq(Heard) /\ anchor' = IF anchor = <<>> THEN <<clock + skip>> ELSE anchor
  BY Sizes, LenProperties DEF Process, TypeInv, FrameSize
<1>2. /\ heard' \in Seq(Heard) /\ Len(heard') = L + size
      /\ \A i \in 1 .. L : heard'[i] = heard[i]
      /\ \A i \in L + 1 .. L + size :
           heard'[i].time = clock + skip + Duration(i - L - 1, InputHz)
  BY HeardNext
<1>3. heard = <<>> <=> L = 0
  <2>1. ASSUME NEW s \in Seq(Heard)
        PROVE  s = <<>> <=> Len(s) = 0
    BY EmptySeq
  <2>. QED
    BY <2>1, <1>1
<1>4. Len(heard') # 0 /\ heard' # <<>>
  <2>1. Len(heard') # 0
    BY <1>1, <1>2
  <2>. QED
    BY <2>1, EmptySeq
<1>5. anchor' = <<heard'[1].time>>
  <2>1. CASE heard = <<>>
    <3>1. L = 0 /\ anchor = <<>>
      BY <2>1, <1>3 DEF AnchorInv
    <3>2. 1 \in L + 1 .. L + size /\ 1 - L - 1 = 0
      BY <3>1, <1>1
    <3>3. Duration(0, InputHz) = 0
      <4>1. InputHz \in Nat \ {0} /\ Second \in Nat
        BY ProducerAssumption DEF ProducerAssumption
      <4>. QED
        BY <4>1 DEF Duration
    <3>4. clock + skip + 0 = clock + skip
      BY DEF TypeInv
    <3>. QED
      BY <3>1, <3>2, <3>3, <3>4, <1>1, <1>2
  <2>2. CASE heard # <<>>
    <3>1. anchor = <<heard[1].time>> /\ 1 \in 1 .. L
      BY <2>2, <1>1, <1>3 DEF AnchorInv
    <3>2. anchor' = anchor
      BY <3>1, <1>1
    <3>. QED
      BY <3>1, <3>2, <1>2
  <2>. QED
    BY <2>1, <2>2
<1>6. /\ N \in Nat /\ Len(emitted') \in Nat
      /\ \A n \in 1 .. M : emitted'[n] = emitted[n]
      /\ \A n \in M + 1 .. Len(emitted') : emitted'[n].timestamp = Stamp(anchor'[1], F * (n - 1))
  <2>1. StreamGrows(disc, N)
    BY StreamNext
  <2>. QED
    BY <2>1, LenProperties DEF StreamGrows
<1>7. ASSUME NEW n \in 1 .. Len(emitted')
      PROVE  emitted'[n].timestamp = Stamp(anchor'[1], F * (n - 1))
  <2>1. CASE n <= M
    <3>1. n \in 1 .. M /\ M > 0
      BY <2>1, <1>1
    <3>2. emitted[n].timestamp = Stamp(anchor[1], F * (n - 1))
      BY <3>1 DEF AnchorInv
    <3>3. L # 0
      <4>1. samplesEmitted = F * M /\ F * M > 0
        BY <3>1, <1>1 DEF StreamInv
      <4>2. Len(pending) \in Nat
        BY LenProperties DEF TypeInv
      <4>3. 1 \in 1 .. StreamLength
        BY <4>1, <4>2, <1>1 DEF StreamLength
      <4>4. SampleAt(1).last \in 1 .. L
        BY <4>3 DEF StreamInv
      <4>. QED
        BY <4>4
    <3>4. anchor # <<>>
      <4>1. heard # <<>>
        BY <3>3, <1>3
      <4>2. anchor = <<heard[1].time>>
        BY <4>1 DEF AnchorInv
      <4>. QED
        BY <4>2
    <3>. QED
      BY <3>1, <3>2, <3>4, <1>1, <1>6
  <2>2. CASE ~(n <= M)
    <3>1. n \in M + 1 .. Len(emitted')
      BY <2>2, <1>1, <1>6
    <3>. QED
      BY <3>1, <1>6
  <2>. QED
    BY <2>1, <2>2
<1>. QED
  BY <1>1, <1>4, <1>5, <1>7 DEF AnchorInv, Stamp, Duration, F

\* Two truncations of times that differ by at most c add up to less than a tick.
LEMMA Truncations ==
  ASSUME NEW a \in Nat, NEW b \in Nat, NEW c \in Nat, b <= c, NEW h \in Nat \ {0}
  PROVE  (a + b) \div h - (a \div h) \in 0 .. (c + h - 1) \div h
<1>. DEFINE p == a \div h
            q == (a + b) \div h
            u == (c + h - 1) \div h
            r == a % h
            s == (a + b) % h
            t == (c + h - 1) % h
<1>1. p \in Nat /\ r \in 0 .. h - 1 /\ a = h * p + r
  BY Division
<1>2. q \in Nat /\ s \in 0 .. h - 1 /\ a + b = h * q + s
  <2>1. a + b \in Nat
    OBVIOUS
  <2>. QED
    BY <2>1, Division
<1>3. u \in Nat /\ t \in 0 .. h - 1 /\ c + h - 1 = h * u + t
  <2>1. c + h - 1 \in Nat
    OBVIOUS
  <2>. QED
    BY <2>1, Division
<1>. HIDE DEF p, q, u, r, s, t
<1>4. h * p < h * (q + 1)
  <2>1. h * (q + 1) = h * q + h
    BY <1>2
  <2>. DEFINE x == h * p
              y == h * q
  <2>2. x \in Int /\ y \in Int
    BY <1>1, <1>2
  <2>. HIDE DEF x, y
  <2>3. x < y + h
    BY <2>2, <1>1, <1>2 DEF x, y
  <2>. QED
    BY <2>1, <2>3 DEF x, y
<1>5. h * q < h * (p + u + 1)
  <2>1. h * (p + u + 1) = h * p + h * u + h
    BY <1>1, <1>3
  <2>. DEFINE x == h * p
              y == h * q
              z == h * u
  <2>2. x \in Int /\ y \in Int /\ z \in Int
    BY <1>1, <1>2, <1>3
  <2>3. a = x + r /\ a + b = y + s /\ c + h - 1 = z + t
    BY <1>1, <1>2, <1>3
  <2>. HIDE DEF x, y, z
  <2>4. y < x + z + h
    BY <2>2, <2>3, <1>1, <1>2, <1>3
  <2>. QED
    BY <2>1, <2>4 DEF x, y, z
<1>6. p < q + 1 /\ q < p + u + 1
  BY <1>1, <1>2, <1>3, <1>4, <1>5
<1>7. q - p \in 0 .. u
  BY <1>1, <1>2, <1>3, <1>6
<1>. QED
  BY <1>7 DEF p, q, u

\* Output samples last as long as Factor times as many input samples.
LEMMA DurationScales ==
  ASSUME TypeInv, Created, NEW j \in Nat
  PROVE  Duration(j, format.hz) = Duration(Factor * j, InputHz)
<1>. DEFINE h == format.hz
            F == Factor
            x == j * Second
            q == x \div h
            r == x % h
<1>1. h \in Nat \ {0} /\ F \in Nat \ {0} /\ InputHz = h * F /\ Second \in Nat
  BY Sizes
<1>. HIDE DEF h, F
<1>2. x \in Nat
  BY <1>1
<1>3. q \in Nat /\ r \in 0 .. h - 1 /\ x = h * q + r
  BY <1>1, <1>2, Division
<1>4. (F * j) * Second = F * x
  BY <1>1
<1>. HIDE DEF x, q, r
<1>5. F * x = (h * F) * q + F * r
  <2>1. F * (h * q + r) = F * (h * q) + F * r
    BY <1>1, <1>3
  <2>2. F * (h * q) = (h * F) * q
    BY <1>1, <1>3
  <2>. QED
    BY <2>1, <2>2, <1>3
<1>6. h * F \in Nat \ {0} /\ F * r \in 0 .. (h * F) - 1
  <2>1. F * r \in Nat /\ F * r <= F * (h - 1) /\ F * (h - 1) = h * F - F
    BY <1>1, <1>3
  <2>2. h * F \in Nat \ {0}
    BY <1>1
  <2>. DEFINE y == h * F
              z == F * r
  <2>. HIDE DEF y, z
  <2>3. z \in Nat /\ z <= y - F /\ y \in Nat
    BY <2>1, <2>2 DEF y, z
  <2>4. z \in 0 .. y - 1
    BY <2>3, <1>1
  <2>. QED
    BY <2>2, <2>4 DEF y, z
<1>7. ((h * F) * q + F * r) \div (h * F) = q
  BY <1>3, <1>6, DivisionIs
<1>. QED
  BY <1>1, <1>4, <1>5, <1>7 DEF Duration, h, F, x, q

\* The first sample of a frame sent is the stream's at its place.
LEMMA FirstSample ==
  ASSUME TypeInv, Created, StreamInv, NEW n \in 1 .. Len(emitted)
  PROVE  /\ FrameSize * (n - 1) \in Nat
         /\ FrameSize * (n - 1) + 1 \in 1 .. StreamLength
         /\ SampleAt(FrameSize * (n - 1) + 1) = emitted[n].samples[1]
<1>. DEFINE F == FrameSize
            M == Len(emitted)
            j == F * (n - 1)
<1>1. F \in Nat \ {0} /\ M \in Nat /\ Len(pending) \in Nat /\ samplesEmitted = F * M
  BY Sizes, LenProperties DEF TypeInv, StreamInv
<1>. HIDE DEF F, M
<1>2. n \in Nat \ {0} /\ n - 1 \in Nat /\ n <= M
  BY <1>1 DEF M
<1>3. j \in Nat /\ j + F <= F * M
  <2>1. F * n <= F * M /\ j + F = F * n /\ j \in Nat
    BY <1>1, <1>2
  <2>. QED
    BY <2>1
<1>4. j \div F = n - 1 /\ j % F = 0
  BY <1>1, <1>2, Multiple
<1>. HIDE DEF j
<1>5. j + 1 <= samplesEmitted /\ j + 1 \in 1 .. samplesEmitted + Len(pending)
  <2>. DEFINE E == samplesEmitted
  <2>1. E \in Nat /\ j + F <= E
    BY <1>1, <1>3 DEF TypeInv
  <2>. HIDE DEF E
  <2>2. j + 1 <= E /\ j + 1 \in 1 .. E + Len(pending)
    BY <2>1, <1>1, <1>3
  <2>. QED
    BY <2>2 DEF E
<1>6. SampleAt(j + 1) = emitted[n].samples[1]
  <2>1. (j + 1) - 1 = j /\ (j \div F) + 1 = n /\ (j % F) + 1 = 1
    BY <1>2, <1>3, <1>4
  <2>2. SampleAt(j + 1) = emitted[(((j + 1) - 1) \div F) + 1].samples[(((j + 1) - 1) % F) + 1]
    BY <1>5 DEF SampleAt, F
  <2>. QED
    BY <2>1, <2>2
<1>. QED
  BY <1>3, <1>5, <1>6 DEF j, F, StreamLength

\* The invariants give the promise about the timestamps.
LEMMA StampsCount ==
  ASSUME TypeInv, Created, FilterInv, StreamInv, AheadInv, AnchorInv
  PROVE  TimestampsCountTheAudio
<1>. SUFFICES ASSUME NEW n \in 1 .. Len(emitted), NEW i, i = emitted[n].samples[1].last
              PROVE  emitted[n].timestamp + (heard[i].time - heard[1].time - Duration(i - 1, InputHz))
                       - heard[i].time
                       \in 0 .. LongestDuration((Factor - 1) * heard[i].resets)
  BY DEF TimestampsCountTheAudio
<1>. DEFINE F == Factor
            H == InputHz
            S == Second
            L == Len(heard)
            j == FrameSize * (n - 1)
            ahead == F * j - (i - 1)
            most == (F - 1) * heard[i].resets
<1>1. F \in Nat \ {0} /\ H \in Nat \ {0} /\ S \in Nat /\ L \in Nat /\ format.hz \in Nat \ {0}
  BY Sizes, LenProperties DEF TypeInv
<1>2. j \in Nat /\ j + 1 \in 1 .. StreamLength /\ SampleAt(j + 1).last = i
  BY FirstSample
<1>3. i \in 1 .. L
  BY <1>2 DEF StreamInv
<1>4. heard[i].time \in Nat /\ heard[i].resets \in Nat /\ heard[1].time \in Nat
  <2>1. heard[i] \in Heard /\ heard[1] \in Heard
    <3>1. 1 \in 1 .. L
      BY <1>1, <1>3
    <3>. QED
      BY <3>1, <1>3, ElementOfSeq DEF TypeInv
  <2>. QED
    BY <2>1 DEF Heard
<1>5. ahead \in 0 .. most
  <2>. HIDE DEF j
  <2>1. F * ((j + 1) - 1) - (i - 1) \in 0 .. most
    BY <1>2 DEF AheadInv
  <2>2. (j + 1) - 1 = j
    BY <1>2
  <2>. QED
    BY <2>1, <2>2
<1>6. anchor[1] = heard[1].time
  <2>1. heard # <<>>
    BY <1>1, <1>3, EmptySeq
  <2>2. anchor = <<heard[1].time>>
    BY <2>1 DEF AnchorInv
  <2>. QED
    BY <2>2
<1>7. emitted[n].timestamp = heard[1].time + Duration(F * j, H)
  <2>1. emitted[n].timestamp = Stamp(heard[1].time, j)
    BY <1>6 DEF AnchorInv
  <2>. HIDE DEF j
  <2>2. Duration(j, format.hz) = Duration(F * j, H)
    BY <1>2, DurationScales
  <2>. QED
    BY <2>1, <2>2 DEF Stamp
<1>. HIDE DEF F, H, S, L, j, most
<1>8. F * j \in Nat /\ most \in Nat /\ i - 1 \in Nat
  <2>1. \A p, q \in Nat : p * q \in Nat
    OBVIOUS
  <2>2. F \in Nat /\ F - 1 \in Nat
    BY <1>1
  <2>3. i - 1 \in Nat
    BY <1>1, <1>3
  <2>. QED
    BY <2>1, <2>2, <2>3, <1>2, <1>4, Zenon DEF most
<1>9. ahead \in Nat /\ ahead <= most /\ F * j = (i - 1) + ahead
  BY <1>5, <1>8
<1>. HIDE DEF ahead
<1>10. Duration(F * j, H) - Duration(i - 1, H) \in 0 .. LongestDuration(most)
  <2>. DEFINE a == (i - 1) * S
              b == ahead * S
              c == most * S
  <2>1. a \in Nat /\ b \in Nat /\ c \in Nat /\ b <= c
    <3>1. \A p, q, s \in Nat : p * s \in Nat /\ (p <= q => p * s <= q * s)
      OBVIOUS
    <3>. QED
      BY <3>1, <1>1, <1>8, <1>9, Zenon
  <2>2. (F * j) * S = a + b
    <3>1. \A p, q, s \in Nat : (p + q) * s = p * s + q * s
      OBVIOUS
    <3>2. i - 1 \in Nat /\ ahead \in Nat /\ S \in Nat
      BY <1>1, <1>8, <1>9
    <3>3. ((i - 1) + ahead) * S = a + b
      BY <3>1, <3>2, Zenon
    <3>. QED
      BY <3>3, <1>9, Zenon
  <2>. HIDE DEF a, b, c
  <2>3. (a + b) \div H - (a \div H) \in 0 .. (c + H - 1) \div H
    BY <2>1, <1>1, Truncations
  <2>4. Duration(F * j, H) = (a + b) \div H /\ Duration(i - 1, H) = a \div H
    BY <2>2 DEF Duration, a, S
  <2>5. LongestDuration(most) = (c + H - 1) \div H
    BY DEF LongestDuration, c, S, H
  <2>. QED
    BY <2>3, <2>4, <2>5
<1>11. Duration(F * j, H) \in Nat /\ Duration(i - 1, H) \in Nat
  BY <1>1, <1>8, DurationType DEF H
<1>. DEFINE d == Duration(F * j, H)
            e == Duration(i - 1, H)
            x == heard[1].time
            y == heard[i].time
<1>12. (x + d) + (y - x - e) - y = d - e
  <2>1. d \in Nat /\ e \in Nat /\ x \in Nat /\ y \in Nat
    BY <1>4, <1>11
  <2>. HIDE DEF d, e, x, y
  <2>. QED
    BY <2>1
<1>. QED
  BY <1>7, <1>10, <1>12 DEF most, F, H

\* Both, for a producer that exists.
StampInv == ProducerInv /\ (Created => AheadInv /\ AnchorInv)

\* The stream starts level with what was heard, and without an anchor.
LEMMA StampStarts == Init => StampInv
<1>. SUFFICES ASSUME Init
              PROVE  StampInv
  OBVIOUS
<1>1. ProducerInv
  BY ProducerStarts
<1>2. Len(heard) = 0 /\ Len(emitted) = 0 /\ Len(pending) = 0
  <2>1. heard = <<>> /\ emitted = <<>> /\ pending = <<>>
    BY DEF Init
  <2>. QED
    BY <2>1, EmptySeq
<1>3. StreamLength = 0 /\ phase = 0 /\ resets = 0
  BY <1>2 DEF Init, StreamLength
<1>4. ASSUME Created
      PROVE  AheadInv /\ AnchorInv
  <2>1. Factor \in Nat \ {0}
    BY <1>1, <1>4, Sizes DEF ProducerInv
  <2>2. AheadInv
    BY <1>2, <1>3, <2>1 DEF AheadInv, Pad, Begun
  <2>3. AnchorInv
    BY <1>2 DEF AnchorInv, Init
  <2>. QED
    BY <2>2, <2>3
<1>. QED
  BY <1>1, <1>4 DEF StampInv

\* What leaves the producer alone leaves its timestamps alone.
LEMMA StampRests ==
  ASSUME StampInv, UNCHANGED <<format, filterVars, outputVars, heard>>, ProducerInv'
  PROVE  StampInv'
<1>1. /\ format' = format /\ phase' = phase /\ resets' = resets
      /\ pending' = pending /\ anchor' = anchor
      /\ samplesEmitted' = samplesEmitted /\ emitted' = emitted /\ heard' = heard
  BY DEF filterVars, outputVars
<1>2. Created' <=> Created
  BY <1>1 DEF Created, FrameSize
<1>3. Factor' = Factor /\ FrameSize' = FrameSize
  BY <1>1 DEF Factor, FrameSize
<1>4. StreamLength' = StreamLength /\ \A k : SampleAt(k)' = SampleAt(k)
  BY <1>1, <1>3 DEF StreamLength, SampleAt
<1>5. AheadInv => AheadInv'
  BY <1>1, <1>3, <1>4 DEF AheadInv, Pad
<1>6. AnchorInv => AnchorInv'
  BY <1>1, <1>3 DEF AnchorInv, Stamp, Duration
<1>. QED
  BY <1>2, <1>5, <1>6 DEF StampInv

\* Every call with samples in it keeps the invariant.
LEMMA StampSteps ==
  ASSUME 0 \notin FrameSamples
  PROVE  StampInv /\ [Next]_vars => StampInv'
<1>. SUFFICES ASSUME StampInv, [Next]_vars
              PROVE  StampInv'
  OBVIOUS
<1>1. ProducerInv'
  BY ProducerSteps DEF StampInv
<1>2. ASSUME NEW size \in FrameSamples, NEW skip \in Skips, Reject(size, skip)
      PROVE  StampInv'
  <2>1. UNCHANGED <<format, filterVars, outputVars, heard>>
    BY <1>2 DEF Reject
  <2>. QED
    BY <2>1, <1>1, StampRests
<1>3. ASSUME NEW size \in FrameSamples, NEW skip \in Skips, NEW disc \in BOOLEAN,
             Process(size, disc, skip)
      PROVE  StampInv'
  <2>1. Created
    BY <1>3 DEF Process
  <2>2. TypeInv /\ FilterInv /\ StreamInv /\ AheadInv /\ AnchorInv
    BY <2>1 DEF StampInv, ProducerInv
  <2>3. size \in Nat /\ size # 0 /\ skip \in Nat
    BY <2>1, <2>2, Sizes
  <2>4. AheadInv'
    BY <1>3, <2>2, <2>3, AheadNext
  <2>5. AnchorInv'
    BY <1>3, <2>2, <2>3, AnchorKept
  <2>. QED
    BY <1>1, <2>4, <2>5 DEF StampInv
<1>4. CASE UNCHANGED vars
  <2>1. UNCHANGED <<format, filterVars, outputVars, heard>>
    BY <1>4 DEF vars
  <2>. QED
    BY <2>1, <1>1, StampRests
<1>. QED
  BY <1>2, <1>3, <1>4 DEF Next

\* A frame's timestamp and the time skipped before it tell when its first sample
\* was captured, up to what the resets cut off, for every pair of rates and every
\* frame size.  Frames hold samples: the capture stream stops at an empty packet,
\* and the synchronizer inserts silence only for a gap of at least one sample.
THEOREM TimestampsAreCounted ==
  ASSUME 0 \notin FrameSamples
  PROVE  Spec => []TimestampsCountTheAudio
<1>1. StampInv => TimestampsCountTheAudio
  <2>. SUFFICES ASSUME StampInv
                PROVE  TimestampsCountTheAudio
    OBVIOUS
  <2>1. CASE Created
    BY <2>1, StampsCount DEF StampInv, ProducerInv
  <2>2. CASE ~Created
    <3>1. Len(emitted) = 0
      BY <2>2, EmptySeq DEF StampInv, ProducerInv, TypeInv
    <3>. QED
      BY <3>1 DEF TimestampsCountTheAudio
  <2>. QED
    BY <2>1, <2>2
<1>. QED
  BY <1>1, StampStarts, StampSteps, PTL DEF Spec

=============================================================================
