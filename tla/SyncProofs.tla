----------------------------- MODULE SyncProofs -----------------------------
(***************************************************************************)
(* What TrackSync promises for every rate, tolerance, cap and sequence of  *)
(* timestamps.  The argument is about truncated division: converting a     *)
(* duration to samples and back loses less than a sample, and converting a *)
(* sum of sample counts exceeds the sum of the conversions by one tick at  *)
(* most.  The inductive invariant is that the drift anchor, like the last  *)
(* frame, was within the slack of the sample clock.                        *)
(***************************************************************************)
EXTENDS TrackSync, TLAPS

(* Truncated division. *)

\* The quotient is the number of times b fits into a.
LEMMA Quotient ==
  ASSUME NEW a \in Nat, NEW b \in Nat \ {0}
  PROVE  a \div b \in Nat /\ b * (a \div b) <= a /\ a < b * (a \div b) + b
BY SMT

\* A quotient is determined by where it lies.
LEMMA QuotientIs ==
  ASSUME NEW a \in Nat, NEW b \in Nat \ {0}, NEW q \in Nat, b * q <= a, a < b * q + b
  PROVE  a \div b = q
BY SMT

\* The quotient of a sum is the sum of the quotients or one more.
LEMMA QuotientOfSum ==
  ASSUME NEW x \in Nat, NEW y \in Nat, NEW b \in Nat \ {0}
  PROVE  (x + y) \div b - x \div b - y \div b \in {0, 1}
<1>. DEFINE p == x \div b
            q == y \div b
            s == (x + y) \div b
<1>1. p \in Nat /\ b * p <= x /\ x < b * p + b
  BY Quotient
<1>2. q \in Nat /\ b * q <= y /\ y < b * q + b
  BY Quotient
<1>3. x + y \in Nat
  OBVIOUS
<1>4. s \in Nat /\ b * s <= x + y /\ x + y < b * s + b
  BY <1>3, Quotient
<1>. HIDE DEF p, q, s
<1>5. b * (p + q) < b * (s + 1)
  BY <1>1, <1>2, <1>4
<1>6. b * s < b * (p + q + 2)
  BY <1>1, <1>2, <1>4
<1>7. p + q < s + 1
  BY <1>1, <1>2, <1>4, <1>5
<1>8. s < p + q + 2
  BY <1>1, <1>2, <1>4, <1>6
<1>. QED
  BY <1>1, <1>2, <1>4, <1>7, <1>8 DEF p, q, s

-----------------------------------------------------------------------------
(* The conversions.                                                        *)

\* The constants as the provers need them.
LEMMA Constants ==
  /\ Second \in Nat \ {0} /\ Hz \in Nat \ {0}
  /\ Tolerance \in Nat /\ Cap \in Nat /\ DriftWindow \in Nat \ {0}
  /\ Timestamps \subseteq Int /\ FrameSamples \subseteq Nat
BY SyncAssumption DEF SyncAssumption

\* A duration is a natural number of ticks, and that of no sample is none.
LEMMA DurationType ==
  /\ \A x \in Nat : SamplesToDuration(x) \in Nat
  /\ SamplesToDuration(0) = 0
<1>1. \A x \in Nat : x * Second \in Nat
  BY Constants
<1>2. \A x \in Nat : SamplesToDuration(x) \in Nat
  BY <1>1, Quotient, Constants DEF SamplesToDuration
<1>3. (0 * Second) \div Hz = 0
  BY Constants
<1>. QED
  BY <1>2, <1>3 DEF SamplesToDuration

\* Durations add up to within a tick.
LEMMA DurationOfSum ==
  ASSUME NEW x \in Nat, NEW y \in Nat
  PROVE  SamplesToDuration(x + y) - SamplesToDuration(x) - SamplesToDuration(y) \in {0, 1}
<1>1. x * Second \in Nat /\ y * Second \in Nat /\ (x + y) * Second = x * Second + y * Second
  BY Constants
<1>. QED
  BY <1>1, QuotientOfSum, Constants DEF SamplesToDuration

\* The longest sample and the slack are at least one tick.
LEMMA SlackType == Sample \in Nat /\ Sample >= 1 /\ Slack \in Nat /\ Slack >= Tolerance /\ Slack >= Sample
<1>1. Second \div Hz \in Nat
  BY Quotient, Constants
<1>. QED
  BY <1>1, Constants DEF Sample, Slack

\* There and back loses less than a sample and never gains.
LEMMA ThereAndBack ==
  ASSUME NEW d \in Nat
  PROVE  /\ DurationToSamples(d) \in Nat
         /\ SamplesToDuration(DurationToSamples(d)) <= d
         /\ d - SamplesToDuration(DurationToSamples(d)) <= Sample
<1>. DEFINE k == (d * Hz) \div Second
            f == (k * Second) \div Hz
            m == Second \div Hz
<1>1. d * Hz \in Nat /\ k \in Nat /\ Second * k <= d * Hz /\ d * Hz < Second * k + Second
  BY Quotient, Constants
<1>2. k * Second \in Nat /\ f \in Nat /\ Hz * f <= k * Second /\ k * Second < Hz * f + Hz
  BY <1>1, Quotient, Constants
<1>3. m \in Nat /\ Second < Hz * m + Hz
  BY Quotient, Constants
<1>4. DurationToSamples(d) = k
  <2>1. CASE d = 0
    BY <2>1, Constants DEF DurationToSamples
  <2>2. CASE d # 0
    BY <2>2 DEF DurationToSamples
  <2>. QED
    BY <2>1, <2>2
<1>. HIDE DEF k, f, m
<1>5. Hz * f <= d * Hz
  BY <1>1, <1>2, Constants
<1>6. Hz * d < Hz * (f + m + 2)
  BY <1>1, <1>2, <1>3, Constants
<1>7. f <= d
  BY <1>2, <1>5, Constants
<1>8. d < f + m + 2
  BY <1>2, <1>3, <1>6, Constants
<1>9. SamplesToDuration(k) = f
  BY DEF SamplesToDuration, f
<1>. QED
  BY <1>1, <1>2, <1>3, <1>4, <1>7, <1>8, <1>9 DEF Sample, m

-----------------------------------------------------------------------------
(* The invariant.                                                          *)

Line == [anchor : Int, samples : Nat, driftAnchor : Int, driftSamples : Nat]

\* The drift anchor, too, lies on the sample clock.
DriftInv ==
  /\ timeline.driftSamples + given.samples <= timeline.samples
  /\ timeline.driftAnchor - timeline.anchor - SamplesToDuration(timeline.driftSamples)
       \in -Slack .. Slack
  /\ drift.deviation \in -(2 * Slack + 1) .. (2 * Slack + 1)

SyncInv == TypeOK /\ OnTheTimeline /\ SilenceFitsTheGap /\ DriftInv

\* A timeline on which the frame can follow.
Fits(frame, line) ==
  /\ line \in Line
  /\ line.driftSamples <= line.samples
  /\ frame.timestamp - Expected(line) \in -Slack .. Slack
  /\ line.driftAnchor - line.anchor - SamplesToDuration(line.driftSamples) \in -Slack .. Slack

\* A frame fits the timeline that is anchored at it.
LEMMA AnchorFits ==
  ASSUME NEW frame \in Input
  PROVE  Fits(frame, AnchorAt(frame.timestamp))
<1>1. frame.timestamp \in Int
  BY Constants DEF Input
<1>. QED
  BY <1>1, DurationType, SlackType DEF Fits, AnchorAt, Line, Expected

\* Delivering a frame on a timeline it fits keeps the clocks together.
LEMMA DeliverClocks ==
  ASSUME SyncInv, NEW frame \in Input, NEW line, Fits(frame, line), UpdateDrift(line, frame),
         given' = frame
  PROVE  /\ timeline' \in Line
         /\ drift' \in [valid : BOOLEAN, elapsed : Nat, deviation : Int]
         /\ OnTheTimeline' /\ DriftInv'
         /\ timeline'.samples = line.samples + frame.samples
<1>. DEFINE since   == line.samples - line.driftSamples
            elapsed == SamplesToDuration(since)
<1>1. frame.timestamp \in Int /\ frame.samples \in Nat
  BY Constants DEF Input
<1>2. /\ line.anchor \in Int /\ line.samples \in Nat /\ line.driftAnchor \in Int
      /\ line.driftSamples \in Nat /\ line.driftSamples <= line.samples /\ line \in Line
  BY DEF Fits, Line
<1>3. since \in Nat /\ elapsed \in Nat /\ line.samples = line.driftSamples + since
  BY <1>2, DurationType
<1>4. /\ SamplesToDuration(line.samples) \in Nat
      /\ SamplesToDuration(line.driftSamples) \in Nat
      /\ SamplesToDuration(line.samples) - SamplesToDuration(line.driftSamples) - elapsed
           \in {0, 1}
  BY <1>2, <1>3, DurationType, DurationOfSum
<1>5. \/ /\ timeline' = [line EXCEPT !.samples = @ + frame.samples]
         /\ drift' = drift
      \/ /\ timeline' = [line EXCEPT !.samples = @ + frame.samples,
                                     !.driftAnchor = frame.timestamp,
                                     !.driftSamples = line.samples]
         /\ drift' = IF elapsed = 0 THEN drift
                     ELSE [valid |-> TRUE, elapsed |-> elapsed,
                           deviation |-> frame.timestamp - line.driftAnchor - elapsed]
  BY DEF UpdateDrift
<1>. HIDE DEF since, elapsed
<1>6. timeline' \in Line /\ timeline'.samples = line.samples + frame.samples
      /\ timeline'.anchor = line.anchor
  <2>1. CASE timeline' = [line EXCEPT !.samples = @ + frame.samples]
    BY <1>1, <1>2, <2>1 DEF Line
  <2>2. CASE timeline' = [line EXCEPT !.samples = @ + frame.samples,
                                      !.driftAnchor = frame.timestamp,
                                      !.driftSamples = line.samples]
    <3>1. timeline' = [anchor |-> line.anchor, samples |-> line.samples + frame.samples,
                       driftAnchor |-> frame.timestamp, driftSamples |-> line.samples]
      BY <1>2, <2>2 DEF Line
    <3>2. line.samples + frame.samples \in Nat
      BY <1>1, <1>2
    <3>. QED
      BY <1>1, <1>2, <3>1, <3>2 DEF Line
  <2>. QED
    BY <1>5, <2>1, <2>2
<1>7. /\ frame.timestamp - line.anchor - SamplesToDuration(line.samples) \in -Slack .. Slack
      /\ line.driftAnchor - line.anchor - SamplesToDuration(line.driftSamples) \in -Slack .. Slack
  BY <1>1, <1>2, <1>4, SlackType DEF Fits, Expected
<1>8. OnTheTimeline'
  <2>1. timeline'.samples - given'.samples = line.samples
    BY <1>1, <1>2, <1>6
  <2>2. given'.timestamp - (timeline'.anchor + SamplesToDuration(line.samples)) \in -Slack .. Slack
    BY <1>1, <1>2, <1>4, <1>6, <1>7, SlackType
  <2>. QED
    BY <2>1, <2>2 DEF OnTheTimeline
<1>9. CASE timeline' = [line EXCEPT !.samples = @ + frame.samples] /\ drift' = drift
  <2>1. /\ timeline'.driftSamples = line.driftSamples
        /\ timeline'.driftAnchor = line.driftAnchor
    BY <1>2, <1>9 DEF Line
  <2>2. DriftInv'
    BY <1>1, <1>2, <1>6, <1>7, <1>9, <2>1 DEF DriftInv, SyncInv
  <2>. QED
    BY <1>6, <1>8, <1>9, <2>2 DEF SyncInv, TypeOK
<1>10. CASE /\ timeline' = [line EXCEPT !.samples = @ + frame.samples,
                                        !.driftAnchor = frame.timestamp,
                                        !.driftSamples = line.samples]
            /\ drift' = IF elapsed = 0 THEN drift
                        ELSE [valid |-> TRUE, elapsed |-> elapsed,
                              deviation |-> frame.timestamp - line.driftAnchor - elapsed]
  <2>1. timeline'.driftSamples = line.samples /\ timeline'.driftAnchor = frame.timestamp
    BY <1>2, <1>10 DEF Line
  <2>2. frame.timestamp - line.driftAnchor - elapsed \in -(2 * Slack + 1) .. (2 * Slack + 1)
    BY <1>1, <1>2, <1>3, <1>4, <1>7, SlackType
  <2>3. /\ drift' \in [valid : BOOLEAN, elapsed : Nat, deviation : Int]
        /\ drift'.deviation \in -(2 * Slack + 1) .. (2 * Slack + 1)
    <3>1. CASE elapsed = 0
      BY <1>10, <3>1 DEF SyncInv, TypeOK, DriftInv
    <3>2. CASE elapsed # 0
      <4>1. drift' = [valid |-> TRUE, elapsed |-> elapsed,
                      deviation |-> frame.timestamp - line.driftAnchor - elapsed]
        BY <1>10, <3>2
      <4>2. frame.timestamp - line.driftAnchor - elapsed \in Int
        BY <1>1, <1>2, <1>3
      <4>. QED
        BY <1>3, <2>2, <4>1, <4>2
    <3>. QED
      BY <3>1, <3>2
  <2>4. DriftInv'
    BY <1>1, <1>2, <1>4, <1>6, <1>7, <2>1, <2>3 DEF DriftInv
  <2>. QED
    BY <1>6, <1>8, <2>3, <2>4
<1>. QED
  BY <1>5, <1>9, <1>10

\* Six counters make a record of counters.
LEMMA CountersType ==
  ASSUME NEW a \in Nat, NEW b \in Nat, NEW c \in Nat, NEW d \in Nat, NEW e \in Nat,
         NEW f \in Nat
  PROVE  [processed |-> a, synthesized |-> b, inserted |-> c, healed |-> d, truncated |-> e,
          overlaps |-> f]
           \in [processed : Nat, synthesized : Nat, inserted : Nat, healed : Nat,
               truncated : Nat, overlaps : Nat]
OBVIOUS

\* A step that delivers a frame keeps the types.
LEMMA DeliverTypes ==
  ASSUME SyncInv, NEW frame \in Input, NEW silence \in Seq(Output), NEW line,
         NEW disc \in BOOLEAN, Fits(frame, line), Deliver(frame, silence, line, disc),
         NEW healed \in Nat, NEW truncated \in Nat, NEW overlap \in Nat,
         Count(silence, healed, truncated, overlap)
  PROVE  TypeOK' /\ OnTheTimeline' /\ DriftInv'
<1>1. frame.timestamp \in Int /\ frame.samples \in Nat /\ frame.disc \in BOOLEAN
  BY Constants DEF Input
<1>2. UpdateDrift(line, frame) /\ given' = frame /\ anchored' = TRUE
  BY DEF Deliver
<1>3. /\ timeline' \in Line /\ OnTheTimeline' /\ DriftInv'
      /\ drift' \in [valid : BOOLEAN, elapsed : Nat, deviation : Int]
  BY <1>2, DeliverClocks
<1>4. Len(silence) \in Nat /\ nextOutput \in Nat
  BY DEF SyncInv, TypeOK
<1>5. [sequence |-> nextOutput + Len(silence), timestamp |-> frame.timestamp,
       samples |-> frame.samples, disc |-> disc, real |-> TRUE] \in Output
  BY <1>1, <1>4 DEF Output
<1>6. out' \in Seq(Output) /\ nextOutput' \in Nat
  BY <1>4, <1>5 DEF Deliver
<1>7. given' \in [timestamp : Int, samples : Nat, disc : BOOLEAN]
  BY <1>1, <1>2 DEF Input
<1>8. silence # <<>> => silence[1] \in Output
  OBVIOUS
<1>9. (IF silence = <<>> THEN 0 ELSE silence[1].samples) \in Nat
  BY <1>8 DEF Output
<1>10. stats' \in [processed : Nat, synthesized : Nat, inserted : Nat, healed : Nat,
                   truncated : Nat, overlaps : Nat]
  <2>1. stats \in [processed : Nat, synthesized : Nat, inserted : Nat, healed : Nat,
                   truncated : Nat, overlaps : Nat]
    BY DEF SyncInv, TypeOK
  <2>. DEFINE extra == IF silence = <<>> THEN 0 ELSE silence[1].samples
              n == Len(silence)
  <2>2. stats' = [processed   |-> stats.processed + 1,
                  synthesized |-> stats.synthesized + n,
                  inserted    |-> stats.inserted + extra,
                  healed      |-> stats.healed + healed,
                  truncated   |-> stats.truncated + truncated,
                  overlaps    |-> stats.overlaps + overlap]
    BY DEF Count
  <2>3. extra \in Nat
    BY <1>9
  <2>4. n \in Nat
    BY <1>4
  <2>. HIDE DEF extra, n
  <2>5. /\ stats.processed + 1 \in Nat /\ stats.synthesized + n \in Nat
        /\ stats.inserted + extra \in Nat /\ stats.healed + healed \in Nat
        /\ stats.truncated + truncated \in Nat /\ stats.overlaps + overlap \in Nat
    <3>1. /\ stats.processed \in Nat /\ stats.synthesized \in Nat /\ stats.inserted \in Nat
          /\ stats.healed \in Nat /\ stats.truncated \in Nat /\ stats.overlaps \in Nat
      BY <2>1
    <3>2. \A a, b \in Nat : a + b \in Nat
      OBVIOUS
    <3>. QED
      BY <2>3, <2>4, <3>1, <3>2, 1 \in Nat, Zenon
  <2>. QED
    BY <2>2, <2>5, CountersType, Zenon
<1>. QED
  BY <1>2, <1>3, <1>6, <1>7, <1>10 DEF TypeOK, Line

\* What a gap's silence is made of.
LEMMA SilenceType ==
  ASSUME SyncInv, NEW samples \in Nat
  PROVE  /\ Silence(samples) \in Seq(Output)
         /\ Len(Silence(samples)) = 1 =>
              /\ Silence(samples)[1].samples = samples /\ samples > 0
              /\ Silence(samples)[1].disc /\ Silence(samples)[1].timestamp = Expected(timeline)
         /\ Len(Silence(samples)) \in {0, 1}
<1>1. Expected(timeline) \in Int /\ nextOutput \in Nat
  <2>1. timeline.samples \in Nat /\ timeline.anchor \in Int /\ nextOutput \in Nat
    BY DEF SyncInv, TypeOK
  <2>. QED
    BY <2>1, DurationType DEF Expected
<1>2. [sequence |-> nextOutput, timestamp |-> Expected(timeline),
       samples |-> samples, disc |-> TRUE, real |-> FALSE] \in Output
  BY <1>1 DEF Output
<1>. QED
  BY <1>2 DEF Silence

\* Frames without silence before them say nothing about silence.
LEMMA NoSilence ==
  ASSUME NEW frame, NEW line, NEW disc, Deliver(frame, <<>>, line, disc)
  PROVE  SilenceFitsTheGap'
BY DEF Deliver, SilenceFitsTheGap

\* The timeline before a step is one.
LEMMA TimelineIsLine ==
  ASSUME SyncInv
  PROVE  /\ timeline \in Line /\ timeline.driftSamples <= timeline.samples
         /\ Expected(timeline) \in Int
         /\ timeline.driftAnchor - timeline.anchor - SamplesToDuration(timeline.driftSamples)
              \in -Slack .. Slack
<1>1. timeline \in Line /\ given.samples \in Nat
  BY DEF SyncInv, TypeOK, Line
<1>2. timeline.driftSamples <= timeline.samples
  BY <1>1 DEF SyncInv, DriftInv, Line
<1>3. Expected(timeline) \in Int
  BY <1>1, DurationType DEF Expected, Line
<1>. QED
  BY <1>1, <1>2, <1>3 DEF SyncInv, DriftInv

-----------------------------------------------------------------------------
(* Every branch of process() preserves the invariant.                      *)

\* Before the first frame everything is at zero.
LEMMA InitSync == Init => SyncInv
<1>. SUFFICES ASSUME Init PROVE SyncInv
  OBVIOUS
<1>1. TypeOK
  <2>1. /\ timeline = [anchor |-> 0, samples |-> 0, driftAnchor |-> 0, driftSamples |-> 0]
        /\ out = <<>> /\ <<>> \in Seq(Output)
    BY DEF Init, AnchorAt
  <2>2. timeline \in [anchor : Int, samples : Nat, driftAnchor : Int, driftSamples : Nat]
    BY <2>1
  <2>3. out \in Seq(Output)
    BY <2>1
  <2>4. drift \in [valid : BOOLEAN, elapsed : Nat, deviation : Int]
    BY DEF Init
  <2>5. given \in [timestamp : Int, samples : Nat, disc : BOOLEAN]
    BY DEF Init
  <2>6. stats \in [processed : Nat, synthesized : Nat, inserted : Nat, healed : Nat,
                   truncated : Nat, overlaps : Nat]
    BY DEF Init
  <2>7. anchored \in BOOLEAN /\ nextOutput \in Nat
    BY DEF Init
  <2>. QED
    BY <2>2, <2>3, <2>4, <2>5, <2>6, <2>7 DEF TypeOK
<1>2. OnTheTimeline /\ SilenceFitsTheGap
  BY DEF Init, OnTheTimeline, SilenceFitsTheGap
<1>3. DriftInv
  BY DurationType, SlackType DEF Init, DriftInv, AnchorAt
<1>. QED
  BY <1>1, <1>2, <1>3 DEF SyncInv

\* The first frame anchors the timeline.
LEMMA FirstSync ==
  ASSUME SyncInv, NEW frame \in Input, First(frame)
  PROVE  SyncInv'
<1>1. frame.disc \in BOOLEAN
  BY DEF Input
<1>2. TypeOK' /\ OnTheTimeline' /\ DriftInv'
  <2>1. /\ Count(<<>>, 0, 0, 0)
        /\ Deliver(frame, <<>>, AnchorAt(frame.timestamp), frame.disc)
    BY DEF First
  <2>2. <<>> \in Seq(Output) /\ Fits(frame, AnchorAt(frame.timestamp))
    BY AnchorFits
  <2>. QED
    BY <1>1, <2>1, <2>2, DeliverTypes
<1>. QED
  BY <1>2, NoSilence DEF First, SyncInv

\* Inside the tolerance band the frame fits where it is.
LEMMA ContinueSync ==
  ASSUME SyncInv, NEW frame \in Input, Continue(frame)
  PROVE  SyncInv'
<1>1. frame.timestamp \in Int /\ frame.disc \in BOOLEAN
  BY Constants DEF Input
<1>2. frame.timestamp - Expected(timeline) \in -Slack .. Slack
  BY <1>1, TimelineIsLine, SlackType, Constants DEF Continue, IsGap, IsOverlap, Delta
<1>3. Fits(frame, timeline)
  BY <1>2, TimelineIsLine DEF Fits
<1>4. TypeOK' /\ OnTheTimeline' /\ DriftInv'
  <2>1. Count(<<>>, 0, 0, 0) /\ Deliver(frame, <<>>, timeline, frame.disc)
    BY DEF Continue
  <2>2. <<>> \in Seq(Output)
    OBVIOUS
  <2>. QED
    BY <1>1, <1>3, <2>1, <2>2, DeliverTypes
<1>. QED
  BY <1>4, NoSilence DEF Continue, SyncInv

\* After an overlap the timeline starts again at the frame.
LEMMA OverlapSync ==
  ASSUME SyncInv, NEW frame \in Input, Overlap(frame)
  PROVE  SyncInv'
<1>1. TypeOK' /\ OnTheTimeline' /\ DriftInv'
  <2>1. Count(<<>>, 0, 0, 1) /\ Deliver(frame, <<>>, AnchorAt(frame.timestamp), TRUE)
    BY DEF Overlap
  <2>2. <<>> \in Seq(Output) /\ Fits(frame, AnchorAt(frame.timestamp))
    BY AnchorFits
  <2>. QED
    BY <2>1, <2>2, DeliverTypes
<1>. QED
  BY <1>1, NoSilence DEF Overlap, SyncInv

\* Silence that fills a gap of d ticks in front of the frame.
LEMMA GapFilled ==
  ASSUME SyncInv, NEW frame \in Input, NEW d \in Nat, NEW line, NEW disc \in BOOLEAN,
         d <= Delta(frame), d <= Cap, disc \/ d = Delta(frame),
         Deliver(frame, Silence(DurationToSamples(d)), line, disc)
  PROVE  SilenceFitsTheGap'
<1>. DEFINE samples == DurationToSamples(d)
            silence == Silence(samples)
<1>1. /\ samples \in Nat /\ SamplesToDuration(samples) <= d
      /\ d - SamplesToDuration(samples) <= Sample
  BY ThereAndBack
<1>2. SamplesToDuration(samples) \in Nat
  BY <1>1, DurationType
<1>3. /\ silence \in Seq(Output) /\ Len(silence) \in {0, 1}
      /\ Len(silence) = 1 =>
           /\ silence[1].samples = samples /\ samples > 0
           /\ silence[1].disc /\ silence[1].timestamp = Expected(timeline)
  BY <1>1, SilenceType
<1>4. /\ out' = Append(silence, [sequence |-> nextOutput + Len(silence),
                                 timestamp |-> frame.timestamp, samples |-> frame.samples,
                                 disc |-> disc, real |-> TRUE])
      /\ given' = frame
  BY DEF Deliver
<1>5. /\ frame.timestamp \in Int /\ Expected(timeline) \in Int
      /\ Delta(frame) = frame.timestamp - Expected(timeline)
  BY TimelineIsLine, Constants DEF Input, Delta
<1>. HIDE DEF silence, samples
<1>6. SUFFICES ASSUME Len(out') = 2
               PROVE  /\ out'[1].disc /\ out'[1].samples > 0
                      /\ SamplesToDuration(out'[1].samples) <= given'.timestamp - out'[1].timestamp
                      /\ SamplesToDuration(out'[1].samples) <= Cap
                      /\ \/ out'[2].disc
                         \/ given'.timestamp - out'[1].timestamp
                              - SamplesToDuration(out'[1].samples) <= Sample
  BY DEF SilenceFitsTheGap
<1>7. Len(silence) = 1 /\ out'[1] = silence[1] /\ out'[2].disc = disc
  BY <1>3, <1>4, <1>6
<1>8. /\ out'[1].disc /\ out'[1].samples = samples /\ samples > 0
      /\ given'.timestamp - out'[1].timestamp = Delta(frame)
  BY <1>3, <1>4, <1>5, <1>7
<1>. QED
  BY <1>1, <1>2, <1>5, <1>7, <1>8, SlackType, Constants

\* The healed gap leaves the frame within a sample of the sample clock.
LEMMA HealSync ==
  ASSUME SyncInv, NEW frame \in Input, Heal(frame)
  PROVE  SyncInv'
<1>. DEFINE d == Delta(frame)
            samples == DurationToSamples(d)
            silence == Silence(samples)
            line == [timeline EXCEPT !.samples = @ + samples]
<1>1. /\ IsGap(frame) /\ d <= Cap
      /\ Count(silence, 1, 0, 0)
      /\ Deliver(frame, silence, line, FALSE)
      /\ Deliver(frame, Silence(DurationToSamples(Delta(frame))), line, FALSE)
      /\ Delta(frame) <= Cap
  BY DEF Heal
<1>2. /\ frame.timestamp \in Int /\ Expected(timeline) \in Int /\ timeline \in Line
      /\ d = frame.timestamp - Expected(timeline) /\ timeline.driftSamples <= timeline.samples
      /\ timeline.driftAnchor - timeline.anchor - SamplesToDuration(timeline.driftSamples)
           \in -Slack .. Slack
  BY TimelineIsLine, Constants DEF Input, Delta
<1>3. d \in Nat
  BY <1>1, <1>2, Constants DEF IsGap
<1>. HIDE DEF d
<1>4. /\ samples \in Nat /\ SamplesToDuration(samples) \in Nat
      /\ SamplesToDuration(samples) <= d /\ d - SamplesToDuration(samples) <= Sample
  BY <1>3, ThereAndBack, DurationType
<1>5. silence \in Seq(Output)
  BY <1>4, SilenceType
<1>. HIDE DEF samples
<1>6. /\ line.anchor = timeline.anchor /\ line.samples = timeline.samples + samples
      /\ line.driftAnchor = timeline.driftAnchor /\ line.driftSamples = timeline.driftSamples
      /\ line \in Line
  BY <1>2, <1>4 DEF Line
<1>. HIDE DEF line
<1>7. /\ timeline.samples \in Nat /\ timeline.anchor \in Int /\ timeline.driftSamples \in Nat
  BY <1>2 DEF Line
<1>8. /\ SamplesToDuration(timeline.samples + samples) - SamplesToDuration(timeline.samples)
           - SamplesToDuration(samples) \in {0, 1}
      /\ SamplesToDuration(timeline.samples + samples) \in Nat
      /\ SamplesToDuration(timeline.samples) \in Nat
  BY <1>4, <1>7, DurationOfSum, DurationType
<1>9. frame.timestamp - Expected(line) \in -Slack .. Slack
  BY <1>2, <1>3, <1>4, <1>6, <1>7, <1>8, SlackType DEF Expected
<1>10. Fits(frame, line)
  BY <1>2, <1>4, <1>6, <1>7, <1>9 DEF Fits
<1>11. TypeOK' /\ OnTheTimeline' /\ DriftInv'
  BY <1>1, <1>5, <1>10, DeliverTypes
<1>12. SilenceFitsTheGap'
  <2>1. Delta(frame) \in Nat
    BY <1>3 DEF d
  <2>2. Delta(frame) <= Delta(frame)
    BY <2>1
  <2>3. Deliver(frame, Silence(DurationToSamples(Delta(frame))), line, FALSE)
    BY <1>1
  <2>4. Delta(frame) <= Cap
    BY <1>1
  <2>. QED
    BY <2>1, <2>2, <2>3, <2>4, GapFilled
<1>. QED
  BY <1>11, <1>12 DEF SyncInv

\* Beyond the cap the timeline starts again at the frame.
LEMMA TruncateSync ==
  ASSUME SyncInv, NEW frame \in Input, Truncate(frame)
  PROVE  SyncInv'
<1>1. /\ Delta(frame) > Cap
      /\ Count(Silence(DurationToSamples(Cap)), 0, 1, 0)
      /\ Deliver(frame, Silence(DurationToSamples(Cap)), AnchorAt(frame.timestamp), TRUE)
  BY DEF Truncate
<1>2. DurationToSamples(Cap) \in Nat
  BY ThereAndBack, Constants
<1>3. Silence(DurationToSamples(Cap)) \in Seq(Output)
  BY <1>2, SilenceType
<1>4. TypeOK' /\ OnTheTimeline' /\ DriftInv'
  BY <1>1, <1>3, AnchorFits, DeliverTypes
<1>5. frame.timestamp \in Int /\ Expected(timeline) \in Int
  BY TimelineIsLine, Constants DEF Input
<1>6. SilenceFitsTheGap'
  <2>1. Cap \in Nat /\ Cap <= Delta(frame) /\ Cap <= Cap
    BY <1>1, <1>5, Constants DEF Delta
  <2>. QED
    BY <1>1, <2>1, GapFilled
<1>. QED
  BY <1>4, <1>6 DEF SyncInv

\* Every call of process() preserves the invariant.
LEMMA NextSync == SyncInv /\ [Next]_vars => SyncInv'
<1>. SUFFICES ASSUME SyncInv, [Next]_vars PROVE SyncInv'
  OBVIOUS
<1>1. CASE UNCHANGED vars
  BY <1>1 DEF vars, SyncInv, TypeOK, OnTheTimeline, SilenceFitsTheGap, DriftInv
<1>2. ASSUME NEW frame \in Input,
             First(frame) \/ Continue(frame) \/ Heal(frame) \/ Truncate(frame) \/ Overlap(frame)
      PROVE  SyncInv'
  BY <1>2, FirstSync, ContinueSync, HealSync, TruncateSync, OverlapSync
<1>. QED
  BY <1>1, <1>2 DEF Next

\* The invariant holds in every reachable state.
LEMMA SyncInvariant == Spec => []SyncInv
<1>1. Init => SyncInv
  BY InitSync
<1>2. SyncInv /\ [Next]_vars => SyncInv'
  BY NextSync
<1>. QED
  BY <1>1, <1>2, PTL DEF Spec

-----------------------------------------------------------------------------
(* The theorems.                                                           *)

(***************************************************************************)
(* Every variable of the synchronizer and every frame it returns has its   *)
(* type.                                                                   *)
(***************************************************************************)
THEOREM SyncTypes == Spec => []TypeOK
<1>1. SyncInv => TypeOK
  BY DEF SyncInv
<1>. QED
  BY <1>1, SyncInvariant, PTL

(***************************************************************************)
(* For every rate and every sequence of timestamps, the last frame lies    *)
(* within the tolerance, or a sample, of its place on the sample clock.    *)
(***************************************************************************)
THEOREM StaysOnTheTimeline == Spec => []OnTheTimeline
<1>1. SyncInv => OnTheTimeline
  BY DEF SyncInv
<1>. QED
  BY <1>1, SyncInvariant, PTL

(***************************************************************************)
(* Inserted silence is flagged, never overlaps the frame behind it, never  *)
(* exceeds the cap, and leaves less than a sample open unless flagged.     *)
(***************************************************************************)
THEOREM SilenceFits == Spec => []SilenceFitsTheGap
<1>1. SyncInv => SilenceFitsTheGap
  BY DEF SyncInv
<1>. QED
  BY <1>1, SyncInvariant, PTL

(***************************************************************************)
(* A drift estimate never contains a gap: it is off by twice the slack at  *)
(* most, and the subtraction of sample counts it starts from cannot wrap.  *)
(***************************************************************************)
THEOREM DriftIsOfTheClock == Spec => []DriftMeasuresTheClock
<1>1. SyncInv => DriftMeasuresTheClock
  <2>. SUFFICES ASSUME SyncInv PROVE DriftMeasuresTheClock
    OBVIOUS
  <2>. QED
    BY TimelineIsLine DEF SyncInv, DriftInv, DriftMeasuresTheClock
<1>. QED
  BY <1>1, SyncInvariant, PTL

(***************************************************************************)
(* The sample clock jumps only with a flag on the frame at the other side  *)
(* and a count in the statistics, and a loss that a frame reports stays    *)
(* visible unless it is shorter than a sample.                             *)
(***************************************************************************)
THEOREM JumpsSurface == Spec => JumpsAreSurfaced
<1>1. ASSUME SyncInv, Next PROVE JumpShows
  <2>. SUFFICES ASSUME anchored, timeline'.samples < timeline.samples + given'.samples
                PROVE  /\ out'[Len(out')].disc
                       /\ stats'.truncated + stats'.overlaps
                            = stats.truncated + stats.overlaps + 1
    BY DEF JumpShows
  <2>1. PICK frame \in Input :
          First(frame) \/ Continue(frame) \/ Heal(frame) \/ Truncate(frame) \/ Overlap(frame)
    BY <1>1 DEF Next
  <2>2. stats.truncated \in Nat /\ stats.overlaps \in Nat
    BY <1>1 DEF SyncInv, TypeOK
  <2>3. frame.samples \in Nat /\ timeline.samples \in Nat /\ timeline \in Line
    BY <1>1, Constants, TimelineIsLine DEF Input, Line
  <2>4. ~First(frame)
    BY DEF First
  <2>5. ASSUME NEW line, line.samples \in Nat, line \in Line, line.samples >= timeline.samples,
               UpdateDrift(line, frame), given' = frame
        PROVE  FALSE
    <3>1. timeline'.samples = line.samples + frame.samples
      BY <2>5 DEF UpdateDrift, Line
    <3>. QED
      BY <2>3, <2>5, <3>1
  <2>6. ~Continue(frame)
    BY <2>3, <2>5 DEF Continue, Deliver
  <2>7. ~Heal(frame)
    <3>1. SUFFICES ASSUME Heal(frame) PROVE FALSE
      OBVIOUS
    <3>. DEFINE samples == DurationToSamples(Delta(frame))
                line == [timeline EXCEPT !.samples = @ + samples]
    <3>2. UpdateDrift(line, frame) /\ given' = frame
      BY <3>1 DEF Heal, Deliver
    <3>3. Delta(frame) \in Nat
      BY <1>1, <3>1, TimelineIsLine, Constants DEF Heal, IsGap, Delta, Input
    <3>4. samples \in Nat
      BY <3>3, ThereAndBack
    <3>. HIDE DEF samples
    <3>5. line \in Line /\ line.samples = timeline.samples + samples
      BY <2>3, <3>4 DEF Line
    <3>. HIDE DEF line
    <3>6. line.samples \in Nat /\ line.samples >= timeline.samples
      BY <2>3, <3>4, <3>5
    <3>. QED
      BY <2>5, <3>2, <3>5, <3>6
  <2>8. CASE Truncate(frame)
    <3>. DEFINE silence == Silence(DurationToSamples(Cap))
    <3>1. Count(silence, 0, 1, 0) /\ Deliver(frame, silence, AnchorAt(frame.timestamp), TRUE)
      BY <2>8 DEF Truncate
    <3>2. silence \in Seq(Output)
      BY <1>1, ThereAndBack, SilenceType, Constants
    <3>. HIDE DEF silence
    <3>3. out'[Len(out')].disc
      BY <3>1, <3>2 DEF Deliver
    <3>. QED
      BY <2>2, <3>1, <3>3 DEF Count
  <2>9. CASE Overlap(frame)
    <3>1. Count(<<>>, 0, 0, 1) /\ Deliver(frame, <<>>, AnchorAt(frame.timestamp), TRUE)
      BY <2>9 DEF Overlap
    <3>2. out'[Len(out')].disc
      BY <3>1 DEF Deliver
    <3>. QED
      BY <2>2, <3>1, <3>2 DEF Count
  <2>. QED
    BY <2>1, <2>4, <2>6, <2>7, <2>8, <2>9
<1>2. ASSUME SyncInv, Next PROVE LossShows
  <2>. SUFFICES ASSUME given'.disc, (given'.timestamp - Expected(timeline)) * Hz >= Second
                PROVE  \E i \in DOMAIN out' : out'[i].disc
    <3>1. given'.timestamp \in Int /\ Expected(timeline) \in Int
      <4>1. PICK frame \in Input : given' = frame
        BY <1>2 DEF Next, First, Continue, Heal, Truncate, Overlap, Deliver
      <4>. QED
        BY <1>2, <4>1, TimelineIsLine, Constants DEF Input
    <3>2. (given'.timestamp - Expected(timeline)) * Hz \in Int
      BY <3>1, Constants
    <3>. QED
      BY <3>2, Constants DEF LossShows
  <2>1. PICK frame \in Input :
          First(frame) \/ Continue(frame) \/ Heal(frame) \/ Truncate(frame) \/ Overlap(frame)
    BY <1>2 DEF Next
  <2>2. frame.timestamp \in Int /\ Expected(timeline) \in Int
    BY <1>2, TimelineIsLine, Constants DEF Input
  <2>3. ASSUME NEW silence \in Seq(Output), NEW line, NEW disc, disc = TRUE,
               Deliver(frame, silence, line, disc)
        PROVE  \E i \in DOMAIN out' : out'[i].disc
    BY <2>3 DEF Deliver
  <2>4. given' = frame /\ frame.disc = TRUE
    BY <2>1 DEF First, Continue, Heal, Truncate, Overlap, Deliver, Input
  <2>5. CASE First(frame) \/ Continue(frame)
    <3>1. PICK line : Deliver(frame, <<>>, line, frame.disc)
      BY <2>5 DEF First, Continue
    <3>2. <<>> \in Seq(Output)
      OBVIOUS
    <3>. QED
      BY <2>3, <2>4, <3>1, <3>2
  <2>6. CASE Heal(frame)
    <3>. DEFINE samples == DurationToSamples(Delta(frame))
                silence == Silence(samples)
    <3>1. Delta(frame) = frame.timestamp - Expected(timeline) /\ Delta(frame) \in Nat /\ Delta(frame) > 0
      BY <2>2, <2>6, Constants DEF Heal, IsGap, Delta
    <3>2. Delta(frame) * Hz \in Nat /\ Delta(frame) * Hz >= Second
      BY <2>4, <3>1, Constants
    <3>3. samples = (Delta(frame) * Hz) \div Second
      BY <3>1 DEF DurationToSamples
    <3>4. samples \in Nat /\ Delta(frame) * Hz < Second * samples + Second
      BY <3>2, <3>3, Quotient, Constants
    <3>5. samples # 0
      BY <3>2, <3>4, Constants
    <3>6. Len(silence) = 1 /\ silence[1].disc /\ silence \in Seq(Output)
      BY <1>2, <3>4, <3>5, SilenceType DEF Silence
    <3>7. PICK line : Deliver(frame, silence, line, FALSE)
      BY <2>6 DEF Heal
    <3>. HIDE DEF silence
    <3>8. 1 \in DOMAIN out' /\ out'[1] = silence[1]
      BY <3>6, <3>7 DEF Deliver
    <3>. QED
      BY <3>6, <3>8
  <2>7. CASE Truncate(frame)
    <3>. DEFINE silence == Silence(DurationToSamples(Cap))
    <3>1. Deliver(frame, silence, AnchorAt(frame.timestamp), TRUE)
      BY <2>7 DEF Truncate
    <3>2. silence \in Seq(Output)
      BY <1>2, ThereAndBack, SilenceType, Constants
    <3>. HIDE DEF silence
    <3>. QED
      BY <2>3, <3>1, <3>2
  <2>8. CASE Overlap(frame)
    <3>1. Deliver(frame, <<>>, AnchorAt(frame.timestamp), TRUE)
      BY <2>8 DEF Overlap
    <3>2. <<>> \in Seq(Output)
      OBVIOUS
    <3>. QED
      BY <2>3, <3>1, <3>2
  <2>. QED
    BY <2>1, <2>5, <2>6, <2>7, <2>8
<1>3. SyncInv /\ [Next]_vars => [JumpShows /\ LossShows]_vars
  BY <1>1, <1>2
<1>4. Spec => [][JumpShows /\ LossShows]_vars
  BY <1>3, SyncInvariant, PTL DEF Spec
<1>. QED
  BY <1>4 DEF JumpsAreSurfaced

=============================================================================
