------------------------------ MODULE TrackSync ------------------------------
(***************************************************************************)
(* TrackSynchronizer::process (libs/cpp/audio-core/src/clock_sync.cpp): it *)
(* maps a device's sample clock onto the shared monotonic timeline, heals  *)
(* gaps with explicit silence and surfaces what it cannot heal.            *)
(*                                                                         *)
(* A sample lasts Second / Hz clock ticks, which need not be a whole       *)
(* number: both conversions truncate, as the code's do.  A frame is its    *)
(* timestamp, its samples and its discontinuity flag.  One action per      *)
(* branch of process().  Time and counters are unbounded integers here;    *)
(* samplesToDuration overflows 64 bits after 2^63 / 10^9 samples (about 53 *)
(* hours at 48 kHz) without a re-anchoring, beyond what is modelled.       *)
(***************************************************************************)
EXTENDS Integers, Sequences

CONSTANTS Second,        \* clock ticks in a second (kNanosPerSecond)
          Hz,            \* config_.sampleRate
          Tolerance,     \* config_.jitterTolerance, in ticks
          Cap,           \* config_.maxSilencePerGap, in ticks
          DriftWindow,   \* config_.driftWindowSamples
          Timestamps,    \* the timestamps frames carry, in any order
          FrameSamples,  \* the samples a frame has
          MaxCalls       \* bound: calls of process()

ASSUME SyncAssumption ==
  /\ Second \in Nat \ {0} /\ Hz \in Nat \ {0}
  /\ Tolerance \in Nat /\ Cap \in Nat /\ DriftWindow \in Nat \ {0}
  /\ Timestamps \subseteq Int /\ FrameSamples \subseteq Nat
  /\ MaxCalls \in Nat

VARIABLES
  anchored,    \* anchored_
  timeline,    \* anchorTimestamp_, samplesSinceAnchor_ and the drift anchors
  nextOutput,  \* nextOutputSequence_
  drift,       \* drift_, its ppm as the fraction deviation / elapsed
  stats,       \* stats_
  given,       \* the argument of the last call
  out          \* the frames the last call returned

vars == <<anchored, timeline, nextOutput, drift, stats, given, out>>

Input == [timestamp : Timestamps, samples : FrameSamples, disc : BOOLEAN]

SamplesToDuration(samples) == (samples * Second) \div Hz

\* Mutant of DurationToSamples: a sample of headroom, also below one sample.
DurationToSamplesLess1(duration) ==
  IF duration <= 0 THEN 0 ELSE (duration * Hz) \div Second - 1

\* Mutant of DurationToSamples: it rounds up.
DurationToSamplesUp(duration) ==
  IF duration <= 0 THEN 0 ELSE (duration * Hz + Second - 1) \div Second

DurationToSamples(duration) == IF duration <= 0 THEN 0 ELSE (duration * Hz) \div Second

AnchorAt(timestamp) ==
  [anchor |-> timestamp, samples |-> 0, driftAnchor |-> timestamp, driftSamples |-> 0]

\* Where the sample clock puts the next sample.
Expected(line) == line.anchor + SamplesToDuration(line.samples)

Delta(frame) == frame.timestamp - Expected(timeline)

IsGap(frame) == Delta(frame) > Tolerance \/ (frame.disc /\ Delta(frame) > 0)

\* Mutant of IsOverlap: early frames are taken for jitter.
IsOverlapNever(frame) == FALSE

IsOverlap(frame) == ~IsGap(frame) /\ Delta(frame) < -Tolerance

\* The silence frame for a gap, if it lasts a sample.
Silence(samples) ==
  IF samples = 0 THEN <<>>
  ELSE <<[sequence |-> nextOutput, timestamp |-> Expected(timeline),
          samples |-> samples, disc |-> TRUE, real |-> FALSE]>>

\* Mutant of UpdateDrift: it runs after the frame's samples are accounted.
UpdateDriftLate(line, frame) ==
  LET since   == line.samples + frame.samples - line.driftSamples
      elapsed == SamplesToDuration(since)
  IN IF since < DriftWindow
     THEN /\ timeline' = [line EXCEPT !.samples = @ + frame.samples]
          /\ UNCHANGED drift
     ELSE /\ timeline' = [line EXCEPT !.samples = @ + frame.samples,
                                      !.driftAnchor = frame.timestamp,
                                      !.driftSamples = line.samples + frame.samples]
          /\ drift' = IF elapsed = 0 THEN drift
                      ELSE [valid |-> TRUE, elapsed |-> elapsed,
                            deviation |-> frame.timestamp - line.driftAnchor - elapsed]

\* updateDrift(): line is the timeline up to the frame's first sample.
UpdateDrift(line, frame) ==
  LET since   == line.samples - line.driftSamples
      elapsed == SamplesToDuration(since)
  IN IF since < DriftWindow
     THEN /\ timeline' = [line EXCEPT !.samples = @ + frame.samples]
          /\ UNCHANGED drift
     ELSE /\ timeline' = [line EXCEPT !.samples = @ + frame.samples,
                                      !.driftAnchor = frame.timestamp,
                                      !.driftSamples = line.samples]
          /\ drift' = IF elapsed = 0 THEN drift
                      ELSE [valid |-> TRUE, elapsed |-> elapsed,
                            deviation |-> frame.timestamp - line.driftAnchor - elapsed]

\* The end of process(): the frame follows the silence, on this timeline.
Deliver(frame, silence, line, disc) ==
  /\ out' = Append(silence, [sequence |-> nextOutput + Len(silence),
                             timestamp |-> frame.timestamp, samples |-> frame.samples,
                             disc |-> disc, real |-> TRUE])
  /\ nextOutput' = nextOutput + Len(silence) + 1
  /\ UpdateDrift(line, frame)
  /\ given' = frame
  /\ anchored' = TRUE

\* The counters of this call.
Count(silence, healed, truncated, overlap) ==
  /\ stats.processed < MaxCalls
  /\ stats' = [processed   |-> stats.processed + 1,
               synthesized |-> stats.synthesized + Len(silence),
               inserted    |-> stats.inserted
                                 + IF silence = <<>> THEN 0 ELSE silence[1].samples,
               healed      |-> stats.healed + healed,
               truncated   |-> stats.truncated + truncated,
               overlaps    |-> stats.overlaps + overlap]

-----------------------------------------------------------------------------
First(frame) ==
  /\ ~anchored
  /\ Count(<<>>, 0, 0, 0)
  /\ Deliver(frame, <<>>, AnchorAt(frame.timestamp), frame.disc)

\* Inside the tolerance band sample continuity rules.
Continue(frame) ==
  /\ anchored /\ ~IsGap(frame) /\ ~IsOverlap(frame)
  /\ Count(<<>>, 0, 0, 0)
  /\ Deliver(frame, <<>>, timeline, frame.disc)

\* Mutant of Heal: a gap within the tolerance gets no silence either.
HealSmallUnfilled(frame) ==
  /\ anchored /\ IsGap(frame) /\ Delta(frame) <= Cap
  /\ LET samples == IF Delta(frame) > Tolerance THEN DurationToSamples(Delta(frame)) ELSE 0
         silence == Silence(samples)
     IN /\ Count(silence, 1, 0, 0)
        /\ Deliver(frame, silence, [timeline EXCEPT !.samples = @ + samples], FALSE)

Heal(frame) ==
  /\ anchored /\ IsGap(frame) /\ Delta(frame) <= Cap
  /\ LET samples == DurationToSamples(Delta(frame))
         silence == Silence(samples)
     IN /\ Count(silence, 1, 0, 0)
        /\ Deliver(frame, silence, [timeline EXCEPT !.samples = @ + samples], FALSE)

\* The gap is longer than the cap: continuity is not restored.
Truncate(frame) ==
  /\ anchored /\ IsGap(frame) /\ Delta(frame) > Cap
  /\ LET silence == Silence(DurationToSamples(Cap))
     IN /\ Count(silence, 0, 1, 0)
        /\ Deliver(frame, silence, AnchorAt(frame.timestamp), TRUE)

\* Mutant of Overlap: the flag of the frame is passed on.
OverlapUnflagged(frame) ==
  /\ anchored /\ IsOverlap(frame)
  /\ Count(<<>>, 0, 0, 1)
  /\ Deliver(frame, <<>>, AnchorAt(frame.timestamp), frame.disc)

\* Samples are never discarded: the overlap is surfaced.
Overlap(frame) ==
  /\ anchored /\ IsOverlap(frame)
  /\ Count(<<>>, 0, 0, 1)
  /\ Deliver(frame, <<>>, AnchorAt(frame.timestamp), TRUE)

Init ==
  /\ anchored = FALSE
  /\ timeline = AnchorAt(0)
  /\ nextOutput = 0
  /\ drift = [valid |-> FALSE, elapsed |-> 0, deviation |-> 0]
  /\ stats = [processed |-> 0, synthesized |-> 0, inserted |-> 0, healed |-> 0,
              truncated |-> 0, overlaps |-> 0]
  /\ given = [timestamp |-> 0, samples |-> 0, disc |-> FALSE]
  /\ out = <<>>

Next ==
  \E frame \in Input :
    First(frame) \/ Continue(frame) \/ Heal(frame) \/ Truncate(frame) \/ Overlap(frame)

Spec == Init /\ [][Next]_vars

-----------------------------------------------------------------------------
(* Properties                                                              *)

Output == [sequence : Nat, timestamp : Int, samples : Nat, disc : BOOLEAN, real : BOOLEAN]

\* Every variable has its type.
TypeOK ==
  /\ anchored \in BOOLEAN
  /\ timeline \in [anchor : Int, samples : Nat, driftAnchor : Int, driftSamples : Nat]
  /\ nextOutput \in Nat
  /\ drift \in [valid : BOOLEAN, elapsed : Nat, deviation : Int]
  /\ stats \in [processed : Nat, synthesized : Nat, inserted : Nat, healed : Nat,
                truncated : Nat, overlaps : Nat]
  /\ given \in [timestamp : Int, samples : Nat, disc : BOOLEAN]
  /\ out \in Seq(Output)

\* The longest time a sample takes, and so the error of a conversion.
Sample == (Second \div Hz) + 1

\* What may separate a frame's timestamp from its place on the sample clock.
Slack == IF Tolerance > Sample THEN Tolerance ELSE Sample

(***************************************************************************)
(* Each track is mapped onto the master timeline: the samples returned up  *)
(* to the last frame end where its timestamp puts it, within the jitter    *)
(* tolerance (or one sample, for a gap healed by truncated arithmetic).    *)
(***************************************************************************)
OnTheTimeline ==
  anchored =>
    LET start == timeline.anchor + SamplesToDuration(timeline.samples - given.samples)
    IN given.timestamp - start \in -Slack .. Slack

\* The sample clock is moved: the frame that starts there is flagged, and counted.
JumpShows ==
  anchored /\ timeline'.samples < timeline.samples + given'.samples =>
    /\ out'[Len(out')].disc
    /\ stats'.truncated + stats'.overlaps = stats.truncated + stats.overlaps + 1

\* A loss the device reported shows, unless less than a sample is missing.
LossShows ==
  given'.disc =>
    \/ \E i \in DOMAIN out' : out'[i].disc
    \/ (given'.timestamp - Expected(timeline)) * Hz < Second

(***************************************************************************)
(* "Leaves the next real frame marked discontinuous", "recorded in stats   *)
(* and surfaced via discontinuity metadata": neither a jump of the sample  *)
(* clock nor a loss that a frame reports disappears in process(), whatever *)
(* branch the frame takes.  (A reported loss of less than a sample does.)  *)
(***************************************************************************)
JumpsAreSurfaced == [][JumpShows /\ LossShows]_vars

(***************************************************************************)
(* Healing is explicit and exact: silence is flagged, starts where the     *)
(* previous sample ended, never reaches over the frame it precedes, and    *)
(* leaves less than a sample open, unless the frame is flagged itself.     *)
(***************************************************************************)
SilenceFitsTheGap ==
  Len(out) = 2 =>
    LET gap == given.timestamp - out[1].timestamp
        fill == SamplesToDuration(out[1].samples)
    IN /\ out[1].disc /\ out[1].samples > 0
       /\ fill <= gap /\ fill <= Cap
       /\ out[2].disc \/ gap - fill <= Sample

(***************************************************************************)
(* "Drift across an anchor reset would measure the gap, not the clock": an *)
(* estimate compares clocks that were both within the slack of the same    *)
(* timeline when it began and when it was taken.  (The subtraction of the  *)
(* unsigned sample counts it starts from never wraps.)                     *)
(***************************************************************************)
DriftMeasuresTheClock ==
  /\ timeline.driftSamples <= timeline.samples
  /\ drift.deviation \in -(2 * Slack + 1) .. (2 * Slack + 1)

=============================================================================
