----------------------------- MODULE SttProducer -----------------------------
(***************************************************************************)
(* The derived STT stream: SttStreamProducer (libs/cpp/audio-dsp/src/      *)
(* stt_stream_producer.cpp) and the FirDecimator inside it, from           *)
(* startSttStreaming() to stopSttStreaming().  It decimates the frames of  *)
(* one synchronized track and cuts the result into frames of a fixed size  *)
(* with a numbering and timestamps of their own.                           *)
(*                                                                         *)
(* The producer lives through pauses while the synchronizers in front of   *)
(* it do not: a frame may follow its predecessor after any time, with or   *)
(* without a flag.  A sample of the input is its index in heard, and a     *)
(* sample of the output is the range of input samples it is computed from: *)
(* downmixing and the coefficients decide what it sounds like only.        *)
(***************************************************************************)
EXTENDS Integers, Sequences, FiniteSets

CONSTANTS Second,        \* clock ticks in a second
          InputHz,       \* the track's sample rate
          StreamFormats, \* what startSttStreaming() may ask for
          Taps,          \* the filter's length for factors above one
          FrameSamples,  \* samples per channel in the frames of the track
          Skips,         \* time that passes between two frames
          MaxCalls       \* bound: calls of process()

ASSUME ProducerAssumption ==
  /\ Second \in Nat \ {0} /\ InputHz \in Nat \ {0} /\ Taps \in Nat \ {0}
  /\ StreamFormats \subseteq [hz : Nat, ms : Nat, supported : BOOLEAN]
  /\ FrameSamples \subseteq Nat /\ Skips \subseteq Nat /\ MaxCalls \in Nat

VARIABLES
  format,          \* config_.output and frameDuration; are both ends mono or stereo PCM?
  phase, filled,   \* phase_, and the samples in the filter's history since reset()
  pending,         \* pending_
  pendingDisc,     \* pendingDiscontinuity_
  anchor,          \* anchor_, as a sequence of at most one timestamp
  samplesEmitted,  \* samplesEmitted_
  emitted,         \* history: the frames returned
  heard,           \* history: the samples taken in, with capture time and reset() count
  resets,          \* history: calls of reset()
  clock,           \* the time the last frame ended
  calls            \* calls of process()

filterVars == <<phase, filled, resets>>
outputVars == <<pending, pendingDisc, anchor, samplesEmitted, emitted>>
vars == <<format, filterVars, outputVars, heard, clock, calls>>

\* The nearest tick below the time samples last at a rate.
Duration(samples, hz) == (samples * Second) \div hz

\* samplesPerChannel(): the size of an output frame.
FrameSize == (format.hz * format.ms) \div 1000

Factor == InputHz \div format.hz

TapCount == IF Factor = 1 THEN 1 ELSE Taps

\* create() returned a producer.
Created ==
  /\ format.supported
  /\ format.hz > 0 /\ InputHz % format.hz = 0
  /\ FrameSize > 0

-----------------------------------------------------------------------------
\* Mutant of FilterWidth: reset() leaves the history as it is.
FilterWidthSmeared(history, n) == IF filled + n < TapCount THEN filled + n ELSE TapCount

\* Samples the n-th output sample due is computed from, after a history.
FilterWidth(history, n) == IF history + n < TapCount THEN history + n ELSE TapCount

\* Of size samples, from a phase, every Factor-th is due; the k-th one.
DueIn(size, from) == {i \in 1 .. size : (from + i - 1) % Factor = 0}

NthDue(size, from, k) ==
  CHOOSE i \in DueIn(size, from) : Cardinality({j \in DueIn(size, from) : j <= i}) = k

\* The sample computed when the n-th of a call has entered the history.
Filtered(n, history) ==
  LET last == Len(heard) + n
  IN [first |-> last - FilterWidth(history, n) + 1, last |-> last]

\* FirDecimator::process() on size samples: one for each that is due.
Decimate(size, from, history) ==
  [k \in 1 .. Cardinality(DueIn(size, from)) |-> Filtered(NthDue(size, from, k), history)]

\* Mutant of Stamp: frames are stamped from the input frame at hand.
StampReanchored(since, samples) == clock + Duration(samples - samplesEmitted, format.hz)

\* The timestamp of the frame that follows so many samples.
Stamp(since, samples) == since + Duration(samples, format.hz)

\* Mutant of StillDue: the flag is forgotten when the input completes no frame.
StillDueNever(disc, count) == FALSE

\* The flag waits for the next frame.
StillDue(disc, count) == disc /\ count = 0

\* The k-th frame cut out of pool.
OutputFrame(pool, disc, since, k) ==
  LET before == (k - 1) * FrameSize
  IN [timestamp |-> Stamp(since, samplesEmitted + before),
      disc      |-> disc /\ k = 1,
      samples   |-> SubSeq(pool, before + 1, before + FrameSize)]

(***************************************************************************)
(* The loop of process(): as many frames as pool fills, the first of them  *)
(* with the flag that is due; the rest of pool stays pending.              *)
(***************************************************************************)
Emit(pool, disc, since) ==
  LET count == Len(pool) \div FrameSize
  IN /\ emitted' = emitted \o [k \in 1 .. count |-> OutputFrame(pool, disc, since, k)]
     /\ pending' = SubSeq(pool, count * FrameSize + 1, Len(pool))
     /\ samplesEmitted' = samplesEmitted + count * FrameSize
     /\ pendingDisc' = StillDue(disc, count)

\* process(frame); the frame's timestamp lies skip after the end of the last one.
Process(size, disc, skip) ==
  /\ Created /\ calls < MaxCalls
  /\ calls' = calls + 1
  /\ LET timestamp == clock + skip
         from      == IF disc THEN 0 ELSE phase
         history   == IF disc THEN 0 ELSE filled
     IN /\ clock' = timestamp + Duration(size, InputHz)
        /\ anchor' = IF anchor = <<>> THEN <<timestamp>> ELSE anchor
        /\ resets' = IF disc THEN resets + 1 ELSE resets
        /\ heard' = heard \o
             [i \in 1 .. size |->
                [time |-> timestamp + Duration(i - 1, InputHz), resets |-> resets']]
        /\ phase' = (from + size) % Factor
        /\ filled' = FilterWidth(history, size)
        /\ Emit(pending \o Decimate(size, from, history), pendingDisc \/ disc, anchor'[1])
  /\ UNCHANGED format

\* A frame of another format is counted and skipped.
Reject(size, skip) ==
  /\ Created /\ calls < MaxCalls
  /\ calls' = calls + 1
  /\ clock' = clock + skip + Duration(size, InputHz)
  /\ UNCHANGED <<format, filterVars, outputVars, heard>>

Init ==
  /\ format \in StreamFormats
  /\ phase = 0 /\ filled = 0 /\ resets = 0
  /\ pending = <<>> /\ pendingDisc = FALSE /\ anchor = <<>> /\ samplesEmitted = 0
  /\ emitted = <<>> /\ heard = <<>> /\ clock = 0 /\ calls = 0

Next ==
  \E size \in FrameSamples, skip \in Skips :
    Reject(size, skip) \/ \E disc \in BOOLEAN : Process(size, disc, skip)

Spec == Init /\ [][Next]_vars

-----------------------------------------------------------------------------
(* Properties                                                              *)

\* The k-th sample of the stream, sent or waiting.
StreamLength == samplesEmitted + Len(pending)

SampleAt(k) ==
  IF k <= samplesEmitted
  THEN emitted[(k - 1) \div FrameSize + 1].samples[((k - 1) % FrameSize) + 1]
  ELSE pending[k - samplesEmitted]

\* The first sample heard since the reset() before the i-th.
EpochStart(i) == Cardinality({j \in 1 .. i : heard[j].resets < heard[i].resets}) + 1

(***************************************************************************)
(* The reference definition of the stream: of every stretch between two    *)
(* discontinuities every Factor-th sample from its first one, filtered     *)
(* over samples of that stretch only ("do not smear unrelated audio").     *)
(***************************************************************************)
IsDue(i) == (i - EpochStart(i)) % Factor = 0

Reference(i) ==
  [first |-> IF i - TapCount + 1 < EpochStart(i) THEN EpochStart(i) ELSE i - TapCount + 1,
   last  |-> i]

(***************************************************************************)
(* Nothing is lost, repeated or smeared between the frames of the track    *)
(* and those of the stream, however the two kinds of frames overlap: the   *)
(* stream is the reference, and less than a frame of it is waiting.        *)
(***************************************************************************)
StreamIsTheReference ==
  Created =>
    LET due == {i \in 1 .. Len(heard) : IsDue(i)}
    IN /\ StreamLength = Cardinality(due)
       /\ Len(pending) < FrameSize
       /\ \A i \in due : SampleAt(Cardinality({j \in due : j <= i})) = Reference(i)

\* Resets before the k-th sample of the stream, and in the n-th frame.
ResetsBefore(k) == IF k = 0 THEN 0 ELSE heard[SampleAt(k).last].resets

HoldsReset(n) == ResetsBefore((n - 1) * FrameSize) # ResetsBefore(n * FrameSize)

(***************************************************************************)
(* "Input discontinuities reset the filter and mark the next output frame  *)
(* discontinuous": exactly the frames that hold the first sample after a   *)
(* reset are flagged, also when samples from before it were waiting, and   *)
(* when the frame after it is completed by later calls.                    *)
(***************************************************************************)
FlagsMarkResets == \A n \in 1 .. Len(emitted) : emitted[n].disc <=> HoldsReset(n)

\* The nearest tick above the time samples last at the track's rate.
LongestDuration(samples) == (samples * Second + InputHz - 1) \div InputHz

(***************************************************************************)
(* "Derived from the first input frame's timestamp plus emitted samples":  *)
(* a frame's timestamp plus all the time skipped before its first sample   *)
(* (pauses, unhealed gaps, rejected frames) is when that sample was        *)
(* captured.  Each reset restarts the phase and puts the timestamps ahead  *)
(* by less than one output sample; nothing ever takes that back.  The      *)
(* truncations of the two conversions never add up to more than a tick.    *)
(***************************************************************************)
TimestampsCountTheAudio ==
  \A n \in 1 .. Len(emitted) :
    LET i       == emitted[n].samples[1].last
        skipped == heard[i].time - heard[1].time - Duration(i - 1, InputHz)
    IN emitted[n].timestamp + skipped - heard[i].time
         \in 0 .. LongestDuration((Factor - 1) * heard[i].resets)

=============================================================================
