# VoxMesh: formal models of the desktop recorder

VoxMesh's first phases are a desktop recorder: it captures a microphone and the system output as separate
tracks, keeps them on one timeline, writes a lossless local recording and streams a derived track to a
transcription service. The repository's own rule for this pipeline is that audio is never lost silently. The
modules here model the parts that carry that promise, with their threads and failures. TLC checks them on small
instances, and TLAPS proves the central properties for every value of the constants.

Paths below are relative to the repository: `app/` is `src/apps/desktop-recorder/`, `core/` is
`src/libs/cpp/audio-core/`.

## 1. The system

### Components, their state and their operations

| Component (source) | State | Operations | Model |
|---|---|---|---|
| Recorder controller (`app/src/recorder_controller.cpp`) | session, selected devices, two track pipelines (ring, sink, stream, synchronizer), writer, STT client, drain thread, last error | `start`, `pause`, `resume`, `stop`, destructor on the UI thread; `RingSink::onFrame` on capture threads; `drainLoop` on its own thread; `onStatsTick` | `Recorder` |
| Session state machine (`core/src/session.cpp`) | lifecycle state, listener | `handle(event)`, `transition` | `SessionTable` |
| SPSC ring buffer (`core/include/.../ring_buffer.hpp`) | slots, two atomic indexes, three atomic counters | `tryPush`, `tryPop`, `size` | `SpscRing`, abstractly `BoundedFifo` |
| Recording writer (`src/libs/cpp/media-container/src/ffmpeg_recording_writer.cpp`) | open/failed/finalized/aborted, a FIFO and encoder per track, a partial file | `open`, `write`, `finalize`, `abort`, destructor | `RecordingWriter`, abstractly `RecordingStore` |
| Clock synchronizer (`core/src/clock_sync.cpp`) | anchor, samples since the anchor, drift anchors, statistics | `process(frame)` | `TrackSync` |
| STT stream client (`src/libs/cpp/streaming-client/src/grpc_stt_stream_client.cpp`) | bounded send queue, stream, writer and reader thread, statistics | `start`, `sendFrame`, `stop` | `SttClient` |
| Mock STT server (`.../testing/mock_stt_server.cpp`), hosted by the application | one handler per stream | handler loop, `shutdown` | inside `SttClient` and `Transcription`; `AppQuit` |
| WASAPI capture stream (`src/platform/windows/audio-wasapi/src/wasapi_capture_stream.cpp`) | capture thread, stop event, pending-discontinuity flag, statistics | `start` (handshake), `stop`, capture loop | `CaptureStream` |
| `main()` (`app/src/main.cpp`) | the order in which objects live and die | start-up, quit | `AppQuit` (quit) |
| STT producer and decimator (`src/libs/cpp/audio-dsp`) | filter phase and history, pending samples, anchor, due flag | `create`, `process(frame)` | `SttProducer` |
| Transcript list (`applyTranscript` in the controller) | latest revision per segment, updates queued to the UI thread | clear at the start of a session, apply an update | `Transcription` |
| Configuration, version, device enumeration, signal generator, protocol files, service skeletons | - | pure functions, data or placeholders | no |

### How they interact

A device's capture thread calls `RingSink::onFrame`, which pushes into the track's ring without blocking. The
drain thread takes `pipelineMutex_`, pops both rings, and passes each frame through the synchronizer to the STT
producer and client and to the writer. The UI thread starts and stops all of this. To tear a pipeline down it
stops the stream (joining the capture thread), takes the same mutex, drains what is left and drops the pipeline.
The STT client has two threads of its own. Transcript updates return through Qt's event queue. A write failure is
left in an atomic flag that a timer on the UI thread reports.

### What is hard

* *Interleaving*: three kinds of threads meet in the pipelines; the UI thread and the drain thread both drain.
* *Partial failure*: the second device, the STT service or the writer can fail when the others are already live;
  a write can fail on the drain thread while `stop()` is under way.
* *Memory model*: the ring is lock-free and each side reads stale indexes of the other.
* *Crash and recovery*: recordings must appear atomically, partial files must survive.
* *Arithmetic*: sample/time conversions truncate; both ring indexes wrap.
* *Ordering*: drain before finalize, finalize before the STT client is stopped, queue before half-close before
  reading to the end; the quit order in `main()`.
* *Liveness*: `stop()` and the destructor run on the UI thread and wait for threads and a peer.

`PROJECT.json` lists each hazard at its line, with the properties that cover it or the reason none does yet.

### What makes each component correct

* Recorder: what a ring accepts is written in order and once; a saved file is complete; losses are flagged in
  file and upload and failures are reported; audio is not deleted; every way back to rest, and the destructor,
  release everything; a pipeline outlives its users; `stop()` ends.
* Ring: no data race; FIFO; nothing accepted is lost; counters exact at rest; rejection only when full.
* Writer: samples accounted for; recordings atomic, complete and never replaced; only `abort()` deletes.
* Synchronizer: output on the master timeline; silence exact; what cannot be healed is surfaced; the drift
  estimate measures a clock.
* STT producer: the derived stream is the decimated track, sample by sample; flags mark exactly the resets;
  timestamps count the audio.
* STT client and transcript: order, drops counted, `stop()` drains both directions, joins and returns; the window
  shows the latest revision of each segment, and all of them after `stop()`.
* Capture stream: losses flagged; handshake locals outlive the thread's use; nothing delivered after `stop()`;
  `start()` and `stop()` return.
* Application: quitting ends.

## 2. The modules

`MC*` modules are the instances TLC checks; `*Proofs` modules hold the theorems. An operator whose comment begins
with "Mutant" is a plausible wrong version of the definition below it. It is used by no specification and serves
to confirm that a property notices such a change.

### SessionTable, Recorder

`SessionTable` is the table of `RecordingSession::transition`. `Recorder` has one action per handler step between
which another thread can observe or change something. `ui` records the handler (`op`), the step (`at`) and the
track. `Start`, `Pause`, `Resume`, `Stop` and `Destroy` are the handlers' first steps; `StartStt`, `OpenTrack`,
`Install`, `Opened`, `OpenFailed`, `Halt`, `UiLock`, `UiDrainOne`, `UiDrainNext`, `DropPipelines`, `Discard`,
`Finalize`, `SttDetach`, `SttJoin`, `Complete` and `JoinDrain` are the calls they are made of, in the code's order.
`Capture` is `onFrame` with the backend's flag rule, `DrainLock`, `DrainOne`, `DrainNext` and `DrainExit` are
`drainLoop`, and `DrainFrame` is one turn of `drainPipelineLocked`, shared by both threads that call it. `lock` is
`pipelineMutex_`; a critical section that no other thread can look into is one step.

A frame is its number, its take (start or resume) and its discontinuity flag. `written`, `uploaded`, `accepted`
record what reached the file, the STT client and the ring. Abstractions:

* the ring is an atomic bounded FIFO; `SpscRing` is proved to implement that;
* the synchronizer passes the frame on; silence it inserts is flagged and additional (`TrackSync`);
* the writer succeeds or fails per frame, and `finalize()` saves or keeps a partial file (`RecordingWriter`);
* the STT client accepts frames and is moved out before it is stopped (`SttDetach`), which is the precondition
  `SttClient` relies on: its owner's calls never overlap; a frame handed to the STT producer counts as uploaded
  (`SttProducer` and `Transcription` take it from there);
* device lists do not change while the model runs (a choice is any subset of the two tracks).

### BoundedFifo, SpscRing

`BoundedFifo` is what the capture path asks of the ring. `SpscRing` splits `tryPush` into load, store of the slot,
publication and counting, and `tryPop` likewise. Each index is modelled by its modification order (the sequence of
values stored), and the other thread may read any value at or after the one it read before. An acquire load of the
peer's release store raises `prodKnows` or `consKnows`, the number of the peer's operations that happen before. A slot access
without that knowledge is a data race (`NoSlotRace`). `Join` is the recorder joining the capture thread, after
which the consumer pops until empty. `ImplementsFifo` maps the slots between the indexes (and the item the consumer has
moved out but not released) to the queue.

### RecordingStore, RecordingWriter

`RecordingStore` promises that recordings appear atomically, hold all accepted samples, and are never replaced.
`RecordingWriter` counts samples per track: accepted, waiting in the FIFO, sent to the encoder. Encoder, muxer and
I/O buffer may hold back any part of the last (`Trickle`) until trailer and close. Every FFmpeg or file system
call may fail, `finalize()` is cut into `Flush`, `Trailer` and `Rename`, and `Crash` may come at every step. The
directory (`partials`, `finals`) stays across writers, so the names of earlier recordings matter.

### TrackSync

`process()` with one action per branch (`First`, `Continue`, `Heal`, `Truncate`, `Overlap`), each of which does
everything the branch does: silence, statistics, re-anchoring, drift. A sample lasts `Second / Hz` ticks; both
conversions truncate as the code's do. Drift is kept as a fraction instead of a floating-point number.

### SttProducer

The producer of the derived stream with the decimator inside it, from the synchronized frame to the frame
`sendFrame()` gets. `Process` is one call of `process()`: reset on a flag (phase, history), decimation, the loop
that cuts full output frames out of what is pending, the flag that waits for the next of them, the anchor and the
count the timestamps come from. `Reject` is a frame of another format. An input sample is its index, an output
sample the range of input samples it is filtered from, so that a sample lost, repeated or smeared across a
discontinuity is visible while the arithmetic of the filter is not needed. The reference is stated without the
producer's state: every `Factor`-th sample of each stretch between resets, filtered within the stretch. The bound on
the timestamps rounds up (`LongestDuration`): two truncations can differ by a tick more than the time between them.

### SttClient, Transcription, AppQuit

`SttClient` has the owner's calls, `writeLoop` (with the condition variable), `readLoop`, and a stream that
delivers in order, holds `Window` unread frames and may end or be lost in any state; a later `Write()` may still
succeed for a while. The server follows the mock's handler. `Transcription` extends it to the user's end: the
update the mock makes of every `FramesPerUpdate`-th frame (segment and revision), the reader thread's queueing of
it to the UI thread (`ReadUpdate`), `applyTranscript` in the event loop (`ApplyTranscript`), and the clearing of
the list in `startSttStreaming` (`BeginSession`, `BeginFails`). Nothing empties that queue between two sessions;
the history variable `mixed` records that the list may hold updates of an earlier one. `AppQuit` extends `SttClient`
with the main thread of the application once the event loop has returned: server destroyed first, then the
controller.

### CaptureStream

The owner's side of `start()` and `stop()`, the capture thread from initialization to its end, and a device that
fills a bounded shared buffer, loses packets, flags the next one, and may be invalidated. `ReportSuccess` and the
failures of initialization are the two ends of the handshake `start()` waits for. The fake backend follows the
same flag rule without the thread.

## 3. The runs

| Run | Instance | States | What it shows |
|---|---|---|---|
| `recorder_takes` | ring of 1, 3 frames per track, 2 takes | 10,979,676 | all safety properties of the controller |
| `recorder_liveness` | ring of 1, 1 frame, 2 takes | 121,323 | accepted audio is written or its loss reported, `stop()` ends |
| `spsc_ring` | 2 usable slots, 8 pushes | 6,933 | race freedom, complete drain, refinement of the FIFO |
| `recording_writer` | 2 tracks, chunk 2, frames of 1 and 3 samples, 4 samples, 2 names | 358,938 | accounting, atomicity, recovery, refinement of the store |
| `track_sync` | samples of 2.5 ticks, tolerance 4, cap 8, timestamps 0..20, 4 frames | 276,239 | timeline, silence, drift, surfacing |
| `stt_producer` | factors 3 and 1 and a refused rate, samples of 7/6 ticks, frames of 2, 4 and 13 samples, 4 calls | 147,599 | the stream is its reference; flags; timestamps |
| `transcription` | queue 2, window 1, 2 revisions, 5 frames, 2 sessions | 324,300 | order, counting, transcript, return of `stop()` |
| `capture_stream` | device buffer 2, 6 packets | 39,843 | flags, handshake, silence after `stop()`, both calls return |
| `recorder_indicator` | violation | - | a failed `resume()` leaves a microphone capturing, indicator off |
| `app_quit` | violation | - | quitting during a transcription session never ends |
| `writer_kept_partials` | violation | - | a partial file kept for recovery is truncated by a later recording |
| `writer_refuses` | violation | - | after `FormatMismatch` the writer goes on accepting frames |

**Why the bounds are enough.** *Recorder*: one slot makes a ring full after one frame and empty after one pop, so the
full ring and both drains happen; three frames put a rejection between two deliveries; two takes contain a
pause and a resume, also one that fails. The drain thread and the handlers hold no state across takes beyond what
the first two show. *SpscRing*: two usable slots of three with eight attempts turn each index around more than twice,
so a value may be read when it is stale by a whole turn. *RecordingWriter*: frames above and below a chunk leave a
remainder, fill several chunks at once and hit the boundary; two names let one be reused after a failure and the
other be final. *TrackSync*: samples of 2.5 ticks make both conversions lose something; the tolerance exceeds a
sample and the cap exceeds the tolerance, so all five branches occur after each other. *SttProducer*: an output frame takes six input samples at factor
three, so an input frame completes none, one or two of them with any remainder, and four calls put flags, skipped
time and rejections before, between and after; five taps are more than the shortest input frame, so the history
spans calls; a sample is no whole number of ticks, so every conversion truncates, as at 48 kHz. *Transcription*: a queue of two and a window of one both fill; five frames make two finished segments
and a third that is not; the second session starts from what the first one left, including queued updates.
*CaptureStream*: a buffer of two overflows, and six packets allow device and sink to lose some in turn between two
deliveries.

Deadlock checking is off in all runs: users and devices may stop acting, and the bounds end every behaviour.

**Fairness.** *Recorder*: weak fairness of the drain thread and the timer, since both loop for as long as they live;
strong fairness of the running handler, because it waits for a mutex that the drain thread releases and retakes.
The code gives the mutex away by sleeping 2 ms whenever a pass finds no frame. `SttEnds` is an assumption about
the peer: `client->stop()` waits without a deadline for the server to end the stream. *SttClient*,
*Transcription*: the client's threads run, a begun call continues, and the server keeps reading and returns after
the half-close, as the mock does; nobody owes a call of `stop()`, and the event loop owes nothing to the queue of
updates, since other handlers may keep it busy. `AppQuit` adds that the main thread goes on when it can.
*CaptureStream*: the thread runs and a call that has begun goes on when what it waits for has come; the device
owes nothing, and `MaxPackets` stands for the fact that a thread that empties the buffer sees it empty at some
point. No fairness is assumed of users, devices, or a stream that breaks.

## 4. The proofs

All theorems hold for every value of the constants under the modules' named assumptions (capacities and bounds are
naturals, chunk and rates are positive); those assumptions are the only ones used, but for one hypothesis of
`TimestampsAreCounted` that its entry below explains.

* **RecorderProofs** (`IInv`): the properties depend on where the UI thread is. `LockInv` says who holds the
  mutex at which step, `StepInv` which steps belong to which handler, `SessionInv` in which session state each
  handler runs, `PipelineInv` and `HaltInv` which streams and pipelines exist at each step and that a halted
  stream adds nothing to its ring, `ResourceInv` which of writer, client and timer are alive. With them:
  `TypeCorrect`, `NothingIsLost`, `FinalFile`, `RestIsRest`, `NoUseAfterFree`, `ShutdownIsClean`.
* **RecorderAudioProofs** (`AudioInv`, on top of `IInv`): what becomes of frames that were dropped and of failures.
  `GapInv` is the argument about drops: what the ring rejected is owed by the sink's pending flag until the next
  accepted frame carries it, so every jump in the accepted frames is flagged; file and upload are first parts of
  what was accepted, so they inherit it. `UploadInv` puts each accepted frame of the source track in the upload, in
  hand or in the ring, also while the writer fails; `ReportInv` follows a loss from the flag the drain thread sets
  to the error the window shows; `SelectedInv` says which tracks a recording consists of: `GapsShow`,
  `UploadHoldsAll`, `LossIsTold`, `NothingIsDeleted`.
* **SpscRingProofs** (`RInv`, `ItemInv`): the argument counts stores. `CountInv` relates how many stores each
  thread has made and has seen; `IndexInv` says that equal indexes fewer than a turn apart are the same store;
  `AccessInv` says which operation touched a slot last. Race freedom follows, and `ItemInv` adds the contents:
  `RingTypes`, `RaceFree`, `RestIsExact`, `DrainIsComplete`, `RejectsFullRings`, `RingIsFifo`.
* **WriterProofs** (`WInv`): stage and state agree, an open or failed writer has its file, and at the trailer every
  sample has been sent: `WriterTypes`, `WriterAccounts`, `NoLeftovers`, `OnlyAbortDiscards`, `WriterIsStore`.
* **SyncProofs** (`SyncInv`): starts from lemmas about truncated division (`Quotient`, `DurationOfSum`,
  `ThereAndBack`); the strengthening `DriftInv` says that the drift anchor itself lay within the slack of the
  timeline: `SyncTypes`, `StaysOnTheTimeline`, `SilenceFits`, `DriftIsOfTheClock`, `JumpsSurface`.
* **CaptureProofs** (`StreamInv`): packets form the chain delivered, in hand, buffered, captured. `PacketInv`,
  `BufferInv` and `DeviceInv` say that wherever a number is missing between two links, the flag is on the later
  one, or is owed by the sink's pending flag and the later one is next. `RestInv` ties the thread's life to the
  owner's place: `StreamTypes`, `LossesFlagged`, `LocalsAlive`, `SilentAfterStop`.
* **ProducerProofs** (`ProducerInv`, `StampInv`): the reference counts the samples due in everything heard, the
  code those in the frame at hand from a phase. The two meet in a closed form: from a phase, the k-th sample due is
  `DueAt` and `DueCount` of n samples are due (`DuePositions`, `DueOrder`), and the bijection between the two gives
  every cardinality of the reference without induction (`DueCardinality`). `FilterInv` says that phase and history
  count the samples since `Epoch`, the first sample after the last reset; `StreamInv` that the samples sent fill whole
  frames; `FlagInv` that the flag is due exactly when the last sample sent is of an earlier stretch: `ProducerTypes`,
  `StreamIsReference`, `FlagsAreResets`. For the timestamps `AheadInv` bounds how far the stream is ahead of the
  samples heard (only a reset adds to it, by what the turn under way lacked), `AnchorInv` says what frames are stamped
  from, and `Truncations` that two truncated conversions stay within a tick: `TimestampsAreCounted`. Its hypothesis is
  that input frames hold samples. An empty first frame would set the anchor to a time no sample has, but none comes:
  the capture stream stops at an empty packet (`wasapi_capture_stream.cpp:228`) and the synchronizer inserts silence
  only when it is at least a sample long.
* **TranscriptProofs** (`TranscriptInv`): a frame the client accepted is in one place of the chain queue, request,
  stream, received, and concatenation is associative; `PlacesInv` says which ends of the chain are empty at each
  place of the owner and the threads, and is what makes `stop()` mean "all of it". An update is in one place of the
  chain downstream, posted, shown: `DownInv` and `PostedInv` give its number, and `AppliedNext` proves that
  applying update n + 1 to the list for n gives the list for n + 1, by division by the revisions per segment.
  Every step of `TranscriptSpec` is a step of `SttClient` or leaves it alone (`IsClientStep`), so the client's
  invariants carry over: `TranscriptTypes`, `CountedDrops`, `OrderedUpload`, `LatestTranscript`,
  `CompleteTranscript`.

**Only model-checked.** Liveness: `WrittenOrReported`, `StopCompletes`, `StopReturns` and `CallsReturn`, since the
prover has no support for fairness (`ENABLED`). Every safety property and refinement that a passing run checks is
also proved. The disagreements of section 5 are counterexamples of TLC.

## 5. What disagrees with the code's own words

With a run:

1. **Quitting can hang** (`app_quit`). `main.cpp` destroys the STT server before the controller.
   `Server::Shutdown()` without a deadline waits for the handler, the handler for the client's half-close, and
   only the controller's destructor, later on the same thread, would half-close. Declaring the server before the
   controller removes the cycle.
2. **A failed resume keeps recording** (`recorder_indicator`). `resume()` does not stop the streams it has opened when
   the second one fails, and the failed state has no control that leaves it.
3. **A kept partial file can be overwritten** (`writer_kept_partials`). The name is checked against finished
   recordings only.
4. **A format mismatch does not close the writer** (`writer_refuses`), against the interface's contract.

Without one, because a property states what the code does instead:

5. **A flagged gap shorter than a sample leaves nothing behind.** The silence rounds to no samples and replaces the
   flag (`clock_sync.cpp:109`), while `clock_sync.hpp:22-24` promises healed or surfaced. `JumpsAreSurfaced` says
   exactly that: a reported loss stays visible unless it is shorter than a sample.
6. **A frame dropped by the client's queue flags nothing.** `types.hpp:50-51` asks for a flagged gap; the sequence
   numbers skip, and `framesDropped` counts (`grpc_stt_stream_client.cpp:63`, `DropsAreCounted`).
7. **Updates of a stopped session can reach the next one's transcript.** They are still in Qt's queue when
   `startSttStreaming` clears the list (`recorder_controller.cpp:507`) and share segment numbers with the new
   session's. `TranscriptIsLatest` holds for transcripts that are not mixed in this way.
8. **A pause is a splice without a flag in the upload.** The producer survives pause and resume, its synchronizer
   does not, and the first frame after a resume need not be flagged, so the timestamps leave out the time that
   passed (`stt_stream_producer.cpp:40`). `TimestampsCountTheAudio` states the offset up to the rounding of the conversions. At `stop()`, less than one
   output frame is still pending and is not sent.
9. **The list is cleared when the endpoint cannot be reached, but kept when it is empty** (`startSttStreaming`).

## 6. Not modelled, and why

* The decimator's coefficients, downmixing and rounding, formatting of messages, file names beyond identity: data.
* 64-bit overflow in `samplesToDuration` (about 53 hours without a re-anchoring at 48 kHz): integers are unbounded.
* Device enumeration and hot-plug: stateless queries, no reaction to changes in the code.
* A peer that never ends its stream: `stop()` would wait for ever; it is the assumption `SttEnds`.
* The listener of `RecordingSession`: the application calls `handle()` on the UI thread only and its listener emits
  `sessionStateChanged()`, which changes no state.
* The configuration parser: only its tests call it, the controller keeps a default `RecorderConfig`. Version
  strings, benchmarks, signal generator, service skeletons: display, measurements or placeholders.

## 7. Plan

Written so far, in this order: `SessionTable`, `Recorder`, `BoundedFifo`/`SpscRing`, `RecordingStore`/`RecordingWriter`,
`TrackSync`, `SttClient`, `CaptureStream`, `AppQuit`, `SttProducer`, `Transcription`. To come, most important first:

1. A composition of `RecordingWriter` with `Recorder`'s view of it (open, failed, saved, kept), as a refinement
   of the writer steps in `Recorder`.

## 8. Running

In this directory, `tlc -config MCRecorder.cfg MCRecorder.tla` (and likewise for the other configurations) checks a
model; `tlapm RecorderProofs.tla` checks a proof module. `PROJECT.json` lists the runs, the source lines behind
every definition, the hazards, the findings and the theorems.
