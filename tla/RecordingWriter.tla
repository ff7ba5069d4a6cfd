--------------------------- MODULE RecordingWriter ---------------------------
(***************************************************************************)
(* The lossless writer (media-container's ffmpeg_recording_writer.cpp),    *)
(* one object after the other as the recorder creates them, with the       *)
(* directory they leave behind.                                            *)
(*                                                                         *)
(* Audio is counted in samples per track: accepted by write(), waiting in  *)
(* the FIFO for a full encoder chunk, and sent to the encoder (which is    *)
(* also the next timestamp).  The encoder, the interleaving muxer and the  *)
(* I/O buffer may hold any of the latter back until the trailer is written *)
(* and the file closed.  Every FFmpeg and file system call may fail and    *)
(* the process may die in any state; finalize() is cut where that matters  *)
(* to the directory.                                                       *)
(***************************************************************************)
EXTENDS Naturals

CONSTANTS Tracks,      \* the configuration's tracks
          Chunk,       \* samples in an encoder frame (chunkSamples)
          FrameSizes,  \* samples in the frames that are written
          MaxSamples,  \* bound: samples accepted per track
          Names        \* the recorder's file names

ASSUME WriterAssumption ==
  /\ Chunk \in Nat \ {0}
  /\ FrameSizes \subseteq Nat
  /\ MaxSamples \in Nat

VARIABLES
  state,     \* "none" (no object), "open", "failed", "finalized", "aborted"
  stage,     \* of finalize(): "idle" (not in it), "trailer" or "rename"
  name,      \* the recording's name
  accepted,  \* samplesWrittenPerTrack
  fifo,      \* per track: samples in the FIFO
  sent,      \* per track: samples sent to the encoder, nextPts
  refused,   \* a write() of this object returned false
  partials,  \* the partial files: name |-> samples per track in the file
  finals     \* the recordings: name |-> samples per track in the file

trackVars == <<accepted, fifo, sent>>
vars == <<state, stage, name, trackVars, refused, partials, finals>>

Zero == [t \in Tracks |-> 0]

Counts == [Tracks -> Nat]

NoFiles == [n \in {} |-> Zero]

\* The directory's files with the one called n (over)written, or without it.
With(files, n, held) == [m \in DOMAIN files \cup {n} |-> IF m = n THEN held ELSE files[m]]

Without(files, n) == [m \in DOMAIN files \ {n} |-> files[m]]

(***************************************************************************)
(* Some of what the encoder was given reaches the file.  It holds whole    *)
(* packets, but where they end does not matter here.                       *)
(***************************************************************************)
Trickle(given) ==
  \E held \in [Tracks -> 0 .. MaxSamples + Chunk] :
    /\ \A t \in Tracks : partials[name][t] <= held[t] /\ held[t] <= given[t]
    /\ partials' = With(partials, name, held)

Fail == state' = "failed" /\ stage' = "idle"

-----------------------------------------------------------------------------
(***************************************************************************)
(* createWriter() picks a name that no finished recording has, and open()  *)
(* creates the partial file, over one of that name.  It can fail before    *)
(* that or, in writing the header, after it.  A writer that did not open   *)
(* is destroyed.                                                           *)
(***************************************************************************)
Open(n) ==
  /\ state = "none"
  /\ n \notin DOMAIN finals
  /\ \/ partials' = With(partials, n, Zero) /\ state' = "open" /\ name' = n
     \/ partials' = With(partials, n, Zero) /\ UNCHANGED <<state, name>>
  /\ UNCHANGED <<stage, trackVars, refused, finals>>

\* Mutant of Write: one chunk is encoded where several are available.
WriteOneChunk(t, size) ==
  /\ state = "open" /\ stage = "idle"
  /\ accepted[t] + size <= MaxSamples
  /\ accepted' = [accepted EXCEPT ![t] = @ + size]
  /\ LET total == fifo[t] + size
         rest  == IF total >= Chunk THEN total - Chunk ELSE total
     IN /\ fifo' = [fifo EXCEPT ![t] = rest]
        /\ sent' = [sent EXCEPT ![t] = @ + (total - rest)]
        /\ IF total = rest THEN UNCHANGED partials ELSE Trickle(sent')
  /\ UNCHANGED <<state, stage, name, refused, finals>>

\* write() accepts a frame: full chunks go to the encoder.
Write(t, size) ==
  /\ state = "open" /\ stage = "idle"
  /\ accepted[t] + size <= MaxSamples
  /\ accepted' = [accepted EXCEPT ![t] = @ + size]
  /\ LET total == fifo[t] + size
         rest  == total % Chunk
     IN /\ fifo' = [fifo EXCEPT ![t] = rest]
        /\ sent' = [sent EXCEPT ![t] = @ + (total - rest)]
        /\ IF total = rest THEN UNCHANGED partials ELSE Trickle(sent')
  /\ UNCHANGED <<state, stage, name, refused, finals>>

\* Mutant of WriteFails: a chunk is read although the FIFO holds less.
WriteFailsShort(t, size) ==
  /\ state = "open" /\ stage = "idle"
  /\ accepted[t] + size <= MaxSamples
  /\ LET total == fifo[t] + size
     IN \E chunks \in 1 .. (total \div Chunk) + 1 :
          /\ fifo' = [fifo EXCEPT ![t] = total - chunks * Chunk]
          /\ sent' = [sent EXCEPT ![t] = @ + chunks * Chunk]
          /\ Trickle(sent')
  /\ refused' = TRUE
  /\ Fail
  /\ UNCHANGED <<name, accepted, finals>>

\* An FFmpeg call fails, at once or after some chunks went to the encoder.
WriteFails(t, size) ==
  /\ state = "open" /\ stage = "idle"
  /\ accepted[t] + size <= MaxSamples
  /\ LET total == fifo[t] + size
     IN \/ UNCHANGED <<fifo, sent, partials>>
        \/ \E chunks \in 1 .. total \div Chunk :
             /\ fifo' = [fifo EXCEPT ![t] = total - chunks * Chunk]
             /\ sent' = [sent EXCEPT ![t] = @ + chunks * Chunk]
             /\ Trickle(sent')
  /\ refused' = TRUE
  /\ Fail
  /\ UNCHANGED <<name, accepted, finals>>

\* A frame of another format or track, or a write() in another state.
Refuse ==
  /\ state # "none" /\ stage = "idle"
  /\ refused' = TRUE
  /\ UNCHANGED <<state, stage, name, trackVars, partials, finals>>

\* Mutant of Flush: the encoders are drained but not the FIFOs' remainders.
FlushEncoders ==
  /\ state = "open" /\ stage = "idle"
  /\ Trickle(sent)
  /\ stage' = "trailer" /\ UNCHANGED state
  /\ UNCHANGED <<name, trackVars, refused, finals>>

(***************************************************************************)
(* finalize(): drain the FIFOs and encoders, write the trailer and close,  *)
(* rename.                                                                 *)
(***************************************************************************)
Flush ==
  /\ state = "open" /\ stage = "idle"
  /\ \E done \in SUBSET Tracks :
       /\ fifo' = [t \in Tracks |-> IF t \in done THEN 0 ELSE fifo[t]]
       /\ sent' = [t \in Tracks |-> IF t \in done THEN sent[t] + fifo[t] ELSE sent[t]]
       /\ Trickle(sent')
       /\ \/ done = Tracks /\ stage' = "trailer" /\ UNCHANGED state
          \/ Fail
  /\ UNCHANGED <<name, accepted, refused, finals>>

Trailer ==
  /\ stage = "trailer"
  /\ \/ /\ partials' = With(partials, name, sent)
        /\ stage' = "rename"
        /\ UNCHANGED state
     \/ Trickle(sent) /\ Fail
  /\ UNCHANGED <<name, trackVars, refused, finals>>

\* Mutant of Rename: the partial file is copied instead.
RenameByCopy ==
  /\ stage = "rename"
  /\ \/ /\ finals' = With(finals, name, partials[name])
        /\ state' = "finalized"
        /\ stage' = "idle"
        /\ UNCHANGED partials
     \/ Fail /\ UNCHANGED <<partials, finals>>
  /\ UNCHANGED <<name, trackVars, refused>>

Rename ==
  /\ stage = "rename"
  /\ \/ /\ finals' = With(finals, name, partials[name])
        /\ partials' = Without(partials, name)
        /\ state' = "finalized"
        /\ stage' = "idle"
     \/ Fail /\ UNCHANGED <<partials, finals>>
  /\ UNCHANGED <<name, trackVars, refused>>

\* abort() discards the recording; the file system may refuse to remove it.
Abort ==
  /\ state \in {"open", "failed"} /\ stage = "idle"
  /\ state' = "aborted"
  /\ partials' = Without(partials, name) \/ Trickle(sent)
  /\ UNCHANGED <<stage, name, trackVars, refused, finals>>

\* Nothing of the object is left but the directory.
Gone ==
  /\ state' = "none" /\ stage' = "idle"
  /\ accepted' = Zero /\ fifo' = Zero /\ sent' = Zero
  /\ refused' = FALSE
  /\ UNCHANGED <<name, finals>>

\* Mutant of Destroy: the destructor tidies an unfinished file away.
DestroyTidily ==
  /\ state # "none" /\ stage = "idle"
  /\ IF state \in {"open", "failed"}
     THEN partials' = Without(partials, name) ELSE UNCHANGED partials
  /\ Gone

\* The destructor closes the file and leaves it behind.
Destroy ==
  /\ state # "none" /\ stage = "idle"
  /\ IF state \in {"open", "failed"} THEN Trickle(sent) ELSE UNCHANGED partials
  /\ Gone

\* The process dies, in finalize() too.
Crash ==
  /\ state # "none"
  /\ UNCHANGED partials
  /\ Gone

Init ==
  /\ state = "none" /\ stage = "idle"
  /\ name \in Names
  /\ accepted = Zero /\ fifo = Zero /\ sent = Zero
  /\ refused = FALSE
  /\ partials = NoFiles /\ finals = NoFiles

Next ==
  \/ \E n \in Names : Open(n)
  \/ \E t \in Tracks, size \in FrameSizes : Write(t, size) \/ WriteFails(t, size)
  \/ Refuse \/ Flush \/ Trailer \/ Rename \/ Abort \/ Destroy \/ Crash

Spec == Init /\ [][Next]_vars

-----------------------------------------------------------------------------
(* Properties                                                              *)

IsDirectory(files) ==
  /\ DOMAIN files \subseteq Names
  /\ \A n \in DOMAIN files : files[n] \in Counts

\* Every variable has its type.
TypeOK ==
  /\ state \in {"none", "open", "failed", "finalized", "aborted"}
  /\ stage \in {"idle", "trailer", "rename"}
  /\ name \in Names
  /\ accepted \in Counts /\ fifo \in Counts /\ sent \in Counts
  /\ refused \in BOOLEAN
  /\ IsDirectory(partials) /\ IsDirectory(finals)

(***************************************************************************)
(* Timestamps are "accumulated written samples": what write() accepted is  *)
(* in the FIFO or stamped, less than one chunk of it waits, and the file   *)
(* never holds audio that was not accepted, whatever was interrupted.      *)
(***************************************************************************)
SamplesAccounted ==
  state = "open" =>
    /\ name \in DOMAIN partials
    /\ \A t \in Tracks :
         /\ accepted[t] = fifo[t] + sent[t]
         /\ fifo[t] < Chunk
         /\ partials[name][t] <= accepted[t]

(***************************************************************************)
(* A finished recording leaves no partial file of its name beside it, so   *)
(* that a partial file always means an interrupted recording, also when a  *)
(* name was tried before.                                                  *)
(***************************************************************************)
PartialMeansInterrupted == DOMAIN partials \cap DOMAIN finals = {}

(***************************************************************************)
(* "This is the only path that deletes data": a partial file disappears    *)
(* through abort() or by becoming the recording of its name with the same  *)
(* content, never by a failure, a crash or the destructor.                 *)
(***************************************************************************)
OnlyAbortDeletes ==
  [][\A n \in DOMAIN partials :
       n \notin DOMAIN partials' =>
         \/ n = name /\ state' = "aborted"
         \/ n \in DOMAIN finals' /\ finals'[n] = partials[n]]_vars

(***************************************************************************)
(* The writer implements RecordingStore: a recording appears in one step,  *)
(* with every accepted sample, and is never replaced.                      *)
(***************************************************************************)
Store == INSTANCE RecordingStore
  WITH taking <- state = "open",
       counts <- IF state = "open" THEN accepted ELSE Zero,
       saved  <- finals

ImplementsStore == Store!Spec

(***************************************************************************)
(* "Returns false on failure; lastError() then explains it and the writer  *)
(* refuses further writes until abort()" (recording.hpp).                  *)
(***************************************************************************)
RefusesAfterFailure == refused => state # "open"

(***************************************************************************)
(* "Recorded data is never deleted implicitly: a writer destroyed without  *)
(* finalize() leaves the partial file behind for recovery": the audio of a *)
(* partial file that no writer has open stays there.                       *)
(***************************************************************************)
KeptPartialsSurvive ==
  [][state = "none" =>
       \A n \in DOMAIN partials : n \in DOMAIN partials' /\ partials'[n] = partials[n]]_vars

=============================================================================
