---------------------------- MODULE WriterProofs ----------------------------
(***************************************************************************)
(* RecordingWriter implements RecordingStore: recordings appear in one     *)
(* step, whole, and are never replaced.                                    *)
(*                                                                         *)
(* The inductive invariant WInv says what each stage of finalize() may     *)
(* rely on: while the writer is open, what was accepted is in the FIFO or  *)
(* sent; after the flush the FIFOs are empty, so that all of it was sent;  *)
(* after the trailer the partial file holds all that was sent.             *)
(***************************************************************************)
EXTENDS RecordingWriter, TLAPS

\* The file holds what was accepted once the trailer is written.
StageInv ==
  /\ stage # "idle" => state = "open" /\ \A t \in Tracks : fifo[t] = 0
  /\ stage = "rename" => partials[name] = sent

\* abort(), the destructor and the failing steps still find the partial file.
FileInv == state \in {"open", "failed"} => name \in DOMAIN partials

\* Without an object there is nothing in its counters.
RestInv == state = "none" => accepted = Zero /\ fifo = Zero /\ sent = Zero

WInv ==
  TypeOK /\ SamplesAccounted /\ PartialMeansInterrupted /\ StageInv /\ FileInv /\ RestInv

-----------------------------------------------------------------------------
(* Arithmetic of the FIFO.                                                 *)

\* What stays in the FIFO is less than a chunk, and no more than was there.
LEMMA Remainder ==
  ASSUME NEW total \in Nat
  PROVE  total % Chunk \in Nat /\ total % Chunk < Chunk /\ total % Chunk <= total
BY WriterAssumption DEF WriterAssumption

\* Reading whole chunks that are there leaves a natural number of samples.
LEMMA WholeChunks ==
  ASSUME NEW total \in Nat, NEW chunks \in 1 .. total \div Chunk
  PROVE  chunks * Chunk \in Nat /\ total - chunks * Chunk \in Nat
<1>1. Chunk \in Nat /\ Chunk > 0
  BY WriterAssumption DEF WriterAssumption
<1>2. total \div Chunk \in Nat /\ (total \div Chunk) * Chunk <= total
  BY <1>1
<1>3. chunks * Chunk \in Nat /\ chunks * Chunk <= (total \div Chunk) * Chunk
  BY <1>1, <1>2
<1>. QED
  BY <1>1, <1>2, <1>3

(* The directory.                                                          *)

\* Writing a file adds it and leaves the others alone.
LEMMA WithFile ==
  ASSUME NEW files, IsDirectory(files), NEW n \in Names, NEW held \in Counts
  PROVE  /\ IsDirectory(With(files, n, held))
         /\ DOMAIN With(files, n, held) = DOMAIN files \cup {n}
         /\ With(files, n, held)[n] = held
BY DEF IsDirectory, With

\* Removing a file leaves the others alone.
LEMMA WithoutFile ==
  ASSUME NEW files, IsDirectory(files), NEW n
  PROVE  /\ IsDirectory(Without(files, n))
         /\ DOMAIN Without(files, n) = DOMAIN files \ {n}
BY DEF IsDirectory, Without

\* What reaches the file is samples it was given.
LEMMA TrickleFile ==
  ASSUME TypeOK, NEW given \in Counts, Trickle(given)
  PROVE  /\ IsDirectory(partials')
         /\ DOMAIN partials' = DOMAIN partials \cup {name}
         /\ \A t \in Tracks : partials'[name][t] <= given[t]
<1>1. PICK held \in [Tracks -> 0 .. MaxSamples + Chunk] :
        /\ \A t \in Tracks : partials[name][t] <= held[t] /\ held[t] <= given[t]
        /\ partials' = With(partials, name, held)
  BY DEF Trickle
<1>2. held \in Counts
  BY WriterAssumption DEF WriterAssumption, Counts
<1>3. IsDirectory(partials) /\ name \in Names
  BY DEF TypeOK
<1>. QED
  BY <1>1, <1>2, <1>3, WithFile

-----------------------------------------------------------------------------
(* Every action preserves the invariant.                                   *)

\* The empty directory satisfies it.
LEMMA InitWriter == Init => WInv
<1>. SUFFICES ASSUME Init PROVE WInv
  OBVIOUS
<1>1. Zero \in Counts
  BY DEF Zero, Counts
<1>2. partials = [n \in {} |-> Zero] /\ finals = [n \in {} |-> Zero]
  BY DEF Init, NoFiles
<1>3. DOMAIN partials = {} /\ DOMAIN finals = {}
  BY <1>2
<1>4. IsDirectory(partials) /\ IsDirectory(finals)
  BY <1>3 DEF IsDirectory
<1>5. TypeOK
  BY <1>1, <1>4 DEF Init, TypeOK
<1>. QED
  BY <1>3, <1>5 DEF Init, WInv, SamplesAccounted, PartialMeansInterrupted, StageInv, FileInv,
                    RestInv

\* open() takes over a name that no recording has.
LEMMA OpenWriter ==
  ASSUME WInv, NEW n \in Names, Open(n)
  PROVE  WInv'
<1>. USE DEF WInv, Open, trackVars
<1>1. Zero \in Counts
  BY DEF Zero, Counts
<1>2. partials' = With(partials, n, Zero) /\ IsDirectory(partials)
  BY DEF TypeOK
<1>3. /\ IsDirectory(partials')
      /\ DOMAIN partials' = DOMAIN partials \cup {n}
      /\ partials'[n] = Zero
  BY <1>1, <1>2, WithFile
<1>4. TypeOK'
  BY <1>3 DEF TypeOK, IsDirectory
<1>5. PartialMeansInterrupted'
  BY <1>3 DEF PartialMeansInterrupted
<1>6. StageInv' /\ FileInv' /\ RestInv'
  BY <1>3 DEF StageInv, FileInv, TypeOK, RestInv
<1>7. SamplesAccounted'
  <2>1. \A t \in Tracks : accepted'[t] = 0 /\ fifo'[t] = 0 /\ sent'[t] = 0
    BY DEF RestInv, Zero
  <2>2. state' = "open" => \A t \in Tracks : partials'[name'][t] = 0
    BY <1>3 DEF Zero
  <2>. QED
    BY <1>3, <2>1, <2>2, WriterAssumption DEF SamplesAccounted, WriterAssumption
<1>. QED
  BY <1>4, <1>5, <1>6, <1>7

\* write() moves samples from the frame to the FIFO and on to the encoder.
LEMMA WriteWriter ==
  ASSUME WInv, NEW t \in Tracks, NEW size \in FrameSizes, Write(t, size)
  PROVE  WInv'
<1>. DEFINE total == fifo[t] + size
            rest  == total % Chunk
<1>1. size \in Nat /\ total \in Nat
  BY WriterAssumption DEF WriterAssumption, WInv, TypeOK, Counts
<1>2. rest \in Nat /\ rest < Chunk /\ rest <= total
  BY <1>1, Remainder
<1>3. /\ accepted' = [accepted EXCEPT ![t] = @ + size]
      /\ fifo' = [fifo EXCEPT ![t] = rest]
      /\ sent' = [sent EXCEPT ![t] = @ + (total - rest)]
      /\ IF total = rest THEN UNCHANGED partials ELSE Trickle(sent')
      /\ state = "open" /\ stage = "idle"
      /\ UNCHANGED <<state, stage, name, refused, finals>>
  BY DEF Write
<1>. HIDE DEF total, rest
<1>4. accepted' \in Counts /\ fifo' \in Counts /\ sent' \in Counts
  BY <1>1, <1>2, <1>3 DEF WInv, TypeOK, Counts
<1>5. name \in DOMAIN partials
  BY <1>3 DEF WInv, FileInv
<1>6. \A u \in Tracks : accepted'[u] = fifo'[u] + sent'[u] /\ fifo'[u] < Chunk
  <2>. TAKE u \in Tracks
  <2>1. accepted[u] = fifo[u] + sent[u] /\ fifo[u] < Chunk
    BY <1>3 DEF WInv, SamplesAccounted
  <2>2. CASE u = t
    BY <1>1, <1>2, <1>3, <2>1, <2>2 DEF WInv, TypeOK, Counts, total
  <2>3. CASE u # t
    BY <1>3, <2>1, <2>3 DEF WInv, TypeOK, Counts
  <2>. QED
    BY <2>2, <2>3
<1>7. /\ IsDirectory(partials')
      /\ DOMAIN partials' = DOMAIN partials
      /\ \A u \in Tracks : partials'[name][u] <= accepted'[u]
  <2>1. CASE total = rest
    <3>1. \A u \in Tracks : partials[name][u] <= accepted[u] /\ accepted[u] <= accepted'[u]
      BY <1>1, <1>3 DEF WInv, TypeOK, Counts, SamplesAccounted
    <3>2. \A u \in Tracks : partials[name][u] \in Nat
      BY <1>5 DEF WInv, TypeOK, IsDirectory, Counts
    <3>. QED
      BY <1>3, <1>4, <2>1, <3>1, <3>2 DEF WInv, TypeOK, Counts
  <2>2. CASE total # rest
    <3>1. /\ IsDirectory(partials')
          /\ DOMAIN partials' = DOMAIN partials \cup {name}
          /\ \A u \in Tracks : partials'[name][u] <= sent'[u]
      BY <1>3, <1>4, <2>2, TrickleFile DEF WInv
    <3>2. \A u \in Tracks : partials'[name][u] \in Nat /\ sent'[u] <= accepted'[u]
      BY <1>4, <1>5, <1>6, <3>1 DEF IsDirectory, Counts
    <3>. QED
      BY <1>4, <1>5, <3>1, <3>2 DEF Counts
  <2>. QED
    BY <2>1, <2>2
<1>8. TypeOK'
  BY <1>3, <1>4, <1>7 DEF WInv, TypeOK, IsDirectory
<1>9. SamplesAccounted'
  BY <1>3, <1>5, <1>6, <1>7 DEF SamplesAccounted
<1>10. PartialMeansInterrupted' /\ StageInv' /\ FileInv' /\ RestInv'
  BY <1>3, <1>7 DEF WInv, PartialMeansInterrupted, StageInv, FileInv, RestInv
<1>. QED
  BY <1>8, <1>9, <1>10 DEF WInv

\* A failing write leaves the partial file and no claim about its content.
LEMMA FailingWriter ==
  ASSUME WInv, NEW t \in Tracks, NEW size \in FrameSizes, WriteFails(t, size)
  PROVE  WInv'
<1>. DEFINE total == fifo[t] + size
<1>1. total \in Nat
  BY WriterAssumption DEF WriterAssumption, WInv, TypeOK, Counts
<1>2. /\ state = "open" /\ stage = "idle" /\ state' = "failed" /\ stage' = "idle"
      /\ refused' = TRUE
      /\ UNCHANGED <<name, accepted, finals>>
      /\ \/ UNCHANGED <<fifo, sent, partials>>
         \/ \E chunks \in 1 .. total \div Chunk :
              /\ fifo' = [fifo EXCEPT ![t] = total - chunks * Chunk]
              /\ sent' = [sent EXCEPT ![t] = @ + chunks * Chunk]
              /\ Trickle(sent')
  BY DEF WriteFails, Fail
<1>. HIDE DEF total
<1>3. name \in DOMAIN partials
  BY <1>2 DEF WInv, FileInv
<1>4. /\ fifo' \in Counts /\ sent' \in Counts
      /\ IsDirectory(partials') /\ DOMAIN partials' = DOMAIN partials
  <2>1. CASE UNCHANGED <<fifo, sent, partials>>
    BY <2>1 DEF WInv, TypeOK, IsDirectory
  <2>2. ASSUME NEW chunks \in 1 .. total \div Chunk,
               fifo' = [fifo EXCEPT ![t] = total - chunks * Chunk],
               sent' = [sent EXCEPT ![t] = @ + chunks * Chunk],
               Trickle(sent')
        PROVE  /\ fifo' \in Counts /\ sent' \in Counts
               /\ IsDirectory(partials') /\ DOMAIN partials' = DOMAIN partials
    <3>1. chunks * Chunk \in Nat /\ total - chunks * Chunk \in Nat
      BY <1>1, WholeChunks
    <3>2. fifo' \in Counts /\ sent' \in Counts
      BY <2>2, <3>1 DEF WInv, TypeOK, Counts
    <3>. QED
      BY <1>3, <2>2, <3>2, TrickleFile DEF WInv
  <2>. QED
    BY <1>2, <2>1, <2>2
<1>5. TypeOK'
  BY <1>2, <1>4 DEF WInv, TypeOK, IsDirectory
<1>. QED
  BY <1>2, <1>3, <1>4, <1>5 DEF WInv, SamplesAccounted, PartialMeansInterrupted, StageInv, FileInv,
       RestInv

\* A refused frame changes nothing but the answer.
LEMMA RefusingWriter == ASSUME WInv, Refuse PROVE WInv'
BY DEF WInv, Refuse, trackVars, TypeOK, IsDirectory, SamplesAccounted, PartialMeansInterrupted,
       StageInv, FileInv, RestInv

(***************************************************************************)
(* The flush sends the FIFOs' remainders: all that was accepted is sent.   *)
(***************************************************************************)
LEMMA FlushingWriter == ASSUME WInv, Flush PROVE WInv'
<1>1. PICK done \in SUBSET Tracks :
        /\ fifo' = [t \in Tracks |-> IF t \in done THEN 0 ELSE fifo[t]]
        /\ sent' = [t \in Tracks |-> IF t \in done THEN sent[t] + fifo[t] ELSE sent[t]]
        /\ Trickle(sent')
        /\ \/ done = Tracks /\ stage' = "trailer" /\ UNCHANGED state
           \/ Fail
  BY DEF Flush
<1>2. state = "open" /\ stage = "idle" /\ UNCHANGED <<name, accepted, refused, finals>>
  BY DEF Flush
<1>3. fifo' \in Counts /\ sent' \in Counts
  BY <1>1 DEF WInv, TypeOK, Counts
<1>4. name \in DOMAIN partials
  BY <1>2 DEF WInv, FileInv
<1>5. /\ IsDirectory(partials') /\ DOMAIN partials' = DOMAIN partials
      /\ \A t \in Tracks : partials'[name][t] <= sent'[t]
  BY <1>1, <1>3, <1>4, TrickleFile DEF WInv
<1>6. TypeOK'
  BY <1>1, <1>2, <1>3, <1>5 DEF WInv, TypeOK, IsDirectory, Fail
<1>7. CASE done = Tracks /\ stage' = "trailer" /\ UNCHANGED state
  <2>1. \A t \in Tracks : fifo'[t] = 0 /\ accepted'[t] = sent'[t]
    BY <1>1, <1>2, <1>7 DEF WInv, TypeOK, Counts, SamplesAccounted
  <2>2. SamplesAccounted'
    BY <1>2, <1>3, <1>4, <1>5, <2>1, WriterAssumption
    DEF WInv, TypeOK, Counts, SamplesAccounted, WriterAssumption
  <2>. QED
    BY <1>2, <1>4, <1>5, <1>6, <1>7, <2>1, <2>2
    DEF WInv, PartialMeansInterrupted, StageInv, FileInv, RestInv
<1>8. CASE Fail
  BY <1>2, <1>4, <1>5, <1>6, <1>8
  DEF WInv, Fail, SamplesAccounted, PartialMeansInterrupted, StageInv, FileInv, RestInv
<1>. QED
  BY <1>1, <1>7, <1>8

\* With the trailer the file holds what was sent.
LEMMA ClosingWriter == ASSUME WInv, Trailer PROVE WInv'
<1>1. /\ stage = "trailer" /\ state = "open"
      /\ UNCHANGED <<name, accepted, fifo, sent, refused, finals>>
      /\ \/ partials' = With(partials, name, sent) /\ stage' = "rename" /\ UNCHANGED state
         \/ Trickle(sent) /\ Fail
  BY DEF Trailer, trackVars, WInv, StageInv
<1>2. name \in DOMAIN partials /\ name \in Names /\ sent \in Counts /\ IsDirectory(partials)
  BY <1>1 DEF WInv, FileInv, TypeOK
<1>3. CASE partials' = With(partials, name, sent) /\ stage' = "rename" /\ UNCHANGED state
  <2>1. /\ IsDirectory(partials') /\ DOMAIN partials' = DOMAIN partials
        /\ partials'[name] = sent
    <3>1. /\ IsDirectory(With(partials, name, sent))
          /\ DOMAIN With(partials, name, sent) = DOMAIN partials \cup {name}
          /\ With(partials, name, sent)[name] = sent
      BY <1>2, WithFile
    <3>. QED
      BY <1>2, <1>3, <3>1
  <2>2. TypeOK'
    BY <1>1, <1>3, <2>1 DEF WInv, TypeOK, IsDirectory
  <2>3. SamplesAccounted'
    <3>1. \A t \in Tracks : accepted[t] = fifo[t] + sent[t] /\ fifo[t] < Chunk /\ fifo[t] = 0
      BY <1>1 DEF WInv, SamplesAccounted, StageInv
    <3>2. \A t \in Tracks : partials'[name][t] <= accepted[t]
      BY <1>2, <2>1, <3>1 DEF Counts
    <3>. QED
      BY <1>1, <1>2, <2>1, <3>1, <3>2 DEF SamplesAccounted
  <2>. QED
    BY <1>1, <1>2, <1>3, <2>1, <2>2, <2>3
    DEF WInv, PartialMeansInterrupted, StageInv, FileInv, RestInv
<1>4. CASE Trickle(sent) /\ Fail
  <2>1. IsDirectory(partials') /\ DOMAIN partials' = DOMAIN partials
    BY <1>2, <1>4, TrickleFile DEF WInv
  <2>2. TypeOK'
    BY <1>1, <1>4, <2>1 DEF WInv, TypeOK, IsDirectory, Fail
  <2>. QED
    BY <1>1, <1>2, <1>4, <2>1, <2>2
    DEF WInv, Fail, SamplesAccounted, PartialMeansInterrupted, StageInv, FileInv, RestInv
<1>. QED
  BY <1>1, <1>3, <1>4

\* The partial file becomes the recording.
LEMMA RenamingWriter == ASSUME WInv, Rename PROVE WInv'
<1>1. /\ stage = "rename" /\ state = "open"
      /\ UNCHANGED <<name, accepted, fifo, sent, refused>>
      /\ \/ /\ finals' = With(finals, name, partials[name])
            /\ partials' = Without(partials, name)
            /\ state' = "finalized" /\ stage' = "idle"
         \/ Fail /\ UNCHANGED <<partials, finals>>
  BY DEF Rename, trackVars, WInv, StageInv
<1>2. /\ name \in DOMAIN partials /\ name \in Names /\ partials[name] \in Counts
      /\ IsDirectory(partials) /\ IsDirectory(finals)
  BY <1>1 DEF WInv, FileInv, TypeOK, IsDirectory
<1>3. CASE /\ finals' = With(finals, name, partials[name])
           /\ partials' = Without(partials, name)
           /\ state' = "finalized" /\ stage' = "idle"
  <2>1. /\ IsDirectory(finals') /\ DOMAIN finals' = DOMAIN finals \cup {name}
        /\ IsDirectory(partials') /\ DOMAIN partials' = DOMAIN partials \ {name}
    BY <1>2, <1>3, WithFile, WithoutFile
  <2>2. TypeOK'
    BY <1>1, <1>3, <2>1 DEF WInv, TypeOK, IsDirectory
  <2>. QED
    BY <1>3, <2>1, <2>2
    DEF WInv, SamplesAccounted, PartialMeansInterrupted, StageInv, FileInv, RestInv
<1>4. CASE Fail /\ UNCHANGED <<partials, finals>>
  <2>1. TypeOK'
    BY <1>1, <1>4 DEF WInv, TypeOK, IsDirectory, Fail
  <2>. QED
    BY <1>1, <1>2, <1>4, <2>1
    DEF WInv, Fail, SamplesAccounted, PartialMeansInterrupted, StageInv, FileInv, RestInv
<1>. QED
  BY <1>1, <1>3, <1>4

\* abort() removes the partial file or leaves it.
LEMMA AbortingWriter == ASSUME WInv, Abort PROVE WInv'
<1>1. /\ state \in {"open", "failed"} /\ stage = "idle" /\ state' = "aborted"
      /\ UNCHANGED <<stage, name, accepted, fifo, sent, refused, finals>>
      /\ partials' = Without(partials, name) \/ Trickle(sent)
  BY DEF Abort, trackVars
<1>2. name \in DOMAIN partials /\ sent \in Counts /\ IsDirectory(partials)
  BY <1>1 DEF WInv, FileInv, TypeOK
<1>3. IsDirectory(partials') /\ DOMAIN partials' \subseteq DOMAIN partials
  <2>1. CASE partials' = Without(partials, name)
    BY <1>2, <2>1, WithoutFile
  <2>2. CASE Trickle(sent)
    BY <1>2, <2>2, TrickleFile DEF WInv
  <2>. QED
    BY <1>1, <2>1, <2>2
<1>4. TypeOK'
  BY <1>1, <1>3 DEF WInv, TypeOK, IsDirectory
<1>. QED
  BY <1>1, <1>3, <1>4
  DEF WInv, SamplesAccounted, PartialMeansInterrupted, StageInv, FileInv, RestInv

\* The destructor and the end of the process leave the directory.
LEMMA VanishingWriter == ASSUME WInv, Destroy \/ Crash PROVE WInv'
<1>1. /\ state' = "none" /\ stage' = "idle"
      /\ accepted' = Zero /\ fifo' = Zero /\ sent' = Zero
      /\ refused' = FALSE
      /\ UNCHANGED <<name, finals>>
  BY DEF Destroy, Crash, Gone
<1>2. Zero \in Counts
  BY DEF Zero, Counts
<1>3. IsDirectory(partials') /\ DOMAIN partials' = DOMAIN partials
  <2>1. CASE UNCHANGED partials
    BY <2>1 DEF WInv, TypeOK, IsDirectory
  <2>2. CASE state \in {"open", "failed"} /\ Trickle(sent)
    BY <2>2, TrickleFile DEF WInv, TypeOK, FileInv
  <2>. QED
    BY <2>1, <2>2 DEF Destroy, Crash
<1>4. TypeOK'
  BY <1>1, <1>2, <1>3 DEF WInv, TypeOK, IsDirectory
<1>. QED
  BY <1>1, <1>3, <1>4
  DEF WInv, SamplesAccounted, PartialMeansInterrupted, StageInv, FileInv, RestInv

\* Every step preserves the invariant.
LEMMA NextWriter == WInv /\ [Next]_vars => WInv'
<1>. SUFFICES ASSUME WInv, [Next]_vars PROVE WInv'
  OBVIOUS
<1>1. CASE UNCHANGED vars
  BY <1>1 DEF vars, trackVars, WInv, TypeOK, IsDirectory, SamplesAccounted,
              PartialMeansInterrupted, StageInv, FileInv, RestInv
<1>2. ASSUME NEW n \in Names, Open(n) PROVE WInv'
  BY <1>2, OpenWriter
<1>3. ASSUME NEW t \in Tracks, NEW size \in FrameSizes, Write(t, size) PROVE WInv'
  BY <1>3, WriteWriter
<1>4. ASSUME NEW t \in Tracks, NEW size \in FrameSizes, WriteFails(t, size) PROVE WInv'
  BY <1>4, FailingWriter
<1>5. CASE Refuse
  BY <1>5, RefusingWriter
<1>6. CASE Flush
  BY <1>6, FlushingWriter
<1>7. CASE Trailer
  BY <1>7, ClosingWriter
<1>8. CASE Rename
  BY <1>8, RenamingWriter
<1>9. CASE Abort
  BY <1>9, AbortingWriter
<1>10. CASE Destroy \/ Crash
  BY <1>10, VanishingWriter
<1>. QED
  BY <1>1, <1>2, <1>3, <1>4, <1>5, <1>6, <1>7, <1>8, <1>9, <1>10 DEF Next

\* The invariant holds in every reachable state.
LEMMA WriterInvariant == Spec => []WInv
<1>1. Init => WInv
  BY InitWriter
<1>2. WInv /\ [Next]_vars => WInv'
  BY NextWriter
<1>. QED
  BY <1>1, <1>2, PTL DEF Spec

(***************************************************************************)
(* Every variable of the writer and its directory has its type.            *)
(***************************************************************************)
THEOREM WriterTypes == Spec => []TypeOK
<1>1. WInv => TypeOK
  BY DEF WInv
<1>. QED
  BY <1>1, WriterInvariant, PTL

(***************************************************************************)
(* Whatever chunks, frames and failures there are, an open writer can      *)
(* account for every sample it accepted.                                   *)
(***************************************************************************)
THEOREM WriterAccounts == Spec => []SamplesAccounted
<1>1. WInv => SamplesAccounted
  BY DEF WInv
<1>. QED
  BY <1>1, WriterInvariant, PTL

(***************************************************************************)
(* No finished recording has a partial file of its name beside it.         *)
(***************************************************************************)
THEOREM NoLeftovers == Spec => []PartialMeansInterrupted
<1>1. WInv => PartialMeansInterrupted
  BY DEF WInv
<1>. QED
  BY <1>1, WriterInvariant, PTL

-----------------------------------------------------------------------------
(* What disappears.                                                        *)

(***************************************************************************)
(* A partial file goes only by abort() or by becoming its recording.  The  *)
(* flush, the trailer and the failures all go through Trickle, which keeps *)
(* every file.                                                             *)
(***************************************************************************)
THEOREM OnlyAbortDiscards == Spec => OnlyAbortDeletes
<1>. DEFINE Kept == \A n \in DOMAIN partials :
                      n \notin DOMAIN partials' =>
                        \/ n = name /\ state' = "aborted"
                        \/ n \in DOMAIN finals' /\ finals'[n] = partials[n]
<1>1. ASSUME WInv, Next PROVE Kept
  <2>1. CASE DOMAIN partials \subseteq DOMAIN partials'
    BY <2>1
  <2>2. CASE \E n \in Names : Open(n)
    BY <1>1, <2>2 DEF Open, With
  <2>3. ASSUME NEW given, Trickle(given) PROVE DOMAIN partials \subseteq DOMAIN partials'
    BY <2>3 DEF Trickle, With
  <2>4. CASE \E t \in Tracks, size \in FrameSizes : Write(t, size) \/ WriteFails(t, size)
    BY <2>1, <2>3, <2>4 DEF Write, WriteFails
  <2>5. CASE Flush \/ Refuse \/ Destroy \/ Crash
    BY <2>1, <2>3, <2>5 DEF Flush, Refuse, Destroy, Crash
  <2>6. CASE Trailer
    BY <2>1, <2>3, <2>6 DEF Trailer, With
  <2>7. CASE Rename
    BY <2>7 DEF Rename, With, Without
  <2>8. CASE Abort
    BY <2>1, <2>3, <2>8 DEF Abort, Without
  <2>. QED
    BY <1>1, <2>2, <2>4, <2>5, <2>6, <2>7, <2>8 DEF Next
<1>2. WInv /\ [Next]_vars => [Kept]_vars
  BY <1>1
<1>. HIDE DEF Kept
<1>3. Spec => [][Kept]_vars
  BY <1>2, WriterInvariant, PTL DEF Spec
<1>. QED
  BY <1>3, PTL DEF OnlyAbortDeletes, Kept

-----------------------------------------------------------------------------
(* The refinement.                                                         *)

\* The two modules update a directory alike.
LEMMA SameUpdate ==
  ASSUME NEW files, NEW n, NEW held
  PROVE  Store!With(files, n, held) = With(files, n, held)
BY DEF Store!With, With

(***************************************************************************)
(* The store sees open() begin a recording, write() extend it, the rename  *)
(* save it, and every other end as giving up.                              *)
(***************************************************************************)
LEMMA StoreStep == WInv /\ [Next]_vars => [Store!Next]_Store!storeVars
<1>. SUFFICES ASSUME WInv, [Next]_vars PROVE [Store!Next]_Store!storeVars
  OBVIOUS
<1>. USE DEF Store!Next, Store!storeVars, Store!NoSamples, Zero
<1>1. CASE UNCHANGED <<state, accepted, finals>>
  BY <1>1
<1>2. CASE \E n \in Names : Open(n)
  BY <1>2 DEF Open, trackVars, WInv, RestInv, Store!Begin
<1>3. ASSUME NEW t \in Tracks, NEW size \in FrameSizes, Write(t, size)
      PROVE  [Store!Next]_Store!storeVars
  BY <1>3 DEF Write, Store!Accept
<1>4. CASE /\ state = "open" /\ state' # "open" /\ UNCHANGED finals
  BY <1>4 DEF Store!GiveUp
<1>5. CASE /\ state # "open" /\ state' # "open" /\ UNCHANGED finals
  BY <1>5
<1>6. CASE \E t \in Tracks, size \in FrameSizes : WriteFails(t, size)
  BY <1>4, <1>6 DEF WriteFails, Fail
<1>7. CASE Refuse
  BY <1>1, <1>7 DEF Refuse, trackVars
<1>8. CASE Flush \/ Trailer
  BY <1>1, <1>4, <1>8 DEF Flush, Trailer, Fail, trackVars, WInv, StageInv
<1>9. CASE Rename
  <2>1. state = "open" /\ name \in Names \ DOMAIN finals
    BY <1>9 DEF Rename, WInv, StageInv, FileInv, TypeOK, PartialMeansInterrupted
  <2>2. CASE Fail /\ UNCHANGED <<partials, finals>>
    BY <1>4, <2>1, <2>2 DEF Fail
  <2>3. CASE finals' = With(finals, name, partials[name]) /\ state' = "finalized"
    <3>1. partials[name] = accepted
      <4>1. partials[name] = sent /\ accepted \in Counts /\ sent \in Counts
        BY <1>9 DEF Rename, WInv, StageInv, TypeOK
      <4>2. \A t \in Tracks : accepted[t] = fifo[t] + sent[t] /\ fifo[t] = 0
        BY <1>9, <2>1 DEF Rename, WInv, StageInv, SamplesAccounted
      <4>3. \A t \in Tracks : accepted[t] = sent[t]
        BY <4>1, <4>2 DEF Counts
      <4>. QED
        BY <4>1, <4>3 DEF Counts
    <3>2. finals' = Store!With(finals, name, accepted)
      BY <2>3, <3>1, SameUpdate
    <3>. QED
      BY <2>1, <2>3, <3>2 DEF Store!Save
  <2>. QED
    BY <1>9, <2>2, <2>3 DEF Rename
<1>10. CASE Abort \/ Destroy \/ Crash
  BY <1>4, <1>5, <1>10 DEF Abort, Destroy, Crash, Gone
<1>11. CASE UNCHANGED vars
  BY <1>1, <1>11 DEF vars, trackVars
<1>. QED
  BY <1>2, <1>3, <1>6, <1>7, <1>8, <1>9, <1>10, <1>11 DEF Next

(***************************************************************************)
(* The writer implements the store: a finished recording appears in one    *)
(* step, under a name no recording had, with every sample write() accepted *)
(* for every track, and nothing replaces it.                               *)
(***************************************************************************)
THEOREM WriterIsStore == Spec => ImplementsStore
<1>1. Init => Store!Init
  BY DEF Init, Store!Init, Store!NoSamples, Zero, NoFiles
<1>2. WInv /\ [Next]_vars => [Store!Next]_Store!storeVars
  BY StoreStep
<1>. QED
  BY <1>1, <1>2, WriterInvariant, PTL DEF Spec, ImplementsStore, Store!Spec

=============================================================================
