---------------------------- MODULE RecordingStore ----------------------------
(***************************************************************************)
(* What a recording writer promises, without its files: "all output goes   *)
(* to a sibling partial file that is renamed onto this path only by a      *)
(* successful finalize()" (recording.hpp).  Recordings appear atomically,  *)
(* hold every sample that was accepted for every track, and stay as they   *)
(* are.  Everything that can go wrong on the way is one step: giving up.   *)
(***************************************************************************)
EXTENDS Naturals

CONSTANTS Tracks,      \* the tracks of a recording
          FrameSizes,  \* samples in the frames that are written
          Names        \* names of recordings

VARIABLES
  taking,  \* a writer is accepting frames
  counts,  \* per track: samples it accepted
  saved    \* the finished recordings: name |-> samples per track

storeVars == <<taking, counts, saved>>

NoSamples == [t \in Tracks |-> 0]

\* f with n mapped to x.
With(f, n, x) == [m \in DOMAIN f \cup {n} |-> IF m = n THEN x ELSE f[m]]

Begin == ~taking /\ taking' = TRUE /\ counts' = NoSamples /\ UNCHANGED saved

Accept ==
  /\ taking
  /\ \E t \in Tracks, size \in FrameSizes : counts' = [counts EXCEPT ![t] = @ + size]
  /\ UNCHANGED <<taking, saved>>

Save ==
  /\ taking /\ taking' = FALSE
  /\ \E n \in Names \ DOMAIN saved : saved' = With(saved, n, counts)
  /\ counts' = NoSamples

GiveUp == taking /\ taking' = FALSE /\ counts' = NoSamples /\ UNCHANGED saved

Init == taking = FALSE /\ counts = NoSamples /\ saved = [n \in {} |-> NoSamples]

Next == Begin \/ Accept \/ Save \/ GiveUp

Spec == Init /\ [][Next]_storeVars

=============================================================================
