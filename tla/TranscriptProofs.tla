-------------------------- MODULE TranscriptProofs --------------------------
(***************************************************************************)
(* What a transcription session promises for every queue, window and       *)
(* number of frames, updates and revisions.  Three arguments, each an      *)
(* inductive invariant: a frame the client accepted is in one place of the *)
(* chain queue, request, upstream, received; the places of the owner and   *)
(* of the two threads say which ends of that chain are empty; an update is *)
(* in one place of the chain downstream, posted, lines, and its number     *)
(* says which.                                                             *)
(***************************************************************************)
EXTENDS Transcription, SequenceTheorems, TLAPS

-----------------------------------------------------------------------------
(* The client.                                                             *)

\* The constants as the provers need them.
LEMMA Constants ==
  /\ QueueCapacity \in Nat \ {0} /\ Window \in Nat \ {0}
  /\ FramesPerUpdate \in Nat \ {0} /\ Revisions \in Nat \ {0}
  /\ MaxFrames \in Nat /\ MaxStarts \in Nat
BY ClientAssumption, TranscriptAssumption DEF ClientAssumption, TranscriptAssumption

Ending == {"stop", "joinWriter", "joinReader", "off"}

\* Where the owner and the threads are says what is empty and what has ended.
PlacesInv ==
  /\ stopRequested => at \in Ending
  /\ at \in {"off", "joinReader"} => writer = "exited"
  /\ at = "off" => reader = "exited"
  /\ writer \in {"close", "exited"} => queue = <<>> /\ (streamBroken \/ at \in Ending)
  /\ Len(request) = IF writer \in {"write", "broken"} THEN 1 ELSE 0
  /\ writer = "broken" => peer # "up"
  /\ halfClosed => writer = "exited"
  /\ reader = "exited" => downstream = <<>> /\ peer # "up"
  /\ peer = "done" => received = accepted /\ writer = "exited"

\* The first frames of a sequence of natural numbers, and what Seq says of one.
LEMMA Frames ==
  ASSUME NEW s \in Seq(Nat)
  PROVE  /\ Len(s) \in Nat
         /\ Len(s) = 0 <=> s = <<>>
         /\ s # <<>> => /\ Head(s) \in Nat /\ Tail(s) \in Seq(Nat)
                        /\ Len(Tail(s)) = Len(s) - 1 /\ s = <<Head(s)>> \o Tail(s)
                        /\ <<Head(s)>> \in Seq(Nat) /\ Len(<<Head(s)>>) = 1
         /\ \A n \in Nat : Append(s, n) \in Seq(Nat) /\ Len(Append(s, n)) = Len(s) + 1
         /\ \A t \in Seq(Nat) : s \o t \in Seq(Nat) /\ Len(s \o t) = Len(s) + Len(t)
<1>1. Len(s) \in Nat /\ (Len(s) = 0 <=> s = <<>>)
  BY EmptySeq, LenProperties
<1>2. ASSUME s # <<>>
      PROVE  /\ Head(s) \in Nat /\ Tail(s) \in Seq(Nat)
             /\ Len(Tail(s)) = Len(s) - 1 /\ s = <<Head(s)>> \o Tail(s)
             /\ <<Head(s)>> \in Seq(Nat) /\ Len(<<Head(s)>>) = 1
  <2>1. /\ Head(s) \in Nat /\ Tail(s) \in Seq(Nat) /\ Len(Tail(s)) = Len(s) - 1
        /\ \A i \in 1 .. Len(Tail(s)) : Tail(s)[i] = s[i + 1]
    BY <1>2, HeadTailProperties
  <2>2. <<Head(s)>> \in Seq(Nat) /\ Len(<<Head(s)>>) = 1 /\ <<Head(s)>>[1] = s[1]
    BY <2>1
  <2>3. /\ <<Head(s)>> \o Tail(s) \in Seq(Nat)
        /\ Len(<<Head(s)>> \o Tail(s)) = Len(s)
        /\ \A i \in 1 .. Len(s) : (<<Head(s)>> \o Tail(s))[i]
                                     = IF i <= 1 THEN <<Head(s)>>[i] ELSE Tail(s)[i - 1]
    BY <1>1, <2>1, <2>2, ConcatProperties
  <2>4. \A i \in 1 .. Len(s) : s[i] = (<<Head(s)>> \o Tail(s))[i]
    BY <1>1, <2>1, <2>2, <2>3
  <2>5. s = <<Head(s)>> \o Tail(s)
    BY <2>3, <2>4, SeqEqual
  <2>. QED
    BY <2>1, <2>2, <2>5
<1>3. \A n \in Nat : Append(s, n) \in Seq(Nat) /\ Len(Append(s, n)) = Len(s) + 1
  OBVIOUS
<1>4. \A t \in Seq(Nat) : s \o t \in Seq(Nat) /\ Len(s \o t) = Len(s) + Len(t)
  BY ConcatProperties
<1>. QED
  BY <1>1, <1>2, <1>3, <1>4

\* Concatenation, for sequences of natural numbers.
LEMMA Chains ==
  ASSUME NEW a \in Seq(Nat), NEW b \in Seq(Nat), NEW c \in Seq(Nat)
  PROVE  (a \o b) \o c = a \o (b \o c)
BY ConcatAssociative

\* Every step of the client and of the server keeps the types.
LEMMA ClientTypes == ASSUME TypeOK, PlacesInv, Next PROVE TypeOK'
<1>. USE DEF TypeOK, ownerVars, queueVars, writerVars, statVars, streamVars
<1>0. <<>> \in Seq(Nat) /\ Len(<<>>) = 0
  BY EmptySeq
<1>1. CASE Start
  <2>1. stopRequested' \in BOOLEAN /\ streamBroken' \in BOOLEAN /\ halfClosed' \in BOOLEAN
    BY <1>1, Zenon DEF Start
  <2>. QED
    BY <1>0, <1>1, <2>1 DEF Start
<1>2. CASE SendRefused
  BY <1>2 DEF SendRefused
<1>3. CASE SendAccepted
  <2>1. /\ Append(queue, offered') \in Seq(Nat) /\ Append(accepted, offered') \in Seq(Nat)
        /\ Len(Append(queue, offered')) <= QueueCapacity
    BY <1>3, Frames, Constants DEF SendAccepted
  <2>. QED
    BY <1>3, <2>1 DEF SendAccepted
<1>4. CASE Stop
  <2>1. stopRequested' \in BOOLEAN
    BY <1>4, Zenon DEF Stop
  <2>. QED
    BY <1>4, <2>1 DEF Stop
<1>5. CASE SendNotify \/ StopNotify
  BY <1>5 DEF SendNotify, StopNotify, Notify
<1>6. CASE JoinWriter
  BY <1>6 DEF JoinWriter
<1>7. CASE JoinReader
  BY <1>0, <1>7, Constants DEF JoinReader
<1>8. CASE Take
  <2>1. CASE queue # <<>> /\ request' = <<Head(queue)>> /\ queue' = Tail(queue) /\ writer' = "write"
    <3>1. request' \in Seq(Nat) /\ queue' \in Seq(Nat) /\ Len(queue') <= QueueCapacity
      BY <2>1, Frames, Constants
    <3>. QED
      BY <1>8, <2>1, <3>1 DEF Take
  <2>2. CASE /\ writer' = IF stopRequested THEN "close" ELSE "asleep"
             /\ UNCHANGED <<queue, request>>
    BY <1>8, <2>2 DEF Take
  <2>. QED
    BY <1>8, <2>1, <2>2 DEF Take
<1>9. CASE Write
  <2>1. upstream \o request \in Seq(Nat)
    BY Frames
  <2>2. upstream' \in Seq(Nat)
    BY <1>9, <2>1 DEF Write
  <2>. QED
    BY <1>0, <1>9, <2>2 DEF Write
<1>10. CASE WriteFails
  BY <1>10 DEF WriteFails
<1>11. CASE Break
  <2>1. streamBroken' \in BOOLEAN
    BY <1>11, Zenon DEF Break
  <2>. QED
    BY <1>0, <1>11, <2>1, Frames, Constants DEF Break
<1>12. CASE Close
  <2>1. halfClosed' \in BOOLEAN
    BY <1>12, Zenon DEF Close
  <2>. QED
    BY <1>12, <2>1 DEF Close
<1>13. CASE Read
  BY <1>13, Frames DEF Read
<1>14. CASE ReadEnds
  BY <1>14 DEF ReadEnds
<1>15. CASE ServerReads
  <2>1. upstream' \in Seq(Nat) /\ received' \in Seq(Nat)
    BY <1>15, Frames DEF ServerReads
  <2>2. downstream' \in Seq(Nat)
    BY <1>15, <2>1, Frames DEF ServerReads
  <2>. QED
    BY <1>15, <2>1, <2>2 DEF ServerReads
<1>16. CASE ServerDone
  BY <1>16 DEF ServerDone
<1>17. CASE StreamDies
  BY <1>0, <1>17 DEF StreamDies
<1>. QED
  BY <1>1, <1>2, <1>3, <1>4, <1>5, <1>6, <1>7, <1>8, <1>9, <1>10, <1>11, <1>12, <1>13, <1>14,
     <1>15, <1>16, <1>17 DEF Next, Owner, Writer, Reader, Server

\* Every step keeps what the places say.
LEMMA ClientPlaces ==
  ASSUME TypeOK, PlacesInv, UploadInOrder, Next
  PROVE  PlacesInv'
<1>. USE DEF TypeOK, PlacesInv, Ending, ownerVars, queueVars, writerVars, statVars, streamVars
<1>0. Len(<<>>) = 0
  BY EmptySeq
<1>1. CASE Start
  BY <1>0, <1>1 DEF Start
<1>2. CASE SendRefused
  BY <1>2 DEF SendRefused
<1>3. CASE SendAccepted
  BY <1>3 DEF SendAccepted
<1>4. CASE Stop
  BY <1>4 DEF Stop
<1>5. CASE SendNotify \/ StopNotify
  <2>1. writer' = writer \/ (writer = "asleep" /\ writer' = "wait")
    BY <1>5 DEF SendNotify, StopNotify, Notify
  <2>2. at' \in {"on", "joinWriter"} /\ at \in {"notify", "stop"} /\ (at' = "on" => at = "notify")
    BY <1>5 DEF SendNotify, StopNotify
  <2>3. UNCHANGED <<queueVars, request, reader, streamVars, accepted>>
    BY <1>5 DEF SendNotify, StopNotify
  <2>4. writer' \in {"close", "exited"} <=> writer \in {"close", "exited"}
    BY <2>1
  <2>5. writer' \in {"write", "broken"} <=> writer \in {"write", "broken"}
    BY <2>1
  <2>. QED
    BY <2>1, <2>2, <2>3, <2>4, <2>5
<1>6. CASE JoinWriter
  BY <1>6 DEF JoinWriter
<1>7. CASE JoinReader
  BY <1>7 DEF JoinReader
<1>8. CASE Take
  <2>1. CASE queue # <<>> /\ request' = <<Head(queue)>> /\ writer' = "write"
    <3>1. Len(request') = 1
      BY <2>1, Frames
    <3>. QED
      BY <1>8, <2>1, <3>1 DEF Take
  <2>2. CASE /\ queue = <<>> /\ writer' = IF stopRequested THEN "close" ELSE "asleep"
             /\ UNCHANGED <<queue, request>>
    BY <1>8, <2>2 DEF Take
  <2>. QED
    BY <1>8, <2>1, <2>2 DEF Take
<1>9. CASE Write
  BY <1>0, <1>9 DEF Write
<1>10. CASE WriteFails
  BY <1>10 DEF WriteFails
<1>11. CASE Break
  BY <1>0, <1>11 DEF Break
<1>12. CASE Close
  BY <1>12 DEF Close
<1>13. CASE Read
  BY <1>13 DEF Read
<1>14. CASE ReadEnds
  BY <1>14 DEF ReadEnds
<1>15. CASE ServerReads
  BY <1>15 DEF ServerReads
<1>16. CASE ServerDone
  <2>1. writer = "exited" /\ queue = <<>> /\ request = <<>> /\ upstream = <<>>
    BY <1>16, Frames DEF ServerDone
  <2>2. accepted = received
    BY <1>16, <2>1, ConcatEmptySeq DEF ServerDone, UploadInOrder
  <2>. QED
    BY <1>16, <2>1, <2>2 DEF ServerDone
<1>17. CASE StreamDies
  BY <1>17 DEF StreamDies
<1>. QED
  BY <1>1, <1>2, <1>3, <1>4, <1>5, <1>6, <1>7, <1>8, <1>9, <1>10, <1>11, <1>12, <1>13, <1>14,
     <1>15, <1>16, <1>17 DEF Next, Owner, Writer, Reader, Server

\* Every frame offered stays in one place or counter.
LEMMA ClientCounts ==
  ASSUME TypeOK, PlacesInv, DropsAreCounted, Next
  PROVE  DropsAreCounted'
<1>. USE DEF TypeOK, DropsAreCounted, ownerVars, queueVars, writerVars, statVars, streamVars
<1>0. Len(<<>>) = 0 /\ Len(queue) \in Nat /\ Len(request) \in Nat
  BY EmptySeq, Frames
<1>1. CASE SendRefused
  BY <1>0, <1>1 DEF SendRefused
<1>2. CASE SendAccepted
  <2>1. Len(queue') = Len(queue) + 1
    BY <1>2, Frames DEF SendAccepted
  <2>. QED
    BY <1>0, <1>2, <2>1 DEF SendAccepted
<1>3. CASE JoinReader
  <2>1. queue = <<>>
    BY <1>3 DEF JoinReader, PlacesInv
  <2>. QED
    BY <1>3, <2>1 DEF JoinReader
<1>4. CASE Take
  <2>1. CASE writer = "wait" /\ queue # <<>> /\ request' = <<Head(queue)>> /\ queue' = Tail(queue)
    <3>1. Len(request) = 0
      BY <2>1 DEF PlacesInv
    <3>2. Len(request') = 1 /\ Len(queue') = Len(queue) - 1
      BY <2>1, Frames
    <3>. QED
      BY <1>0, <1>4, <3>1, <3>2 DEF Take
  <2>2. CASE UNCHANGED <<queue, request>>
    BY <1>4, <2>2 DEF Take
  <2>. QED
    BY <1>4, <2>1, <2>2 DEF Take
<1>5. CASE Write
  <2>1. Len(request) = 1
    BY <1>5 DEF Write, PlacesInv
  <2>. QED
    BY <1>0, <1>5, <2>1 DEF Write
<1>6. CASE Break
  <2>1. Len(request) = 1
    BY <1>6 DEF Break, PlacesInv
  <2>. QED
    BY <1>0, <1>6, <2>1 DEF Break
<1>7. CASE Start \/ SendNotify \/ Stop \/ StopNotify \/ JoinWriter
  BY <1>7 DEF Start, SendNotify, Stop, StopNotify, JoinWriter
<1>8. CASE WriteFails \/ Close \/ Read \/ ReadEnds \/ Server \/ StreamDies
  BY <1>8 DEF WriteFails, Close, Read, ReadEnds, Server, ServerReads, ServerDone, StreamDies
<1>. QED
  BY <1>1, <1>2, <1>3, <1>4, <1>5, <1>6, <1>7, <1>8 DEF Next, Owner, Writer, Reader

\* An accepted frame moves along the chain, and the chain stays what it was.
LEMMA ClientOrder ==
  ASSUME TypeOK, PlacesInv, UploadInOrder, Next
  PROVE  UploadInOrder'
<1>. USE DEF TypeOK, UploadInOrder, ownerVars, queueVars, writerVars, statVars, streamVars
<1>0. <<>> \in Seq(Nat)
  BY EmptySeq
<1>1. CASE Start
  <2>1. queue' = <<>> /\ request' = <<>> /\ received' = <<>> /\ upstream' = <<>> /\ accepted' = <<>>
    BY <1>1, Frames DEF Start, PlacesInv
  <2>2. <<>> \o <<>> = <<>>
    BY <1>0, ConcatEmptySeq
  <2>. QED
    BY <2>1, <2>2, Zenon
<1>2. CASE SendAccepted
  <2>1. \A s \in Seq(Nat) : Append(s, offered') = s \o <<offered'>>
    <3>1. offered' \in Nat
      BY <1>2 DEF SendAccepted
    <3>. QED
      BY <3>1, AppendIsConcat
  <2>2. offered' \in Nat /\ <<offered'>> \in Seq(Nat)
    BY <1>2 DEF SendAccepted
  <2>3. CASE peer = "up"
    <3>. DEFINE front == received \o upstream \o request
    <3>1. front \in Seq(Nat) /\ front \o queue \in Seq(Nat)
      BY ConcatProperties
    <3>2. accepted' = (front \o queue) \o <<offered'>>
      BY <1>2, <2>1, <2>3, <3>1 DEF SendAccepted
    <3>3. queue' = queue \o <<offered'>>
      BY <1>2, <2>1 DEF SendAccepted
    <3>4. (front \o queue) \o <<offered'>> = front \o (queue \o <<offered'>>)
      <4>. DEFINE new == <<offered'>>
      <4>1. queue \in Seq(Nat)
        OBVIOUS
      <4>. HIDE DEF front, new, TypeOK, PlacesInv, UploadInOrder
      <4>. QED
        BY <2>2, <3>1, <4>1, Chains, Zenon DEF new
    <3>5. UNCHANGED <<received, upstream, request>>
      BY <1>2 DEF SendAccepted
    <3>. QED
      BY <3>2, <3>3, <3>4, <3>5, Zenon
  <2>. QED
    BY <1>2, <2>3 DEF SendAccepted
<1>3. CASE JoinReader
  <2>1. queue = <<>>
    BY <1>3 DEF JoinReader, PlacesInv
  <2>. QED
    BY <1>3, <2>1 DEF JoinReader
<1>4. CASE Take
  <2>1. CASE writer = "wait" /\ queue # <<>> /\ request' = <<Head(queue)>> /\ queue' = Tail(queue)
    <3>1. request = <<>>
      BY <2>1, Frames DEF PlacesInv
    <3>2. queue = request' \o queue' /\ request' \in Seq(Nat) /\ queue' \in Seq(Nat)
      BY <2>1, Frames
    <3>3. UNCHANGED <<received, upstream, peer, accepted>>
      BY <1>4 DEF Take
    <3>4. received \o upstream \in Seq(Nat)
      BY ConcatProperties
    <3>5. (received \o upstream) \o <<>> = received \o upstream
      BY <3>4, ConcatEmptySeq
    <3>6. ((received \o upstream) \o request') \o queue'
            = (received \o upstream) \o (request' \o queue')
      <4>. HIDE DEF TypeOK, PlacesInv, UploadInOrder
      <4>. QED
        BY <3>2, <3>4, Chains, Zenon
    <3>. QED
      BY <3>1, <3>2, <3>3, <3>5, <3>6, Zenon
  <2>2. CASE UNCHANGED <<queue, request>>
    BY <1>4, <2>2 DEF Take
  <2>. QED
    BY <1>4, <2>1, <2>2 DEF Take
<1>5. CASE Write
  <2>1. peer = "up" => upstream' = upstream \o request
    BY <1>5 DEF Write
  <2>2. request' = <<>> /\ UNCHANGED <<received, queue, peer, accepted>>
    BY <1>5 DEF Write
  <2>3. received \o (upstream \o request) \in Seq(Nat)
    BY ConcatProperties
  <2>4. (received \o upstream) \o request = received \o (upstream \o request)
    <3>1. received \in Seq(Nat) /\ upstream \in Seq(Nat) /\ request \in Seq(Nat)
      OBVIOUS
    <3>. HIDE DEF TypeOK, PlacesInv, UploadInOrder
    <3>. QED
      BY <3>1, Chains, Zenon
  <2>5. (received \o (upstream \o request)) \o <<>> = received \o (upstream \o request)
    BY <2>3, ConcatEmptySeq
  <2>. QED
    BY <2>1, <2>2, <2>4, <2>5, Zenon
<1>6. CASE Break
  BY <1>6 DEF Break, PlacesInv
<1>7. CASE ServerReads
  <2>1. /\ upstream = <<Head(upstream)>> \o Tail(upstream) /\ <<Head(upstream)>> \in Seq(Nat)
        /\ Tail(upstream) \in Seq(Nat) /\ Head(upstream) \in Nat
    BY <1>7, Frames DEF ServerReads
  <2>2. received' = received \o <<Head(upstream)>> /\ upstream' = Tail(upstream)
    BY <1>7, <2>1, AppendIsConcat DEF ServerReads
  <2>3. UNCHANGED <<request, queue, peer, accepted>>
    BY <1>7 DEF ServerReads
  <2>4. (received \o <<Head(upstream)>>) \o Tail(upstream)
           = received \o (<<Head(upstream)>> \o Tail(upstream))
    <3>1. received \in Seq(Nat)
      OBVIOUS
    <3>. HIDE DEF TypeOK, PlacesInv, UploadInOrder
    <3>. QED
      BY <2>1, <3>1, Chains, Zenon
  <2>. QED
    BY <2>1, <2>2, <2>3, <2>4, Zenon
<1>8. CASE SendRefused \/ SendNotify \/ Stop \/ StopNotify \/ JoinWriter
  BY <1>8 DEF SendRefused, SendNotify, Stop, StopNotify, JoinWriter
<1>9. CASE WriteFails \/ Close \/ Read \/ ReadEnds \/ ServerDone \/ StreamDies
  BY <1>9 DEF WriteFails, Close, Read, ReadEnds, ServerDone, StreamDies
<1>. QED
  BY <1>1, <1>2, <1>3, <1>4, <1>5, <1>6, <1>7, <1>8, <1>9 DEF Next, Owner, Writer, Reader, Server

ClientInv == TypeOK /\ PlacesInv /\ DropsAreCounted /\ UploadInOrder

LEMMA ClientBegins == Init => ClientInv
<1>1. <<>> \in Seq(Nat) /\ Len(<<>>) = 0
  BY EmptySeq
<1>2. Init => stopRequested \in BOOLEAN /\ streamBroken \in BOOLEAN /\ halfClosed \in BOOLEAN
  BY Zenon DEF Init
<1>3. Init => TypeOK
  BY <1>1, <1>2, Constants DEF Init, TypeOK
<1>4. Init => PlacesInv
  BY <1>1 DEF Init, PlacesInv, Ending
<1>5. Init => DropsAreCounted /\ UploadInOrder
  BY <1>1 DEF Init, DropsAreCounted, UploadInOrder
<1>. QED
  BY <1>3, <1>4, <1>5 DEF ClientInv

LEMMA ClientStutters == ASSUME ClientInv, UNCHANGED vars PROVE ClientInv'
<1>. USE DEF ClientInv, vars, ownerVars, queueVars, writerVars, statVars, streamVars
<1>1. TypeOK'
  BY DEF TypeOK
<1>2. PlacesInv'
  BY DEF PlacesInv
<1>3. DropsAreCounted'
  BY DEF DropsAreCounted
<1>4. UploadInOrder'
  BY DEF UploadInOrder
<1>. QED
  BY <1>1, <1>2, <1>3, <1>4

LEMMA ClientSteps == ASSUME ClientInv, [Next]_vars PROVE ClientInv'
BY ClientTypes, ClientPlaces, ClientCounts, ClientOrder, ClientStutters DEF ClientInv

\* A step of a transcription is a step of the client or none.
LEMMA IsClientStep == [TranscriptNext]_allVars => [Next]_vars
BY DEF TranscriptNext, allVars, BeginSession, BeginFails, ReadUpdate, ApplyTranscript, ClientStep,
       Next, Reader

-----------------------------------------------------------------------------
(* The updates.                                                            *)

\* How many updates the server has made out of the frames it read.
Made == Len(received) \div FramesPerUpdate

\* The numbers of the frames that completed the last updates of m.
LastOf(s, m) ==
  /\ Len(s) <= m
  /\ \A i \in 1 .. Len(s) : s[i] = (m - Len(s) + i) * FramesPerUpdate

\* Updates on their way to the client are the last ones made, in order.
DownInv == (peer = "lost" => downstream = <<>>) /\ LastOf(downstream, Made)

\* The k-th update of the session.
Nth(k) ==
  [session |-> starts, segment |-> (k - 1) \div Revisions, revision |-> ((k - 1) % Revisions) + 1]

\* Unless sessions mix, an update is shown, queued to the UI or on its way.
PostedInv ==
  ~mixed =>
    /\ \A i \in 1 .. Len(posted) : posted[i] = Nth(applied + i)
    /\ peer # "lost" => applied + Len(posted) + Len(downstream) = Made

TranscriptInv ==
  ClientInv /\ TranscriptTypeOK /\ DownInv /\ PostedInv /\ TranscriptIsLatest

\* What division and its remainder are.
LEMMA Division ==
  ASSUME NEW a \in Nat, NEW b \in Nat \ {0}
  PROVE  /\ a \div b \in Nat /\ a % b \in 0 .. (b - 1)
         /\ a = b * (a \div b) + (a % b)
<1>1. a \div b \in Nat
  BY SMT
<1>2. a % b \in 0 .. (b - 1)
  BY SMT
<1>3. a % b = a - b * (a \div b)
  BY SMT
<1>4. b * (a \div b) \in Int
  BY <1>1
<1>5. a = b * (a \div b) + (a % b)
  BY <1>2, <1>3, <1>4
<1>. QED
  BY <1>1, <1>2, <1>5

\* A quotient is determined by where it lies.
LEMMA QuotientIs ==
  ASSUME NEW a \in Nat, NEW b \in Nat \ {0}, NEW q \in Nat, b * q <= a, a < b * q + b
  PROVE  a \div b = q
BY SMT

\* The next number has the next quotient if the divisor divides it.
LEMMA NextQuotient ==
  ASSUME NEW a \in Nat, NEW b \in Nat \ {0}
  PROVE  (a + 1) \div b = IF (a + 1) % b = 0 THEN a \div b + 1 ELSE a \div b
<1>. DEFINE q == a \div b
            p == (a + 1) \div b
            r == (a + 1) % b
            t == a % b
<1>0. q \in Nat /\ t \in 0 .. (b - 1) /\ a = b * q + t
  BY Division
<1>2. p \in Nat /\ r \in 0 .. (b - 1) /\ a + 1 = b * p + r
  <2>1. a + 1 \in Nat
    OBVIOUS
  <2>. QED
    BY <2>1, Division
<1>1. q \in Nat /\ b * q <= a /\ a < b * q + b
  <2>. HIDE DEF q, t
  <2>. QED
    BY <1>0
<1>. HIDE DEF p, q, r
<1>3. CASE r = 0
  <2>1. p \in Nat \ {0}
    BY <1>2, <1>3
  <2>2. p - 1 \in Nat /\ b * (p - 1) = b * p - b
    BY <2>1
  <2>3. b * (p - 1) <= a /\ a < b * (p - 1) + b
    BY <1>2, <1>3, <2>1, <2>2
  <2>4. q = p - 1
    BY <2>2, <2>3, QuotientIs DEF q
  <2>. QED
    BY <1>2, <1>3, <2>4 DEF p, q, r
<1>4. CASE r # 0
  <2>1. b * p <= a /\ a < b * p + b
    BY <1>2, <1>4
  <2>2. q = p
    BY <1>2, <2>1, QuotientIs DEF q
  <2>. QED
    BY <1>4, <2>2 DEF p, q, r
<1>. QED
  BY <1>2, <1>3, <1>4

\* The update for a frame that completes one is the one of that number.
LEMMA UpdateIsNth ==
  ASSUME starts \in Nat, NEW k \in Nat \ {0}
  PROVE  Update(k * FramesPerUpdate) = Nth(k) /\ Nth(k) \in Updates
<1>1. k * FramesPerUpdate \in Nat
  BY Constants
<1>2. FramesPerUpdate * k <= k * FramesPerUpdate /\ k * FramesPerUpdate < FramesPerUpdate * k + FramesPerUpdate
  BY Constants
<1>3. (k * FramesPerUpdate) \div FramesPerUpdate = k
  BY <1>1, <1>2, Constants, QuotientIs
<1>4. k - 1 \in Nat
  OBVIOUS
<1>5. (k - 1) \div Revisions \in Nat /\ (k - 1) % Revisions \in 0 .. (Revisions - 1)
  BY <1>4, Division, Constants
<1>6. ((k - 1) % Revisions) + 1 \in 1 .. Revisions
  BY <1>5, Constants
<1>. QED
  BY <1>3, <1>5, <1>6 DEF Update, Nth, Updates

\* The length of what is shown, and each of its lines.
LEMMA ShownLines ==
  ASSUME NEW n \in Nat, NEW q \in Nat, NEW r \in 0 .. (Revisions - 1), n = Revisions * q + r
  PROVE  /\ (n + Revisions - 1) \div Revisions = IF r = 0 THEN q ELSE q + 1
         /\ n \div Revisions = q /\ n % Revisions = r
         /\ \A i \in 1 .. q : i * Revisions <= n
         /\ (q + 1) * Revisions > n
<1>. USE Constants
<1>1. Revisions * q \in Nat /\ Revisions * (q + 1) = Revisions * q + Revisions
  OBVIOUS
<1>2. (n + Revisions - 1) \div Revisions = IF r = 0 THEN q ELSE q + 1
  <2>1. n + Revisions - 1 \in Nat /\ q + 1 \in Nat
    OBVIOUS
  <2>2. CASE r = 0
    <3>1. Revisions * q <= n + Revisions - 1 /\ n + Revisions - 1 < Revisions * q + Revisions
      BY <1>1, <2>2
    <3>. QED
      BY <2>1, <2>2, <3>1, QuotientIs
  <2>3. CASE r # 0
    <3>1. /\ Revisions * (q + 1) <= n + Revisions - 1
          /\ n + Revisions - 1 < Revisions * (q + 1) + Revisions
      BY <1>1, <2>3
    <3>2. (n + Revisions - 1) \div Revisions = q + 1
      BY <2>1, <3>1, QuotientIs
    <3>. QED
      BY <2>3, <3>2
  <2>. QED
    BY <2>2, <2>3
<1>3. n \div Revisions = q
  <2>1. Revisions * q <= n /\ n < Revisions * q + Revisions
    BY <1>1
  <2>. QED
    BY <2>1, QuotientIs
<1>4. n % Revisions = r
  BY SMT
<1>5. ASSUME NEW i \in 1 .. q PROVE i * Revisions <= n
  <2>1. i * Revisions <= Revisions * q
    BY SMT
  <2>. QED
    BY <1>1, <2>1
<1>6. (q + 1) * Revisions > n
  BY <1>1
<1>. QED
  BY <1>2, <1>3, <1>4, <1>5, <1>6

\* Before the first update nothing is shown.
LEMMA NothingShown == (0 + Revisions - 1) \div Revisions = 0
<1>1. 0 = Revisions * 0 + 0 /\ 0 \in 0 .. (Revisions - 1)
  BY Constants
<1>. QED
  BY <1>1, ShownLines

\* Applying the next update to what is shown shows one more.
LEMMA AppliedNext ==
  ASSUME starts \in Nat, lines \in Seq(Updates), NEW n \in Nat, lines = Shown(n)
  PROVE  Applied(Nth(n + 1)) = Shown(n + 1)
<1>. DEFINE q == n \div Revisions
            r == n % Revisions
            u == Nth(n + 1)
            Line(k, i) == [session  |-> starts, segment  |-> i - 1,
                           revision |-> IF i * Revisions <= k THEN Revisions
                                        ELSE k - (i - 1) * Revisions]
<1>. USE Constants
<1>1. q \in Nat /\ r \in 0 .. (Revisions - 1) /\ n = Revisions * q + r
  BY Division
<1>2. u = [session |-> starts, segment |-> q, revision |-> r + 1]
  BY DEF Nth
<1>3. /\ (n + Revisions - 1) \div Revisions = IF r = 0 THEN q ELSE q + 1
      /\ \A i \in 1 .. q : i * Revisions <= n
      /\ (q + 1) * Revisions > n
  BY <1>1, ShownLines
<1>4. (n + 1 + Revisions - 1) \div Revisions = q + 1
  <2>1. n + 1 + Revisions - 1 \in Nat /\ q + 1 \in Nat
    BY <1>1
  <2>2. /\ Revisions * (q + 1) <= n + 1 + Revisions - 1
        /\ n + 1 + Revisions - 1 < Revisions * (q + 1) + Revisions
    BY <1>1
  <2>. QED
    BY <2>1, <2>2, QuotientIs
<1>. DEFINE m == IF r = 0 THEN q ELSE q + 1
<1>5. lines = [i \in 1 .. m |-> Line(n, i)] /\ Shown(n + 1) = [i \in 1 .. (q + 1) |-> Line(n + 1, i)]
  BY <1>3, <1>4 DEF Shown
<1>6. \A i \in 1 .. q : Line(n, i) = Line(n + 1, i)
  <2>1. ASSUME NEW i \in 1 .. q PROVE i * Revisions <= n /\ i * Revisions <= n + 1
    BY <1>1, <1>3
  <2>. QED
    BY <2>1
<1>7. Line(n + 1, q + 1) = u
  <2>. DEFINE x == q * Revisions
  <2>1. x \in Nat /\ n = x + r /\ (q + 1) * Revisions = x + Revisions /\ (q + 1) - 1 = q
    BY <1>1
  <2>. HIDE DEF q, r, x
  <2>2. IF (q + 1) * Revisions <= n + 1 THEN Revisions = r + 1
        ELSE n + 1 - x = r + 1
    BY <1>1, <2>1
  <2>3. (n + 1) - ((q + 1) - 1) * Revisions = n + 1 - x
    BY <2>1 DEF x
  <2>. QED
    BY <1>2, <2>1, <2>2, <2>3
<1>. HIDE DEF q, r, u, Line
<1>8. CASE r = 0
  <2>1. m = q /\ DOMAIN lines = 1 .. q
    BY <1>5, <1>8
  <2>2. \A i \in 1 .. q : lines[i].segment # u.segment
    BY <1>1, <1>2, <1>5, <2>1 DEF Line
  <2>3. Applied(u) = Append(lines, u)
    BY <2>1, <2>2 DEF Applied
  <2>4. Len(lines) = q
    BY <1>1, <2>1
  <2>5. Append(lines, u) = [i \in 1 .. (q + 1) |-> IF i = q + 1 THEN u ELSE lines[i]]
    BY <1>1, <2>4
  <2>6. \A i \in 1 .. (q + 1) : (IF i = q + 1 THEN u ELSE lines[i]) = Line(n + 1, i)
    BY <1>1, <1>5, <1>6, <1>7, <2>1
  <2>. QED
    BY <1>5, <2>3, <2>5, <2>6 DEF u
<1>9. CASE r # 0
  <2>1. m = q + 1 /\ DOMAIN lines = 1 .. (q + 1)
    BY <1>5, <1>9
  <2>2. \A i \in 1 .. (q + 1) : lines[i].segment = i - 1
    BY <1>5, <2>1 DEF Line
  <2>3. u.segment = q /\ q + 1 \in 1 .. (q + 1)
    BY <1>1, <1>2
  <2>4. Applied(u) = [i \in 1 .. (q + 1) |-> IF lines[i].segment = q THEN u ELSE lines[i]]
    BY <1>1, <2>1, <2>2, <2>3 DEF Applied
  <2>5. \A i \in 1 .. (q + 1) :
          (IF lines[i].segment = q THEN u ELSE lines[i]) = Line(n + 1, i)
    BY <1>1, <1>5, <1>6, <1>7, <2>1, <2>2
  <2>. QED
    BY <1>5, <2>4, <2>5 DEF u
<1>. QED
  BY <1>8, <1>9

-----------------------------------------------------------------------------
(* The invariant of a transcription.                                       *)

LEMMA TranscriptBegins == TranscriptInit => TranscriptInv
<1>. SUFFICES ASSUME TranscriptInit PROVE TranscriptInv
  OBVIOUS
<1>. USE Constants DEF TranscriptInit
<1>1. ClientInv
  BY ClientBegins
<1>2. <<>> \in Seq(Updates) /\ Len(<<>>) = 0
  BY EmptySeq
<1>3. TranscriptTypeOK
  <2>1. mixed \in BOOLEAN
    BY Zenon
  <2>. QED
    BY <1>1, <1>2, <2>1 DEF TranscriptTypeOK, ClientInv
<1>4. Made = 0
  <2>1. FramesPerUpdate * 0 <= 0 /\ 0 < FramesPerUpdate * 0 + FramesPerUpdate
    OBVIOUS
  <2>. QED
    BY <1>2, <2>1, QuotientIs DEF Made, Init
<1>5. DownInv /\ PostedInv
  BY <1>2, <1>4 DEF DownInv, LastOf, PostedInv, Init
<1>6. TranscriptIsLatest
  BY NothingShown DEF TranscriptIsLatest, Shown
<1>. QED
  BY <1>1, <1>3, <1>5, <1>6 DEF TranscriptInv

\* The number of updates made, before and after a step.
LEMMA MadeIs ==
  /\ TypeOK => Made \in Nat /\ Len(received) \in Nat /\ Len(downstream) \in Nat
  /\ TypeOK' => Made' \in Nat /\ Len(received') \in Nat /\ Len(downstream') \in Nat
BY Constants, Division, LenProperties DEF Made, TypeOK

\* A frame that completes an update adds it to those on their way.
LEMMA FrameRead ==
  ASSUME TypeOK, ServerReads
  PROVE  \/ Made' = Made /\ downstream' = downstream
         \/ Made' = Made + 1 /\ downstream' = Append(downstream, Made' * FramesPerUpdate)
<1>. DEFINE n == Len(received)
            m == n + 1
            q == m \div FramesPerUpdate
            last == m % FramesPerUpdate = 0
<1>1. received \in Seq(Nat) /\ n \in Nat /\ m \in Nat
  BY MadeIs DEF TypeOK
<1>2. received' = Append(received, Head(upstream)) /\ Head(upstream) \in Nat
  BY Frames DEF ServerReads, TypeOK
<1>3. Len(received') = m
  BY <1>1, <1>2
<1>4. downstream' = IF last THEN Append(downstream, m) ELSE downstream
  BY <1>3 DEF ServerReads
<1>5. Made = n \div FramesPerUpdate /\ Made' = q
  BY <1>3 DEF Made
<1>6. FramesPerUpdate \in Nat \ {0}
  BY Constants
<1>7. q = IF last THEN Made + 1 ELSE Made
  <2>1. q = IF last THEN n \div FramesPerUpdate + 1 ELSE n \div FramesPerUpdate
    <3>. HIDE DEF n
    <3>. QED
      BY <1>1, <1>6, NextQuotient
  <2>. HIDE DEF q, last
  <2>. QED
    BY <1>5, <2>1
<1>8. last => m = q * FramesPerUpdate
  <2>1. /\ q \in Nat /\ m % FramesPerUpdate \in 0 .. (FramesPerUpdate - 1)
        /\ m = FramesPerUpdate * q + (m % FramesPerUpdate)
    <3>. HIDE DEF m
    <3>. QED
      BY <1>1, <1>6, Division
  <2>. HIDE DEF m, q
  <2>. QED
    BY <1>6, <2>1
<1>. HIDE DEF n, m, q, last
<1>. QED
  BY <1>4, <1>5, <1>7, <1>8

\* One more update goes behind those on their way.
LEMMA LastGrows ==
  ASSUME NEW s \in Seq(Nat), NEW m \in Nat, LastOf(s, m)
  PROVE  LastOf(Append(s, (m + 1) * FramesPerUpdate), m + 1)
<1>. DEFINE d == Len(s)
            next == (m + 1) * FramesPerUpdate
            u == Append(s, next)
<1>1. d \in Nat /\ next \in Nat
  BY Constants, LenProperties
<1>2. /\ Len(u) = d + 1
      /\ \A i \in 1 .. d : u[i] = s[i]
      /\ u[d + 1] = next
  BY <1>1, AppendProperties
<1>3. ASSUME NEW i \in 1 .. d PROVE u[i] = (m + 1 - (d + 1) + i) * FramesPerUpdate
  <2>1. m - d + i = m + 1 - (d + 1) + i
    BY <1>1
  <2>. QED
    BY <1>2, <2>1 DEF LastOf
<1>4. m + 1 - (d + 1) + (d + 1) = m + 1
  BY <1>1
<1>5. \A i \in 1 .. (d + 1) : i \in 1 .. d \/ i = d + 1
  BY <1>1
<1>6. d + 1 <= m + 1
  BY <1>1 DEF LastOf
<1>. HIDE DEF d, u
<1>7. \A i \in 1 .. (d + 1) : u[i] = (m + 1 - (d + 1) + i) * FramesPerUpdate
  BY <1>2, <1>3, <1>4, <1>5
<1>8. LastOf(u, m + 1)
  BY <1>2, <1>6, <1>7 DEF LastOf
<1>. QED
  BY <1>8 DEF u

\* The steps that read a frame, read an update or lose the stream.
LEMMA UpdatesOnTheWay ==
  ASSUME TypeOK, DownInv, Next
  PROVE  DownInv'
<1>. USE MadeIs DEF TypeOK, ownerVars, queueVars, writerVars, statVars, streamVars
<1>0. Len(<<>>) = 0
  BY EmptySeq
<1>1. CASE Start
  <2>1. downstream' = <<>> /\ received' = <<>> /\ peer' = "up"
    BY <1>1 DEF Start
  <2>2. 0 \div FramesPerUpdate \in Nat
    BY Division, Constants
  <2>3. Made' \in Nat
    BY <1>0, <2>1, <2>2 DEF Made
  <2>. QED
    BY <1>0, <2>1, <2>3 DEF DownInv, LastOf
<1>2. CASE Read
  <2>1. /\ downstream # <<>> /\ downstream' = Tail(downstream) /\ UNCHANGED <<received, peer>>
    BY <1>2 DEF Read
  <2>2. /\ Len(downstream') = Len(downstream) - 1
        /\ \A i \in 1 .. Len(downstream') : downstream'[i] = downstream[i + 1]
    BY <2>1, HeadTailProperties
  <2>3. Made' = Made
    BY <2>1 DEF Made
  <2>. DEFINE d == Len(downstream)
  <2>4. \A i \in 1 .. (d - 1) : downstream'[i] = (Made - d + (i + 1)) * FramesPerUpdate
    <3>1. \A i \in 1 .. (d - 1) : i + 1 \in 1 .. d
      OBVIOUS
    <3>. QED
      BY <2>2, <3>1 DEF DownInv, LastOf
  <2>5. \A i \in 1 .. (d - 1) : Made - d + (i + 1) = Made - (d - 1) + i
    OBVIOUS
  <2>. QED
    BY <2>1, <2>2, <2>3, <2>4, <2>5, Frames DEF DownInv, LastOf
<1>3. CASE ServerReads
  <2>1. peer' # "lost"
    BY <1>3 DEF ServerReads
  <2>2. CASE Made' = Made + 1 /\ downstream' = Append(downstream, Made' * FramesPerUpdate)
    <3>1. downstream \in Seq(Nat) /\ Made \in Nat /\ LastOf(downstream, Made)
      BY DEF DownInv
    <3>2. downstream' = Append(downstream, (Made + 1) * FramesPerUpdate)
      BY <2>2
    <3>3. LastOf(downstream', Made')
      BY <2>2, <3>1, <3>2, LastGrows, Zenon
    <3>. QED
      BY <2>1, <3>3, Zenon DEF DownInv
  <2>3. CASE Made' = Made /\ downstream' = downstream
    BY <2>1, <2>3 DEF DownInv, LastOf
  <2>. QED
    BY <1>3, <2>2, <2>3, FrameRead
<1>4. CASE StreamDies
  <2>1. Made' = Made /\ ((downstream' = downstream /\ peer' = "ended") \/ downstream' = <<>>)
    BY <1>4 DEF StreamDies, Made
  <2>. QED
    BY <1>0, <2>1 DEF DownInv, LastOf
<1>5. CASE ReadEnds \/ Owner \/ Writer \/ SendRefused \/ SendAccepted \/ Stop \/ ServerDone
  <2>1. UNCHANGED <<downstream, received>> /\ (peer' = "lost" => peer = "lost")
    BY <1>5 DEF ReadEnds, Owner, Writer, SendRefused, SendAccepted, Stop, ServerDone, SendNotify,
       StopNotify, JoinWriter, JoinReader, Take, Write, WriteFails, Break, Close
  <2>. QED
    BY <2>1 DEF DownInv, LastOf, Made
<1>. QED
  BY <1>1, <1>2, <1>3, <1>4, <1>5 DEF Next, Reader, Server

\* The update a step of the reader queues, and the one the event loop takes.
LEMMA UpdatesQueued ==
  ASSUME TranscriptInv, ReadUpdate
  PROVE  /\ posted' \in Seq(Updates)
         /\ ~mixed => posted' = Append(posted, Nth(applied + Len(posted) + 1))
<1>. USE Constants DEF TranscriptInv, TranscriptTypeOK, ReadUpdate
<1>. DEFINE k == Made - Len(downstream) + 1
<1>1. TypeOK /\ downstream # <<>> /\ Len(downstream) \in Nat \ {0}
  BY Frames DEF ClientInv, TypeOK, Read
<1>2. Made \in Nat /\ Len(downstream) <= Made
  BY <1>1, MadeIs DEF DownInv, LastOf
<1>3. Head(downstream) = k * FramesPerUpdate
  BY <1>1 DEF DownInv, LastOf
<1>4. k \in Nat \ {0} /\ starts \in Nat
  BY <1>1, <1>2 DEF TypeOK
<1>5. Update(Head(downstream)) = Nth(k) /\ Nth(k) \in Updates
  BY <1>3, <1>4, UpdateIsNth
<1>6. posted' = Append(posted, Nth(k))
  BY <1>5
<1>7. Len(posted) \in Nat
  BY LenProperties
<1>8. ~mixed => k = applied + Len(posted) + 1
  <2>1. peer # "lost"
    BY <1>1 DEF DownInv, LastOf
  <2>2. ~mixed => applied + Len(posted) + Len(downstream) = Made
    BY <2>1 DEF PostedInv
  <2>3. applied \in Nat
    OBVIOUS
  <2>. DEFINE a == applied
              p == Len(posted)
              d == Len(downstream)
  <2>4. ASSUME ~mixed PROVE a + p + d = Made /\ a \in Nat /\ p \in Nat /\ d \in Nat /\ Made \in Nat
    BY <1>1, <1>2, <1>7, <2>2, <2>3, <2>4
  <2>. HIDE DEF PostedInv, TranscriptInv, TranscriptTypeOK, ReadUpdate, a, p, d
  <2>5. ~mixed => Made - d + 1 = a + p + 1
    BY <2>4
  <2>. QED
    BY <2>5 DEF a, p, d
<1>. QED
  BY <1>5, <1>6, <1>8

\* The steps that touch what is queued to the UI thread or shown.
LEMMA UpdatesShown ==
  ASSUME TranscriptInv, TranscriptNext, DownInv', TypeOK'
  PROVE  TranscriptTypeOK' /\ PostedInv' /\ TranscriptIsLatest'
<1>. USE Constants DEF TranscriptInv, TranscriptTypeOK
<1>0. Len(<<>>) = 0 /\ <<>> \in Seq(Updates) /\ Len(posted) \in Nat
  BY EmptySeq, LenProperties
<1>1. Made \in Nat /\ Len(downstream) \in Nat /\ Len(received) \in Nat /\ starts \in Nat
  BY MadeIs DEF TypeOK
<1>2. CASE BeginSession
  <2>1. /\ posted' = posted /\ lines' = <<>> /\ applied' = 0 /\ mixed' = (posted # <<>>)
        /\ received' = <<>> /\ downstream' = <<>>
    BY <1>2 DEF BeginSession, Start
  <2>2. mixed' \in BOOLEAN
    BY <2>1, Zenon
  <2>3. Made' = 0
    <3>1. FramesPerUpdate * 0 <= 0 /\ 0 < FramesPerUpdate * 0 + FramesPerUpdate
      OBVIOUS
    <3>. QED
      BY <1>0, <2>1, <3>1, QuotientIs DEF Made
  <2>4. PostedInv'
    <3>1. CASE posted = <<>>
      <4>1. Len(posted') = 0 /\ Len(downstream') = 0
        BY <1>0, <2>1, <3>1
      <4>. QED
        BY <2>1, <2>3, <4>1 DEF PostedInv
    <3>2. CASE posted # <<>>
      <4>1. mixed'
        BY <2>1, <3>2
      <4>. QED
        BY <4>1 DEF PostedInv
    <3>. QED
      BY <3>1, <3>2
  <2>5. TranscriptIsLatest'
    BY <2>1, NothingShown DEF TranscriptIsLatest, Shown
  <2>. QED
    BY <1>0, <2>1, <2>2, <2>4, <2>5
<1>3. CASE BeginFails
  <2>1. mixed' \in BOOLEAN /\ mixed'
    BY <1>3, Zenon DEF BeginFails
  <2>. QED
    BY <1>0, <1>3, <2>1 DEF BeginFails, PostedInv, TranscriptIsLatest
<1>4. CASE ReadUpdate
  <2>1. /\ UNCHANGED <<lines, applied, mixed, starts, received, peer>>
        /\ Len(downstream') = Len(downstream) - 1
    BY <1>4, Frames DEF ReadUpdate, Read, TypeOK, ownerVars, streamVars
  <2>2. Made' = Made
    BY <2>1 DEF Made
  <2>3. CASE ~mixed
    <3>1. posted' = Append(posted, Nth(applied + Len(posted) + 1))
      BY <1>4, <2>3, UpdatesQueued
    <3>2. \A k : Nth(k)' = Nth(k)
      BY <2>1 DEF Nth
    <3>. HIDE DEF Nth
    <3>3. /\ Len(posted') = Len(posted) + 1
          /\ \A i \in 1 .. Len(posted) : posted'[i] = posted[i]
          /\ posted'[Len(posted) + 1] = Nth(applied + Len(posted) + 1)
      BY <1>0, <3>1
    <3>4. ASSUME NEW i \in 1 .. Len(posted') PROVE posted'[i] = Nth(applied + i)
      <4>1. CASE i = Len(posted) + 1
        BY <3>3, <4>1
      <4>2. CASE i \in 1 .. Len(posted)
        BY <2>3, <3>3, <4>2 DEF PostedInv
      <4>. QED
        BY <1>0, <3>3, <4>1, <4>2
    <3>5. peer' # "lost" => applied' + Len(posted') + Len(downstream') = Made'
      <4>1. peer # "lost" => applied + Len(posted) + Len(downstream) = Made
        BY <2>3 DEF PostedInv
      <4>. QED
        BY <1>0, <1>1, <2>1, <2>2, <3>3, <4>1
    <3>. QED
      BY <1>4, <2>1, <3>2, <3>4, <3>5, UpdatesQueued DEF PostedInv, TranscriptIsLatest, Shown
  <2>. QED
    BY <1>4, <2>1, <2>3, UpdatesQueued DEF PostedInv, TranscriptIsLatest
<1>5. CASE ApplyTranscript
  <2>1. /\ posted # <<>> /\ posted' = Tail(posted) /\ applied' = applied + 1 /\ mixed' = mixed
        /\ lines' = Applied(Head(posted))
        /\ UNCHANGED <<starts, received, downstream, peer>>
    BY <1>5 DEF ApplyTranscript, vars, ownerVars, streamVars
  <2>2. /\ Head(posted) \in Updates /\ Tail(posted) \in Seq(Updates)
        /\ Head(posted) = posted[1] /\ Len(Tail(posted)) = Len(posted) - 1
        /\ \A i \in 1 .. Len(Tail(posted)) : Tail(posted)[i] = posted[i + 1]
    BY <2>1, HeadTailProperties
  <2>3. lines' \in Seq(Updates)
    <3>1. DOMAIN lines = 1 .. Len(lines) /\ Len(lines) \in Nat
          /\ \A i \in 1 .. Len(lines) : lines[i] \in Updates
      BY LenProperties, ElementOfSeq
    <3>. DEFINE replaced == [i \in 1 .. Len(lines) |->
                               IF lines[i].segment = Head(posted).segment
                               THEN Head(posted) ELSE lines[i]]
    <3>2. replaced \in Seq(Updates)
      BY <2>2, <3>1, IsASeq
    <3>3. Append(lines, Head(posted)) \in Seq(Updates)
      BY <2>2, AppendProperties
    <3>. QED
      BY <2>1, <3>1, <3>2, <3>3 DEF Applied
  <2>4. Made' = Made /\ \A k : Nth(k)' = Nth(k)
    BY <2>1 DEF Made, Nth
  <2>5. CASE ~mixed
    <3>1. Head(posted) = Nth(applied + 1)
      BY <1>0, <2>1, <2>2, <2>5 DEF PostedInv
    <3>2. lines' = Shown(applied + 1)
      BY <1>1, <2>1, <2>5, <3>1, AppliedNext DEF TranscriptIsLatest
    <3>. HIDE DEF Nth, Shown
    <3>4. ASSUME NEW i \in 1 .. Len(posted') PROVE posted'[i] = Nth(applied' + i)
      <4>1. i + 1 \in 1 .. Len(posted) /\ posted'[i] = posted[i + 1]
        BY <1>0, <2>1, <2>2
      <4>2. applied' + i = applied + (i + 1)
        BY <2>1
      <4>. QED
        BY <2>5, <4>1, <4>2 DEF PostedInv
    <3>5. peer' # "lost" => applied' + Len(posted') + Len(downstream') = Made'
      <4>1. peer # "lost" => applied + Len(posted) + Len(downstream) = Made
        BY <2>5 DEF PostedInv
      <4>2. /\ Len(posted') = Len(posted) - 1 /\ Len(downstream') = Len(downstream)
            /\ applied' = applied + 1 /\ peer' = peer /\ Made' = Made
        BY <2>1, <2>2, <2>4
      <4>3. applied \in Nat /\ Len(posted) \in Nat /\ Len(downstream) \in Nat
        BY <1>0, <1>1
      <4>. HIDE DEF TranscriptInv, TranscriptTypeOK
      <4>. QED
        BY <4>1, <4>2, <4>3
    <3>6. TranscriptIsLatest'
      BY <2>1, <3>2 DEF TranscriptIsLatest, Shown
    <3>. QED
      BY <2>1, <2>2, <2>3, <2>4, <3>4, <3>5, <3>6 DEF PostedInv
  <2>. QED
    BY <2>1, <2>2, <2>3, <2>5 DEF PostedInv, TranscriptIsLatest
<1>6. CASE ClientStep /\ UNCHANGED uiVars
  <2>1. UNCHANGED <<posted, lines, applied, mixed>>
    BY <1>6 DEF uiVars
  <2>2. starts' = starts
    BY <1>6 DEF ClientStep, SendRefused, SendAccepted, Stop, Owner, Writer, ReadEnds, Server,
       StreamDies, SendNotify, StopNotify, JoinWriter, JoinReader, Take, Write, WriteFails, Break,
       Close, ServerReads, ServerDone, ownerVars
  <2>3. TranscriptTypeOK' /\ TranscriptIsLatest'
    BY <2>1, <2>2 DEF TranscriptIsLatest, Shown
  <2>4. peer' # "lost" => peer # "lost" /\ Len(downstream') - Len(downstream) = Made' - Made
    <3>1. CASE ServerReads
      <4>1. downstream \in Seq(Nat) /\ TypeOK /\ peer # "lost"
        BY <3>1 DEF ServerReads, ClientInv, TypeOK
      <4>2. CASE Made' = Made + 1 /\ downstream' = Append(downstream, Made' * FramesPerUpdate)
        <5>1. Len(downstream') = Len(downstream) + 1
          BY <4>1, <4>2
        <5>. QED
          BY <1>1, <4>1, <4>2, <5>1
      <4>3. CASE Made' = Made /\ downstream' = downstream
        BY <1>1, <4>1, <4>3
      <4>. QED
        BY <3>1, <4>1, <4>2, <4>3, FrameRead
    <3>2. CASE ~ServerReads
      <4>1. UNCHANGED received /\ (peer' # "lost" => peer # "lost" /\ UNCHANGED downstream)
        BY <1>6, <3>2 DEF ClientStep, SendRefused, SendAccepted, Stop, Owner, Writer, ReadEnds,
           Server, StreamDies, SendNotify, StopNotify, JoinWriter, JoinReader, Take, Write,
           WriteFails, Break, Close, ServerDone, streamVars
      <4>2. Made' = Made
        BY <4>1 DEF Made
      <4>. QED
        BY <1>1, <4>1, <4>2
    <3>. QED
      BY <3>1, <3>2
  <2>5. PostedInv'
    <3>1. CASE mixed
      BY <2>1, <3>1 DEF PostedInv
    <3>2. CASE ~mixed
      <4>1. \A i \in 1 .. Len(posted') : posted'[i] = Nth(applied + i)'
        BY <2>1, <2>2, <3>2 DEF PostedInv, Nth
      <4>2. peer # "lost" => applied + Len(posted) + Len(downstream) = Made
        BY <3>2 DEF PostedInv
      <4>3. /\ applied \in Nat /\ Len(posted) \in Nat
            /\ Made' \in Nat /\ Len(downstream') \in Nat
        BY <1>0, MadeIs
      <4>4. applied' = applied /\ posted' = posted
        BY <2>1
      <4>5. peer' # "lost" => applied' + Len(posted') + Len(downstream') = Made'
        <5>. HIDE DEF TranscriptInv, TranscriptTypeOK
        <5>. QED
          BY <1>1, <2>4, <4>2, <4>3, <4>4
      <4>. QED
        BY <4>1, <4>4, <4>5 DEF PostedInv
    <3>. QED
      BY <3>1, <3>2
  <2>. QED
    BY <2>3, <2>5
<1>. QED
  BY <1>2, <1>3, <1>4, <1>5, <1>6 DEF TranscriptNext

LEMMA TranscriptSteps ==
  ASSUME TranscriptInv, [TranscriptNext]_allVars
  PROVE  TranscriptInv'
<1>1. ClientInv'
  BY IsClientStep, ClientSteps DEF TranscriptInv
<1>2. CASE TranscriptNext
  <2>1. DownInv'
    <3>1. CASE Next
      BY <3>1, UpdatesOnTheWay DEF TranscriptInv, ClientInv
    <3>2. CASE UNCHANGED vars
      BY <3>2 DEF vars, streamVars, TranscriptInv, DownInv, LastOf, Made
    <3>. QED
      BY <1>2, <3>1, <3>2, IsClientStep
  <2>. QED
    BY <1>1, <1>2, <2>1, UpdatesShown DEF TranscriptInv, ClientInv
<1>3. CASE UNCHANGED allVars
  BY <1>1, <1>3 DEF allVars, uiVars, vars, ownerVars, streamVars, TranscriptInv, ClientInv,
     TranscriptTypeOK, DownInv, PostedInv, TranscriptIsLatest, Made, Nth, Shown
<1>. QED
  BY <1>2, <1>3

(***************************************************************************)
(* The invariant holds throughout, whatever the owner, the server, the     *)
(* network and the event loop do, and however long they do it.             *)
(***************************************************************************)
THEOREM TranscriptInvariant == TranscriptSpec => []TranscriptInv
<1>1. TranscriptInv /\ [TranscriptNext]_allVars => TranscriptInv'
  BY TranscriptSteps
<1>. QED
  BY TranscriptBegins, <1>1, PTL DEF TranscriptSpec

\* Every variable of the client and of the transcript has its type.
THEOREM TranscriptTypes == TranscriptSpec => []TranscriptTypeOK
BY TranscriptInvariant, PTL DEF TranscriptInv

(***************************************************************************)
(* No frame handed to sendFrame() disappears without being counted, for    *)
(* every size of the send queue and of the stream's window.                *)
(***************************************************************************)
THEOREM CountedDrops == TranscriptSpec => []DropsAreCounted
<1>1. TranscriptInv => DropsAreCounted
  BY DEF TranscriptInv, ClientInv
<1>. QED
  BY TranscriptInvariant, <1>1, PTL

\* The server reads what sendFrame() accepted, in that order, each frame once.
THEOREM OrderedUpload == TranscriptSpec => []UploadInOrder
<1>1. TranscriptInv => UploadInOrder
  BY DEF TranscriptInv, ClientInv
<1>. QED
  BY TranscriptInvariant, <1>1, PTL

(***************************************************************************)
(* The window shows the latest revision of each segment, in the order the  *)
(* segments came, unless a session began over updates of an earlier one.   *)
(***************************************************************************)
THEOREM LatestTranscript == TranscriptSpec => []TranscriptIsLatest
BY TranscriptInvariant, PTL DEF TranscriptInv

(***************************************************************************)
(* After stop(), on a stream nothing broke, the server has read every      *)
(* accepted frame and the window can show all it had to say about them.    *)
(***************************************************************************)
THEOREM CompleteTranscript == TranscriptSpec => []TranscriptIsComplete
<1>1. TranscriptInv => TranscriptIsComplete
  <2>. SUFFICES ASSUME TranscriptInv, at = "off", peer = "done"
                PROVE  /\ received = accepted
                       /\ posted = <<>> /\ ~mixed => lines = Shown(Made)
    BY DEF TranscriptIsComplete, Made
  <2>1. received = accepted /\ downstream = <<>>
    BY DEF TranscriptInv, ClientInv, PlacesInv
  <2>2. ASSUME posted = <<>>, ~mixed PROVE lines = Shown(Made)
    <3>1. Len(posted) = 0 /\ Len(downstream) = 0
      BY <2>1, <2>2, EmptySeq
    <3>2. applied + Len(posted) + Len(downstream) = Made /\ lines = Shown(applied)
      BY <2>2 DEF TranscriptInv, PostedInv, TranscriptIsLatest
    <3>3. applied = Made
      BY <3>1, <3>2 DEF TranscriptInv, TranscriptTypeOK
    <3>. QED
      BY <3>2, <3>3
  <2>. QED
    BY <2>1, <2>2
<1>. QED
  BY TranscriptInvariant, <1>1, PTL

=============================================================================
