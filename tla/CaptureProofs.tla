---------------------------- MODULE CaptureProofs ----------------------------
(***************************************************************************)
(* What CaptureStream promises for every size of the device's buffer and   *)
(* any number of packets: the handshake of start(), the silence after      *)
(* stop() and the flags.  The inductive invariant follows the packets from *)
(* the device to the sink: wherever one is missing in the chain delivered, *)
(* packet, buffered, captured, the flag that says so is on the next link.  *)
(***************************************************************************)
EXTENDS CaptureStream, TLAPS

\* The constants as the provers need them.
LEMMA Constants == DeviceBuffer \in Nat \ {0} /\ MaxPackets \in Nat
BY StreamAssumption DEF StreamAssumption

\* The thread exists only between the first step of start() and the join.
RestInv ==
  /\ at = "off" => thread = "none"
  /\ at \in {"failed", "stopped"} => thread \in {"none", "exited"}

\* The number of the last frame the sink accepted.
LastDelivered == IF delivered = <<>> THEN 0 ELSE delivered[Len(delivered)].number

\* The number of the last packet before the i-th in the buffer.
Before(i) ==
  IF i > 1 THEN buffered[i - 1].number
  ELSE IF packet # <<>> THEN packet[1].number ELSE LastDelivered

\* Nothing is between the buffer's i-th place and the frames delivered.
IsNext(i) == i = 1 /\ packet = <<>>

\* A packet missing before the i-th place is flagged there, or owed by the sink.
PacketInv ==
  packet # <<>> /\ packet[1].number # LastDelivered + 1 => packet[1].disc \/ pendingDisc

BufferInv ==
  \A i \in 1 .. Len(buffered) :
    buffered[i].number # Before(i) + 1 => buffered[i].disc \/ (IsNext(i) /\ pendingDisc)

DeviceInv ==
  captured # Before(Len(buffered) + 1) => glitch \/ (IsNext(Len(buffered) + 1) /\ pendingDisc)

StreamInv ==
  /\ TypeOK /\ RestInv /\ LocalsOutliveTheirUse
  /\ LossIsFlagged /\ PacketInv /\ BufferInv /\ DeviceInv

-----------------------------------------------------------------------------
\* Nothing has happened yet.
LEMMA Beginning == Init => StreamInv
<1>. SUFFICES ASSUME Init PROVE StreamInv
  OBVIOUS
<1>1. TypeOK
  <2>1. /\ buffered \in Seq(Packets) /\ Len(buffered) = 0
        /\ packet \in Seq(Packets) /\ Len(packet) = 0 /\ delivered \in Seq(Frames)
    BY DEF Init
  <2>2. /\ stopEvent \in BOOLEAN /\ glitch \in BOOLEAN /\ invalid \in BOOLEAN
        /\ pendingDisc \in BOOLEAN
    BY Zenon DEF Init
  <2>. QED
    BY <2>1, <2>2, Constants DEF Init, TypeOK
<1>2. RestInv /\ LocalsOutliveTheirUse /\ LossIsFlagged /\ PacketInv /\ BufferInv
  BY DEF Init, RestInv, LocalsOutliveTheirUse, LossIsFlagged, PacketInv, BufferInv
<1>3. Before(Len(buffered) + 1) = 0
  BY DEF Init, Before, LastDelivered
<1>4. DeviceInv
  BY <1>3 DEF Init, DeviceInv
<1>. QED
  BY <1>1, <1>2, <1>4 DEF StreamInv

\* A step that moves no packet keeps the chain of flags.
LEMMA ChainStands ==
  ASSUME StreamInv, UNCHANGED <<captured, glitch, buffered, packet, frameVars>>
  PROVE  LossIsFlagged' /\ PacketInv' /\ BufferInv' /\ DeviceInv'
BY DEF StreamInv, LossIsFlagged, PacketInv, BufferInv, DeviceInv, Before, IsNext, LastDelivered,
       frameVars

\* The owner's steps, and those of the thread before and after the loop.
LEMMA ControlSteps ==
  ASSUME StreamInv,
         Owner \/ Initialize \/ Report \/ Wait \/ Leave
  PROVE  StreamInv'
<1>. USE DEF StreamInv, TypeOK, RestInv, LocalsOutliveTheirUse, ownerVars, shared, deviceVars,
             frameVars
<1>1. CASE Start \/ Started \/ JoinFailed
  <2>1. UNCHANGED <<captured, glitch, buffered, packet, frameVars>>
    BY <1>1 DEF Start, Started, JoinFailed
  <2>2. LossIsFlagged' /\ PacketInv' /\ BufferInv' /\ DeviceInv'
    BY <2>1, ChainStands
  <2>. QED
    BY <1>1, <2>2 DEF Start, Started, JoinFailed
<1>2. CASE Stop \/ StopJoin
  <2>1. UNCHANGED <<captured, glitch, buffered, packet, frameVars>>
    BY <1>2 DEF Stop, StopJoin
  <2>2. LossIsFlagged' /\ PacketInv' /\ BufferInv' /\ DeviceInv'
    BY <2>1, ChainStands
  <2>3. stopEvent' \in BOOLEAN
    BY <1>2, Zenon DEF Stop, StopJoin
  <2>. QED
    BY <1>2, <2>2, <2>3 DEF Stop, StopJoin
<1>3. CASE Initialize \/ Report \/ Wait \/ Leave
  <2>1. UNCHANGED <<captured, glitch, buffered, packet, frameVars>>
    BY <1>3 DEF Initialize, Report, Wait, Leave
  <2>2. LossIsFlagged' /\ PacketInv' /\ BufferInv' /\ DeviceInv'
    BY <2>1, ChainStands
  <2>. QED
    BY <1>3, <2>2 DEF Initialize, Report, Wait, Leave
<1>. QED
  BY <1>1, <1>2, <1>3 DEF Owner

\* A packet moves from the buffer to the thread's hand: the chain is the same.
LEMMA PacketTaken == ASSUME StreamInv, NextPacket PROVE StreamInv'
<1>1. /\ thread = "packets" /\ packet = <<>> /\ buffered \in Seq(Packets)
      /\ UNCHANGED <<ownerVars, shared, captured, glitch, invalid, frameVars>>
  BY DEF NextPacket, StreamInv, TypeOK
<1>2. CASE UNCHANGED <<buffered, packet>> /\ thread' \in {"leave", "wait"}
  <2>1. LossIsFlagged' /\ PacketInv' /\ BufferInv' /\ DeviceInv'
    BY <1>1, <1>2, ChainStands
  <2>. QED
    BY <1>1, <1>2, <2>1 DEF StreamInv, TypeOK, RestInv, LocalsOutliveTheirUse, ownerVars, shared,
         frameVars
<1>3. CASE /\ buffered # <<>> /\ packet' = <<Head(buffered)>> /\ buffered' = Tail(buffered)
           /\ thread' = "deliver"
  <2>1. /\ Len(buffered) \in Nat /\ Len(buffered) > 0 /\ buffered[1] \in Packets
        /\ packet' = <<buffered[1]>> /\ Len(packet') = 1 /\ packet'[1] = buffered[1]
    BY <1>1, <1>3
  <2>2. /\ buffered' \in Seq(Packets) /\ Len(buffered') = Len(buffered) - 1
        /\ \A i \in 1 .. Len(buffered') : buffered'[i] = buffered[i + 1]
    BY <1>1, <1>3
  <2>3. LastDelivered' = LastDelivered /\ pendingDisc' = pendingDisc
    BY <1>1 DEF LastDelivered, frameVars
  <2>4. PacketInv'
    BY <1>1, <2>1, <2>3 DEF StreamInv, BufferInv, Before, IsNext, PacketInv
  <2>5. \A i \in 1 .. Len(buffered') + 1 : Before(i)' = Before(i + 1)
    BY <2>1, <2>2 DEF Before
  <2>6. \A i \in 1 .. Len(buffered') + 1 : ~IsNext(i + 1)
    BY DEF IsNext
  <2>7. BufferInv'
    BY <2>1, <2>2, <2>5, <2>6 DEF StreamInv, BufferInv
  <2>8. DeviceInv'
    BY <1>1, <2>1, <2>2, <2>5, <2>6 DEF StreamInv, DeviceInv
  <2>9. TypeOK'
    BY <1>1, <1>3, <2>1, <2>2, Constants
    DEF StreamInv, TypeOK, ownerVars, shared, frameVars, Packets
  <2>. QED
    BY <1>1, <1>3, <2>4, <2>7, <2>8, <2>9
    DEF StreamInv, RestInv, LocalsOutliveTheirUse, LossIsFlagged, ownerVars, shared, frameVars
<1>. QED
  BY <1>1, <1>2, <1>3 DEF NextPacket

\* The sink accepts the frame with every flag that is due, or owes it.
LEMMA PacketDelivered == ASSUME StreamInv, Deliver PROVE StreamInv'
<1>. DEFINE frame == [number |-> packet[1].number, sequence |-> nextSequence,
                      disc |-> pendingDisc \/ packet[1].disc]
<1>1. /\ thread = "deliver" /\ thread' = "packets" /\ packet' = <<>>
      /\ nextSequence' = nextSequence + 1
      /\ UNCHANGED <<ownerVars, shared, deviceVars>>
      /\ \/ /\ delivered' = Append(delivered, frame)
            /\ framesEmitted' = framesEmitted + 1
            /\ pendingDisc' = FALSE
            /\ UNCHANGED framesDropped
         \/ /\ framesDropped' = framesDropped + 1
            /\ pendingDisc' = TRUE
            /\ UNCHANGED <<delivered, framesEmitted>>
  BY DEF Deliver
<1>2. /\ Len(packet) = 1 /\ packet # <<>> /\ packet[1] \in Packets
      /\ delivered \in Seq(Frames) /\ frame \in Frames /\ frame.number = packet[1].number
      /\ frame.disc = (pendingDisc \/ packet[1].disc)
      /\ buffered \in Seq(Packets) /\ pendingDisc \in BOOLEAN
  <2>1. /\ Len(packet) = 1 /\ packet \in Seq(Packets) /\ delivered \in Seq(Frames)
        /\ buffered \in Seq(Packets) /\ pendingDisc \in BOOLEAN /\ nextSequence \in Nat
    BY <1>1 DEF StreamInv, TypeOK
  <2>2. packet # <<>> /\ packet[1] \in Packets
    <3>1. Len(<<>>) = 0
      OBVIOUS
    <3>2. 1 \in 1 .. Len(packet) /\ packet \in Seq(Packets)
      BY <2>1
    <3>3. packet[1] \in Packets
      BY <3>2
    <3>. QED
      BY <2>1, <3>1, <3>3
  <2>. DEFINE flag == pendingDisc \/ packet[1].disc
  <2>3. flag \in BOOLEAN
    OBVIOUS
  <2>4. frame = [number |-> packet[1].number, sequence |-> nextSequence, disc |-> flag]
    OBVIOUS
  <2>5. frame.disc = flag
    OBVIOUS
  <2>. HIDE DEF flag, frame
  <2>6. frame \in Frames /\ frame.number = packet[1].number
    BY <2>1, <2>2, <2>3, <2>4 DEF Packets, Frames
  <2>. QED
    BY <2>1, <2>2, <2>5, <2>6 DEF flag
<1>. HIDE DEF frame
<1>3. RestInv' /\ LocalsOutliveTheirUse'
  BY <1>1 DEF StreamInv, RestInv, LocalsOutliveTheirUse, ownerVars, shared
<1>4. TypeOK'
  <2>1. /\ delivered' \in Seq(Frames) /\ pendingDisc' \in BOOLEAN
        /\ framesEmitted' \in Nat /\ framesDropped' \in Nat /\ nextSequence' \in Nat
    <3>1. /\ delivered \in Seq(Frames) /\ framesEmitted \in Nat /\ framesDropped \in Nat
          /\ nextSequence \in Nat
      BY DEF StreamInv, TypeOK
    <3>2. Append(delivered, frame) \in Seq(Frames)
      BY <1>2
    <3>3. pendingDisc' \in BOOLEAN
      BY <1>1, Zenon
    <3>4. delivered' \in Seq(Frames)
      BY <1>1, <3>1, <3>2, Zenon
    <3>5. framesEmitted' \in Nat /\ framesDropped' \in Nat /\ nextSequence' \in Nat
      BY <1>1, <3>1
    <3>. QED
      BY <3>3, <3>4, <3>5
  <2>2. packet' \in Seq(Packets) /\ Len(packet') = 0
    BY <1>1
  <2>. QED
    BY <1>1, <2>1, <2>2 DEF StreamInv, TypeOK, ownerVars, shared, deviceVars
<1>5. PacketInv'
  BY <1>1 DEF PacketInv
<1>6. CASE delivered' = Append(delivered, frame) /\ pendingDisc' = FALSE
  <2>1. LastDelivered' = packet[1].number
    BY <1>2, <1>6 DEF LastDelivered
  <2>2. LossIsFlagged'
    <3>1. frame.number # LastDelivered + 1 => frame.disc
      BY <1>2 DEF StreamInv, PacketInv
    <3>. QED
      BY <1>2, <1>6, <3>1 DEF StreamInv, LossIsFlagged, LastDelivered
  <2>3. \A i \in 1 .. Len(buffered) + 1 : Before(i)' = Before(i) /\ ~IsNext(i)
    BY <1>1, <1>2, <2>1 DEF Before, IsNext, deviceVars
  <2>4. BufferInv' /\ DeviceInv'
    BY <1>1, <1>2, <2>3 DEF StreamInv, BufferInv, DeviceInv, deviceVars
  <2>. QED
    BY <1>3, <1>4, <1>5, <2>2, <2>4 DEF StreamInv
<1>7. CASE pendingDisc' = TRUE /\ UNCHANGED delivered
  <2>1. LossIsFlagged'
    BY <1>7 DEF StreamInv, LossIsFlagged
  <2>2. \A i \in 1 .. Len(buffered) + 1 : i # 1 => Before(i)' = Before(i)
    BY <1>1 DEF Before, deviceVars
  <2>3. IsNext(1)'
    BY <1>1 DEF IsNext
  <2>4. BufferInv'
    BY <1>1, <1>2, <1>7, <2>2, <2>3 DEF StreamInv, BufferInv, IsNext, deviceVars
  <2>5. DeviceInv'
    BY <1>1, <1>2, <1>7, <2>2, <2>3 DEF StreamInv, DeviceInv, IsNext, deviceVars
  <2>. QED
    BY <1>3, <1>4, <1>5, <2>1, <2>4, <2>5 DEF StreamInv
<1>. QED
  BY <1>1, <1>6, <1>7

\* The device buffers a packet with its flag, loses one or goes away.
LEMMA DeviceSteps == ASSUME StreamInv, DeviceCaptures \/ DeviceDies PROVE StreamInv'
<1>1. CASE DeviceDies
  <2>1. LossIsFlagged' /\ PacketInv' /\ BufferInv' /\ DeviceInv'
    BY <1>1, ChainStands DEF DeviceDies
  <2>. QED
    BY <1>1, <2>1 DEF DeviceDies, StreamInv, TypeOK, RestInv, LocalsOutliveTheirUse, ownerVars,
         shared, frameVars
<1>2. CASE DeviceCaptures
  <2>. DEFINE new == [number |-> captured + 1, disc |-> glitch]
  <2>1. /\ captured' = captured + 1
        /\ UNCHANGED <<ownerVars, thread, shared, invalid, packet, frameVars>>
        /\ \/ Len(buffered) < DeviceBuffer /\ buffered' = Append(buffered, new) /\ glitch' = FALSE
           \/ glitch' = TRUE /\ UNCHANGED buffered
    BY <1>2 DEF DeviceCaptures
  <2>2. /\ new \in Packets /\ new.number = captured + 1 /\ new.disc = glitch
        /\ buffered \in Seq(Packets) /\ captured \in Nat
    BY DEF StreamInv, TypeOK, Packets
  <2>. HIDE DEF new
  <2>3. LastDelivered' = LastDelivered /\ pendingDisc' = pendingDisc /\ packet' = packet
    BY <2>1 DEF LastDelivered, frameVars
  <2>4. RestInv' /\ LocalsOutliveTheirUse' /\ LossIsFlagged' /\ PacketInv'
    BY <2>1, <2>3 DEF StreamInv, RestInv, LocalsOutliveTheirUse, LossIsFlagged, PacketInv, ownerVars,
         shared, frameVars
  <2>5. CASE /\ Len(buffered) < DeviceBuffer /\ buffered' = Append(buffered, new)
             /\ glitch' = FALSE
    <3>1. TypeOK'
      <4>1. buffered' \in Seq(Packets) /\ Len(buffered') <= DeviceBuffer
        BY <2>2, <2>5, Constants
      <4>. QED
        <5>1. captured' \in Nat /\ glitch' \in BOOLEAN
          <6>1. captured' \in Nat
            BY <2>1, <2>2
          <6>2. glitch' \in BOOLEAN
            BY <2>5, Zenon
          <6>. QED
            BY <6>1, <6>2
        <5>. QED
          BY <2>1, <4>1, <5>1 DEF StreamInv, TypeOK, ownerVars, shared, frameVars
    <3>2. /\ Len(buffered') = Len(buffered) + 1 /\ Len(buffered) \in Nat
          /\ buffered'[Len(buffered) + 1] = new
          /\ \A i \in 1 .. Len(buffered) : buffered'[i] = buffered[i]
      BY <2>2, <2>5
    <3>3. \A i \in 1 .. Len(buffered) + 1 : Before(i)' = Before(i) /\ IsNext(i)' = IsNext(i)
      BY <2>3, <3>2 DEF Before, IsNext
    <3>4. Before(Len(buffered) + 1)' = captured'
      BY <2>1, <2>2, <3>2 DEF Before
    <3>5. BufferInv'
      <4>1. SUFFICES ASSUME NEW i \in 1 .. Len(buffered) + 1,
                            buffered'[i].number # Before(i)' + 1
                     PROVE  buffered'[i].disc \/ (IsNext(i)' /\ pendingDisc')
        BY <3>2 DEF BufferInv
      <4>2. CASE i \in 1 .. Len(buffered)
        BY <2>3, <3>2, <3>3, <4>1, <4>2 DEF StreamInv, BufferInv
      <4>3. CASE i = Len(buffered) + 1
        <5>1. captured # Before(i)
          BY <2>2, <3>2, <3>3, <4>1, <4>3
        <5>. QED
          BY <2>2, <2>3, <3>2, <3>3, <4>3, <5>1 DEF StreamInv, DeviceInv
      <4>. QED
        BY <3>2, <4>2, <4>3
    <3>6. DeviceInv'
      BY <3>2, <3>4 DEF DeviceInv
    <3>. QED
      BY <2>4, <3>1, <3>5, <3>6 DEF StreamInv
  <2>6. CASE glitch' = TRUE /\ UNCHANGED buffered
    <3>1. TypeOK'
      BY <2>1, <2>2, <2>6 DEF StreamInv, TypeOK, ownerVars, shared, frameVars
    <3>2. BufferInv' /\ DeviceInv'
      BY <2>3, <2>6 DEF StreamInv, BufferInv, DeviceInv, Before, IsNext
    <3>. QED
      BY <2>4, <3>1, <3>2 DEF StreamInv
  <2>. QED
    BY <2>1, <2>5, <2>6
<1>. QED
  BY <1>1, <1>2

\* Nothing changes.
LEMMA Stuttering == ASSUME StreamInv, UNCHANGED vars PROVE StreamInv'
<1>1. LossIsFlagged' /\ PacketInv' /\ BufferInv' /\ DeviceInv'
  BY ChainStands DEF vars, deviceVars, frameVars
<1>. QED
  BY <1>1 DEF vars, StreamInv, TypeOK, RestInv, LocalsOutliveTheirUse, ownerVars, shared, deviceVars,
       frameVars

-----------------------------------------------------------------------------
(***************************************************************************)
(* The invariant holds throughout, whatever the device, the sink and the   *)
(* owner do.                                                               *)
(***************************************************************************)
THEOREM StreamInvariant == Spec => []StreamInv
<1>1. StreamInv /\ [Next]_vars => StreamInv'
  BY ControlSteps, PacketTaken, PacketDelivered, DeviceSteps, Stuttering DEF Next, Capture
<1>. QED
  BY Beginning, <1>1, PTL DEF Spec

\* Every variable has its type, for any size of the device's buffer.
THEOREM StreamTypes == Spec => []TypeOK
BY StreamInvariant, PTL DEF StreamInv

(***************************************************************************)
(* However the device and the sink lose packets in turn, the next frame    *)
(* the sink accepts is flagged.                                            *)
(***************************************************************************)
THEOREM LossesFlagged == Spec => []LossIsFlagged
BY StreamInvariant, PTL DEF StreamInv

\* start()'s locals are alive as long as the capture thread uses them.
THEOREM LocalsAlive == Spec => []LocalsOutliveTheirUse
BY StreamInvariant, PTL DEF StreamInv

\* The sink is not called once start() has failed or stop() has returned.
THEOREM SilentAfterStop == Spec => NoFrameAfterStop
<1>. DEFINE Quiet == framesEmitted' + framesDropped' # framesEmitted + framesDropped =>
                       at \notin {"failed", "stopped"}
<1>1. ASSUME StreamInv, Next PROVE Quiet
  <2>1. CASE Deliver
    BY <1>1, <2>1 DEF StreamInv, RestInv, Deliver
  <2>2. CASE Owner
    BY <2>2 DEF Owner, Start, Started, JoinFailed, Stop, StopJoin, frameVars
  <2>3. CASE Initialize \/ Report \/ Wait \/ NextPacket \/ Leave
    BY <2>3 DEF Initialize, Report, Wait, NextPacket, Leave, frameVars
  <2>4. CASE DeviceCaptures \/ DeviceDies
    BY <2>4 DEF DeviceCaptures, DeviceDies, frameVars
  <2>. QED
    BY <1>1, <2>1, <2>2, <2>3, <2>4 DEF Next, Capture
<1>2. StreamInv /\ [Next]_vars => [Quiet]_vars
  BY <1>1
<1>. HIDE DEF Quiet
<1>3. Spec => [][Quiet]_vars
  BY <1>2, StreamInvariant, PTL DEF Spec
<1>. QED
  BY <1>3, PTL DEF NoFrameAfterStop, Quiet

=============================================================================
