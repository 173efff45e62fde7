------------------------- MODULE VideoChannelProofs -------------------------
(***************************************************************************)
(* Proofs about VideoChannel, for any number of packets and any limits of  *)
(* the packet queue and the frame queue.                                   *)
(***************************************************************************)
EXTENDS VideoChannel, TLAPS

\* The addresses of packets and of frames.
Addresses == Nat \ {Null}

\* A queue in which every entry is younger than those before it.
Increasing(q) == \A i, j \in 1..Len(q.items) : i < j => q.items[i] < q.items[j]

\* start() opens the packet queue before it creates a thread, and stop() closes it
\* when the demuxer feeds it no more.
ControlOrder ==
    /\ cpc \in {"new", "spawn"} => dpc = "none"
    /\ cpc \in {"new", "spawn", "spawn2"} => rpc = "none"
    /\ cpc \in {"spawn", "spawn2", "running", "log"} => packets.state

\* decode() comes to pop with an empty hand, so that pop overwrites nothing.
HandEmptyAtPop == packet # Null => dpc \in {"check", "send", "exit"}

\* render() comes to pop with an empty hand or with a frame it found late; what it
\* tests as a frame in the hand is one.
FrameKept ==
    /\ frame # Null => \/ frame \in late
                       \/ rpc = "check" /\ got
                       \/ rpc \in {"scale", "release", "exit"}
    /\ (rpc = "check" /\ got) \/ rpc = "scale" => frame # Null

\* The room decode() has seen is still there when it pushes: nobody else does.
RoomKept == dpc \in {"pop", "check", "send", "receive"} => Len(frames.items) <= FrameLimit

\* The packets' half of the inductive invariant, and the frames'.
PacketInv == ControlOrder /\ HandEmptyAtPop /\ Increasing(packets) /\ PacketsOwned
FrameInv ==
    /\ FrameKept /\ RoomKept /\ FramesOwned /\ FramesBounded
    /\ Increasing(frames) /\ \A v \in Contents(frames) : frame < v

\* The inductive invariant of the channel.
VideoInv == TypeOK /\ PacketInv /\ FrameInv

-----------------------------------------------------------------------------
(* What the operations of a message_queue do to its entries. *)

\* gotoWork and backWork leave the entries, and replacing those leaves the state.
LEMMA QueueFields ==
  ASSUME NEW q \in Queues(Addresses), NEW s \in Seq(Addresses)
  PROVE  /\ Working(q) \in Queues(Addresses) /\ Working(q).state /\ Working(q).items = q.items
         /\ Halted(q) \in Queues(Addresses) /\ Halted(q).items = q.items
         /\ [q EXCEPT !.items = s] \in Queues(Addresses)
         /\ [q EXCEPT !.items = s].state = q.state /\ [q EXCEPT !.items = s].items = s
<1>1. Working(q) \in Queues(Addresses) /\ Halted(q) \in Queues(Addresses)
  BY Zenon DEF Queues, Working, Halted
<1>2. Working(q).state /\ Working(q).items = q.items /\ Halted(q).items = q.items
  BY DEF Queues, Working, Halted
<1>3. [q EXCEPT !.items = s] \in Queues(Addresses)
  BY DEF Queues
<1>4. [q EXCEPT !.items = s].state = q.state /\ [q EXCEPT !.items = s].items = s
  BY DEF Queues
<1>5. QED
  BY <1>1, <1>2, <1>3, <1>4

\* A queue's entries and their order are those of its items.
LEMMA SameItems ==
  ASSUME NEW p, NEW q, p.items = q.items
  PROVE  Contents(p) = Contents(q) /\ (Increasing(p) <=> Increasing(q))
  BY DEF Contents, Increasing

\* clear leaves nothing.
LEMMA NoItems ==
  ASSUME NEW q, q.items = <<>>
  PROVE  Contents(q) = {} /\ Increasing(q) /\ Len(q.items) = 0
  BY DEF Contents, Increasing

\* push of a younger entry on a queue that works.
LEMMA PushedEntries ==
  ASSUME NEW q \in Queues(Addresses), Increasing(q), q.state,
         NEW v \in Addresses, \A w \in Contents(q) : w < v
  PROVE  /\ Pushed(q, v) \in Queues(Addresses) /\ Pushed(q, v).state = q.state
         /\ Increasing(Pushed(q, v))
         /\ Contents(Pushed(q, v)) = Contents(q) \cup {v}
         /\ Len(Pushed(q, v).items) = Len(q.items) + 1
<1> DEFINE p == Pushed(q, v)
<1>1. q.items \in Seq(Addresses) /\ Len(q.items) \in Nat /\ Append(q.items, v) \in Seq(Addresses)
  BY DEF Queues
<1>2. p \in Queues(Addresses) /\ p.state = q.state /\ p.items = Append(q.items, v)
  BY <1>1, QueueFields DEF Pushed
<1> HIDE DEF p
<1>3. /\ Len(p.items) = Len(q.items) + 1
      /\ \A i \in 1..Len(q.items) : p.items[i] = q.items[i]
      /\ p.items[Len(q.items) + 1] = v
  BY <1>1, <1>2
<1>4. \A i \in 1..Len(q.items) : q.items[i] < v /\ q.items[i] \in Nat
  BY <1>1 DEF Contents, Addresses
<1>5. Increasing(p)
  BY SMTT(30), <1>1, <1>3, <1>4 DEF Increasing
<1>6. Contents(p) = Contents(q) \cup {v}
  <2>1. 1..Len(p.items) = 1..Len(q.items) \cup {Len(q.items) + 1}
    BY <1>1, <1>3
  <2>2. QED
    BY <1>3, <2>1 DEF Contents
<1>7. QED
  BY <1>2, <1>3, <1>5, <1>6 DEF p

\* pop or sync of the front of a queue that has one.
LEMMA DroppedEntries ==
  ASSUME NEW q \in Queues(Addresses), Increasing(q), q.items # <<>>
  PROVE  /\ Dropped(q) \in Queues(Addresses) /\ Dropped(q).state = q.state
         /\ Increasing(Dropped(q))
         /\ Head(q.items) \in Addresses
         /\ Contents(q) = Contents(Dropped(q)) \cup {Head(q.items)}
         /\ \A v \in Contents(Dropped(q)) : Head(q.items) < v
         /\ Len(Dropped(q).items) = Len(q.items) - 1
<1> DEFINE p == Dropped(q)
<1>1. q.items \in Seq(Addresses) /\ Len(q.items) \in Nat \ {0} /\ Tail(q.items) \in Seq(Addresses)
  BY DEF Queues
<1>2. p \in Queues(Addresses) /\ p.state = q.state /\ p.items = Tail(q.items)
  BY <1>1, QueueFields DEF Dropped
<1> HIDE DEF p
<1>3. /\ Len(p.items) = Len(q.items) - 1
      /\ Head(q.items) = q.items[1]
      /\ \A i \in 1..Len(p.items) : i + 1 \in 2..Len(q.items) /\ p.items[i] = q.items[i + 1]
      /\ \A i \in 2..Len(q.items) : i - 1 \in 1..Len(p.items) /\ q.items[i] = p.items[i - 1]
  BY <1>1, <1>2
<1>4. Increasing(p)
  BY <1>1, <1>3 DEF Increasing
<1>5. 1 \in 1..Len(q.items) /\ 1..Len(q.items) = {1} \cup 2..Len(q.items)
  BY <1>1
<1>6. Contents(q) = Contents(p) \cup {Head(q.items)}
  <2>1. \A v : v \in Contents(p) <=> \E i \in 2..Len(q.items) : v = q.items[i]
    BY SMTT(30), <1>3 DEF Contents
  <2>2. QED
    BY SMTT(30), <1>3, <1>5, <2>1 DEF Contents
<1>7. \A v \in Contents(p) : Head(q.items) < v
  <2>1. \A i \in 2..Len(q.items) : q.items[1] < q.items[i]
    BY <1>1, <1>5 DEF Increasing
  <2>2. QED
    BY <1>3, <2>1 DEF Contents
<1>8. Head(q.items) \in Addresses
  BY <1>1, <1>3, <1>5
<1>9. QED
  BY <1>2, <1>3, <1>4, <1>6, <1>7, <1>8 DEF p

-----------------------------------------------------------------------------
(* The invariant. *)

\* The constructor's state satisfies it.
LEMMA VideoInit == Init => VideoInv
<1> SUFFICES ASSUME Init PROVE VideoInv
  OBVIOUS
<1>1. NewQueue \in Queues(Addresses) /\ NewQueue.items = <<>>
  <2>1. FALSE \in BOOLEAN /\ <<>> \in Seq(Addresses)
    OBVIOUS
  <2>2. QED
    BY <2>1, Zenon DEF NewQueue, Queues
<1>2. TypeOK
  <2>1. isPlaying \in BOOLEAN /\ got \in BOOLEAN
    BY Zenon DEF Init
  <2>2. QED
    BY <1>1, <2>1, BoundAssumption DEF Init, TypeOK, Addresses, ControlPoints, DecodePoints,
       RenderPoints, Null
<1>3. PacketInv
  BY <1>1, NoItems DEF Init, PacketInv, ControlOrder, HandEmptyAtPop, PacketsOwned
<1>4. FrameInv
  BY SMTT(30), <1>1, NoItems, BoundAssumption DEF Init, FrameInv, FrameKept, RoomKept, FramesOwned,
     FramesBounded
<1>5. QED
  BY <1>2, <1>3, <1>4 DEF VideoInv

\* Every step of the three threads preserves it.
LEMMA VideoStep == VideoInv /\ [Next]_vars => VideoInv'
<1> SUFFICES ASSUME VideoInv, [Next]_vars PROVE VideoInv'
  OBVIOUS
<1> USE BoundAssumption
    DEF VideoInv, TypeOK, Addresses, ControlPoints, DecodePoints, RenderPoints, PacketInv,
        ControlOrder, HandEmptyAtPop, PacketsOwned, FrameInv, FrameKept, RoomKept, FramesOwned,
        FramesBounded, Null, controlVars, decodeVars, renderVars
<1>1. ASSUME Start PROVE VideoInv'
  <2>1. /\ packets' \in Queues(Addresses) /\ packets'.state /\ packets'.items = packets.items
        /\ frames' \in Queues(Addresses) /\ frames'.items = frames.items
    BY <1>1, QueueFields DEF Start, Queues
  <2>2. /\ Contents(packets') = Contents(packets) /\ Increasing(packets')
        /\ Contents(frames') = Contents(frames) /\ Increasing(frames')
    BY <2>1, SameItems
  <2>3. isPlaying' \in BOOLEAN
    BY <1>1, Zenon DEF Start
  <2>4. QED
    BY <1>1, <2>1, <2>2, <2>3 DEF Start
<1>2. ASSUME SpawnDecode PROVE VideoInv'
  BY <1>2 DEF SpawnDecode
<1>3. ASSUME SpawnRender PROVE VideoInv'
  BY <1>3 DEF SpawnRender
<1>4. ASSUME Feed PROVE VideoInv'
  <2>1. fed + 1 \in Addresses /\ \A v \in Contents(packets) : v < fed + 1
    BY <1>4 DEF Feed
  <2>2. /\ packets' \in Queues(Addresses) /\ packets'.state /\ Increasing(packets')
        /\ Contents(packets') = Contents(packets) \cup {fed + 1}
    BY <1>4, <2>1, PushedEntries DEF Feed
  <2>3. fed' = fed + 1 /\ fed' \in 0..MaxPackets /\ packet < fed + 1
    BY <1>4 DEF Feed
  <2>4. QED
    BY <1>4, <2>2, <2>3 DEF Feed
<1>5. ASSUME FeedLog PROVE VideoInv'
  BY <1>5 DEF FeedLog
<1>6. ASSUME Stop PROVE VideoInv'
  <2>1. isPlaying' \in BOOLEAN
    BY <1>6, Zenon DEF Stop
  <2>2. QED
    BY <1>6, <2>1 DEF Stop
<1>7. ASSUME HaltFrames PROVE VideoInv'
  <2>1. frames' \in Queues(Addresses) /\ frames'.items = frames.items
    BY <1>7, QueueFields DEF HaltFrames, Queues
  <2>2. Contents(frames') = Contents(frames) /\ Increasing(frames')
    BY <2>1, SameItems
  <2>3. QED
    BY <1>7, <2>1, <2>2 DEF HaltFrames
<1>8. ASSUME HaltPackets PROVE VideoInv'
  <2>1. packets' \in Queues(Addresses) /\ packets'.items = packets.items
    BY <1>8, QueueFields DEF HaltPackets, Queues
  <2>2. Contents(packets') = Contents(packets) /\ Increasing(packets')
    BY <2>1, SameItems
  <2>3. QED
    BY <1>8, <2>1, <2>2 DEF HaltPackets
<1>9. ASSUME Join PROVE VideoInv'
  BY <1>9 DEF Join
<1>10. ASSUME Destroy PROVE VideoInv'
  <2>1. /\ packets' \in Queues(Addresses) /\ packets'.items = <<>> /\ packets'.state = packets.state
        /\ frames' \in Queues(Addresses) /\ frames'.items = <<>>
    <3>1. <<>> \in Seq(Addresses)
      OBVIOUS
    <3>2. QED
      BY ZenonT(60), <1>10, <3>1, QueueFields DEF Destroy
  <2>2. /\ Contents(packets') = {} /\ Increasing(packets')
        /\ Contents(frames') = {} /\ Increasing(frames') /\ Len(frames'.items) = 0
    BY <2>1, NoItems
  <2>3. QED
    BY SMTT(30), <1>10, <2>1, <2>2 DEF Destroy
<1>11. ASSUME DecodeLoop PROVE VideoInv'
  BY <1>11 DEF DecodeLoop, DecodeHasRoom
<1>12. ASSUME DecodePop PROVE VideoInv'
  <2>1. CASE packets.items = <<>>
    BY <1>12, <2>1 DEF DecodePop, Front, Dropped
  <2>2. CASE packets.items # <<>>
    <3>1. /\ packets' \in Queues(Addresses) /\ packets'.state = packets.state
          /\ Increasing(packets')
          /\ packet' \in Addresses /\ Contents(packets) = Contents(packets') \cup {packet'}
          /\ \A v \in Contents(packets') : packet' < v
      BY <1>12, <2>2, DroppedEntries DEF DecodePop, Front
    <3>2. packet = Null /\ packet' \notin Contents(packets')
      BY <1>12, <3>1 DEF DecodePop
    <3>3. QED
      BY <1>12, <3>1, <3>2 DEF DecodePop
  <2>3. QED
    BY <2>1, <2>2
<1>13. ASSUME DecodeCheck PROVE VideoInv'
  BY <1>13 DEF DecodeCheck
<1>14. ASSUME DecodeSend PROVE VideoInv'
  BY <1>14 DEF DecodeSend
<1>15. ASSUME DecodeSendFails PROVE VideoInv'
  BY <1>15 DEF DecodeSendFails
<1>16. ASSUME DecodeFrame PROVE VideoInv'
  <2>1. CASE ~frames.state
    BY <1>16, <2>1 DEF DecodeFrame, Pushed
  <2>2. CASE frames.state
    <3>1. made + 1 \in Addresses /\ \A v \in Contents(frames) : v < made + 1
      BY <1>16 DEF DecodeFrame
    <3>2. /\ frames' \in Queues(Addresses) /\ Increasing(frames')
          /\ Contents(frames') = Contents(frames) \cup {made + 1}
          /\ Len(frames'.items) = Len(frames.items) + 1
      BY <1>16, <2>2, <3>1, PushedEntries DEF DecodeFrame
    <3>3. frame < made + 1 /\ made' = made + 1 /\ liveFrames' = liveFrames \cup {made + 1}
      BY <1>16, <2>2 DEF DecodeFrame
    <3>4. Len(frames.items) \in Nat
      BY DEF Queues
    <3>5. QED
      BY <1>16, <3>2, <3>3, <3>4 DEF DecodeFrame
  <2>3. QED
    BY <2>1, <2>2
<1>17. ASSUME DecodeAgain PROVE VideoInv'
  BY <1>17 DEF DecodeAgain
<1>18. ASSUME DecodeError PROVE VideoInv'
  BY <1>18 DEF DecodeError
<1>19. ASSUME DecodeExit PROVE VideoInv'
  BY <1>19 DEF DecodeExit
<1>20. ASSUME RenderLoop PROVE VideoInv'
  BY <1>20 DEF RenderLoop
<1>21. ASSUME RenderPop PROVE VideoInv'
  <2>0. got' \in BOOLEAN
    BY <1>21, Zenon DEF RenderPop
  <2>1. CASE frames.items = <<>>
    BY ZenonT(60), <1>21, <2>0, <2>1 DEF RenderPop, Front, Dropped
  <2>2. CASE frames.items # <<>>
    <3>1. /\ frames' \in Queues(Addresses) /\ Increasing(frames')
          /\ frame' \in Addresses /\ Contents(frames) = Contents(frames') \cup {frame'}
          /\ \A v \in Contents(frames') : frame' < v
          /\ Len(frames'.items) = Len(frames.items) - 1
      BY <1>21, <2>2, DroppedEntries DEF RenderPop, Front
    <3>2. /\ got'
          /\ (frame # Null => frame \in late) /\ frame' \notin Contents(frames')
      <4>1. got'
        BY <1>21, <2>2, Zenon DEF RenderPop
      <4>2. QED
        BY <1>21, <3>1, <4>1 DEF RenderPop
    <3>3. Len(frames.items) \in Nat
      BY DEF Queues
    <3>4. QED
      BY <1>21, <2>0, <3>1, <3>2, <3>3 DEF RenderPop
  <2>3. QED
    BY <2>1, <2>2
<1>22. ASSUME RenderCheck PROVE VideoInv'
  BY <1>22 DEF RenderCheck
<1>23. ASSUME RenderShow PROVE VideoInv'
  BY <1>23 DEF RenderShow
<1>24. ASSUME RenderLate PROVE VideoInv'
  BY <1>24 DEF RenderLate
<1>25. ASSUME RenderSync PROVE VideoInv'
  <2>1. CASE frames.items = <<>>
    BY <1>25, <2>1 DEF RenderSync, Front, Dropped
  <2>2. CASE frames.items # <<>>
    <3> DEFINE front == Head(frames.items)
    <3>1. /\ frames' \in Queues(Addresses) /\ Increasing(frames')
          /\ front \in Addresses /\ Contents(frames) = Contents(frames') \cup {front}
          /\ \A v \in Contents(frames') : front < v
          /\ Len(frames'.items) = Len(frames.items) - 1
      BY <1>25, <2>2, DroppedEntries DEF RenderSync
    <3>2. liveFrames' = liveFrames \ {front}
      BY <1>25, <2>2 DEF RenderSync, Front
    <3>3. Len(frames.items) \in Nat /\ front \notin Contents(frames') /\ frame < front
      BY <3>1 DEF Queues
    <3> HIDE DEF front
    <3>4. TypeOK' /\ PacketInv'
      BY <1>25, <3>1, <3>2 DEF RenderSync
    <3>5. frame' = frame /\ (frame # Null => frame \in liveFrames')
      BY <1>25, <3>1, <3>2, <3>3 DEF RenderSync
    <3>6. FramesOwned'
      BY <1>25, <3>1, <3>2, <3>3, <3>5 DEF RenderSync
    <3>7. QED
      BY <1>25, <3>1, <3>3, <3>4, <3>5, <3>6 DEF RenderSync
  <2>3. QED
    BY <2>1, <2>2
<1>26. ASSUME RenderRelease PROVE VideoInv'
  <2>1. \A v \in Contents(frames) : 0 < v
    BY DEF Contents, Queues
  <2>2. QED
    BY <1>26, <2>1 DEF RenderRelease
<1>27. ASSUME RenderExit PROVE VideoInv'
  <2>1. isPlaying' \in BOOLEAN
    BY <1>27, Zenon DEF RenderExit
  <2>2. QED
    BY <1>27, <2>1 DEF RenderExit
<1>28. ASSUME Gone PROVE VideoInv'
  BY <1>28 DEF Gone, vars
<1>29. CASE UNCHANGED vars
  BY <1>29 DEF vars
<1>30. QED
  BY <1>1, <1>2, <1>3, <1>4, <1>5, <1>6, <1>7, <1>8, <1>9, <1>10, <1>11, <1>12,
     <1>13, <1>14, <1>15, <1>16, <1>17, <1>18, <1>19, <1>20, <1>21, <1>22,
     <1>23, <1>24, <1>25, <1>26, <1>27, <1>28, <1>29
  DEF Next, ControlStep, StopStep, DecodeStep, RenderStep

\* Packets and frames have one owner, on every way out of decode() and render() and
\* on the path that keeps a late frame in hand; the frame queue is bounded.
THEOREM ChannelAlwaysSafe == Spec => []ChannelInv
<1>1. VideoInv => ChannelInv
  BY DEF VideoInv, PacketInv, FrameInv, ChannelInv
<1>2. QED
  BY VideoInit, VideoStep, <1>1, PTL DEF Spec

\* Frames reach the screen in decoding order, in spite of dropped frames.
THEOREM AlwaysInDecodingOrder == Spec => []DecodingOrder
<1>1. VideoInv => DecodingOrder
  BY DEF VideoInv, FrameInv, Increasing, Contents, DecodingOrder
<1>2. QED
  BY VideoInit, VideoStep, <1>1, PTL DEF Spec
=============================================================================
