------------------------- MODULE AudioChannelProofs -------------------------
(***************************************************************************)
(* Proofs about AudioChannel, for any number of packets and any limits of  *)
(* the packet queue and the frame queue.                                   *)
(***************************************************************************)
EXTENDS AudioChannel, FiniteSetTheorems, TLAPS

\* The addresses of packets and of frames.
Addresses == Nat \ {Null}

\* A queue in which every entry is younger than those before it.
Increasing(q) == \A i, j \in 1..Len(q.items) : i < j => q.items[i] < q.items[j]

\* What start() and stop() have done at which point: the queues work
\* as long as isPlaying says so; no thread is there before it is created.
ControlOrder ==
    /\ cpc \in {"new", "spawn"} => dpc = "none"
    /\ cpc \in {"new", "spawn", "spawn2"} => ppc = "none"
    /\ cpc \in {"spawn", "spawn2", "running"} => packets.state
    /\ isPlaying => frames.state /\ cpc \in {"spawn", "spawn2", "running"}

\* What has ended when: the two joined threads before swr_free, the callback run by
\* hand with its thread, OpenSL's callback and the player at Destroy, the queues'
\* entries with the channel.
EndOrder ==
    /\ cpc \in {"swr", "destroy", "stopped", "deleted"} => dpc = "done" /\ ppc = "done"
    /\ cb["play"] # "idle" => ppc = "callback"
    /\ cb["opensl"] # "idle" => player = "playing"
    /\ cpc \in {"stopped", "deleted"} => player # "playing"
    /\ swr \/ cpc \in {"destroy", "stopped", "deleted"}
    /\ FreedWhileDestroying
    /\ cpc = "deleted" => Contents(packets) = {} /\ Contents(frames) = {}

\* decode() comes to pop with an empty hand, so that pop overwrites nothing.
HandEmptyAtPop == packet # Null => dpc \in {"check", "send", "exit"}

\* So does getPcm(); after pop its hand is empty only if the channel has stopped.
FrameInHand ==
    \A x \in Callbacks :
        /\ frame[x] # Null => cb[x] \in {"check", "convert", "freed"}
        /\ cb[x] = "convert" => frame[x] # Null
        /\ cb[x] = "check" /\ isPlaying => frame[x] # Null

\* The room decode() has seen is still there when it pushes: nobody else does.
RoomKept == dpc \in {"pop", "check", "send", "receive"} => Len(frames.items) <= FrameLimit

\* The callback is a token: with OpenSL as a buffer, or with one of the threads.
Active(x) == IF cb[x] = "idle" THEN 0 ELSE 1
Tokens == queued + Active("play") + Active("opensl")

\* There is no token before init_start() makes one, and never a second; while it
\* plays and no conversion was silent, it is not lost.
OneToken ==
    /\ ppc \in {"none", "setup"} => Tokens = 0 /\ player = "none"
    /\ Tokens <= 1
    /\ isPlaying /\ player = "playing" /\ ~silent => Tokens = 1

\* Three parts of the inductive invariant: packets, frames, the callback.
PacketInv ==
    /\ HandEmptyAtPop /\ Increasing(packets)
    /\ livePackets = Contents(packets) \cup ({packet} \ {Null})
    /\ packet \notin Contents(packets)
FrameInv ==
    /\ FrameInHand /\ RoomKept /\ FramesBounded /\ Increasing(frames)
    /\ liveFrames = Contents(frames) \cup ({frame["play"], frame["opensl"]} \ {Null})
    /\ \A x \in Callbacks : frame[x] \notin Contents(frames)
    /\ frame["play"] = frame["opensl"] => frame["play"] = Null

\* The inductive invariant of the channel.
AudioInv == TypeOK /\ ControlOrder /\ EndOrder /\ PacketInv /\ FrameInv /\ OneToken

-----------------------------------------------------------------------------
(* What the operations of a message_queue do to its entries. *)

\* gotoWork and backWork leave the entries, and replacing those leaves the state.
LEMMA QueueFields ==
  ASSUME NEW q \in Queues(Addresses), NEW s \in Seq(Addresses)
  PROVE  /\ Working(q) \in Queues(Addresses) /\ Working(q).state /\ Working(q).items = q.items
         /\ Halted(q) \in Queues(Addresses) /\ Halted(q).items = q.items
         /\ [q EXCEPT !.items = s] \in Queues(Addresses)
         /\ [q EXCEPT !.items = s].state = q.state /\ [q EXCEPT !.items = s].items = s
<1>1. Working(q) \in Queues(Addresses) /\ Halted(q) \in Queues(Addresses)
  BY Zenon DEF Queues, Working, Halted
<1>2. Working(q).state /\ Working(q).items = q.items /\ Halted(q).items = q.items
  BY DEF Queues, Working, Halted
<1>3. [q EXCEPT !.items = s] \in Queues(Addresses)
  BY DEF Queues
<1>4. [q EXCEPT !.items = s].state = q.state /\ [q EXCEPT !.items = s].items = s
  BY DEF Queues
<1>5. QED
  BY <1>1, <1>2, <1>3, <1>4

\* A queue's entries and their order are those of its items.
LEMMA SameItems ==
  ASSUME NEW p, NEW q, p.items = q.items
  PROVE  Contents(p) = Contents(q) /\ (Increasing(p) <=> Increasing(q))
  BY DEF Contents, Increasing

\* clear leaves nothing.
LEMMA NoItems ==
  ASSUME NEW q, q.items = <<>>
  PROVE  Contents(q) = {} /\ Increasing(q) /\ Len(q.items) = 0
  BY DEF Contents, Increasing

\* push of a younger entry on a queue that works.
LEMMA PushedEntries ==
  ASSUME NEW q \in Queues(Addresses), Increasing(q), q.state,
         NEW v \in Addresses, \A w \in Contents(q) : w < v
  PROVE  /\ Pushed(q, v) \in Queues(Addresses) /\ Pushed(q, v).state = q.state
         /\ Increasing(Pushed(q, v))
         /\ Contents(Pushed(q, v)) = Contents(q) \cup {v}
         /\ Len(Pushed(q, v).items) = Len(q.items) + 1
<1> DEFINE p == Pushed(q, v)
<1>1. q.items \in Seq(Addresses) /\ Len(q.items) \in Nat /\ Append(q.items, v) \in Seq(Addresses)
  BY DEF Queues
<1>2. p \in Queues(Addresses) /\ p.state = q.state /\ p.items = Append(q.items, v)
  BY <1>1, QueueFields DEF Pushed
<1> HIDE DEF p
<1>3. /\ Len(p.items) = Len(q.items) + 1
      /\ \A i \in 1..Len(q.items) : p.items[i] = q.items[i]
      /\ p.items[Len(q.items) + 1] = v
  BY <1>1, <1>2
<1>4. \A i \in 1..Len(q.items) : q.items[i] < v /\ q.items[i] \in Nat
  BY <1>1 DEF Contents, Addresses
<1>5. Increasing(p)
  BY SMTT(30), <1>1, <1>3, <1>4 DEF Increasing
<1>6. Contents(p) = Contents(q) \cup {v}
  <2>1. 1..Len(p.items) = 1..Len(q.items) \cup {Len(q.items) + 1}
    BY <1>1, <1>3
  <2>2. QED
    BY <1>3, <2>1 DEF Contents
<1>7. QED
  BY <1>2, <1>3, <1>5, <1>6 DEF p

\* pop or sync of the front of a queue that has one.
LEMMA DroppedEntries ==
  ASSUME NEW q \in Queues(Addresses), Increasing(q), q.items # <<>>
  PROVE  /\ Dropped(q) \in Queues(Addresses) /\ Dropped(q).state = q.state
         /\ Increasing(Dropped(q))
         /\ Head(q.items) \in Addresses
         /\ Contents(q) = Contents(Dropped(q)) \cup {Head(q.items)}
         /\ \A v \in Contents(Dropped(q)) : Head(q.items) < v
         /\ Len(Dropped(q).items) = Len(q.items) - 1
<1> DEFINE p == Dropped(q)
<1>1. q.items \in Seq(Addresses) /\ Len(q.items) \in Nat \ {0} /\ Tail(q.items) \in Seq(Addresses)
  BY DEF Queues
<1>2. p \in Queues(Addresses) /\ p.state = q.state /\ p.items = Tail(q.items)
  BY <1>1, QueueFields DEF Dropped
<1> HIDE DEF p
<1>3. /\ Len(p.items) = Len(q.items) - 1
      /\ Head(q.items) = q.items[1]
      /\ \A i \in 1..Len(p.items) : i + 1 \in 2..Len(q.items) /\ p.items[i] = q.items[i + 1]
      /\ \A i \in 2..Len(q.items) : i - 1 \in 1..Len(p.items) /\ q.items[i] = p.items[i - 1]
  BY <1>1, <1>2
<1>4. Increasing(p)
  BY <1>1, <1>3 DEF Increasing
<1>5. 1 \in 1..Len(q.items) /\ 1..Len(q.items) = {1} \cup 2..Len(q.items)
  BY <1>1
<1>6. Contents(q) = Contents(p) \cup {Head(q.items)}
  <2>1. \A v : v \in Contents(p) <=> \E i \in 2..Len(q.items) : v = q.items[i]
    BY SMTT(30), <1>3 DEF Contents
  <2>2. QED
    BY SMTT(30), <1>3, <1>5, <2>1 DEF Contents
<1>7. \A v \in Contents(p) : Head(q.items) < v
  <2>1. \A i \in 2..Len(q.items) : q.items[1] < q.items[i]
    BY <1>1, <1>5 DEF Increasing
  <2>2. QED
    BY <1>3, <2>1 DEF Contents
<1>8. Head(q.items) \in Addresses
  BY <1>1, <1>3, <1>5
<1>9. QED
  BY <1>2, <1>3, <1>4, <1>6, <1>7, <1>8 DEF p

-----------------------------------------------------------------------------
(* The invariant. *)

\* The constructor's state satisfies it.
LEMMA AudioInit == Init => AudioInv
<1> SUFFICES ASSUME Init PROVE AudioInv
  OBVIOUS
<1>1. NewQueue \in Queues(Addresses) /\ NewQueue.items = <<>>
  <2>1. FALSE \in BOOLEAN /\ <<>> \in Seq(Addresses)
    OBVIOUS
  <2>2. QED
    BY <2>1, Zenon DEF NewQueue, Queues
<1>2. TypeOK
  <2>1. isPlaying \in BOOLEAN /\ silent \in BOOLEAN /\ swr \in BOOLEAN
    BY Zenon DEF Init
  <2>2. QED
    BY <1>1, <2>1, BoundAssumption DEF Init, TypeOK, Addresses, ControlPoints, DecodePoints,
       CallbackPoints, Callbacks, Null
<1>3. ControlOrder /\ EndOrder /\ PacketInv /\ OneToken
  BY <1>1, NoItems DEF Init, ControlOrder, EndOrder, FreedWhileDestroying, PacketInv, HandEmptyAtPop, OneToken, Tokens,
     Active, Callbacks
<1>4. FrameInv
  BY SMTT(30), <1>1, NoItems, BoundAssumption
  DEF Init, FrameInv, FrameInHand, RoomKept, FramesBounded,
     Callbacks
<1>5. QED
  BY <1>2, <1>3, <1>4 DEF AudioInv

\* Every step of the threads preserves it.
LEMMA AudioStep == AudioInv /\ [Next]_vars => AudioInv'
<1> SUFFICES ASSUME AudioInv, [Next]_vars PROVE AudioInv'
  OBVIOUS
<1> USE BoundAssumption
    DEF AudioInv, TypeOK, Addresses, ControlPoints, DecodePoints, CallbackPoints, Callbacks,
        ControlOrder, EndOrder, FreedWhileDestroying, PacketInv, HandEmptyAtPop, FrameInv, FrameInHand,
        RoomKept, FramesBounded, OneToken, Tokens, Active, Null, controlVars, decodeVars, playVars, heap
<1>1. ASSUME Start PROVE AudioInv'
  <2>1. /\ packets' \in Queues(Addresses) /\ packets'.state /\ packets'.items = packets.items
        /\ frames' \in Queues(Addresses) /\ frames'.state /\ frames'.items = frames.items
    BY <1>1, QueueFields DEF Start, Queues
  <2>2. /\ Contents(packets') = Contents(packets) /\ Increasing(packets')
        /\ Contents(frames') = Contents(frames) /\ Increasing(frames')
    BY <2>1, SameItems
  <2>3. isPlaying' \in BOOLEAN
    BY <1>1, Zenon DEF Start
  <2>4. QED
    BY <1>1, <2>1, <2>2, <2>3 DEF Start
<1>2. ASSUME SpawnDecode PROVE AudioInv'
  BY <1>2 DEF SpawnDecode
<1>3. ASSUME SpawnPlay PROVE AudioInv'
  BY <1>3 DEF SpawnPlay
<1>4. ASSUME Feed PROVE AudioInv'
  <2>1. fed + 1 \in Addresses /\ \A v \in Contents(packets) : v < fed + 1
    BY <1>4 DEF Feed
  <2>2. /\ packets' \in Queues(Addresses) /\ packets'.state /\ Increasing(packets')
        /\ Contents(packets') = Contents(packets) \cup {fed + 1}
    BY <1>4, <2>1, PushedEntries DEF Feed
  <2>3. fed' = fed + 1 /\ fed' \in 0..MaxPackets /\ packet < fed + 1
    BY <1>4 DEF Feed
  <2>4. QED
    BY <1>4, <2>2, <2>3 DEF Feed
<1>5. ASSUME Stop PROVE AudioInv'
  <2>1. isPlaying' \in BOOLEAN
    BY <1>5, Zenon DEF Stop
  <2>2. QED
    BY <1>5, <2>1 DEF Stop
<1>6. ASSUME HaltPackets PROVE AudioInv'
  <2>1. packets' \in Queues(Addresses) /\ packets'.items = packets.items
    BY <1>6, QueueFields DEF HaltPackets, Queues
  <2>2. Contents(packets') = Contents(packets) /\ Increasing(packets')
    BY <2>1, SameItems
  <2>3. QED
    BY <1>6, <2>1, <2>2 DEF HaltPackets
<1>7. ASSUME HaltFrames PROVE AudioInv'
  <2>1. frames' \in Queues(Addresses) /\ frames'.items = frames.items
    BY <1>7, QueueFields DEF HaltFrames, Queues
  <2>2. Contents(frames') = Contents(frames) /\ Increasing(frames')
    BY <2>1, SameItems
  <2>3. QED
    BY <1>7, <2>1, <2>2 DEF HaltFrames
<1>8. ASSUME Join PROVE AudioInv'
  BY <1>8 DEF Join
<1>9. ASSUME FreeSwr PROVE AudioInv'
  <2>1. swr' \in BOOLEAN
    BY <1>9, Zenon DEF FreeSwr
  <2>2. QED
    BY <1>9, <2>1 DEF FreeSwr
<1>10. ASSUME DestroyPlayer PROVE AudioInv'
  BY <1>10 DEF DestroyPlayer
<1>11. ASSUME Destroy PROVE AudioInv'
  <2>1. /\ packets' \in Queues(Addresses) /\ packets'.items = <<>> /\ packets'.state = packets.state
        /\ frames' \in Queues(Addresses) /\ frames'.items = <<>> /\ frames'.state = frames.state
    <3>1. <<>> \in Seq(Addresses)
      OBVIOUS
    <3>2. packets \in Queues(Addresses) /\ frames \in Queues(Addresses)
      OBVIOUS
    <3>3. /\ packets' = [packets EXCEPT !.items = <<>>]
          /\ frames' = [frames EXCEPT !.items = <<>>]
      BY <1>11 DEF Destroy
    <3>4. packets' \in Queues(Addresses) /\ frames' \in Queues(Addresses)
      BY <3>1, <3>2, <3>3, QueueFields
    <3>5. packets'.items = <<>> /\ frames'.items = <<>>
      BY <3>1, <3>2, <3>3, QueueFields
    <3>6. packets'.state = packets.state
      BY <3>2, <3>3 DEF Queues
    <3>7. frames'.state = frames.state
      BY <3>2, <3>3 DEF Queues
    <3>8. QED
      BY <3>4, <3>5, <3>6, <3>7
  <2>2. /\ Contents(packets') = {} /\ Increasing(packets')
        /\ Contents(frames') = {} /\ Increasing(frames') /\ Len(frames'.items) = 0
    BY <2>1, NoItems
  <2>3. QED
    BY SMTT(30), <1>11, <2>1, <2>2 DEF Destroy
<1>12. ASSUME DecodeLoop PROVE AudioInv'
  BY <1>12 DEF DecodeLoop, DecodeHasRoom
<1>13. ASSUME DecodePop PROVE AudioInv'
  <2>1. CASE packets.items = <<>>
    BY <1>13, <2>1 DEF DecodePop, Front, Dropped
  <2>2. CASE packets.items # <<>>
    <3>1. /\ packets' \in Queues(Addresses) /\ packets'.state = packets.state
          /\ Increasing(packets')
          /\ packet' \in Addresses /\ Contents(packets) = Contents(packets') \cup {packet'}
          /\ \A v \in Contents(packets') : packet' < v
      BY <1>13, <2>2, DroppedEntries DEF DecodePop, Front
    <3>2. packet = Null /\ packet' \notin Contents(packets')
      BY <1>13, <3>1 DEF DecodePop
    <3>3. QED
      BY <1>13, <3>1, <3>2 DEF DecodePop
  <2>3. QED
    BY <2>1, <2>2
<1>14. ASSUME DecodeCheck PROVE AudioInv'
  BY <1>14 DEF DecodeCheck
<1>15. ASSUME DecodeSend PROVE AudioInv'
  BY <1>15 DEF DecodeSend
<1>16. ASSUME DecodeFrame PROVE AudioInv'
  <2>1. CASE ~frames.state
    BY <1>16, <2>1 DEF DecodeFrame, Pushed
  <2>2. CASE frames.state
    <3>1. made + 1 \in Addresses /\ \A v \in Contents(frames) : v < made + 1
      BY <1>16 DEF DecodeFrame
    <3>2. /\ frames' \in Queues(Addresses) /\ frames'.state /\ Increasing(frames')
          /\ Contents(frames') = Contents(frames) \cup {made + 1}
          /\ Len(frames'.items) = Len(frames.items) + 1
      BY <1>16, <2>2, <3>1, PushedEntries DEF DecodeFrame
    <3>3. \A x \in Callbacks : frame[x] < made + 1
      BY <1>16, <2>2 DEF DecodeFrame
    <3>4. Len(frames.items) \in Nat
      BY DEF Queues
    <3>5. made' = made + 1 /\ liveFrames' = liveFrames \cup {made + 1}
      BY <1>16, <2>2 DEF DecodeFrame
    <3>6. QED
      BY <1>16, <3>2, <3>3, <3>4, <3>5 DEF DecodeFrame
  <2>3. QED
    BY <2>1, <2>2
<1>17. ASSUME DecodeNoFrame PROVE AudioInv'
  BY <1>17 DEF DecodeNoFrame
<1>18. ASSUME DecodeExit PROVE AudioInv'
  BY <1>18 DEF DecodeExit
<1>19. ASSUME SetupFails PROVE AudioInv'
  BY <1>19 DEF SetupFails
<1>20. ASSUME SetupDone PROVE AudioInv'
  BY <1>20 DEF SetupDone
<1>20a. ASSUME SetupCrashes PROVE AudioInv'
  BY <1>20a DEF SetupCrashes
<1>21. ASSUME PlayReturns PROVE AudioInv'
  BY <1>21 DEF PlayReturns
<1>22. ASSUME BufferPlayed PROVE AudioInv'
  BY <1>22 DEF BufferPlayed
<1>23. ASSUME NEW x \in Callbacks, GetPcmPop(x) PROVE AudioInv'
  <2>1. frame[x] = Null
    BY <1>23 DEF GetPcmPop
  <2>2. CASE frames.items = <<>>
    <3>1. ~isPlaying /\ UNCHANGED <<frames, frame>>
      BY <1>23, <2>1, <2>2 DEF GetPcmPop, PopReturns, Front, Dropped
    <3>2. QED
      BY <1>23, <2>1, <3>1 DEF GetPcmPop
  <2>3. CASE frames.items # <<>>
    <3> DEFINE front == Head(frames.items)
    <3>1. /\ frames' \in Queues(Addresses) /\ frames'.state = frames.state
          /\ Increasing(frames')
          /\ front \in Addresses /\ Contents(frames) = Contents(frames') \cup {front}
          /\ \A v \in Contents(frames') : front < v
          /\ Len(frames'.items) = Len(frames.items) - 1
      BY <1>23, <2>3, DroppedEntries DEF GetPcmPop
    <3>2. frame' = [frame EXCEPT ![x] = front]
      BY <1>23, <2>3 DEF GetPcmPop, Front
    <3>3. Len(frames.items) \in Nat /\ front \notin Contents(frames')
      BY <3>1 DEF Queues
    <3> HIDE DEF front
    <3>4. TypeOK' /\ ControlOrder' /\ EndOrder' /\ PacketInv' /\ OneToken'
      BY <1>23, <3>1, <3>2 DEF GetPcmPop
    <3>5. FrameInv'
      BY <1>23, <2>1, <3>1, <3>2, <3>3 DEF GetPcmPop
    <3>6. QED
      BY <3>4, <3>5
  <2>4. QED
    BY <2>2, <2>3
<1>24. ASSUME NEW x \in Callbacks, GetPcmStopped(x) PROVE AudioInv'
  BY <1>24 DEF GetPcmStopped
<1>25. ASSUME NEW x \in Callbacks, GetPcmPlaying(x) PROVE AudioInv'
  BY <1>25 DEF GetPcmPlaying
<1>26. ASSUME NEW x \in Callbacks, GetPcmConvert(x) PROVE AudioInv'
  <2>1. silent' \in BOOLEAN
    BY <1>26, Zenon DEF GetPcmConvert
  <2>2. QED
    BY <1>26, <2>1 DEF GetPcmConvert
<1>26a. ASSUME NEW x \in Callbacks, ConvertFreed(x) PROVE AudioInv'
  BY <1>26a DEF ConvertFreed
<1>27. ASSUME NEW x \in Callbacks, Enqueue(x) PROVE AudioInv'
  BY <1>27 DEF Enqueue
<1>28. ASSUME Gone PROVE AudioInv'
  BY <1>28 DEF Gone, vars
<1>29. CASE UNCHANGED vars
  BY <1>29 DEF vars
<1>30. QED
  BY ZenonT(60), <1>1, <1>2, <1>3, <1>4, <1>5, <1>6, <1>7, <1>8, <1>9, <1>10, <1>11, <1>12,
     <1>13, <1>14, <1>15, <1>16, <1>17, <1>18, <1>19, <1>20, <1>20a, <1>21, <1>22,
     <1>23, <1>24, <1>25, <1>26, <1>26a, <1>27, <1>28, <1>29
  DEF Next, Step, ControlStep, StopStep, DecodeStep, PlayStep, CallbackStep

\* The invariant holds throughout.
LEMMA AudioAlways == Spec => []AudioInv
  BY AudioInit, AudioStep, PTL DEF Spec

\* Everything has one owner, a conversion has its frame, although getPcm() does not
\* look at what pop returned, the one buffer has one user, the frame queue is bounded.
THEOREM ChannelAlwaysSafe == Spec => []ChannelInv
<1>1. AudioInv => ChannelInv
  <2> SUFFICES ASSUME AudioInv PROVE ChannelInv
    OBVIOUS
  <2>1. {frame[x] : x \in Callbacks} = {frame["play"], frame["opensl"]}
    BY DEF Callbacks
  <2>2. AudioOwned
    BY <2>1 DEF AudioInv, PacketInv, FrameInv, AudioOwned
  <2>3. FrameWhenConverting
    BY DEF AudioInv, FrameInv, FrameInHand, FrameWhenConverting, Callbacks
  <2>4. BufferUndisturbed
    BY DEF AudioInv, TypeOK, OneToken, Tokens, Active, BufferUndisturbed, Callbacks
  <2>5. QED
    BY <2>2, <2>3, <2>4 DEF AudioInv, FrameInv, ChannelInv
<1>2. QED
  BY AudioAlways, <1>1, PTL

\* The set of callbacks under way has as many elements as they have tokens.
LEMMA CallbacksCounted ==
  Cardinality({x \in Callbacks : cb[x] # "idle"}) = Active("play") + Active("opensl")
<1> DEFINE S == {x \in Callbacks : cb[x] # "idle"}
<1>1. \/ S = {} /\ Active("play") = 0 /\ Active("opensl") = 0
      \/ S = {"play"} /\ Active("play") = 1 /\ Active("opensl") = 0
      \/ S = {"opensl"} /\ Active("play") = 0 /\ Active("opensl") = 1
      \/ S = {"play"} \cup {"opensl"} /\ Active("play") = 1 /\ Active("opensl") = 1
  BY DEF Callbacks, Active
<1>2. Cardinality({}) = 0
  BY FS_EmptySet
<1>3. /\ IsFiniteSet({"play"}) /\ Cardinality({"play"}) = 1
      /\ Cardinality({"opensl"}) = 1
  BY FS_Singleton
<1>4. Cardinality({"play"} \cup {"opensl"}) = 2
  BY <1>3, FS_AddElement
<1> HIDE DEF S
<1>5. QED
  BY <1>1, <1>2, <1>3, <1>4 DEF S

\* While it plays, the callback keeps itself going: exactly one buffer is with OpenSL
\* or one callback under way, as long as every conversion yields samples.
THEOREM CallbackChainAlwaysAlive == Spec => []CallbackChainAlive
<1>1. AudioInv => CallbackChainAlive
  BY CallbacksCounted DEF AudioInv, TypeOK, OneToken, Tokens, Active, CallbackChainAlive
<1>2. QED
  BY AudioAlways, <1>1, PTL

\* When stop() is through, nothing runs in the channel or can come back to it, and
\* when it is deleted nothing that it allocated is left: what the deletion relies on.
\* swr_free goes against a conversion on OpenSL's thread only, before Destroy is through.
THEOREM AlwaysQuietWhenStopped == Spec => []QuietWhenStopped
<1>1. AudioInv => QuietWhenStopped
  <2> SUFFICES ASSUME AudioInv, cpc \in {"stopped", "deleted"}
               PROVE  /\ dpc = "done" /\ ppc = "done" /\ player # "playing"
                      /\ packet = Null
                      /\ \A x \in Callbacks : cb[x] = "idle" /\ frame[x] = Null
                      /\ cpc = "deleted" => livePackets = {} /\ liveFrames = {}
    BY DEF QuietWhenStopped, AudioInv, EndOrder
  <2>1. dpc = "done" /\ ppc = "done" /\ player # "playing"
    BY DEF AudioInv, EndOrder
  <2>2. packet = Null
    BY <2>1 DEF AudioInv, PacketInv, HandEmptyAtPop
  <2>3. \A x \in Callbacks : cb[x] = "idle" /\ frame[x] = Null
    BY <2>1 DEF AudioInv, EndOrder, FrameInv, FrameInHand, Callbacks
  <2>4. cpc = "deleted" => livePackets = {} /\ liveFrames = {}
    BY <2>2, <2>3 DEF AudioInv, EndOrder, PacketInv, FrameInv, Callbacks
  <2>5. QED
    BY <2>1, <2>2, <2>3, <2>4
<1>2. QED
  BY AudioAlways, <1>1, PTL
=============================================================================
