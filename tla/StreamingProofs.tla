---------------------------- MODULE StreamingProofs ---------------------------
(***************************************************************************)
(* Proofs about Streaming for every pipe, chunk size and number of units:  *)
(* the frames of a session are handled once and in step, and the audio     *)
(* keeps its channels apart.                                               *)
(***************************************************************************)
EXTENDS Streaming, Integers, SequenceTheorems, TLAPS

-----------------------------------------------------------------------------
(* The frames of a session *)

\* What has been read has arrived, and a frame that was handled took two units.
Counts ==
    /\ arrived \in Nat /\ consumed \in Nat /\ start \in Nat /\ base \in Nat /\ handled \in Nat
    /\ start <= consumed /\ consumed <= arrived
    /\ phase = "upgrading" => handled = 0

\* The inductive invariant.
SessionInv == Counts /\ EachFrameOnce /\ OutOfStepOnlyIfTorn

LEMMA InitSession == Init => SessionInv
BY DEF Init, SessionInv, Counts, EachFrameOnce, OutOfStepOnlyIfTorn, Aligned

\* The steps between the turns leave the stream as it is.
BetweenTurns ==
    \/ StartConnect \/ ConnectFails \/ UpgradePanics \/ MicChunkRead
    \/ SendSucceeds \/ SendFails \/ PongDone \/ RecvFails \/ CloseReturns
    \/ ServerCloses \/ MicDies

LEMMA BetweenTurnsStep ==
    ASSUME SessionInv, BetweenTurns
    PROVE  SessionInv'
<1>1. UNCHANGED stream /\ (phase' = "upgrading" => phase = "upgrading")
  BY DEF BetweenTurns, StartConnect, ConnectFails, UpgradePanics, MicChunkRead,
         SendSucceeds, SendFails, PongDone, RecvFails, CloseReturns,
         ServerCloses, MicDies, LeaveLoop
<1> QED
  BY <1>1
  DEF SessionInv, Counts, EachFrameOnce, OutOfStepOnlyIfTorn, Aligned, stream

LEMMA NextSession ==
    ASSUME SessionInv, [Next]_vars
    PROVE  SessionInv'
<1> USE DEF SessionInv, Counts, EachFrameOnce, OutOfStepOnlyIfTorn, Aligned
<1>1. CASE ConnectSucceeds
  BY <1>1 DEF ConnectSucceeds
<1>2. CASE UpgradeSucceeds
  <2>1. PICK n \in 0 .. arrived :
          consumed' = n /\ start' = n /\ base' = n /\ torn' = (n % 2 = 1)
    BY <1>2 DEF UpgradeSucceeds
  <2>2. ~torn' => n % 2 # 1
    BY <2>1, Zenon
  <2>3. /\ consumed' = n /\ start' = n /\ base' = n
        /\ handled' = 0 /\ arrived' = arrived /\ phase' # "upgrading"
    BY <1>2, <2>1, Zenon DEF UpgradeSucceeds
  <2>4. n \in Nat /\ n <= arrived /\ (n % 2 # 1 => n % 2 = 0)
    OBVIOUS
  <2>5. Counts'
    BY <2>3, <2>4
  <2>6. EachFrameOnce'
    BY <2>3, <2>4
  <2>7. OutOfStepOnlyIfTorn'
    BY <2>2, <2>3, <2>4
  <2> QED
    BY <2>5, <2>6, <2>7
<1>3. CASE ReadHeader
  BY <1>3 DEF ReadHeader
<1>4. CASE ReadPayload
  BY <1>4 DEF ReadPayload
<1>5. CASE ReadGarbage
  BY <1>5 DEF ReadGarbage
<1>6. CASE RecvTimesOut
  <2>1. ~torn' => ~torn /\ consumed = start
    BY <1>6, Zenon DEF RecvTimesOut
  <2> QED
    BY <1>6, <2>1 DEF RecvTimesOut
<1>7. CASE UnitArrives
  BY <1>7 DEF UnitArrives
<1>8. CASE UNCHANGED vars
  BY <1>8 DEF vars, stream
<1>9. CASE BetweenTurns
  BY <1>9, BetweenTurnsStep
<1> QED
  BY <1>1, <1>2, <1>3, <1>4, <1>5, <1>6, <1>7, <1>8, <1>9
  DEF Next, TaskStep, BetweenTurns

\* The session does in Streaming what it does alone.
LEMMA SessionSteps == [StreamingNext]_allVars => [Next]_vars
BY DEF StreamingNext, allVars, SessionStep, ChunkRead, WithoutMic, Core1,
       Core1Ends, FarEnd, Next, TaskStep

LEMMA SessionHolds == StreamingSpec => []SessionInv
<1>1. StreamingInit => SessionInv
  BY InitSession DEF StreamingInit
<1>2. SessionInv /\ [StreamingNext]_allVars => SessionInv'
  BY SessionSteps, NextSession
<1> QED
  BY <1>1, <1>2, PTL DEF StreamingSpec

\* Whatever arrives when, and however often the task turns from receiving to
\* sending: as long as no frame is cut, each is handled once.
THEOREM FramesAreHandledOnce == StreamingSpec => []EachFrameOnce
BY SessionHolds, PTL DEF SessionInv

\* And a receive begins within a frame only after one was cut.
THEOREM InStepUnlessTorn == StreamingSpec => []OutOfStepOnlyIfTorn
BY SessionHolds, PTL DEF SessionInv
-----------------------------------------------------------------------------
(* The channels *)

\* Whole stereo frames, sample by sample.
Interleaved(s) ==
    /\ s \in Seq({"L", "R"})
    /\ Len(s) % 2 = 0
    /\ \A n \in 1 .. Len(s) : s[n] = IF n % 2 = 1 THEN "L" ELSE "R"

LEMMA FramesInterleaved ==
    ASSUME NEW n \in Nat
    PROVE  Interleaved(Audio!Frames(n)) /\ Len(Audio!Frames(n)) = 2 * n
BY DEF Audio!Frames, Interleaved

LEMMA InterleavedIsFrames ==
    ASSUME NEW s, Interleaved(s)
    PROVE  Audio!IsFrames(s)
<1>1. PICK len \in Nat : len = Len(s)
  BY LenProperties DEF Interleaved
<1>2. len % 2 = 0 /\ len \div 2 \in Nat /\ 2 * (len \div 2) = len
  BY <1>1 DEF Interleaved
<1>3. PICK frames : frames = Audio!Frames(len \div 2)
  OBVIOUS
<1>4. Interleaved(frames) /\ Len(frames) = len
  BY <1>2, <1>3, FramesInterleaved
<1>5. s = frames
  BY <1>1, <1>4, SeqEqual DEF Interleaved
<1> QED
  BY <1>1, <1>2, <1>3, <1>5 DEF Audio!IsFrames

\* Frames behind frames, the first frames, and what is left behind them.
LEMMA InterleavedConcat ==
    ASSUME NEW s, NEW t, Interleaved(s), Interleaved(t)
    PROVE  Interleaved(s \o t) /\ Len(s \o t) = Len(s) + Len(t)
<1>1. PICK m \in Nat : m = Len(s) /\ m % 2 = 0
  BY LenProperties DEF Interleaved
<1>2. PICK k \in Nat : k = Len(t) /\ k % 2 = 0
  BY LenProperties DEF Interleaved
<1>3. /\ s \o t \in Seq({"L", "R"})
      /\ Len(s \o t) = m + k
      /\ \A n \in 1 .. m + k : (s \o t)[n] = IF n <= m THEN s[n] ELSE t[n - m]
  BY <1>1, <1>2, ConcatProperties DEF Interleaved
<1>4. ASSUME NEW n \in 1 .. m + k
      PROVE  (s \o t)[n] = IF n % 2 = 1 THEN "L" ELSE "R"
  <2>1. CASE n <= m
    BY <1>1, <1>3, <2>1 DEF Interleaved
  <2>2. CASE ~(n <= m)
    <3>1. PICK j \in Int : j = n - m
      BY <1>1
    <3>2. j \in 1 .. k /\ j % 2 = n % 2
      BY <1>1, <1>2, <2>2, <3>1
    <3> QED
      BY <1>2, <1>3, <2>2, <3>1, <3>2 DEF Interleaved
  <2> QED
    BY <2>1, <2>2
<1>5. (m + k) % 2 = 0
  BY <1>1, <1>2
<1> QED
  BY <1>1, <1>2, <1>3, <1>4, <1>5 DEF Interleaved

LEMMA InterleavedParts ==
    ASSUME NEW s, Interleaved(s), NEW m \in 0 .. Len(s), m % 2 = 0
    PROVE  /\ Interleaved(Audio!Take(s, m)) /\ Len(Audio!Take(s, m)) = m
           /\ Interleaved(Audio!Leave(s, m)) /\ Len(Audio!Leave(s, m)) = Len(s) - m
<1>1. PICK len \in Nat : len = Len(s) /\ len % 2 = 0
  BY LenProperties DEF Interleaved
<1>2. m \in Nat /\ m <= len /\ (len - m) % 2 = 0
  BY <1>1
<1>3. \A n \in 1 .. len : s[n] \in {"L", "R"}
  BY <1>1, ElementOfSeq DEF Interleaved
<1>4. PICK front : front = SubSeq(s, 1, m)
  OBVIOUS
<1>5. /\ front \in Seq({"L", "R"}) /\ Len(front) = m
      /\ \A n \in 1 .. m : front[n] = s[n]
  BY <1>1, <1>2, <1>3, <1>4, SubSeqProperties
<1>6. Interleaved(front)
  BY <1>1, <1>2, <1>5 DEF Interleaved
<1>7. PICK back : back = SubSeq(s, m + 1, len)
  OBVIOUS
<1>8. PICK first \in Nat : first = m + 1
  BY <1>2
<1>9. \A n \in first .. len : s[n] \in {"L", "R"}
  BY <1>2, <1>3, <1>8
<1>10. /\ back \in Seq({"L", "R"})
       /\ Len(back) = IF first <= len THEN len - first + 1 ELSE 0
       /\ \A n \in 1 .. len - first + 1 : back[n] = s[first + n - 1]
  BY <1>1, <1>7, <1>8, <1>9, SubSeqProperties
<1>11. Len(back) = len - m /\ \A n \in 1 .. len - m : back[n] = s[n + m]
  BY <1>2, <1>8, <1>10
<1>12. ASSUME NEW n \in 1 .. len - m
       PROVE  back[n] = IF n % 2 = 1 THEN "L" ELSE "R"
  <2>1. PICK j \in 1 .. len : j = n + m
    BY <1>2
  <2>2. j % 2 = n % 2
    BY <2>1, <1>2
  <2> QED
    BY <1>1, <1>11, <2>1, <2>2 DEF Interleaved
<1>13. Interleaved(back)
  BY <1>2, <1>10, <1>11, <1>12 DEF Interleaved
<1> QED
  BY <1>1, <1>4, <1>5, <1>6, <1>7, <1>11, <1>13 DEF Audio!Take, Audio!Leave

\* An even place in a ring of even length, however far it moves on.
LEMMA EvenRest ==
    ASSUME NEW a \in Nat, NEW b \in Nat \ {0}, a % 2 = 0, b % 2 = 0
    PROVE  (a % b) \in 0 .. b - 1 /\ (a % b) % 2 = 0
<1> DEFINE q == a \div b
           r == a % b
<1>1. q \in Int /\ r \in 0 .. b - 1 /\ a = b * q + r
  BY SMT
<1>2. PICK h \in Nat : b = 2 * h
  BY SMT
<1>3. PICK p \in Int : p = h * q
  BY <1>1, <1>2, SMT
<1>4. a = 2 * p + r
  BY <1>1, <1>2, <1>3, SMT
<1> QED
  BY <1>1, <1>4, SMT

\* The inductive invariant of the pipe: frames in both buffers, and the oldest
\* sample at an even place of the ring.
PipeInv ==
    /\ Interleaved(buf)
    /\ Interleaved(data) /\ Len(data) <= PIPE_LEN
    /\ ringStart \in 0 .. PIPE_LEN - 1 /\ ringStart % 2 = 0
    /\ \A n \in 1 .. Len(mono) : mono[n] = "L"

LEMMA EmptyInterleaved == Interleaved(<<>>) /\ Len(<<>>) = 0
BY EmptySeq DEF Interleaved

LEMMA InitPipe == StreamingInit => PipeInv
BY EmptyInterleaved, PipeAssumption DEF StreamingInit, Audio!PipeInit, PipeInv

\* A write stores whole frames: the room in the ring is even.
LEMMA TryWriteStep ==
    ASSUME PipeInv, Audio!TryWrite
    PROVE  PipeInv'
<1>1. PICK have \in Nat : have = Len(data) /\ have % 2 = 0 /\ have <= PIPE_LEN
  BY LenProperties DEF PipeInv, Interleaved
<1>2. PICK come \in Nat : come = Len(buf) /\ come % 2 = 0
  BY LenProperties DEF PipeInv, Interleaved
<1>3. PICK room \in Nat : room = Audio!Writable /\ room % 2 = 0 /\ have + room <= PIPE_LEN
  <2>1. Audio!Writable = IF ringStart + have < PIPE_LEN
                         THEN PIPE_LEN - (ringStart + have) ELSE PIPE_LEN - have
    BY <1>1 DEF Audio!Writable
  <2>2. PICK at \in Nat : at = ringStart /\ at % 2 = 0
    BY PipeAssumption DEF PipeInv
  <2>3. CASE at + have < PIPE_LEN
    <3>1. PICK end \in Nat : end = at + have /\ end % 2 = 0 /\ have <= end
      BY <1>1, <2>2
    <3>2. PICK room \in Nat : room = PIPE_LEN - end
      BY <2>3, <3>1, PipeAssumption
    <3>3. room % 2 = 0 /\ have + room <= PIPE_LEN
      BY <1>1, <3>1, <3>2, PipeAssumption
    <3>4. room = Audio!Writable
      BY <2>1, <2>2, <2>3, <3>1, <3>2
    <3> QED
      BY <3>3, <3>4
  <2>4. CASE ~(at + have < PIPE_LEN)
    BY <1>1, <2>1, <2>2, <2>4, PipeAssumption
  <2> QED
    BY <2>3, <2>4
<1>4. PICK m \in 0 .. come : m = Audio!AtMost(come, room) /\ m % 2 = 0 /\ m <= room
  BY <1>2, <1>3 DEF Audio!AtMost
<1>5. PICK part : part = Audio!Take(buf, m)
  OBVIOUS
<1>6. Interleaved(part) /\ Len(part) = m
  BY <1>2, <1>4, <1>5, InterleavedParts DEF PipeInv
<1>7. data' = data \o part /\ buf' = <<>> /\ UNCHANGED <<ringStart, mono>>
  BY <1>2, <1>3, <1>4, <1>5 DEF Audio!TryWrite
<1>8. Interleaved(data') /\ Len(data') = have + m
  BY <1>1, <1>6, <1>7, InterleavedConcat DEF PipeInv
<1>9. Len(data') <= PIPE_LEN
  BY <1>1, <1>3, <1>4, <1>8, PipeAssumption
<1> QED
  BY <1>7, <1>8, <1>9, EmptyInterleaved DEF PipeInv

\* A read takes whole frames, and every other sample of them is a left one.
LEMMA ReadChunkStep ==
    ASSUME PipeInv, Audio!ReadChunk
    PROVE  PipeInv'
<1>1. PICK have \in Nat : have = Len(data) /\ have % 2 = 0 /\ have <= PIPE_LEN
  BY LenProperties DEF PipeInv, Interleaved
<1>2. PICK n \in 0 .. have :
        n = Audio!AtMost(Audio!Readable, READ_LEN) /\ n % 2 = 0
  BY <1>1, PipeAssumption DEF Audio!AtMost, Audio!Readable, PipeInv
<1>3. PICK chunk : chunk = Audio!Take(data, n)
  OBVIOUS
<1>4. PICK left : left = Audio!Leave(data, n)
  OBVIOUS
<1>5. /\ Interleaved(chunk) /\ Len(chunk) = n
      /\ Interleaved(left) /\ Len(left) = have - n
  BY <1>1, <1>2, <1>3, <1>4, InterleavedParts DEF PipeInv
<1>6. /\ mono' = Audio!DropDuplicateChannel(chunk)
      /\ data' = left /\ buf' = buf
      /\ ringStart' = (ringStart + n) % PIPE_LEN
  BY <1>2, <1>3, <1>4 DEF Audio!ReadChunk
<1>7. Len(data') <= PIPE_LEN
  BY <1>1, <1>2, <1>5, <1>6, PipeAssumption
<1>8. ringStart' \in 0 .. PIPE_LEN - 1 /\ ringStart' % 2 = 0
  <2>1. PICK a \in Nat : a = ringStart + n /\ a % 2 = 0
    BY <1>1, <1>2, PipeAssumption DEF PipeInv
  <2> QED
    BY <1>6, <2>1, EvenRest, PipeAssumption
<1>9. \A j \in 1 .. Len(mono') : mono'[j] = "L"
  <2>1. PICK half \in Nat : half = n \div 2 /\ n = 2 * half
    BY <1>1, <1>2
  <2>2. mono' = [j \in 1 .. half |-> chunk[2 * j - 1]]
    BY <1>5, <1>6, <2>1 DEF Audio!DropDuplicateChannel
  <2>3. \A j \in 1 .. half : chunk[2 * j - 1] = "L"
    <3> SUFFICES ASSUME NEW j \in 1 .. half
                 PROVE  chunk[2 * j - 1] = "L"
      OBVIOUS
    <3>1. PICK k \in 1 .. n : k = 2 * j - 1 /\ k % 2 = 1
      BY <2>1
    <3> QED
      BY <1>5, <3>1 DEF Interleaved
  <2> QED
    BY <2>2, <2>3
<1> QED
  BY <1>5, <1>6, <1>7, <1>8, <1>9 DEF PipeInv

LEMMA NextPipe ==
    ASSUME PipeInv, [StreamingNext]_allVars
    PROVE  PipeInv'
<1>1. CASE ChunkRead
  BY <1>1, ReadChunkStep DEF ChunkRead
<1>2. CASE WithoutMic
  <2>1. mono' = <<>> /\ UNCHANGED <<buf, ringStart, data>>
    BY <1>2 DEF WithoutMic
  <2> QED
    BY <2>1, EmptyInterleaved DEF PipeInv
<1>3. CASE Core1
  <2>1. CASE Audio!Pop
    <3>1. PICK n \in 1 .. MaxPop : buf' = Audio!Frames(n)
      BY <2>1 DEF Audio!Pop
    <3>2. Interleaved(buf')
      BY <3>1, FramesInterleaved, PipeAssumption
    <3> QED
      BY <2>1, <3>2 DEF Audio!Pop, PipeInv
  <2> QED
    BY <1>3, <2>1, TryWriteStep DEF Core1, Audio!Core1Step
<1>4. CASE Core1Ends
  BY <1>4 DEF Core1Ends, Audio!DmaError, PipeInv
<1>5. CASE FarEnd
  BY <1>5 DEF FarEnd, pipe, PipeInv
<1>6. CASE UNCHANGED allVars
  BY <1>6 DEF allVars, pipe, PipeInv
<1> QED
  BY <1>1, <1>2, <1>3, <1>4, <1>5, <1>6 DEF StreamingNext, SessionStep

\* For every pipe and every read buffer of whole frames, and whatever is
\* dropped: what is sent is one channel.
THEOREM OneChannelIsSent == StreamingSpec => []ChannelsStayAligned
<1>1. PipeInv => ChannelsStayAligned
  BY InterleavedIsFrames DEF PipeInv, ChannelsStayAligned, Audio!ChannelsStayAligned
<1> QED
  BY <1>1, InitPipe, NextPipe, PTL DEF StreamingSpec

-----------------------------------------------------------------------------
(* Types *)

\* Every frame handled has been read, and the session began before it.
Bounds ==
    /\ TypeOK
    /\ handled <= start
    /\ phase = "upgrading" => handled = 0

LEMMA InitBounds == Init => Bounds
<1>1. Init => torn \in BOOLEAN
  BY Zenon DEF Init
<1> QED
  BY <1>1, SessionAssumption DEF Init, Bounds, TypeOK

LEMMA BetweenTurnsBounds ==
    ASSUME Bounds, BetweenTurns
    PROVE  Bounds'
<1>1. UNCHANGED stream /\ (phase' = "upgrading" => phase = "upgrading")
  BY DEF BetweenTurns, StartConnect, ConnectFails, UpgradePanics, MicChunkRead,
         SendSucceeds, SendFails, PongDone, RecvFails, CloseReturns,
         ServerCloses, MicDies, LeaveLoop
<1>2. phase' \in {"down", "connecting", "upgrading", "reading_mic", "sending",
                  "receiving", "pong", "closing", "panicked"}
  BY DEF Bounds, TypeOK, BetweenTurns, StartConnect, ConnectFails, UpgradePanics,
         MicChunkRead, SendSucceeds, SendFails, PongDone, RecvFails, CloseReturns,
         ServerCloses, MicDies, LeaveLoop
<1>3. mic' \in {"alive", "ending", "silent"} /\ server' \in {"open", "closed"}
  BY DEF Bounds, TypeOK, BetweenTurns, StartConnect, ConnectFails, UpgradePanics,
         MicChunkRead, SendSucceeds, SendFails, PongDone, RecvFails, CloseReturns,
         ServerCloses, MicDies, LeaveLoop
<1> QED
  BY <1>1, <1>2, <1>3 DEF Bounds, TypeOK, stream

\* A step that leaves or sets torn to something Boolean.
LEMMA TornStaysBoolean ==
    ASSUME torn \in BOOLEAN, [Next]_vars
    PROVE  torn' \in BOOLEAN
<1>1. CASE UNCHANGED torn
  BY <1>1, Zenon
<1>2. CASE ConnectSucceeds
  BY <1>2, Zenon DEF ConnectSucceeds
<1>3. CASE UpgradeSucceeds
  <2>1. PICK n \in 0 .. arrived : torn' = (n % 2 = 1)
    BY <1>3, Zenon DEF UpgradeSucceeds
  <2> QED
    BY <2>1, Zenon
<1>4. CASE RecvTimesOut
  <2>1. torn' = (torn \/ consumed # start)
    BY <1>4, Zenon DEF RecvTimesOut
  <2> QED
    BY <2>1, Zenon
<1>5. CASE \/ ReadHeader \/ ReadPayload \/ ReadGarbage \/ UnitArrives \/ BetweenTurns
           \/ UNCHANGED vars
  BY <1>1, <1>5, Zenon
  DEF ReadHeader, ReadPayload, ReadGarbage, UnitArrives, BetweenTurns,
      StartConnect, ConnectFails, UpgradePanics, MicChunkRead, SendSucceeds, SendFails,
      PongDone, RecvFails, CloseReturns, ServerCloses, MicDies, LeaveLoop, vars, stream
<1> QED
  BY <1>2, <1>3, <1>4, <1>5, Zenon DEF Next, TaskStep, BetweenTurns

LEMMA NextBounds ==
    ASSUME Bounds, [Next]_vars
    PROVE  Bounds'
<1> USE SessionAssumption DEF Bounds, TypeOK
<1>0. torn' \in BOOLEAN
  BY TornStaysBoolean
<1>1. CASE ConnectSucceeds
  BY <1>0, <1>1 DEF ConnectSucceeds
<1>2. CASE UpgradeSucceeds
  <2>1. PICK n \in 0 .. arrived : consumed' = n /\ start' = n /\ base' = n
    BY <1>2, Zenon DEF UpgradeSucceeds
  <2>2. /\ phase' = "reading_mic" /\ arrived' = arrived /\ handled' = handled /\ handled = 0
        /\ mic' = mic /\ server' = server
    BY <1>2, Zenon DEF UpgradeSucceeds
  <2> QED
    BY <1>0, <2>1, <2>2
<1>3. CASE ReadHeader
  BY <1>0, <1>3 DEF ReadHeader
<1>4. CASE ReadPayload
  BY <1>0, <1>4 DEF ReadPayload
<1>5. CASE ReadGarbage
  BY <1>0, <1>5 DEF ReadGarbage
<1>6. CASE RecvTimesOut
  <2>1. /\ phase' = "reading_mic" /\ start' = consumed
        /\ UNCHANGED <<mic, server, arrived, consumed, base, handled>>
    BY <1>6, Zenon DEF RecvTimesOut
  <2> QED
    BY <1>0, <2>1
<1>7. CASE UnitArrives
  BY <1>0, <1>7 DEF UnitArrives
<1>8. CASE UNCHANGED vars
  BY <1>0, <1>8 DEF vars, stream
<1>9. CASE BetweenTurns
  BY <1>9, BetweenTurnsBounds
<1> QED
  BY <1>1, <1>2, <1>3, <1>4, <1>5, <1>6, <1>7, <1>8, <1>9
  DEF Next, TaskStep, BetweenTurns

\* What is to come from the pipe, and how much may wait to be written to it.
PipeEnds ==
    /\ mic \in {"alive", "ending", "silent"}
    /\ mic = "silent" => data = <<>>
    /\ mic = "ending" => data # <<>>
    /\ Len(buf) <= 2 * MaxPop

LEMMA NextPipeEnds ==
    ASSUME PipeEnds, [StreamingNext]_allVars
    PROVE  PipeEnds'
<1> USE DEF PipeEnds
<1>1. CASE ChunkRead
  BY <1>1 DEF ChunkRead, Audio!ReadChunk
<1>2. CASE WithoutMic
  <2>1. mic' = mic
    BY <1>2 DEF WithoutMic, StartConnect, ConnectFails, ConnectSucceeds, UpgradeSucceeds,
       UpgradePanics, SendSucceeds, SendFails, ReadHeader, ReadPayload, ReadGarbage, PongDone,
       RecvTimesOut, RecvFails, CloseReturns, LeaveLoop
  <2>2. data' = data /\ buf' = buf
    BY <1>2, Zenon DEF WithoutMic
  <2> QED
    BY <2>1, <2>2
<1>3. CASE Core1
  <2>1. mic = "alive" /\ mic' = mic
    BY <1>3 DEF Core1, Audio!Core1Step, Audio!Pop, Audio!TryWrite
  <2>2. Len(buf') <= 2 * MaxPop
    <3>1. CASE Audio!Pop
      <4>1. PICK n \in 1 .. MaxPop : buf' = Audio!Frames(n)
        BY <3>1 DEF Audio!Pop
      <4>2. Len(buf') = 2 * n
        BY <4>1, FramesInterleaved, PipeAssumption
      <4> QED
        BY <4>2, PipeAssumption
    <3>2. CASE Audio!TryWrite
      <4>1. Len(buf') = 0
        BY <3>2, EmptySeq DEF Audio!TryWrite
      <4> QED
        BY <4>1, PipeAssumption
    <3> QED
      BY <1>3, <3>1, <3>2 DEF Core1, Audio!Core1Step
  <2> QED
    BY <2>1, <2>2
<1>4. CASE Core1Ends
  BY <1>4 DEF Core1Ends, Audio!DmaError
<1>5. CASE FarEnd
  BY <1>5 DEF FarEnd, UnitArrives, ServerCloses, pipe
<1>6. CASE UNCHANGED allVars
  BY <1>6 DEF allVars, vars, pipe
<1> QED
  BY <1>1, <1>2, <1>3, <1>4, <1>5, <1>6 DEF StreamingNext, SessionStep

\* The session reads no more than has arrived, and there is audio to come
\* after core 1's loop has ended exactly as long as the pipe holds some.
THEOREM StreamingTypes == StreamingSpec => []StreamingTypeOK
<1>1. StreamingInit => Bounds
  BY InitBounds DEF StreamingInit
<1>2. Bounds /\ [StreamingNext]_allVars => Bounds'
  BY SessionSteps, NextBounds
<1>3. StreamingInit => PipeEnds
  <2>1. Len(<<>>) = 0
    BY EmptySeq
  <2> QED
    BY <2>1, PipeAssumption DEF StreamingInit, Audio!PipeInit, PipeEnds
<1>4. PipeEnds /\ [StreamingNext]_allVars => PipeEnds'
  BY NextPipeEnds
<1>5. Bounds /\ PipeEnds /\ PipeInv => StreamingTypeOK
  BY InterleavedIsFrames
  DEF Bounds, PipeEnds, PipeInv, StreamingTypeOK, Audio!PipeTypeOK
<1> QED
  BY <1>1, <1>2, <1>3, <1>4, <1>5, InitPipe, NextPipe, PTL DEF StreamingSpec
=============================================================================
