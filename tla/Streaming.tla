------------------------------ MODULE Streaming ------------------------------
(***************************************************************************)
(* DeepgramSession fed by AudioPipe: the session's turns need a chunk of   *)
(* audio each (bin/main_task.rs 106-184), core 1 fills the pipe at its own *)
(* pace whether or not there is a session.                                 *)
(***************************************************************************)
EXTENDS DeepgramSession, Sequences

CONSTANTS PIPE_LEN, READ_LEN, MaxPop

\* DMA_BUF_SIZE and mic_read_buf are multiples of a stereo frame.
ASSUME PipeAssumption ==
    /\ PIPE_LEN \in Nat \ {0} /\ PIPE_LEN % 2 = 0
    /\ READ_LEN \in Nat \ {0} /\ READ_LEN % 2 = 0
    /\ MaxPop \in Nat \ {0}

VARIABLES buf, ringStart, data, mono

Audio == INSTANCE AudioPipe WITH start <- ringStart

pipe == <<buf, ringStart, data, mono>>
allVars == <<vars, pipe>>

StreamingInit == Init /\ Audio!PipeInit

-----------------------------------------------------------------------------
\* The session reads a chunk.
ChunkRead == MicChunkRead /\ Audio!ReadChunk

\* Core 1's loop ends.
Core1Ends == MicDies /\ Audio!DmaError

\* Core 1 moves audio, while the session does anything.
Core1 == Audio!Core1Step /\ UNCHANGED vars

\* The session's other steps.  The chunk is gone when it has been sent, or
\* the loop is left.
WithoutMic ==
    /\ \/ StartConnect \/ ConnectFails \/ ConnectSucceeds
       \/ UpgradeSucceeds \/ UpgradePanics
       \/ SendSucceeds \/ SendFails
       \/ ReadHeader \/ ReadPayload \/ ReadGarbage \/ PongDone
       \/ RecvTimesOut \/ RecvFails
       \/ CloseReturns
    /\ mono' = <<>>
    /\ UNCHANGED <<buf, ringStart, data>>

FarEnd ==
    /\ UnitArrives \/ ServerCloses
    /\ UNCHANGED pipe

SessionStep == ChunkRead \/ WithoutMic

StreamingNext == SessionStep \/ Core1 \/ Core1Ends \/ FarEnd

StreamingSpec == StreamingInit /\ [][StreamingNext]_allVars

\* Core 0 polls the task when it is woken, core 1 spins in its loop, and the
\* DMA controller keeps delivering samples until it fails.
FairStreamingSpec ==
    StreamingSpec /\ WF_allVars(SessionStep /\ Unforced) /\ WF_allVars(Core1)

-----------------------------------------------------------------------------
\* The type invariant: the session's and the pipe's.
StreamingTypeOK == TypeOK /\ Audio!PipeTypeOK

\* However much audio core 1 drops while the session is busy or gone, what is
\* sent stays one channel (elecrow_board/mic/dma_blocking_read_task.rs 34).
ChannelsStayAligned == Audio!ChannelsStayAligned
=============================================================================
