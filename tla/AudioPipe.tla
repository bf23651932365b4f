------------------------------- MODULE AudioPipe -----------------------------
(***************************************************************************)
(* The way of the audio: core 1's loop drains the DMA buffer into MIC_PIPE *)
(* (elecrow_board/mic), the Deepgram task reads chunks from it and keeps   *)
(* one channel of each (bin/main_task.rs 120-139).                         *)
(*                                                                         *)
(* Audio is a sequence of 16-bit samples, "L" and "R" in turn; sizes count *)
(* samples.  MIC_PIPE is a ring buffer: one write, and one read, goes no   *)
(* further than the end of the ring.                                       *)
(***************************************************************************)
EXTENDS Naturals, Sequences

CONSTANTS
    PIPE_LEN,       \* samples in MIC_PIPE: DMA_BUF_SIZE / 2
    READ_LEN,       \* samples in mic_read_buf
    MaxPop          \* frames the DMA buffer may hold when it is popped

VARIABLES
    mic,        \* what is to come from MIC_PIPE: "alive", "ending" or "silent"
    buf,        \* samples popped from DMA and not yet written
    start,      \* where in the ring the oldest sample is
    data,       \* the samples in the pipe, oldest first
    mono        \* the chunk the Deepgram task is about to send

pipe == <<buf, start, data, mono>>

PipeInit ==
    /\ mic = "alive"
    /\ buf = <<>>
    /\ start = 0
    /\ data = <<>>
    /\ mono = <<>>

AtMost(n, limit) == IF n < limit THEN n ELSE limit

Take(s, n) == SubSeq(s, 1, n)
Leave(s, n) == SubSeq(s, n + 1, Len(s))

\* n stereo frames: DMA hands out whole ones.
Frames(n) == [i \in 1 .. 2 * n |-> IF i % 2 = 1 THEN "L" ELSE "R"]

-----------------------------------------------------------------------------
(* MIC_PIPE: what one write can store and one read can take *)

Writable ==
    LET end == start + Len(data)
    IN  IF end < PIPE_LEN THEN PIPE_LEN - end ELSE PIPE_LEN - Len(data)

Readable == AtMost(Len(data), PIPE_LEN - start)

-----------------------------------------------------------------------------
(* Core 1 *)

\* available() is not 0, and pop() empties the DMA buffer.
Pop ==
    /\ mic = "alive"
    /\ buf = <<>>
    /\ \E n \in 1 .. MaxPop : buf' = Frames(n)
    /\ UNCHANGED <<mic, start, data, mono>>

\* try_write: what does not fit, in the pipe or before the end of its ring,
\* is lost, and so is everything if the pipe is full.
TryWrite ==
    /\ mic = "alive"
    /\ buf # <<>>
    /\ data' = data \o Take(buf, AtMost(Len(buf), Writable))
    /\ buf' = <<>>
    /\ UNCHANGED <<mic, start, mono>>

\* available() reports a DMA error: the loop returns.
DmaError ==
    /\ mic = "alive"
    /\ buf = <<>>
    /\ mic' = IF data = <<>> THEN "silent" ELSE "ending"
    /\ UNCHANGED <<buf, start, data, mono>>

Core1Step == Pop \/ TryWrite

-----------------------------------------------------------------------------
(* The Deepgram task *)

\* Every other sample, from the first one.
DropDuplicateChannel(chunk) == [i \in 1 .. Len(chunk) \div 2 |-> chunk[2 * i - 1]]

\* Mutant: a chunk may end within a stereo frame.
ReadOddChunk ==
    /\ data # <<>>
    /\ LET n == AtMost(Readable, READ_LEN - 1) IN
          /\ mono' = DropDuplicateChannel(Take(data, n))
          /\ data' = Leave(data, n)
          /\ start' = (start + n) % PIPE_LEN
    /\ mic' = IF mic = "ending" /\ data' = <<>> THEN "silent" ELSE mic
    /\ UNCHANGED buf

\* MIC_PIPE.read returns a chunk.
ReadChunk ==
    /\ data # <<>>
    /\ LET n == AtMost(Readable, READ_LEN) IN
          /\ mono' = DropDuplicateChannel(Take(data, n))
          /\ data' = Leave(data, n)
          /\ start' = (start + n) % PIPE_LEN
    /\ mic' = IF mic = "ending" /\ data' = <<>> THEN "silent" ELSE mic
    /\ UNCHANGED buf

-----------------------------------------------------------------------------
IsFrames(s) == Len(s) % 2 = 0 /\ s = Frames(Len(s) \div 2)

\* The type invariant of the pipe.
PipeTypeOK ==
    /\ mic \in {"alive", "ending", "silent"}
    /\ IsFrames(buf) /\ Len(buf) <= 2 * MaxPop
    /\ start \in 0 .. PIPE_LEN - 1
    /\ Len(data) <= PIPE_LEN
    /\ mic = "silent" => data = <<>>
    /\ mic = "ending" => data # <<>>

\* However much audio is dropped, and wherever in the ring: the pipe holds
\* whole stereo frames, every chunk read starts with a left sample, and what is
\* sent is one channel of it.
ChannelsStayAligned ==
    /\ IsFrames(data)
    /\ \A i \in 1 .. Len(mono) : mono[i] = "L"
=============================================================================
