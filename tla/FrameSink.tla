------------------------------- MODULE FrameSink -------------------------------
(***************************************************************************)
(* osvtool render: the render loop pushes pictures into a bounded queue, a *)
(* writer thread of its own takes them out and writes them, as stills or   *)
(* into the pipe of an ffmpeg that encodes the video.                      *)
(*                                                                         *)
(* A timeline frame shows a sample of the clip; a frame the camera dropped *)
(* shows the sample of the frame before again.  A picture is named by its  *)
(* sample.  The encoder is external: it reads, it may end early with an    *)
(* error, and at the end of its input it ends.                             *)
(***************************************************************************)
EXTENDS Integers, Sequences

CONSTANTS
    Last,            \* timeline frames 1 .. Last are asked for
    Sample,          \* which sample each shows
    Capacity,        \* FrameQueue{3}
    InputSize,       \* what the pipe takes before a write waits, in pictures
    Codecs,          \* the codec and the fallback, where there is one
    None,
    MaxFailures      \* bound: failed renders, stills and writes, and dead encoders

ASSUME SinkAssumption ==
    /\ Last \in Nat \ {0} /\ Sample \in [1 .. Last -> Nat]
    /\ Capacity \in Nat \ {0} /\ InputSize \in Nat \ {0}
    /\ Codecs \in 1 .. 2 /\ MaxFailures \in Nat

VARIABLES
    video,       \* the output is a video, not stills
    loop,        \* the command's thread: where it is, its frame, its exit code
    held,        \* the picture kept for the next frame, or None
    queue,       \* m_items
    closed,      \* m_closed
    writer,      \* the writer thread, and the picture it writes
    failed,      \* m_failed
    encoder,     \* "none", "runs", "flushing", "finished", "crashed", "reaped"
    input,       \* written and not yet read; None without an encoder
    output,      \* what the output holds
    failures     \* failures so far, of MaxFailures

vars == <<video, loop, held, queue, closed, writer, failed, encoder, input, output, failures>>
feed == <<held, queue, closed>>
ffmpeg == <<encoder, input, output>>

Init ==
    /\ video \in BOOLEAN
    /\ loop = [at |-> "open", tf |-> 1, attempts |-> Codecs, code |-> "ok"]
    /\ held = None /\ queue = <<>> /\ closed = FALSE
    /\ writer = [at |-> "none", picture |-> None]
    /\ failed = FALSE
    /\ encoder = "none" /\ input = None /\ output = <<>>
    /\ failures = 0

Goes(at) == loop' = [loop EXCEPT !.at = at]
Fails == failures < MaxFailures /\ failures' = failures + 1
Gone == encoder \in {"finished", "crashed"}
-----------------------------------------------------------------------------
\* FrameQueue: push() and pop() wait on a condition variable each, which the
\* other side and close() signal.

WakeWriter(w) == [w EXCEPT !.at = IF @ = "empty" THEN "pop" ELSE @]
WakeLoop(l) == [l EXCEPT !.at = IF @ = "full" THEN "push" ELSE @]

\* Mutant: only the reader's side is woken.
CloseForReader(w, l) ==
    /\ closed' = TRUE
    /\ writer' = WakeWriter(w) /\ loop' = l

\* close(), with what its caller does next.
Close(w, l) ==
    /\ closed' = TRUE
    /\ writer' = WakeWriter(w) /\ loop' = WakeLoop(l)
-----------------------------------------------------------------------------
\* The command's thread: FrameSink::open(), the main loop, finish()

\* FfmpegPipeWriter::open(): each codec has a time to fail in.
OpenStills ==
    /\ loop.at = "open" /\ ~video
    /\ Goes("start")
    /\ UNCHANGED <<video, feed, writer, failed, ffmpeg, failures>>

OpenPipe ==
    /\ loop.at = "open" /\ video /\ loop.attempts > 0
    /\ \/ /\ encoder' = "runs" /\ input' = <<>>
          /\ Goes("start") /\ UNCHANGED failures
       \/ /\ Fails
          /\ loop' = [loop EXCEPT !.attempts = @ - 1]
          /\ UNCHANGED <<encoder, input>>
    /\ UNCHANGED <<video, feed, writer, failed, output>>

OpenFails ==
    /\ loop.at = "open" /\ video /\ loop.attempts = 0
    /\ loop' = [loop EXCEPT !.at = "exited", !.code = "error"]
    /\ UNCHANGED <<video, feed, writer, failed, ffmpeg, failures>>

StartWriter ==
    /\ loop.at = "start"
    /\ writer' = [writer EXCEPT !.at = "pop"]
    /\ Goes("options")
    /\ UNCHANGED <<video, feed, failed, ffmpeg, failures>>

\* The remaining options are checked with the sink open already.
Options ==
    /\ loop.at = "options"
    /\ \/ Goes("next") /\ UNCHANGED failures
       \/ Fails /\ loop' = [loop EXCEPT !.at = "abandon", !.code = "error"]
    /\ UNCHANGED <<video, feed, writer, failed, ffmpeg>>

NextHolds == loop.tf < Last /\ Sample[loop.tf + 1] = Sample[loop.tf]

\* The picture is kept only for a next frame that shows it again.
Hold(picture) == held' = IF NextHolds THEN picture ELSE None

\* The frame before showed this very sample.
Repeats == held # None /\ held = Sample[loop.tf]

\* One turn of the main loop up to the push: the held picture again, or a
\* frame read, analysed and rendered.
Turn ==
    /\ loop.at = "next"
    /\ \/ /\ loop.tf > Last \/ failed
          /\ Goes("finish") /\ UNCHANGED <<held, failures>>
       \/ /\ loop.tf <= Last /\ ~failed /\ Repeats
          /\ Goes("push") /\ UNCHANGED <<held, failures>>
       \/ /\ loop.tf <= Last /\ ~failed /\ ~Repeats /\ held' = None
          /\ \/ Goes("push") /\ UNCHANGED failures
             \/ /\ Fails
                /\ loop' = [loop EXCEPT !.at = "finish", !.code = "error"]
    /\ UNCHANGED <<video, queue, closed, writer, failed, ffmpeg>>

Shown == IF held # None THEN held ELSE Sample[loop.tf]
PushEnds == loop' = [loop EXCEPT !.at = "next", !.tf = @ + 1]

\* push(): waits while the queue is full and open; a closed queue takes nothing.
Push ==
    /\ loop.at = "push"
    /\ \/ /\ closed
          /\ Hold(Shown) /\ PushEnds /\ UNCHANGED <<queue, writer>>
       \/ /\ ~closed /\ Len(queue) < Capacity
          /\ queue' = Append(queue, Shown) /\ writer' = WakeWriter(writer)
          /\ Hold(Shown) /\ PushEnds
       \/ /\ ~closed /\ Len(queue) >= Capacity
          /\ Goes("full") /\ UNCHANGED <<held, queue, writer>>
    /\ UNCHANGED <<video, closed, failed, ffmpeg, failures>>

\* stopWriter(), by finish() or, with an option refused, by the destructor.
StopWriter ==
    /\ loop.at \in {"finish", "abandon"}
    /\ Close(writer, [loop EXCEPT !.at = IF @ = "finish" THEN "join" ELSE "join, abandon"])
    /\ UNCHANGED <<video, held, queue, failed, ffmpeg, failures>>

Joined ==
    /\ loop.at \in {"join", "join, abandon"} /\ writer.at = "ended"
    /\ loop' = [loop EXCEPT !.at = IF ~video THEN "exited" ELSE IF @ = "join" THEN "close" ELSE "terminate",
                            !.code = IF failed THEN "error" ELSE @]
    /\ UNCHANGED <<video, feed, writer, failed, ffmpeg, failures>>

\* The encoder sees the end of its input once our end is closed.
ClosePipe ==
    /\ loop.at \in {"close", "terminate"} /\ input # None
    /\ encoder' = IF encoder = "runs" THEN "flushing" ELSE encoder
    /\ Goes(IF loop.at = "close" THEN "wait" ELSE "grace")
    /\ UNCHANGED <<video, feed, writer, failed, input, output, failures>>

\* Mutant: the exit code of the encoder is not looked at.
CodeIgnored == loop.code

\* FfmpegPipeWriter::close(): what did not end well is an error.
CodeSeen == IF encoder = "crashed" THEN "error" ELSE loop.code

ReapEncoder ==
    /\ loop.at = "wait" /\ Gone
    /\ encoder' = "reaped" /\ input' = None
    /\ loop' = [loop EXCEPT !.at = "exited", !.code = CodeSeen]
    /\ UNCHANGED <<video, feed, writer, failed, output, failures>>

\* terminate(): two seconds to end, then SIGKILL; reaped either way.
Terminate ==
    /\ loop.at = "grace"
    /\ Gone \/ encoder = "flushing"
    /\ encoder' = "reaped" /\ input' = None
    /\ Goes("exited")
    /\ UNCHANGED <<video, feed, writer, failed, output, failures>>

Loop == OpenStills \/ OpenPipe \/ OpenFails \/ StartWriter \/ Options \/ Turn \/ Push
        \/ StopWriter \/ Joined \/ ClosePipe \/ ReapEncoder \/ Terminate
-----------------------------------------------------------------------------
\* writerLoop()

Pop ==
    /\ writer.at = "pop"
    /\ \/ /\ queue # <<>>
          /\ writer' = [at |-> "write", picture |-> Head(queue)]
          /\ queue' = Tail(queue) /\ loop' = WakeLoop(loop)
       \/ /\ queue = <<>> /\ closed
          /\ writer' = [writer EXCEPT !.at = "ended"] /\ UNCHANGED <<queue, loop>>
       \/ /\ queue = <<>> /\ ~closed
          /\ writer' = [writer EXCEPT !.at = "empty"] /\ UNCHANGED <<queue, loop>>
    /\ UNCHANGED <<video, held, closed, failed, ffmpeg, failures>>

Written == writer' = [at |-> "pop", picture |-> None]
WriteFails == writer' = [at |-> "failed", picture |-> None]

WriteStill ==
    /\ writer.at = "write" /\ ~video
    /\ \/ /\ output' = Append(output, writer.picture)
          /\ Written /\ UNCHANGED failures
       \/ /\ Fails /\ WriteFails /\ UNCHANGED output
    /\ UNCHANGED <<video, loop, feed, failed, encoder, input>>

\* writeFrame(): waits for room in the pipe; a pipe without a reader fails it.
WriteFrame ==
    /\ writer.at = "write" /\ video
    /\ \/ /\ encoder = "runs" /\ Len(input) < InputSize
          /\ input' = Append(input, writer.picture) /\ Written
       \/ Gone /\ WriteFails /\ UNCHANGED input
    /\ UNCHANGED <<video, loop, feed, failed, encoder, output, failures>>

\* The render loop learns of a failure by the flag, or by the closed queue.
WriterFails ==
    /\ writer.at = "failed" /\ ~failed
    /\ failed' = TRUE
    /\ UNCHANGED <<video, loop, feed, writer, ffmpeg, failures>>

WriterCloses ==
    /\ writer.at = "failed" /\ failed
    /\ Close([writer EXCEPT !.at = "ended"], loop)
    /\ UNCHANGED <<video, held, queue, failed, ffmpeg, failures>>

Writer == Pop \/ WriteStill \/ WriteFrame \/ WriterFails \/ WriterCloses
-----------------------------------------------------------------------------
\* ffmpeg, which is external

Reading == encoder \in {"runs", "flushing"}

Encode ==
    /\ Reading /\ input # <<>>
    /\ output' = Append(output, Head(input)) /\ input' = Tail(input)
    /\ UNCHANGED <<video, loop, feed, writer, failed, encoder, failures>>

EncoderEnds ==
    /\ encoder = "flushing" /\ input = <<>>
    /\ encoder' = "finished"
    /\ UNCHANGED <<video, loop, feed, writer, failed, input, output, failures>>

EncoderCrashes ==
    /\ Reading /\ Fails
    /\ encoder' = "crashed"
    /\ UNCHANGED <<video, loop, feed, writer, failed, input, output>>

Encoder == Encode \/ EncoderEnds

\* The command has ended.
Exited == loop.at = "exited" /\ UNCHANGED vars

Next == Loop \/ Writer \/ Encoder \/ EncoderCrashes \/ Exited

\* The two threads run when they can, and an encoder that lives reads.
Fairness == WF_vars(Loop) /\ WF_vars(Writer) /\ WF_vars(Encoder)

Spec == Init /\ [][Next]_vars
FairSpec == Spec /\ Fairness
-----------------------------------------------------------------------------
Output == INSTANCE FrameOutput WITH
    Picture <- Sample,
    result <- IF loop.at = "exited" THEN loop.code ELSE "none"

\* The output is a prefix of the frames asked for, in order and each with its
\* own sample's picture; exit code 0 means that all of them were encoded.
OutputInOrder == Output!Spec

\* The command ends, whoever fails while the other waits: a full queue lets go
\* of the render loop, an empty one of the writer.
CommandEnds == <>(loop.at = "exited")
=============================================================================
