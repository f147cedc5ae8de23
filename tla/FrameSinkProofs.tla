---------------------------- MODULE FrameSinkProofs ----------------------------
(***************************************************************************)
(* Theorems about FrameSink, for any frames and samples, any queue and any *)
(* pipe, any number of codecs and of failures.                             *)
(***************************************************************************)
EXTENDS FrameSink, TLAPS

-----------------------------------------------------------------------------
(* The inductive invariant, in parts. *)

Leaving == {"join", "join, abandon"}
Left == {"close", "terminate", "wait", "grace", "exited"}
LoopStates ==
    [at : {"open", "start", "options", "next", "push", "full", "finish", "abandon"} \cup Leaving \cup Left,
     tf : 1 .. (Last + 1), attempts : Int, code : {"ok", "error"}]

SinkTypes ==
    /\ video \in BOOLEAN /\ closed \in BOOLEAN /\ failed \in BOOLEAN
    /\ loop \in LoopStates /\ held \in Nat \cup {None}
    /\ queue \in Seq(Nat) /\ output \in Seq(Nat)
    /\ writer \in [at : {"none", "pop", "empty", "write", "failed", "ended"}, picture : Nat \cup {None}]
    /\ encoder \in {"none", "runs", "flushing", "finished", "crashed", "reaped"}
    /\ encoder \notin {"none", "reaped"} => input \in Seq(Nat)

\* What the encoder has still to read, and the frames that got as far as that.
Piped == IF encoder \in {"none", "reaped"} THEN <<>> ELSE input
Sent == Len(output) + Len(Piped)
InHand == IF writer.at = "write" THEN 1 ELSE 0

\* The writer has lost nothing.
Lives == writer.at \in {"none", "pop", "empty", "write"}

\* The pictures of the pipe follow those of the output, ...
PipeGoesOn ==
    /\ Sent <= Last
    /\ \A i \in 1 .. Len(Piped) : Piped[i] = Sample[Len(output) + i]

\* ... and those of the writer and of the queue those of the pipe, up to the frame
\* the render loop is at.
QueueGoesOn ==
    Lives =>
        /\ Sent + InHand + Len(queue) = loop.tf - 1
        /\ writer.at = "write" => writer.picture = Sample[Sent + 1]
        /\ \A i \in 1 .. Len(queue) : queue[i] = Sample[Sent + InHand + i]

\* The render loop pushes the frame it is at; the queue is closed behind the last
\* picture, or because the writer gave up.
ThreadsAgree ==
    /\ loop.at \in {"open", "start"} => writer.at = "none"
    /\ writer.at = "none" => loop.at \in {"open", "start", "exited"} /\ ~closed
    /\ loop.at \in {"push", "full"} => loop.tf <= Last /\ (held = None \/ held = Sample[loop.tf])
    /\ closed /\ Lives => loop.at \in Leaving
    /\ loop.at \in Left => writer.at \in {"none", "ended"}
    /\ failed => ~Lives
    /\ writer.at = "ended" /\ ~failed =>
         loop.at \in Leaving \cup Left /\ (encoder # "reaped" => Sent = loop.tf - 1)

\* An exit code that is still 0 is of a command that has sent what was asked for.
CodeAgrees ==
    /\ loop.at \in {"abandon", "join, abandon", "terminate", "grace"} => loop.code = "error"
    /\ loop.code = "ok" /\ loop.at \in {"finish", "join"} => loop.tf > Last \/ failed
    /\ loop.code = "ok" /\ loop.at \in {"close", "wait"} => Sent = Last
    /\ loop.code = "ok" /\ loop.at = "exited" => Len(output) = Last
    /\ loop.at = "open" => encoder = "none"
    /\ loop.at = "exited" => encoder \in {"none", "reaped"}
    /\ encoder = "reaped" => loop.at = "exited"
    /\ ~video => encoder = "none"
    /\ encoder = "finished" => input = <<>>

SinkInv == SinkTypes /\ PipeGoesOn /\ QueueGoesOn /\ ThreadsAgree /\ CodeAgrees

Result == IF loop.at = "exited" THEN loop.code ELSE "none"

\* The output grows by its next frame, before the end; the end is a success only with
\* all of them.
Promised ==
    \/ UNCHANGED <<output, Result>>
    \/ /\ Result = "none" /\ Result' = "none" /\ Len(output) < Last
       /\ output' = Append(output, Sample[Len(output) + 1])
    \/ /\ Result = "none" /\ UNCHANGED output
       /\ Result' = "error" \/ (Result' = "ok" /\ Len(output) = Last)

-----------------------------------------------------------------------------
(* The steps of the command's thread. *)

LEMMA PiecesAre ==
  ASSUME SinkInv
  PROVE  /\ SinkTypes /\ PipeGoesOn /\ QueueGoesOn /\ ThreadsAgree /\ CodeAgrees
         /\ Last \in Nat \ {0} /\ Sample \in [1 .. Last -> Nat]
         /\ Piped \in Seq(Nat) /\ Len(Piped) \in Nat /\ Len(output) \in Nat /\ Len(queue) \in Nat
         /\ Sent \in Nat /\ Sent = Len(output) + Len(Piped) /\ InHand \in {0, 1}
         /\ loop.tf \in 1 .. (Last + 1) /\ loop.code \in {"ok", "error"}
         /\ loop.at # "none" /\ loop.code # "none"
  <1>1. SinkTypes /\ PipeGoesOn /\ QueueGoesOn /\ ThreadsAgree /\ CodeAgrees
    BY DEF SinkInv
  <1>2. Piped \in Seq(Nat) /\ output \in Seq(Nat) /\ queue \in Seq(Nat)
    BY <1>1 DEF Piped, SinkTypes
  <1>3. Len(Piped) \in Nat /\ Len(output) \in Nat /\ Len(queue) \in Nat
    BY <1>2
  <1>4. loop.tf \in 1 .. (Last + 1) /\ loop.code \in {"ok", "error"} /\ loop.at # "none"
    BY <1>1 DEF SinkTypes, LoopStates, Leaving, Left
  <1>. QED BY <1>1, <1>2, <1>3, <1>4, SinkAssumption DEF Sent, InHand

\* The pictures stay where they are.
LEMMA PicturesStay ==
  ASSUME PipeGoesOn, QueueGoesOn, output' = output, Piped' = Piped, queue' = queue, loop'.tf = loop.tf,
         Lives' => Lives /\ InHand' = InHand /\ writer'.picture = writer.picture /\ (writer'.at = "write" => writer.at = "write")
  PROVE  PipeGoesOn' /\ QueueGoesOn' /\ Sent' = Sent
  <1>1. Sent' = Sent
    BY DEF Sent
  <1>2. PipeGoesOn'
    BY <1>1 DEF PipeGoesOn
  <1>3. QueueGoesOn'
    <2>. SUFFICES ASSUME Lives' PROVE QueueGoesOn'
      BY DEF QueueGoesOn
    <2>1. Sent + InHand + Len(queue) = loop.tf - 1 /\ (writer.at = "write" => writer.picture = Sample[Sent + 1])
          /\ \A i \in 1 .. Len(queue) : queue[i] = Sample[Sent + InHand + i]
      BY DEF QueueGoesOn
    <2>. QED BY <1>1, <2>1 DEF QueueGoesOn
  <1>. QED BY <1>1, <1>2, <1>3

\* A step of the command's thread that goes to another place and leaves the pictures.
LEMMA LoopGoes ==
  ASSUME SinkInv, UNCHANGED <<video, queue, writer, failed, output>>, closed' \in BOOLEAN,
         encoder' \in {"none", "runs", "flushing", "finished", "crashed", "reaped"},
         encoder' \notin {"none", "reaped"} => input' \in Seq(Nat), Piped' = Piped,
         held' \in Nat \cup {None}, loop' \in LoopStates, loop'.tf = loop.tf,
         Sent' = Sent => ThreadsAgree' /\ CodeAgrees', loop.at # "exited",
         loop'.at = "exited" => loop'.code = "error" \/ Len(output) = Last
  PROVE  SinkInv' /\ Promised
  <1>1. SinkTypes'
    BY DEF SinkInv, SinkTypes
  <1>2. InHand' = InHand /\ (Lives' <=> Lives)
    BY DEF InHand, Lives
  <1>3. PipeGoesOn' /\ QueueGoesOn' /\ Sent' = Sent
    BY <1>2, PiecesAre, PicturesStay
  <1>4. Promised
    <2>1. loop'.code \in {"ok", "error"}
      BY DEF LoopStates
    <2>2. Result = "none" /\ Result' = IF loop'.at = "exited" THEN loop'.code ELSE "none"
      BY DEF Result
    <2>. QED BY <2>1, <2>2 DEF Promised
  <1>. QED BY <1>1, <1>3, <1>4 DEF SinkInv

\* The same, of a step that leaves the encoder too.
LEMMA LoopMoves ==
  ASSUME SinkInv, UNCHANGED <<video, queue, writer, failed, closed, encoder, input, output>>,
         held' \in Nat \cup {None}, NEW l \in LoopStates, loop' = l, l.tf = loop.tf,
         Sent' = Sent => ThreadsAgree' /\ CodeAgrees', loop.at # "exited",
         l.at = "exited" => l.code = "error" \/ Len(output) = Last
  PROVE  SinkInv' /\ Promised
  <1>1. Piped' = Piped
    BY DEF Piped
  <1>2. SinkTypes
    BY PiecesAre
  <1>. QED BY <1>1, <1>2, LoopGoes DEF SinkTypes

LEMMA OpenStep == SinkInv /\ (OpenStills \/ OpenPipe \/ OpenFails) => SinkInv' /\ Promised
  <1>. SUFFICES ASSUME SinkInv, OpenStills \/ OpenPipe \/ OpenFails PROVE SinkInv' /\ Promised
    OBVIOUS
  <1>1. SinkTypes /\ ThreadsAgree /\ CodeAgrees /\ loop.at = "open" /\ writer.at = "none" /\ encoder = "none"
        /\ loop \in LoopStates /\ held \in Nat \cup {None}
    BY PiecesAre DEF OpenStills, OpenPipe, OpenFails, ThreadsAgree, CodeAgrees, SinkTypes
  <1>2. CASE OpenStills
    <2>1. PICK l : l = [loop EXCEPT !.at = "start"]
      OBVIOUS
    <2>2. l \in LoopStates /\ l.at = "start" /\ l.tf = loop.tf /\ l.code = loop.code
      BY <1>1, <2>1 DEF LoopStates
    <2>3. /\ UNCHANGED <<video, held, queue, closed, writer, failed, encoder, input, output>> /\ loop' = l /\ ~video
      BY <1>2, <2>1 DEF OpenStills, Goes, feed, ffmpeg
    <2>4. Sent' = Sent => ThreadsAgree' /\ CodeAgrees'
      BY <1>1, <2>2, <2>3 DEF ThreadsAgree, CodeAgrees, Leaving, Left, Lives
    <2>. QED BY <1>1, <2>2, <2>3, <2>4, LoopMoves
  <1>3. CASE OpenPipe
    <2>1. PICK l : loop' = l
      OBVIOUS
    <2>2. /\ UNCHANGED <<video, held, queue, closed, writer, failed, output>> /\ video
          /\ \/ encoder' = "runs" /\ input' = <<>> /\ l = [loop EXCEPT !.at = "start"]
             \/ UNCHANGED <<encoder, input>> /\ l = [loop EXCEPT !.attempts = @ - 1]
      BY <1>3, <2>1 DEF OpenPipe, Goes, feed
    <2>3. l \in LoopStates /\ l.tf = loop.tf /\ l.code = loop.code
          /\ (l.at = "start" \/ (l.at = "open" /\ encoder' = "none"))
      BY <1>1, <2>2 DEF LoopStates
    <2>4. Piped' = Piped /\ (encoder' \notin {"none", "reaped"} => input' \in Seq(Nat))
          /\ encoder' \in {"none", "runs"}
      <3>1. Piped = <<>>
        BY <1>1 DEF Piped
      <3>2. CASE encoder' = "runs" /\ input' = <<>>
        BY <3>1, <3>2 DEF Piped
      <3>3. CASE UNCHANGED <<encoder, input>>
        BY <1>1, <3>3 DEF Piped
      <3>. QED BY <2>2, <3>2, <3>3
    <2>5. Sent' = Sent => ThreadsAgree' /\ CodeAgrees'
      BY <1>1, <2>1, <2>2, <2>3, <2>4 DEF ThreadsAgree, CodeAgrees, Leaving, Left, Lives
    <2>. QED BY <1>1, <2>1, <2>2, <2>3, <2>4, <2>5, LoopGoes DEF SinkTypes
  <1>4. CASE OpenFails
    <2>1. PICK l : l = [loop EXCEPT !.at = "exited", !.code = "error"]
      OBVIOUS
    <2>2. l \in LoopStates /\ l.at = "exited" /\ l.tf = loop.tf /\ l.code = "error"
      BY <1>1, <2>1 DEF LoopStates, Left
    <2>3. /\ UNCHANGED <<video, held, queue, closed, writer, failed, encoder, input, output>> /\ loop' = l
      BY <1>4, <2>1 DEF OpenFails, feed, ffmpeg
    <2>4. Sent' = Sent => ThreadsAgree' /\ CodeAgrees'
      BY <1>1, <2>2, <2>3 DEF ThreadsAgree, CodeAgrees, Leaving, Left, Lives
    <2>. QED BY <1>1, <2>2, <2>3, <2>4, LoopMoves
  <1>. QED BY <1>2, <1>3, <1>4

LEMMA OptionsStep == SinkInv /\ Options => SinkInv' /\ Promised
  <1>. SUFFICES ASSUME SinkInv, Options PROVE SinkInv' /\ Promised
    OBVIOUS
  <1>1. /\ ThreadsAgree /\ CodeAgrees /\ loop.at = "options" /\ loop \in LoopStates /\ held \in Nat \cup {None}
        /\ UNCHANGED <<video, held, queue, closed, writer, failed, encoder, input, output>>
    BY PiecesAre DEF Options, SinkTypes, feed, ffmpeg
  <1>2. PICK l : loop' = l
    OBVIOUS
  <1>3. l = [loop EXCEPT !.at = "next"] \/ l = [loop EXCEPT !.at = "abandon", !.code = "error"]
    BY <1>2 DEF Options, Goes
  <1>4. /\ l \in LoopStates /\ l.tf = loop.tf
        /\ (l.at = "next" /\ l.code = loop.code) \/ (l.at = "abandon" /\ l.code = "error")
    BY <1>1, <1>3 DEF LoopStates
  <1>5. Sent' = Sent => ThreadsAgree' /\ CodeAgrees'
    BY <1>1, <1>2, <1>4 DEF ThreadsAgree, CodeAgrees, Leaving, Left, Lives
  <1>. QED BY <1>1, <1>2, <1>4, <1>5, LoopMoves

LEMMA TurnStep == SinkInv /\ Turn => SinkInv' /\ Promised
  <1>. SUFFICES ASSUME SinkInv, Turn PROVE SinkInv' /\ Promised
    OBVIOUS
  <1>1. /\ ThreadsAgree /\ CodeAgrees /\ loop.at = "next" /\ loop \in LoopStates /\ held \in Nat \cup {None}
        /\ UNCHANGED <<video, queue, closed, writer, failed, encoder, input, output>> /\ loop.tf \in Nat /\ Last \in Nat
    BY PiecesAre DEF Turn, SinkTypes, ffmpeg
  <1>2. PICK l : loop' = l
    OBVIOUS
  <1>3. \/ l = [loop EXCEPT !.at = "finish"] /\ (loop.tf > Last \/ failed) /\ held' = held
        \/ l = [loop EXCEPT !.at = "push"] /\ loop.tf <= Last /\ held' = held /\ held = Sample[loop.tf]
        \/ l = [loop EXCEPT !.at = "push"] /\ loop.tf <= Last /\ held' = None
        \/ l = [loop EXCEPT !.at = "finish", !.code = "error"] /\ held' = None
    BY <1>2 DEF Turn, Goes, Repeats
  <1>4. /\ l \in LoopStates /\ l.tf = loop.tf /\ l.at \in {"finish", "push"} /\ held' \in Nat \cup {None}
        /\ l.code = loop.code \/ l.code = "error"
        /\ l.at = "finish" /\ l.code = "ok" => loop.tf > Last \/ failed
        /\ l.at = "push" => loop.tf <= Last /\ (held' = None \/ held' = Sample[loop.tf])
    BY <1>1, <1>3 DEF LoopStates
  <1>5. Sent' = Sent => ThreadsAgree' /\ CodeAgrees'
    BY <1>1, <1>2, <1>4 DEF ThreadsAgree, CodeAgrees, Leaving, Left, Lives
  <1>. QED BY <1>1, <1>2, <1>4, <1>5, LoopMoves

LEMMA JoinedStep == SinkInv /\ Joined => SinkInv' /\ Promised
  <1>. SUFFICES ASSUME SinkInv, Joined PROVE SinkInv' /\ Promised
    OBVIOUS
  <1>1. /\ ThreadsAgree /\ CodeAgrees /\ loop.at \in Leaving /\ loop \in LoopStates /\ held \in Nat \cup {None}
        /\ UNCHANGED <<video, held, queue, closed, writer, failed, encoder, input, output>> /\ writer.at = "ended"
        /\ loop.tf \in 1 .. (Last + 1) /\ Last \in Nat /\ Sent = Len(output) + Len(Piped) /\ Len(output) \in Nat
    BY PiecesAre DEF Joined, SinkTypes, feed, ffmpeg, Leaving
  <1>2. PICK l : loop' = l
    OBVIOUS
  <1>3. l = [loop EXCEPT !.at = IF ~video THEN "exited" ELSE IF @ = "join" THEN "close" ELSE "terminate",
                         !.code = IF failed THEN "error" ELSE @]
    BY <1>2 DEF Joined
  <1>4. /\ l \in LoopStates /\ l.tf = loop.tf /\ l.at \in {"exited", "close", "terminate"}
        /\ l.at = "exited" => ~video
        /\ l.at = "terminate" => loop.at = "join, abandon"
        /\ l.code = IF failed THEN "error" ELSE loop.code
    BY <1>1, <1>3 DEF LoopStates, Left, Leaving
  <1>5. l.code = "ok" => Sent = Last
    <2>. SUFFICES ASSUME l.code = "ok" PROVE Sent = Last
      OBVIOUS
    <2>1. ~failed /\ loop.code = "ok" /\ loop.at = "join"
      BY <1>1, <1>4 DEF CodeAgrees, Leaving
    <2>2. loop.tf > Last /\ Sent = loop.tf - 1
      BY <1>1, <2>1 DEF CodeAgrees, ThreadsAgree
    <2>. QED BY <1>1, <2>2
  <1>6. ~video => Len(output) = Sent /\ encoder = "none"
    <2>1. ~video => Piped = <<>> /\ encoder = "none"
      BY <1>1 DEF Piped, CodeAgrees
    <2>. QED BY <1>1, <2>1
  <1>7. l.code \in {"ok", "error"}
    BY <1>4 DEF LoopStates
  <1>8. ASSUME Sent' = Sent PROVE ThreadsAgree' /\ CodeAgrees'
    <2>1. ThreadsAgree'
      BY <1>1, <1>2, <1>4, <1>8 DEF ThreadsAgree, CodeAgrees, Leaving, Left, Lives
    <2>2. CodeAgrees'
      BY <1>1, <1>2, <1>4, <1>5, <1>6, <1>7, <1>8 DEF CodeAgrees, Leaving, Left, Lives
    <2>. QED BY <2>1, <2>2
  <1>9. l.at = "exited" => l.code = "error" \/ Len(output) = Last
    BY <1>4, <1>5, <1>6, <1>7
  <1>10. loop.at # "exited"
    BY <1>1 DEF Leaving
  <1>. QED BY <1>1, <1>2, <1>4, <1>8, <1>9, <1>10, LoopMoves

LEMMA ClosePipeStep == SinkInv /\ ClosePipe => SinkInv' /\ Promised
  <1>. SUFFICES ASSUME SinkInv, ClosePipe PROVE SinkInv' /\ Promised
    OBVIOUS
  <1>1. /\ SinkTypes /\ ThreadsAgree /\ CodeAgrees /\ loop \in LoopStates /\ held \in Nat \cup {None}
        /\ UNCHANGED <<video, held, queue, closed, writer, failed, input, output>>
        /\ loop.at \in {"close", "terminate"}
    BY PiecesAre DEF ClosePipe, SinkTypes, feed
  <1>2. PICK l : loop' = l
    OBVIOUS
  <1>3. l = [loop EXCEPT !.at = IF loop.at = "close" THEN "wait" ELSE "grace"]
    BY <1>2 DEF ClosePipe, Goes
  <1>4. /\ l \in LoopStates /\ l.tf = loop.tf /\ l.code = loop.code
        /\ (loop.at = "close" /\ l.at = "wait") \/ (loop.at = "terminate" /\ l.at = "grace")
    BY <1>1, <1>3 DEF LoopStates, Left
  <1>5. encoder' = encoder \/ (encoder = "runs" /\ encoder' = "flushing")
    BY DEF ClosePipe
  <1>6. /\ Piped' = Piped /\ encoder' \in {"none", "runs", "flushing", "finished", "crashed", "reaped"}
        /\ (encoder' \notin {"none", "reaped"} => input' \in Seq(Nat))
    BY <1>1, <1>5 DEF Piped, SinkTypes
  <1>7. Sent' = Sent => ThreadsAgree' /\ CodeAgrees'
    BY <1>1, <1>2, <1>4, <1>5 DEF ThreadsAgree, CodeAgrees, Leaving, Left, Lives
  <1>. QED BY <1>1, <1>2, <1>4, <1>6, <1>7, LoopGoes DEF SinkTypes

LEMMA ReapedStep == SinkInv /\ (ReapEncoder \/ Terminate) => SinkInv' /\ Promised
  <1>. SUFFICES ASSUME SinkInv, ReapEncoder \/ Terminate PROVE SinkInv' /\ Promised
    OBVIOUS
  <1>1. /\ SinkTypes /\ ThreadsAgree /\ CodeAgrees /\ PipeGoesOn /\ loop \in LoopStates
        /\ UNCHANGED <<video, held, queue, closed, writer, failed, output>>
        /\ loop.at \in {"wait", "grace"} /\ encoder' = "reaped" /\ encoder # "none"
        /\ Len(output) \in Nat /\ Len(Piped) \in Nat /\ Sent = Len(output) + Len(Piped) /\ Last \in Nat
    BY PiecesAre DEF ReapEncoder, Terminate, Gone, SinkTypes, feed
  <1>2. PICK l : loop' = l
    OBVIOUS
  <1>3. \/ /\ loop.at = "wait" /\ encoder \in {"finished", "crashed"}
           /\ l = [loop EXCEPT !.at = "exited", !.code = IF encoder = "crashed" THEN "error" ELSE loop.code]
        \/ loop.at = "grace" /\ l = [loop EXCEPT !.at = "exited"]
    BY <1>2 DEF ReapEncoder, Terminate, Gone, CodeSeen, Goes
  <1>4. /\ l \in LoopStates /\ l.tf = loop.tf /\ l.at = "exited" /\ l.code \in {"ok", "error"}
        /\ l.code = "ok" => loop.code = "ok" /\ loop.at = "wait" /\ encoder = "finished"
    BY <1>1, <1>3 DEF LoopStates, Left, CodeAgrees
  <1>5. l.code = "ok" => Len(output) = Last
    <2>. SUFFICES ASSUME l.code = "ok" PROVE Len(output) = Last
      OBVIOUS
    <2>1. Sent = Last /\ Piped = <<>>
      BY <1>1, <1>4 DEF CodeAgrees, Piped
    <2>. QED BY <1>1, <2>1
  <1>6. writer.at = "ended" /\ ~Lives /\ ~Lives'
    BY <1>1 DEF ThreadsAgree, Left, Lives, SinkTypes
  <1>7. SinkTypes'
    BY <1>1, <1>2, <1>4 DEF SinkTypes
  <1>8. PipeGoesOn' /\ QueueGoesOn'
    <2>1. Piped' = <<>>
      BY <1>1 DEF Piped
    <2>2. Sent' = Len(output) /\ Len(output) <= Last /\ Len(Piped') = 0
      BY <1>1, <2>1 DEF Sent, PipeGoesOn
    <2>. QED BY <1>6, <2>1, <2>2 DEF PipeGoesOn, QueueGoesOn
  <1>9. ThreadsAgree'
    BY <1>1, <1>2, <1>4, <1>6 DEF ThreadsAgree, Leaving, Left
  <1>10. CodeAgrees'
    BY <1>1, <1>2, <1>4, <1>5 DEF CodeAgrees
  <1>11. Promised
    BY <1>1, <1>2, <1>4, <1>5 DEF Promised, Result
  <1>. QED BY <1>7, <1>8, <1>9, <1>10, <1>11 DEF SinkInv

\* A step that leaves the output: where the exit code is not given, nothing is seen.
LEMMA NothingSeen ==
  ASSUME UNCHANGED output, loop'.at = "exited" <=> loop.at = "exited", loop'.code = loop.code PROVE Promised
  BY DEF Promised, Result

LEMMA StartWriterStep == SinkInv /\ StartWriter => SinkInv' /\ Promised
  <1>. SUFFICES ASSUME SinkInv, StartWriter PROVE SinkInv' /\ Promised
    OBVIOUS
  <1>1. /\ SinkTypes /\ PipeGoesOn /\ QueueGoesOn /\ ThreadsAgree /\ CodeAgrees
        /\ UNCHANGED <<video, held, queue, closed, failed, encoder, input, output>>
        /\ loop.at = "start" /\ loop' = [loop EXCEPT !.at = "options"] /\ writer' = [writer EXCEPT !.at = "pop"]
        /\ writer.at = "none" /\ ~closed /\ loop \in LoopStates
    BY PiecesAre DEF StartWriter, Goes, SinkTypes, feed, ffmpeg, ThreadsAgree
  <1>2. /\ loop' \in LoopStates /\ loop'.at = "options" /\ loop'.tf = loop.tf /\ loop'.code = loop.code
        /\ writer' \in [at : {"none", "pop", "empty", "write", "failed", "ended"}, picture : Nat \cup {None}]
        /\ writer'.at = "pop" /\ writer'.picture = writer.picture
    BY <1>1 DEF LoopStates, SinkTypes
  <1>3. SinkTypes'
    BY <1>1, <1>2 DEF SinkTypes
  <1>4. PipeGoesOn' /\ QueueGoesOn' /\ Sent' = Sent
    <2>1. Piped' = Piped /\ Lives /\ InHand' = InHand
      BY <1>1, <1>2 DEF Piped, Lives, InHand
    <2>. QED BY <1>1, <1>2, <2>1, PicturesStay
  <1>5. ThreadsAgree' /\ CodeAgrees'
    BY <1>1, <1>2, <1>4 DEF ThreadsAgree, CodeAgrees, Leaving, Left, Lives
  <1>6. Promised
    BY <1>1, <1>2, NothingSeen
  <1>. QED BY <1>3, <1>4, <1>5, <1>6 DEF SinkInv

LEMMA PushStep == SinkInv /\ Push => SinkInv' /\ Promised
  <1>. SUFFICES ASSUME SinkInv, Push PROVE SinkInv' /\ Promised
    OBVIOUS
  <1>1. /\ SinkTypes /\ PipeGoesOn /\ QueueGoesOn /\ ThreadsAgree /\ CodeAgrees
        /\ UNCHANGED <<video, closed, failed, encoder, input, output>>
        /\ loop.at = "push" /\ loop \in LoopStates /\ queue \in Seq(Nat) /\ Sample \in [1 .. Last -> Nat]
        /\ loop.tf \in Nat /\ loop.tf >= 1 /\ loop.tf <= Last /\ Last \in Nat /\ writer.at # "none"
        /\ writer \in [at : {"none", "pop", "empty", "write", "failed", "ended"}, picture : Nat \cup {None}]
    BY PiecesAre DEF Push, SinkTypes, ffmpeg, ThreadsAgree
  <1>2. Shown = Sample[loop.tf] /\ Shown \in Nat
    BY <1>1 DEF Shown, ThreadsAgree
  <1>3. Piped' = Piped /\ Sent' = Sent /\ Sent \in Nat /\ InHand \in {0, 1} /\ Len(queue) \in Nat
    BY <1>1, PiecesAre DEF Piped, Sent
  <1>4. CASE Goes("full") /\ UNCHANGED <<held, queue, writer>>
    <2>1. PICK l : l = [loop EXCEPT !.at = "full"]
      OBVIOUS
    <2>2. l \in LoopStates /\ l.at = "full" /\ l.tf = loop.tf /\ l.code = loop.code /\ loop' = l
      BY <1>1, <1>4, <2>1 DEF LoopStates, Goes
    <2>3. Sent' = Sent => ThreadsAgree' /\ CodeAgrees'
      BY <1>1, <1>4, <2>2 DEF ThreadsAgree, CodeAgrees, Leaving, Left, Lives
    <2>. QED BY <1>1, <1>4, <2>2, <2>3, LoopMoves DEF SinkTypes
  <1>5. CASE Hold(Shown) /\ PushEnds
    <2>1. PICK l : l = [loop EXCEPT !.at = "next", !.tf = @ + 1]
      OBVIOUS
    <2>2. l \in LoopStates /\ l.at = "next" /\ l.tf = loop.tf + 1 /\ l.code = loop.code /\ loop' = l
      <3>1. loop.tf + 1 \in 1 .. (Last + 1)
        BY <1>1
      <3>2. PICK n \in 1 .. (Last + 1) : n = loop.tf + 1
        BY <3>1
      <3>3. l = [loop EXCEPT !.at = "next", !.tf = n]
        BY <2>1, <3>2
      <3>. QED BY <1>1, <1>5, <2>1, <3>2, <3>3 DEF LoopStates, PushEnds
    <2>3. held' \in Nat \cup {None}
      BY <1>2, <1>5 DEF Hold
    <2>4. /\ queue' \in Seq(Nat)
          /\ writer' \in [at : {"none", "pop", "empty", "write", "failed", "ended"}, picture : Nat \cup {None}]
          /\ writer'.picture = writer.picture
          /\ writer'.at = writer.at \/ (writer.at = "empty" /\ writer'.at = "pop")
          /\ (closed /\ queue' = queue) \/ (~closed /\ queue' = Append(queue, Shown))
      <3>1. ~Goes("full")
        BY <1>1, <2>2 DEF Goes, LoopStates
      <3>2. \/ closed /\ UNCHANGED <<queue, writer>>
            \/ ~closed /\ queue' = Append(queue, Shown) /\ writer' = WakeWriter(writer)
        BY <3>1 DEF Push
      <3>3. Append(queue, Shown) \in Seq(Nat)
        BY <1>1, <1>2
      <3>4. PICK w : w = WakeWriter(writer)
        OBVIOUS
      <3>5. /\ w \in [at : {"none", "pop", "empty", "write", "failed", "ended"}, picture : Nat \cup {None}]
            /\ w.picture = writer.picture /\ (w.at = writer.at \/ (writer.at = "empty" /\ w.at = "pop"))
        BY <1>1, <3>4 DEF WakeWriter
      <3>6. CASE closed /\ UNCHANGED <<queue, writer>>
        BY <1>1, <3>6
      <3>7. CASE ~closed /\ queue' = Append(queue, Shown) /\ writer' = WakeWriter(writer)
        <4>1. writer' = w
          BY <3>4, <3>7
        <4>. QED BY <3>3, <3>5, <3>7, <4>1
      <3>. QED BY <3>2, <3>6, <3>7
    <2>5. SinkTypes'
      BY <1>1, <2>2, <2>3, <2>4 DEF SinkTypes
    <2>6. PipeGoesOn'
      BY <1>1, <1>3 DEF PipeGoesOn
    <2>7. QueueGoesOn'
      <3>. SUFFICES ASSUME Lives' PROVE QueueGoesOn'
        BY DEF QueueGoesOn
      <3>1. Lives /\ InHand' = InHand
        BY <2>4 DEF Lives, InHand
      <3>2. ~closed /\ queue' = Append(queue, Shown)
        BY <1>1, <2>4, <3>1 DEF ThreadsAgree, Leaving
      <3>3. /\ Len(queue') = Len(queue) + 1 /\ queue'[Len(queue) + 1] = Shown
            /\ \A i \in 1 .. Len(queue) : queue'[i] = queue[i]
        BY <1>1, <1>2, <3>2
      <3>4. /\ Sent + InHand + Len(queue) = loop.tf - 1
            /\ writer.at = "write" => writer.picture = Sample[Sent + 1]
            /\ \A i \in 1 .. Len(queue) : queue[i] = Sample[Sent + InHand + i]
        BY <1>1, <3>1 DEF QueueGoesOn
      <3>5. PICK n \in Nat, h \in Nat, k \in Nat : n = Sent /\ h = InHand /\ k = Len(queue)
        BY <1>3
      <3>6. n + h + k + 1 = loop.tf /\ n + h + (k + 1) = loop.tf /\ Len(queue') = k + 1
        <4>1. PICK t \in Nat : t = loop.tf
          BY <1>1
        <4>2. n + h + k = t - 1
          BY <3>4, <3>5, <4>1
        <4>3. Len(queue') = k + 1
          BY <3>3, <3>5
        <4>4. n + h + k + 1 = t /\ n + h + (k + 1) = t
          BY <4>2
        <4>. QED BY <4>1, <4>3, <4>4
      <3>7. ASSUME NEW i \in 1 .. (k + 1) PROVE queue'[i] = Sample[n + h + i]
        <4>1. CASE i = k + 1
          BY <1>2, <3>3, <3>5, <3>6, <4>1
        <4>2. CASE i # k + 1
          BY <3>3, <3>4, <3>5, <4>2
        <4>. QED BY <4>1, <4>2
      <3>8. Sent' = n /\ InHand' = h /\ n + h + (k + 1) = loop'.tf - 1
        BY <1>1, <1>3, <2>2, <3>1, <3>5, <3>6
      <3>9. writer'.at = "write" => writer'.picture = Sample[n + 1]
        BY <2>4, <3>4, <3>5
      <3>. QED BY <3>6, <3>7, <3>8, <3>9 DEF QueueGoesOn
    <2>8. ThreadsAgree'
      BY <1>1, <1>3, <2>2, <2>4 DEF ThreadsAgree, Leaving, Left, Lives
    <2>9. CodeAgrees'
      BY <1>1, <1>3, <2>2 DEF CodeAgrees
    <2>10. Promised
      BY <1>1, <2>2, NothingSeen
    <2>. QED BY <2>5, <2>6, <2>7, <2>8, <2>9, <2>10 DEF SinkInv
  <1>. QED BY <1>4, <1>5 DEF Push

LEMMA StopWriterStep == SinkInv /\ StopWriter => SinkInv' /\ Promised
  <1>. SUFFICES ASSUME SinkInv, StopWriter PROVE SinkInv' /\ Promised
    OBVIOUS
  <1>1. /\ SinkTypes /\ PipeGoesOn /\ QueueGoesOn /\ ThreadsAgree /\ CodeAgrees
        /\ UNCHANGED <<video, held, queue, failed, encoder, input, output>> /\ closed'
        /\ loop.at \in {"finish", "abandon"} /\ loop \in LoopStates /\ writer' = WakeWriter(writer)
        /\ loop' = WakeLoop([loop EXCEPT !.at = IF loop.at = "finish" THEN "join" ELSE "join, abandon"])
        /\ writer \in [at : {"none", "pop", "empty", "write", "failed", "ended"}, picture : Nat \cup {None}]
    BY PiecesAre DEF StopWriter, Close, SinkTypes, ffmpeg
  <1>2. /\ loop' \in LoopStates /\ loop'.tf = loop.tf /\ loop'.code = loop.code
        /\ (loop.at = "finish" /\ loop'.at = "join") \/ (loop.at = "abandon" /\ loop'.at = "join, abandon")
    BY <1>1 DEF LoopStates, WakeLoop, Leaving
  <1>3. /\ writer' \in [at : {"none", "pop", "empty", "write", "failed", "ended"}, picture : Nat \cup {None}]
        /\ writer'.picture = writer.picture
        /\ writer'.at = writer.at \/ (writer.at = "empty" /\ writer'.at = "pop")
    BY <1>1 DEF WakeWriter
  <1>4. SinkTypes'
    <2>1. closed' \in BOOLEAN
      BY DEF StopWriter, Close
    <2>. QED BY <1>1, <1>2, <1>3, <2>1 DEF SinkTypes
  <1>5. PipeGoesOn' /\ QueueGoesOn' /\ Sent' = Sent
    <2>1. Piped' = Piped /\ (Lives' <=> Lives) /\ InHand' = InHand
      BY <1>1, <1>3 DEF Piped, Lives, InHand
    <2>. QED BY <1>1, <1>2, <1>3, <2>1, PicturesStay
  <1>6. ThreadsAgree' /\ CodeAgrees'
    BY <1>1, <1>2, <1>3, <1>5 DEF ThreadsAgree, CodeAgrees, Leaving, Left, Lives
  <1>7. Promised
    BY <1>1, <1>2, NothingSeen
  <1>. QED BY <1>4, <1>5, <1>6, <1>7 DEF SinkInv

LEMMA LoopStep == SinkInv /\ Loop => SinkInv' /\ Promised
  BY OpenStep, StartWriterStep, OptionsStep, TurnStep, PushStep, StopWriterStep, JoinedStep, ClosePipeStep,
     ReapedStep DEF Loop

-----------------------------------------------------------------------------
(* The steps of the writer thread. *)

WriterStates == [at : {"none", "pop", "empty", "write", "failed", "ended"}, picture : Nat \cup {None}]

\* A woken render loop is at the same frame.
SameFrame(l) ==
    /\ l \in LoopStates /\ l.tf = loop.tf /\ l.code = loop.code
    /\ l.at = loop.at \/ (loop.at = "full" /\ l.at = "push")

LEMMA LoopIsWoken ==
  ASSUME SinkInv
  PROVE  SameFrame(loop) /\ SameFrame(WakeLoop(loop))
  <1>1. loop \in LoopStates
    BY PiecesAre DEF SinkTypes
  <1>2. PICK l : l = WakeLoop(loop)
    OBVIOUS
  <1>3. SameFrame(l)
    BY <1>1, <1>2 DEF SameFrame, WakeLoop, LoopStates
  <1>. QED BY <1>1, <1>2, <1>3 DEF SameFrame

\* While the writer is at work the command runs, and the queue goes on to its frame.
LEMMA WriterIs ==
  ASSUME SinkInv, writer.at \in {"pop", "empty", "write", "failed"}
  PROVE  /\ loop.at \notin {"open", "start"} \cup Left /\ encoder # "reaped" /\ Result = "none"
         /\ writer \in WriterStates /\ (closed /\ Lives => loop.at \in Leaving)
         /\ queue \in Seq(Nat) /\ output \in Seq(Nat)
  <1>1. SinkTypes /\ ThreadsAgree /\ CodeAgrees
    BY PiecesAre
  <1>2. loop.at \notin {"open", "start"} \cup Left
    BY <1>1 DEF ThreadsAgree
  <1>. QED BY <1>1, <1>2 DEF SinkTypes, WriterStates, ThreadsAgree, CodeAgrees, Left, Result

\* A step that leaves the output, the pipe and the flag, of a writer at work.
LEMMA WriterMoves ==
  ASSUME SinkInv, UNCHANGED <<video, held, encoder, input, output>>, writer.at \in {"pop", "empty", "write", "failed"},
         SameFrame(loop'), queue' \in Seq(Nat), writer' \in WriterStates, closed' \in BOOLEAN, failed' \in BOOLEAN,
         writer'.at # "none", Sent' = Sent => QueueGoesOn', closed' /\ Lives' => loop.at \in Leaving,
         failed => failed', failed' => ~Lives',
         writer'.at = "ended" /\ ~failed' => loop.at \in Leaving /\ Sent = loop.tf - 1
  PROVE  SinkInv' /\ Promised
  <1>1. SinkTypes /\ PipeGoesOn /\ ThreadsAgree /\ CodeAgrees
    BY PiecesAre
  <1>2. Piped' = Piped /\ Sent' = Sent
    BY DEF Piped, Sent
  <1>3. loop.at \notin {"open", "start"} \cup Left /\ encoder # "reaped"
    BY WriterIs
  <1>4. /\ loop' \in LoopStates /\ loop'.tf = loop.tf /\ loop'.code = loop.code
        /\ loop'.at = loop.at \/ (loop.at = "full" /\ loop'.at = "push")
    BY DEF SameFrame
  <1>5. SinkTypes'
    BY <1>1, <1>4 DEF SinkTypes, WriterStates
  <1>6. PipeGoesOn' /\ QueueGoesOn'
    BY <1>1, <1>2 DEF PipeGoesOn
  <1>7. ThreadsAgree'
    <2>1. loop'.at \notin {"open", "start"} \cup Left
      BY <1>3, <1>4 DEF Left
    <2>2. loop'.at \in {"push", "full"} => loop'.tf <= Last /\ (held' = None \/ held' = Sample[loop'.tf])
      BY <1>1, <1>4 DEF ThreadsAgree
    <2>3. loop.at \in Leaving => loop'.at \in Leaving
      BY <1>4 DEF Leaving
    <2>. QED BY <1>2, <1>4, <2>1, <2>2, <2>3 DEF ThreadsAgree
  <1>8. CodeAgrees'
    BY <1>1, <1>2, <1>3, <1>4 DEF CodeAgrees, Left
  <1>9. Promised
    BY <1>3, <1>4, NothingSeen DEF Left
  <1>. QED BY <1>5, <1>6, <1>7, <1>8, <1>9 DEF SinkInv

LEMMA PopStep == SinkInv /\ Pop => SinkInv' /\ Promised
  <1>. SUFFICES ASSUME SinkInv, Pop PROVE SinkInv' /\ Promised
    OBVIOUS
  <1>1. /\ SinkTypes /\ QueueGoesOn /\ ThreadsAgree /\ writer.at = "pop" /\ Lives /\ InHand = 0
        /\ UNCHANGED <<video, held, closed, failed, encoder, input, output>>
        /\ writer \in WriterStates /\ queue \in Seq(Nat) /\ (closed => loop.at \in Leaving)
        /\ closed \in BOOLEAN /\ failed \in BOOLEAN /\ ~failed
    BY PiecesAre, WriterIs DEF Pop, SinkTypes, ffmpeg, Lives, InHand, ThreadsAgree
  <1>2. /\ Sent + Len(queue) = loop.tf - 1
        /\ \A i \in 1 .. Len(queue) : queue[i] = Sample[Sent + i]
        /\ Sent \in Nat /\ Len(queue) \in Nat /\ loop.tf \in Nat
    <2>1. Sent \in Nat /\ Len(queue) \in Nat /\ loop.tf \in Nat
      BY PiecesAre
    <2>2. Sent + 0 + Len(queue) = loop.tf - 1 /\ \A i \in 1 .. Len(queue) : queue[i] = Sample[Sent + 0 + i]
      BY <1>1 DEF QueueGoesOn
    <2>3. \A n \in Nat : Sent + 0 + n = Sent + n
      BY <2>1
    <2>. QED BY <2>1, <2>2, <2>3
  <1>3. CASE queue # <<>> /\ writer' = [at |-> "write", picture |-> Head(queue)] /\ queue' = Tail(queue)
             /\ loop' = WakeLoop(loop)
    <2>1. /\ Head(queue) \in Nat /\ Head(queue) = queue[1] /\ Tail(queue) \in Seq(Nat) /\ Len(queue) >= 1
          /\ Len(Tail(queue)) = Len(queue) - 1 /\ \A i \in 1 .. Len(Tail(queue)) : Tail(queue)[i] = queue[i + 1]
      BY <1>1, <1>3
    <2>2. writer' \in WriterStates /\ writer'.at = "write" /\ writer'.picture = Sample[Sent + 1]
      BY <1>2, <1>3, <2>1 DEF WriterStates
    <2>3. ASSUME Sent' = Sent PROVE QueueGoesOn'
      <3>1. InHand' = 1
        BY <2>2 DEF InHand
      <3>2. PICK n \in Nat, k \in Nat : n = Sent /\ k = Len(queue)
        BY <1>2
      <3>3. Len(queue') = k - 1 /\ \A i \in 1 .. (k - 1) : queue'[i] = Sample[n + 1 + i]
        <4>1. Len(queue') = k - 1 /\ \A i \in 1 .. (k - 1) : queue'[i] = queue[i + 1]
          BY <1>3, <2>1, <3>2
        <4>2. \A i \in 1 .. (k - 1) : queue[i + 1] = Sample[n + (i + 1)]
          BY <1>2, <3>2
        <4>3. \A i \in Nat : n + (i + 1) = n + 1 + i
          BY <3>2
        <4>. QED BY <4>1, <4>2, <4>3
      <3>4. loop'.tf = loop.tf
        BY <1>3, LoopIsWoken DEF SameFrame
      <3>5. n + 1 + (k - 1) = loop'.tf - 1
        <4>1. n + k = loop.tf - 1
          BY <1>2, <3>2
        <4>2. n + 1 + (k - 1) = n + k
          BY <3>2
        <4>. QED BY <3>4, <4>1, <4>2
      <3>. QED BY <2>2, <2>3, <3>1, <3>2, <3>3, <3>5 DEF QueueGoesOn
    <2>4. SameFrame(loop')
      BY <1>3, LoopIsWoken
    <2>. QED BY <1>1, <1>3, <2>1, <2>2, <2>3, <2>4, WriterMoves
  <1>4. CASE queue = <<>> /\ closed /\ writer' = [writer EXCEPT !.at = "ended"] /\ UNCHANGED <<queue, loop>>
    <2>1. writer' \in WriterStates /\ writer'.at = "ended"
      BY <1>1, <1>4 DEF WriterStates
    <2>2. ~Lives' /\ QueueGoesOn'
      BY <2>1 DEF Lives, QueueGoesOn
    <2>3. Sent = loop.tf - 1
      BY <1>2, <1>4
    <2>4. SameFrame(loop')
      BY <1>4, LoopIsWoken
    <2>. QED BY <1>1, <1>4, <2>1, <2>2, <2>3, <2>4, WriterMoves
  <1>5. CASE queue = <<>> /\ ~closed /\ writer' = [writer EXCEPT !.at = "empty"] /\ UNCHANGED <<queue, loop>>
    <2>1. writer' \in WriterStates /\ writer'.at = "empty"
      BY <1>1, <1>5 DEF WriterStates
    <2>2. ASSUME Sent' = Sent PROVE QueueGoesOn'
      <3>1. InHand' = InHand
        BY <1>1, <2>1 DEF InHand
      <3>. QED BY <1>1, <1>5, <2>1, <2>2, <3>1 DEF QueueGoesOn
    <2>3. SameFrame(loop')
      BY <1>5, LoopIsWoken
    <2>. QED BY <1>1, <1>5, <2>1, <2>2, <2>3, WriterMoves
  <1>. QED BY <1>3, <1>4, <1>5 DEF Pop

\* A writer that failed has nothing in hand that counts.
LEMMA WriterFailedStep == SinkInv /\ ((writer.at = "write" /\ WriteFails /\ UNCHANGED <<loop, feed, video, failed, ffmpeg>>)
                                      \/ WriterFails \/ WriterCloses) => SinkInv' /\ Promised
  <1>. SUFFICES ASSUME SinkInv, (writer.at = "write" /\ WriteFails /\ UNCHANGED <<loop, feed, video, failed, ffmpeg>>)
                                \/ WriterFails \/ WriterCloses
                PROVE  SinkInv' /\ Promised
    OBVIOUS
  <1>1. writer.at \in {"write", "failed"} /\ closed \in BOOLEAN /\ failed \in BOOLEAN /\ writer \in WriterStates
        /\ queue \in Seq(Nat) /\ UNCHANGED <<video, held, queue, encoder, input, output>>
    BY PiecesAre DEF WriterFails, WriterCloses, SinkTypes, WriterStates, feed, ffmpeg
  <1>2. SameFrame(loop')
    <2>1. loop' = loop \/ loop' = WakeLoop(loop)
      BY DEF WriterFails, WriterCloses, Close
    <2>. QED BY <2>1, LoopIsWoken
  <1>3. writer' \in WriterStates /\ writer'.at \in {"failed", "ended"} /\ (writer'.at = "ended" => failed')
    <2>1. CASE WriteFails /\ failed' = failed
      BY <2>1 DEF WriteFails, WriterStates
    <2>2. CASE WriterFails
      BY <1>1, <2>2 DEF WriterFails, WriterStates
    <2>3. CASE WriterCloses
      <3>1. PICK w : w = [writer EXCEPT !.at = "ended"]
        OBVIOUS
      <3>2. w \in WriterStates /\ w.at = "ended" /\ writer' = WakeWriter(w)
        BY <1>1, <2>3, <3>1 DEF WriterStates, WriterCloses, Close
      <3>3. WakeWriter(w) \in WriterStates /\ WakeWriter(w).at = "ended"
        BY <3>2 DEF WakeWriter, WriterStates
      <3>4. failed'
        BY <2>3 DEF WriterCloses, ffmpeg
      <3>. QED BY <3>2, <3>3, <3>4
    <2>. QED BY <2>1, <2>2, <2>3
  <1>4. ~Lives' /\ QueueGoesOn'
    BY <1>3 DEF Lives, QueueGoesOn
  <1>5. closed' \in BOOLEAN /\ failed' \in BOOLEAN /\ (failed => failed')
    BY <1>1 DEF WriterFails, WriterCloses, Close, feed, ffmpeg
  <1>. QED BY <1>1, <1>2, <1>3, <1>4, <1>5, WriterMoves


\* The writer has the next picture in hand.
LEMMA InHandIsNext ==
  ASSUME SinkInv, writer.at = "write"
  PROVE  /\ Lives /\ InHand = 1 /\ Sent + 1 <= Last
         /\ writer.picture = Sample[Sent + 1] /\ writer.picture \in Nat
  <1>1. /\ QueueGoesOn /\ Sample \in [1 .. Last -> Nat] /\ Last \in Nat
        /\ Sent \in Nat /\ Len(queue) \in Nat /\ loop.tf \in 1 .. (Last + 1)
    BY PiecesAre
  <1>2. Lives /\ InHand = 1
    BY DEF Lives, InHand
  <1>3. Sent + 1 + Len(queue) = loop.tf - 1 /\ writer.picture = Sample[Sent + 1]
    BY <1>1, <1>2 DEF QueueGoesOn
  <1>4. PICK n \in Nat, k \in Nat, t \in 1 .. (Last + 1) : n = Sent /\ k = Len(queue) /\ t = loop.tf
    BY <1>1
  <1>5. n + 1 + k = t - 1
    BY <1>3, <1>4
  <1>6. Sent + 1 \in 1 .. Last
    BY <1>1, <1>4, <1>5
  <1>. QED BY <1>1, <1>2, <1>3, <1>6

\* The picture in hand becomes the next one sent.
LEMMA OneMoreIsSent ==
  ASSUME SinkInv, writer.at = "write", Written, UNCHANGED <<loop, feed, failed>>, Sent' = Sent + 1
  PROVE  writer' \in WriterStates /\ QueueGoesOn' /\ ThreadsAgree'
  <1>1. QueueGoesOn /\ ThreadsAgree /\ Sent \in Nat
    BY PiecesAre
  <1>2. loop.at \notin {"open", "start"} \cup Left /\ (closed => loop.at \in Leaving)
    BY WriterIs DEF Lives
  <1>3. InHand = 1 /\ Lives /\ writer'.at = "pop" /\ InHand' = 0 /\ writer' \in WriterStates
    BY DEF InHand, Lives, Written, WriterStates
  <1>4. /\ Sent + 1 + Len(queue) = loop.tf - 1 /\ \A i \in 1 .. Len(queue) : queue[i] = Sample[Sent + 1 + i]
    BY <1>1, <1>3 DEF QueueGoesOn
  <1>5. QueueGoesOn'
    <2>1. PICK n \in Nat : n = Sent + 1
      BY <1>1
    <2>2. n + 0 = n
      BY <2>1
    <2>3. Sent' + InHand' = n
      BY <1>3, <2>1, <2>2
    <2>. QED BY <1>3, <1>4, <2>1, <2>3 DEF QueueGoesOn, feed
  <1>6. ThreadsAgree'
    BY <1>1, <1>2, <1>3 DEF ThreadsAgree, feed, Left, Lives
  <1>. QED BY <1>3, <1>5, <1>6

LEMMA WriteStillStep == SinkInv /\ WriteStill => SinkInv' /\ Promised
  <1>. SUFFICES ASSUME SinkInv, WriteStill PROVE SinkInv' /\ Promised
    OBVIOUS
  <1>1. CASE Fails /\ WriteFails /\ UNCHANGED output
    BY <1>1, WriterFailedStep DEF WriteStill, ffmpeg
  <1>2. CASE output' = Append(output, writer.picture) /\ Written
    <2>1. /\ SinkTypes /\ PipeGoesOn /\ CodeAgrees /\ writer.at = "write" /\ ~video /\ encoder = "none"
          /\ UNCHANGED <<video, loop, feed, failed, encoder, input>> /\ Len(output) \in Nat
          /\ Sent \in Nat /\ output \in Seq(Nat) /\ Last \in Nat
      BY PiecesAre DEF WriteStill, CodeAgrees, SinkTypes
    <2>2. Piped = <<>> /\ Piped' = <<>> /\ Len(<<>>) = 0
      BY <2>1 DEF Piped
    <2>3. Sent = Len(output)
      BY <2>1, <2>2 DEF Sent
    <2>4. writer.picture \in Nat => Len(output') = Len(output) + 1 /\ output' \in Seq(Nat)
      BY <1>2, <2>1
    <2>5. writer.picture \in Nat /\ writer.picture = Sample[Sent + 1] /\ Sent + 1 <= Last
      BY <2>1, InHandIsNext
    <2>6. Sent' = Sent + 1
      <3>1. Sent' = Len(output') + 0
        BY <2>2 DEF Sent
      <3>. QED BY <2>1, <2>3, <2>4, <2>5, <3>1
    <2>7. writer' \in WriterStates /\ QueueGoesOn' /\ ThreadsAgree'
      BY <1>2, <2>1, <2>6, OneMoreIsSent
    <2>8. SinkTypes'
      BY <2>1, <2>4, <2>5, <2>7 DEF SinkTypes, WriterStates, feed
    <2>9. PipeGoesOn'
      BY <2>2, <2>5, <2>6 DEF PipeGoesOn
    <2>10. loop.at \notin Left /\ Result = "none"
      BY <2>1, WriterIs
    <2>11. CodeAgrees'
      BY <2>1, <2>10 DEF CodeAgrees, Left
    <2>12. Promised
      <3>1. Result' = "none"
        BY <2>1, <2>10 DEF Result, Left
      <3>2. Len(output) < Last /\ output' = Append(output, Sample[Len(output) + 1])
        BY <1>2, <2>1, <2>3, <2>5
      <3>. QED BY <2>10, <3>1, <3>2 DEF Promised
    <2>. QED BY <2>7, <2>8, <2>9, <2>11, <2>12 DEF SinkInv
  <1>. QED BY <1>1, <1>2 DEF WriteStill

LEMMA WriteFrameStep == SinkInv /\ WriteFrame => SinkInv' /\ Promised
  <1>. SUFFICES ASSUME SinkInv, WriteFrame PROVE SinkInv' /\ Promised
    OBVIOUS
  <1>1. CASE WriteFails /\ UNCHANGED input
    BY <1>1, WriterFailedStep DEF WriteFrame, ffmpeg
  <1>2. CASE encoder = "runs" /\ input' = Append(input, writer.picture) /\ Written
    <2>1. /\ SinkTypes /\ PipeGoesOn /\ CodeAgrees /\ writer.at = "write" /\ video
          /\ UNCHANGED <<video, loop, feed, failed, encoder, output>> /\ Len(output) \in Nat
          /\ Sent \in Nat /\ output \in Seq(Nat) /\ Last \in Nat
      BY PiecesAre DEF WriteFrame, SinkTypes
    <2>2. Piped = input /\ Piped' = input' /\ input \in Seq(Nat) /\ Len(input) \in Nat
      BY <1>2, <2>1 DEF Piped, SinkTypes
    <2>3. writer.picture = Sample[Sent + 1] /\ writer.picture \in Nat /\ Sent + 1 <= Last
      BY <2>1, InHandIsNext
    <2>4. /\ Len(input') = Len(input) + 1 /\ input' \in Seq(Nat) /\ input'[Len(input) + 1] = writer.picture
          /\ \A i \in 1 .. Len(input) : input'[i] = input[i]
      BY <1>2, <2>2, <2>3
    <2>5. Sent' = Sent + 1
      <3>1. Sent' = Len(output) + (Len(input) + 1) /\ Sent = Len(output) + Len(input)
        BY <2>1, <2>2, <2>4 DEF Sent
      <3>. QED BY <2>1, <2>2, <3>1
    <2>6. writer' \in WriterStates /\ QueueGoesOn' /\ ThreadsAgree'
      BY <1>2, <2>1, <2>5, OneMoreIsSent
    <2>7. SinkTypes'
      BY <2>1, <2>4, <2>6 DEF SinkTypes, WriterStates, feed
    <2>8. PipeGoesOn'
      <3>1. PICK n \in Nat, k \in Nat : n = Len(output) /\ k = Len(input)
        BY <2>1, <2>2
      <3>2. ASSUME NEW i \in 1 .. (k + 1) PROVE input'[i] = Sample[n + i]
        <4>1. CASE i = k + 1
          <5>1. Sent + 1 = n + i
            BY <2>1, <2>2, <3>1, <4>1 DEF Sent
          <5>. QED BY <2>3, <2>4, <3>1, <4>1, <5>1
        <4>2. CASE i # k + 1
          <5>1. \A j \in 1 .. k : input[j] = Sample[n + j]
            BY <2>1, <2>2, <3>1 DEF PipeGoesOn
          <5>2. i \in 1 .. k /\ input'[i] = input[i]
            BY <2>4, <3>1, <4>2
          <5>. QED BY <5>1, <5>2
        <4>. QED BY <4>1, <4>2
      <3>. QED BY <2>1, <2>2, <2>3, <2>4, <2>5, <3>1, <3>2 DEF PipeGoesOn
    <2>9. loop.at \notin Left
      BY <2>1, WriterIs
    <2>10. CodeAgrees'
      BY <1>2, <2>1, <2>9 DEF CodeAgrees, Left
    <2>11. Promised
      BY <2>1, NothingSeen
    <2>. QED BY <2>6, <2>7, <2>8, <2>10, <2>11 DEF SinkInv
  <1>. QED BY <1>1, <1>2 DEF WriteFrame

LEMMA WriterStep == SinkInv /\ Writer => SinkInv' /\ Promised
  BY PopStep, WriteStillStep, WriteFrameStep, WriterFailedStep DEF Writer

-----------------------------------------------------------------------------
(* The encoder. *)

LEMMA EncodeStep == SinkInv /\ Encode => SinkInv' /\ Promised
  <1>. SUFFICES ASSUME SinkInv, Encode PROVE SinkInv' /\ Promised
    OBVIOUS
  <1>1. /\ SinkTypes /\ PipeGoesOn /\ QueueGoesOn /\ ThreadsAgree /\ CodeAgrees
        /\ UNCHANGED <<video, loop, held, queue, closed, writer, failed, encoder>>
        /\ encoder \in {"runs", "flushing"} /\ input # <<>> /\ input' = Tail(input)
        /\ output' = Append(output, Head(input)) /\ input \in Seq(Nat) /\ output \in Seq(Nat)
        /\ Len(output) \in Nat /\ Len(input) \in Nat /\ Last \in Nat
    BY PiecesAre DEF Encode, Reading, SinkTypes, feed
  <1>2. /\ Head(input) \in Nat /\ Head(input) = input[1] /\ Tail(input) \in Seq(Nat) /\ Len(input) >= 1
        /\ Len(Tail(input)) = Len(input) - 1 /\ \A i \in 1 .. Len(Tail(input)) : Tail(input)[i] = input[i + 1]
    BY <1>1
  <1>3. Len(output') = Len(output) + 1 /\ output' \in Seq(Nat)
    BY <1>1, <1>2
  <1>4. Piped = input /\ Piped' = input'
    BY <1>1 DEF Piped
  <1>5. PICK n \in Nat, k \in Nat : n = Len(output) /\ k = Len(input)
    BY <1>1
  <1>6. Sent = n + k /\ Sent' = n + 1 + (k - 1) /\ n + 1 + (k - 1) = n + k
    BY <1>1, <1>2, <1>3, <1>4, <1>5 DEF Sent
  <1>7. SinkTypes'
    BY <1>1, <1>2, <1>3 DEF SinkTypes
  <1>8. n + k <= Last /\ \A i \in 1 .. k : input[i] = Sample[n + i]
    BY <1>1, <1>4, <1>5, <1>6 DEF PipeGoesOn
  <1>9. PipeGoesOn'
    <2>1. Len(input') = k - 1 /\ \A i \in 1 .. (k - 1) : input'[i] = input[i + 1]
      BY <1>1, <1>2, <1>5
    <2>2. \A i \in 1 .. (k - 1) : input[i + 1] = Sample[n + (i + 1)]
      BY <1>8
    <2>3. \A i \in Nat : n + (i + 1) = n + 1 + i
      OBVIOUS
    <2>4. \A i \in 1 .. (k - 1) : input'[i] = Sample[n + 1 + i]
      BY <2>1, <2>2, <2>3
    <2>. QED BY <1>3, <1>4, <1>5, <1>6, <1>8, <2>1, <2>4 DEF PipeGoesOn
  <1>10. QueueGoesOn'
    BY <1>1, <1>6 DEF QueueGoesOn, Lives, InHand
  <1>11. ThreadsAgree'
    BY <1>1, <1>6 DEF ThreadsAgree, Lives
  <1>12. loop.at # "exited" /\ encoder # "finished"
    BY <1>1 DEF CodeAgrees
  <1>13. CodeAgrees'
    BY <1>1, <1>6, <1>12 DEF CodeAgrees
  <1>14. Promised
    <2>1. Result = "none" /\ Result' = "none"
      BY <1>1, <1>12 DEF Result
    <2>2. n < Last /\ Head(input) = Sample[n + 1]
      BY <1>1, <1>2, <1>5, <1>8
    <2>. QED BY <1>1, <1>5, <2>1, <2>2 DEF Promised
  <1>. QED BY <1>7, <1>9, <1>10, <1>11, <1>13, <1>14 DEF SinkInv

LEMMA EncoderGoneStep == SinkInv /\ (EncoderEnds \/ EncoderCrashes) => SinkInv' /\ Promised
  <1>. SUFFICES ASSUME SinkInv, EncoderEnds \/ EncoderCrashes PROVE SinkInv' /\ Promised
    OBVIOUS
  <1>1. /\ SinkTypes /\ PipeGoesOn /\ QueueGoesOn /\ ThreadsAgree /\ CodeAgrees
        /\ UNCHANGED <<video, loop, held, queue, closed, writer, failed, input, output>>
        /\ encoder \in {"runs", "flushing"}
        /\ (encoder' = "finished" /\ input = <<>>) \/ encoder' = "crashed"
    BY PiecesAre DEF EncoderEnds, EncoderCrashes, Reading, feed
  <1>2. Piped' = Piped
    BY <1>1 DEF Piped
  <1>3. SinkTypes'
    BY <1>1 DEF SinkTypes
  <1>4. InHand' = InHand /\ (Lives' <=> Lives)
    BY <1>1 DEF InHand, Lives
  <1>5. PipeGoesOn' /\ QueueGoesOn' /\ Sent' = Sent
    BY <1>1, <1>2, <1>4, PicturesStay
  <1>6. ThreadsAgree'
    BY <1>1, <1>4, <1>5 DEF ThreadsAgree
  <1>7. CodeAgrees'
    BY <1>1, <1>5 DEF CodeAgrees
  <1>8. Promised
    BY <1>1, NothingSeen
  <1>. QED BY <1>3, <1>5, <1>6, <1>7, <1>8 DEF SinkInv

-----------------------------------------------------------------------------
LEMMA SinkStart == Init => SinkInv /\ output = <<>> /\ Result = "none"
  <1>. SUFFICES ASSUME Init PROVE SinkInv /\ output = <<>> /\ Result = "none"
    OBVIOUS
  <1>1. Last \in Nat \ {0} /\ Codecs \in Int
    BY SinkAssumption
  <1>2. loop \in LoopStates /\ loop.at = "open" /\ loop.tf = 1 /\ loop.code = "ok"
    BY <1>1 DEF Init, LoopStates
  <1>3. <<>> \in Seq(Nat) /\ Len(<<>>) = 0
    OBVIOUS
  <1>4. SinkTypes
    BY <1>2, <1>3 DEF Init, SinkTypes
  <1>5. Piped = <<>> /\ Sent = 0 /\ InHand = 0
    BY <1>3 DEF Init, Piped, Sent, InHand
  <1>6. PipeGoesOn
    BY <1>1, <1>3, <1>5 DEF Init, PipeGoesOn
  <1>7. QueueGoesOn
    BY <1>2, <1>3, <1>5 DEF Init, QueueGoesOn
  <1>8. ThreadsAgree /\ CodeAgrees
    BY <1>2 DEF Init, ThreadsAgree, CodeAgrees, Leaving, Left, Lives
  <1>. QED BY <1>2, <1>4, <1>6, <1>7, <1>8 DEF Init, SinkInv, Result

LEMMA SinkStutter == SinkInv /\ UNCHANGED vars => SinkInv' /\ Promised
  <1>. SUFFICES ASSUME SinkInv, UNCHANGED vars PROVE SinkInv' /\ Promised
    OBVIOUS
  <1>1. UNCHANGED <<video, loop, held, queue, closed, writer, failed, encoder, input, output>>
    BY DEF vars
  <1>2. Piped' = Piped /\ (Lives' <=> Lives) /\ InHand' = InHand
    BY <1>1 DEF Piped, Lives, InHand
  <1>3. SinkTypes' /\ CodeAgrees'
    <2>1. SinkTypes'
      BY <1>1, PiecesAre DEF SinkTypes
    <2>2. Sent' = Sent
      BY <1>1, <1>2 DEF Sent
    <2>3. CodeAgrees'
      BY <1>1, <2>2, PiecesAre DEF CodeAgrees
    <2>. QED BY <2>1, <2>3
  <1>4. PipeGoesOn' /\ QueueGoesOn' /\ Sent' = Sent
    BY <1>1, <1>2, PiecesAre, PicturesStay
  <1>5. ThreadsAgree'
    BY <1>1, <1>2, <1>4, PiecesAre DEF ThreadsAgree
  <1>6. Promised
    BY <1>1, NothingSeen
  <1>. QED BY <1>3, <1>4, <1>5, <1>6 DEF SinkInv

LEMMA SinkStep == SinkInv /\ [Next]_vars => SinkInv' /\ Promised
  BY LoopStep, WriterStep, EncodeStep, EncoderGoneStep, SinkStutter DEF Next, Encoder, Exited

\* The pictures of the output are those of the first frames.
OutputGoesOn == \A i \in 1 .. Len(output) : output[i] = Sample[i]

LEMMA OutputStep == SinkInv /\ OutputGoesOn /\ Promised => OutputGoesOn'
  <1>. SUFFICES ASSUME SinkInv, OutputGoesOn, Promised PROVE OutputGoesOn'
    OBVIOUS
  <1>1. output \in Seq(Nat) /\ Len(output) \in Nat /\ Last \in Nat /\ Sample \in [1 .. Last -> Nat]
    BY PiecesAre DEF SinkTypes
  <1>2. CASE UNCHANGED output
    BY <1>2 DEF OutputGoesOn
  <1>3. CASE Len(output) < Last /\ output' = Append(output, Sample[Len(output) + 1])
    <2>1. Sample[Len(output) + 1] \in Nat
      BY <1>1, <1>3
    <2>2. /\ Len(output') = Len(output) + 1 /\ output'[Len(output) + 1] = Sample[Len(output) + 1]
          /\ \A i \in 1 .. Len(output) : output'[i] = output[i]
      BY <1>1, <1>3, <2>1
    <2>. QED BY <1>1, <2>2 DEF OutputGoesOn
  <1>. QED BY <1>2, <1>3 DEF Promised

\* FrameQueue and FrameSink: in every state nothing was lost or mixed up between the
\* render loop and the output.  The pictures in the output and in the pipe are those
\* of the first frames, in order, and while the writer has not failed, those in its
\* hand and in the queue are those of the frames after, up to the one the loop is at;
\* an exit code that is still 0 at the end is of a complete output.
THEOREM NothingIsLostOnTheWay == Spec => [](SinkInv /\ OutputGoesOn)
  <1>1. Init => SinkInv /\ OutputGoesOn
    <2>1. Len(<<>>) = 0
      OBVIOUS
    <2>. QED BY <2>1, SinkStart DEF OutputGoesOn
  <1>2. SinkInv /\ OutputGoesOn /\ [Next]_vars => (SinkInv /\ OutputGoesOn)'
    BY SinkStep, OutputStep
  <1>. QED BY <1>1, <1>2, PTL DEF Spec

\* osvtool render: the output only ever grows by the next frame asked for, with the
\* picture of that frame's own sample, and the command ends with exit code 0 only when
\* every frame is in it, whatever fails on the way.
THEOREM OutputKeepsOrder == Spec => OutputInOrder
  <1>1. Init => Output!Init
    BY SinkStart DEF Output!Init, Result
  <1>2. SinkInv /\ [Next]_vars => [Output!Next]_(Output!vars)
    <2>. SUFFICES ASSUME SinkInv, [Next]_vars PROVE [Output!Next]_(Output!vars)
      OBVIOUS
    <2>1. Promised
      BY SinkStep
    <2>. QED BY <2>1 DEF Promised, Result, Output!Next, Output!Write, Output!Succeed, Output!Fail, Output!vars
  <1>. QED BY <1>1, <1>2, NothingIsLostOnTheWay, PTL DEF Spec, OutputInOrder, Output!Spec
=============================================================================
