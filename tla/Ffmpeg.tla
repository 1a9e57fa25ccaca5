-------------------------------- MODULE Ffmpeg --------------------------------
(***************************************************************************)
(* FfmpegComponent: every pipeline pipes its frames into an encoder of its *)
(* own, a child process that its first frame starts.  Frames are component *)
(* runs on threads of the pool, of one pipeline or of several; the table   *)
(* of children is behind a read-write lock, and a frame is written while   *)
(* the lock is held.  write_all writes a frame in pieces, here two, as the *)
(* pipe has room.                                                          *)
(***************************************************************************)
EXTENDS Naturals, Sequences, FiniteSets

CONSTANTS
    Frames,     \* runs of the component
    Of,         \* Of[f]: the pipeline (or none, which counts as one) of frame f
    Pipe,       \* how many pieces fit into the pipe of a child
    Stuck       \* pipelines whose encoder stops reading

Ids == {Of[f] : f \in Frames}

NoFrame == "nobody"

ASSUME FfmpegAssumption == Pipe \in Nat \ {0} /\ Stuck \subseteq Ids /\ NoFrame \notin Frames

VARIABLES
    child,      \* child[i]: the entry of pipeline i and the process in it
    stage,      \* stage[f]: where frame f is in run()
    writer,     \* writer[i]: the frame that has the stdin lock of child i, or NoFrame
    component   \* "up", "dropping" (in stop_all) or "gone"

ffmpegVars == <<child, stage, writer, component>>

Piece(f, n) == <<f, n>>

\* The frames that hold the table for reading, and for writing.
Readers == {f \in Frames : stage[f] \in {"found", "first", "second"}}
Writers == {f \in Frames : stage[f] \in {"ownFirst", "ownSecond"}}

\* std's RwLock lets no reader in while a writer waits.
ReadLockable == Writers = {} /\ \A f \in Frames : stage[f] # "waiting"
WriteLockable == Writers = {} /\ Readers = {}

FfmpegInit ==
    /\ child = [i \in Ids |-> [state |-> "absent", pipe |-> <<>>, got |-> <<>>,
                         starts |-> 0, crashed |-> FALSE]]
    /\ stage = [f \in Frames |-> "start"]
    /\ writer = [i \in Ids |-> NoFrame]
    /\ component = "up"

-----------------------------------------------------------------------------
Goes(f, to) == stage' = [stage EXCEPT ![f] = to]

\* The read lock, the lookup, and try_wait under the lock of the child.
Look(f) ==
    LET entry == child[Of[f]].state
    IN  /\ stage[f] = "start" /\ ReadLockable
        /\ Goes(f, CASE entry = "absent" -> "absent"
                     [] entry = "running" -> "found"
                     [] OTHER -> "done")
        /\ UNCHANGED <<child, writer, component>>

\* Mutated form: the stdin is shared without its lock.
LockStdinShared(f) ==
    /\ stage[f] = "found"
    /\ writer' = [writer EXCEPT ![Of[f]] = f]
    /\ Goes(f, "first")
    /\ UNCHANGED <<child, component>>

LockStdin(f) ==
    /\ stage[f] = "found" /\ writer[Of[f]] = NoFrame
    /\ writer' = [writer EXCEPT ![Of[f]] = f]
    /\ Goes(f, "first")
    /\ UNCHANGED <<child, component>>

\* No entry: the read lock is let go, and the write lock asked for, which other
\* frames that found no entry may do as well.
AskToWrite(f) ==
    /\ stage[f] = "absent"
    /\ Goes(f, "waiting")
    /\ UNCHANGED <<child, writer, component>>

\* The write lock, the entry (which another frame may have filled meanwhile),
\* and try_wait; ok says whether a child can be spawned.
Start(f, ok) ==
    LET i == Of[f]
    IN  /\ stage[f] = "waiting" /\ WriteLockable
        /\ child' = IF child[i].state = "absent"
                    THEN [child EXCEPT ![i].state = IF ok THEN "running" ELSE "failed",
                                       ![i].starts = @ + 1]
                    ELSE child
        /\ Goes(f, IF child'[i].state = "running" THEN "ownFirst" ELSE "done")
        /\ UNCHANGED <<writer, component>>

Free(f) == writer' = [writer EXCEPT ![Of[f]] = IF @ = f THEN NoFrame ELSE @]

\* write_all fails: the child has exited.
Broken(f) ==
    /\ stage[f] \in {"first", "second", "ownFirst", "ownSecond"}
    /\ child[Of[f]].state # "running"
    /\ Goes(f, "done") /\ Free(f)
    /\ UNCHANGED <<child, component>>

Write(f) ==
    LET i == Of[f]
        n == IF stage[f] \in {"first", "ownFirst"} THEN 1 ELSE 2
    IN  /\ stage[f] \in {"first", "second", "ownFirst", "ownSecond"}
        /\ child[i].state = "running" /\ Len(child[i].pipe) < Pipe
        /\ child' = [child EXCEPT ![i].pipe = Append(@, Piece(f, n))]
        /\ Goes(f, CASE stage[f] = "first" -> "second"
                     [] stage[f] = "ownFirst" -> "ownSecond"
                     [] OTHER -> "done")
        /\ IF n = 2 THEN Free(f) ELSE UNCHANGED writer
        /\ UNCHANGED component

Run(f) ==
    \/ Look(f) \/ LockStdin(f) \/ AskToWrite(f) \/ Broken(f) \/ Write(f)
    \/ \E ok \in BOOLEAN : Start(f, ok)

-----------------------------------------------------------------------------
(* The encoders.                                                           *)

Encode(i) ==
    /\ i \notin Stuck
    /\ child[i].state \in {"running", "closed"} /\ child[i].pipe # <<>>
    /\ child' = [child EXCEPT ![i].got = Append(@, Head(child[i].pipe)), ![i].pipe = Tail(@)]
    /\ UNCHANGED <<stage, writer, component>>

\* It exits at the end of its input, and may do so at any other time.
EndOfInput(i) ==
    /\ i \notin Stuck
    /\ child[i].state = "closed" /\ child[i].pipe = <<>>
    /\ child' = [child EXCEPT ![i].state = "exited"]
    /\ UNCHANGED <<stage, writer, component>>

Crash(i) ==
    /\ child[i].state \in {"running", "closed"}
    /\ child' = [child EXCEPT ![i].state = "exited", ![i].crashed = TRUE]
    /\ UNCHANGED <<stage, writer, component>>

Encoder(i) == Encode(i) \/ EndOfInput(i)

-----------------------------------------------------------------------------
(* stop_all, when the component is dropped: no run is left.                *)

Drop ==
    /\ component = "up" /\ \A f \in Frames : stage[f] = "done"
    /\ component' = "dropping"
    /\ UNCHANGED <<child, stage, writer>>

Busy == {i \in Ids : child[i].state = "closed"}

\* The entries one after the other: close the stdin, then wait().
Stop(i) ==
    /\ component = "dropping" /\ Busy \subseteq {i}
    /\ \/ /\ child[i].state = "running"
          /\ child' = [child EXCEPT ![i].state = "closed"]
       \/ /\ child[i].state \in {"exited", "failed"}
          /\ child' = [child EXCEPT ![i].state = "drained"]
    /\ UNCHANGED <<stage, writer, component>>

Dropped ==
    /\ component = "dropping" /\ \A i \in Ids : child[i].state \in {"absent", "drained"}
    /\ component' = "gone"
    /\ UNCHANGED <<child, stage, writer>>

FfmpegNext ==
    \/ \E f \in Frames : Run(f)
    \/ \E i \in Ids : Encoder(i) \/ Crash(i) \/ Stop(i)
    \/ Drop \/ Dropped

\* The pool's threads are scheduled, and encoders that are not stuck read.
FfmpegFairness ==
    /\ \A f \in Frames : WF_ffmpegVars(Run(f))
    /\ \A i \in Ids : WF_ffmpegVars(Encoder(i)) /\ WF_ffmpegVars(Stop(i))
    /\ WF_ffmpegVars((Drop \/ Dropped))

FfmpegSpec == FfmpegInit /\ [][FfmpegNext]_ffmpegVars /\ FfmpegFairness

-----------------------------------------------------------------------------
Stream(i) == child[i].got \o child[i].pipe

\* What an encoder is given is a sequence of whole frames, the last of which
\* may be cut short: the frames of two threads are never mixed.
FramesWhole ==
    \A i \in Ids : \A n \in DOMAIN Stream(i) :
        Stream(i)[n] = Piece(Stream(i)[n][1], IF n % 2 = 1 THEN 1 ELSE 2)
            /\ (n % 2 = 0 => Stream(i)[n][1] = Stream(i)[n - 1][1])

\* However many first frames a pipeline has at once, it starts one encoder.
OneEncoder == \A i \in Ids : child[i].starts <= 1

\* stop_all lets go of an encoder only when it has read all that was written to
\* it, unless it crashed: the end of a recording is not cut off.
RecordingComplete ==
    \A i \in Ids : child[i].state = "drained" => child[i].crashed \/ child[i].pipe = <<>>

\* Every frame is written or given up, and the component can be dropped, if the
\* encoders read or exit.
FramesSettle == \A f \in Frames : Of[f] \notin Stuck => <>(stage[f] = "done")

\* A recording is what was drawn, frame after frame, up to its last one, although
\* frames are written by several threads and by the one that stops the encoder.
RecordingsWhole == FramesWhole /\ OneEncoder /\ RecordingComplete
===============================================================================
