--------------------------- MODULE CaptureOptions ---------------------------
(***************************************************************************)
(* The settings of a V4L2 camera in the playground (src/bins/vv-pg/src/    *)
(* camera.rs).  The window and the worker share CapOptions under a lock:   *)
(* the window picks an entry of the lists that the worker left there, the  *)
(* worker applies at most one pick in a step and reads the lists again.    *)
(* The lists are shown, and picked from, after the camera has changed.     *)
(* Here an action is all that one side does while it holds the lock.       *)
(***************************************************************************)
EXTENDS Naturals, SequencesExt

CONSTANT Devices \* what may be plugged in: the formats, sizes and intervals a device lists
                 \* in order, and which of these lists it may refuse to give

ASSUME OptionsAssumption ==
    \A d \in Devices :
        /\ d.formats \in Seq(ToSet(d.formats))
        /\ \A f \in ToSet(d.formats) :
              /\ d.sizes[f] \in Seq(ToSet(d.sizes[f]))
              /\ \A s \in ToSet(d.sizes[f]) :
                    d.intervals[f, s] \in Seq(ToSet(d.intervals[f, s]))
        /\ d.refuses \subseteq {"formats", "sizes", "intervals"}

None == 0       \* no pick; an index counts from 1

VARIABLES
    dev,        \* the device
    config,     \* CaptureCameraConfig: the format, size and interval that are set
    cap,        \* LockedState.cap: what the two sides share
    listed,     \* is there a CapOptions yet?
    broken      \* who panicked while it held the lock: "nobody", "worker", "window"

capVars == <<dev, config, cap, listed, broken>>

\* CapOptions::default.
NoOptions == [fourcc |-> "none", formats |-> <<>>, pickFormat |-> None,
              sizes |-> <<>>, size |-> 1, pickSize |-> None,
              intervals |-> <<>>, interval |-> 1, pickInterval |-> None]

\* CaptureCamera::from_device asks the device what is set.
OptionsInit ==
    /\ dev \in Devices
    /\ \E f \in ToSet(dev.formats) : \E s \in ToSet(dev.sizes[f]) :
        \E i \in ToSet(dev.intervals[f, s]) :
            config = [fourcc |-> f, size |-> s, interval |-> i]
    /\ cap = NoOptions
    /\ listed = FALSE
    /\ broken = "nobody"

\* A list, or no answer.
Answers(kind) == IF kind \in dev.refuses THEN BOOLEAN ELSE {TRUE}

\* The pick of a list, if it is one.
Picked(pick, list) == pick \in DOMAIN list

\* position() of a value, counted from 1; 0 if it is not there.
Place(x, list) == SelectInSeq(list, LAMBDA y : y = x)

---------------------------------------------------------------------------
(* The worker: the part of CameraWorker::work for a CaptureCamera. *)

\* Mutated form: the lists of the old format are dropped.
ApplyFormatAfresh(o) ==
    /\ Picked(o.pickFormat, dev.formats)
    /\ config' = [config EXCEPT !.fourcc = dev.formats[o.pickFormat]]
    /\ cap' = [o EXCEPT !.pickFormat = None, !.fourcc = dev.formats[o.pickFormat],
                        !.sizes = <<>>]

\* The format that was picked comes first, and nothing else is done.
ApplyFormat(o) ==
    /\ Picked(o.pickFormat, dev.formats)
    /\ config' = [config EXCEPT !.fourcc = dev.formats[o.pickFormat]]
    /\ cap' = [o EXCEPT !.pickFormat = None, !.fourcc = dev.formats[o.pickFormat]]

\* Then the size, which is one of the sizes that were listed before.
ApplySize(o) ==
    /\ ~Picked(o.pickFormat, dev.formats) /\ Picked(o.pickSize, o.sizes)
    /\ config' = [config EXCEPT !.size = o.sizes[o.pickSize]]
    /\ cap' = [o EXCEPT !.pickFormat = None, !.formats = dev.formats, !.pickSize = None,
                        !.fourcc = config.fourcc]

\* The lists are read again: the sizes of the format that is set now, and the
\* place of the size, which has to be among them.
Relisted(o) ==
    LET sizes == dev.sizes[config.fourcc]
    IN  [o EXCEPT !.pickFormat = None, !.formats = dev.formats, !.pickSize = None,
                  !.sizes = sizes, !.size = Place(config.size, sizes)]

ApplyInterval(o) ==
    LET r == Relisted(o)
    IN  /\ r.size # 0 /\ Picked(o.pickInterval, o.intervals)
        /\ config' = [config EXCEPT !.interval = o.intervals[o.pickInterval]]
        /\ cap' = [r EXCEPT !.pickInterval = None, !.fourcc = config.fourcc]

\* An interval that is not listed is shown as the first.
ShowIntervals(o) ==
    LET r == Relisted(o)
        intervals == dev.intervals[config.fourcc, config.size]
        place == Place(config.interval, intervals)
    IN  /\ r.size # 0 /\ ~Picked(o.pickInterval, o.intervals)
        /\ \E answer \in Answers("intervals") :
            cap' = IF answer
                   THEN [r EXCEPT !.pickInterval = None, !.intervals = intervals,
                                  !.interval = IF place = 0 THEN 1 ELSE place,
                                  !.fourcc = config.fourcc]
                   ELSE [r EXCEPT !.pickInterval = None]
        /\ UNCHANGED config

WorkerStep ==
    /\ broken = "nobody"
    /\ listed' = TRUE
    /\ UNCHANGED dev
    /\ \/ /\ FALSE \in Answers("formats")
          /\ UNCHANGED <<config, cap, broken>>
       \/ /\ ApplyFormat(cap) \/ ApplySize(cap)
          /\ UNCHANGED broken
       \/ /\ ~Picked(cap.pickFormat, dev.formats) /\ ~Picked(cap.pickSize, cap.sizes)
          /\ \/ /\ FALSE \in Answers("sizes")
                /\ cap' = [cap EXCEPT !.pickFormat = None, !.formats = dev.formats, !.pickSize = None]
                /\ UNCHANGED <<config, broken>>
             \/ /\ ApplyInterval(cap) \/ ShowIntervals(cap)
                /\ UNCHANGED broken
             \/ /\ Relisted(cap).size = 0
                /\ broken' = "worker"
                /\ UNCHANGED <<config, cap>>

---------------------------------------------------------------------------
(* The window: show_camera with the options of a capture device. *)

\* What the window looks up without checking.
Showable(o) ==
    /\ o.fourcc \in ToSet(o.formats)
    /\ o.size \in DOMAIN o.sizes
    /\ o.interval \in DOMAIN o.intervals

\* Three boxes, each with the entry that is set now; picking another leaves its index.
WindowStep ==
    /\ broken = "nobody" /\ listed
    /\ UNCHANGED <<dev, config, listed>>
    /\ IF Showable(cap)
       THEN /\ \/ \E n \in DOMAIN cap.formats :
                    /\ cap.formats[n] # cap.fourcc
                    /\ cap' = [cap EXCEPT !.pickFormat = n]
               \/ \E n \in DOMAIN cap.sizes \ {cap.size} : cap' = [cap EXCEPT !.pickSize = n]
               \/ \E n \in DOMAIN cap.intervals \ {cap.interval} :
                    cap' = [cap EXCEPT !.pickInterval = n]
            /\ UNCHANGED broken
       ELSE broken' = "window" /\ UNCHANGED cap

OptionsNext == WorkerStep \/ WindowStep

OptionsSpec == OptionsInit /\ [][OptionsNext]_capVars

---------------------------------------------------------------------------
(* Properties. *)

\* A device that gives its lists, the same sizes for every format and an interval
\* at least for each of them.
Uniform(d) ==
    /\ d.refuses = {}
    /\ \A f, g \in ToSet(d.formats) : ToSet(d.sizes[f]) = ToSet(d.sizes[g])
    /\ \A f \in ToSet(d.formats) : \A s \in ToSet(d.sizes[f]) : d.intervals[f, s] # <<>>

\* With such a device neither side panics while it holds the lock, which would
\* take the other one (and with it the program) down: whatever is picked from
\* lists that the camera has left behind, what both look up is there.  Others
\* do panic: a format that lacks the size that is set ends the worker, a list
\* that is refused, or empty, the window.
NobodyPanics == Uniform(dev) => broken = "nobody"
=============================================================================
