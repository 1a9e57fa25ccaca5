------------------------------- MODULE Camera -------------------------------
(***************************************************************************)
(* The cameras of the command line program: a thread for each, which loads *)
(* frames through CameraQuerier (src/libs/vv-camera/src/lib.rs) from a     *)
(* V4L2 device (capture.rs) and starts a run for each of the camera's      *)
(* outputs (src/bins/vv-cli/src/main.rs).  Devices are pulled and plugged  *)
(* in again, frames get lost, and configuring a device may fail half way.  *)
(* A step is one load_frame() with everything it does, or one call of      *)
(* run(), which RunLifecycle describes in detail.                          *)
(***************************************************************************)
EXTENDS Naturals, Sequences

CONSTANTS
    Cameras,
    Targets,    \* the components a camera's frames go to, in order
    Expecting,  \* how many arguments a component expects
    MaxRunning, \* max_running of the configuration
    Raw,        \* the cameras whose frames are copied, not decoded
    Stubborn,   \* the cameras whose device may refuse a setting after a reload
    MaxFails,   \* bound: failures before a device that is away comes back
    MaxCount,   \* bound: failures are counted up to it
    MaxLosses   \* bound: how often a device is pulled or drops a frame

ASSUME CameraAssumption ==
    /\ Targets \in [Cameras -> Seq(DOMAIN Expecting)]
    /\ \A k \in DOMAIN Expecting : Expecting[k] \in Nat
    /\ Raw \subseteq Cameras /\ Stubborn \subseteq Cameras
    /\ MaxRunning \in Nat \ {0} /\ MaxFails \in Nat /\ MaxCount \in Nat \ {0} /\ MaxLosses \in Nat

VARIABLES
    plugged,    \* is the device there?
    device,     \* does the handle in CaptureCamera.device work?
    stream,     \* CaptureCamera.stream: "none", "good" or "dead"
    fits,       \* does the device send frames of the configured format?
    failCount, backoff, \* CameraQuerier
    at,         \* where the thread is: "load", "submit" or "ended"
    target,     \* the output that is next
    running,    \* PipelineRunner.running
    active,     \* the runs that will still finish
    reloads,    \* history: the failures that had been counted at each call of reload()
    seen,       \* history: a frame was read
    losses      \* counts the faults of the environment

devVars == <<plugged, device, stream, fits>>
querier == <<failCount, backoff, reloads, seen>>
runVars == <<running, active>>
camVars == <<devVars, querier, runVars, at, target, losses>>

CameraTypeOK ==
    /\ plugged \in [Cameras -> BOOLEAN] /\ device \in [Cameras -> BOOLEAN]
    /\ stream \in [Cameras -> {"none", "good", "dead"}]
    /\ fits \in [Cameras -> BOOLEAN]
    /\ failCount \in [Cameras -> 0..MaxCount] /\ backoff \in [Cameras -> Nat]
    /\ reloads \in [Cameras -> Seq(Nat)] /\ seen \in [Cameras -> BOOLEAN]
    /\ at \in [Cameras -> {"load", "submit", "ended"}]
    /\ target \in [Cameras -> Nat]
    /\ running \in Nat /\ active \in 0..running /\ losses \in 0..MaxLosses

\* The outputs that are kept when the program starts (main.rs:276-325): a
\* component that expects more than one argument is refused.
Accepted(c) == {n \in DOMAIN Targets[c] : Expecting[Targets[c][n]] <= 1}

\* build_camera() and CameraQuerier::new: the device was there and took its settings.
CameraInit ==
    /\ plugged = [c \in Cameras |-> TRUE] /\ device = [c \in Cameras |-> TRUE]
    /\ stream = [c \in Cameras |-> "none"] /\ fits = [c \in Cameras |-> TRUE]
    /\ failCount = [c \in Cameras |-> 0] /\ backoff = [c \in Cameras |-> 1]
    /\ reloads = [c \in Cameras |-> <<>>] /\ seen = [c \in Cameras |-> FALSE]
    /\ at = [c \in Cameras |-> "load"] /\ target = [c \in Cameras |-> 1]
    /\ running = 0 /\ active = 0 /\ losses = 0

---------------------------------------------------------------------------
(* The environment. *)

\* A handle and a stream of a device that is pulled never work again, and a device
\* that comes back has forgotten its settings.
Pull(c) ==
    /\ plugged[c] /\ losses < MaxLosses
    /\ losses' = losses + 1
    /\ plugged' = [plugged EXCEPT ![c] = FALSE]
    /\ device' = [device EXCEPT ![c] = FALSE]
    /\ stream' = [stream EXCEPT ![c] = IF @ = "none" THEN @ ELSE "dead"]
    /\ fits' = [fits EXCEPT ![c] = FALSE]
    /\ UNCHANGED <<querier, runVars, at, target>>

PlugIn(c) ==
    /\ ~plugged[c]
    /\ plugged' = [plugged EXCEPT ![c] = TRUE]
    /\ UNCHANGED <<device, stream, fits, querier, runVars, at, target, losses>>

---------------------------------------------------------------------------
(* load_frame. *)

\* The device of the handle answers: the stream is there or can be made.
Readable(c) == stream[c] = "good" \/ (stream[c] = "none" /\ device[c])

\* Mutated form: nothing is set again.
Unconfigured(c) ==
    /\ stream' = [stream EXCEPT ![c] = "none"]
    /\ UNCHANGED fits

\* config_device: the stream is given up first, then come the controls, the format
\* and the interval, any of which a stubborn device may refuse.
ConfigDevice(c) ==
    /\ stream' = [stream EXCEPT ![c] = "none"]
    /\ \/ fits' = [fits EXCEPT ![c] = TRUE]
       \/ c \in Stubborn /\ UNCHANGED fits

\* Mutated form: the stream of the old device is kept.
ReloadKeepsStream(c) ==
    IF ~plugged[c]
    THEN UNCHANGED devVars
    ELSE /\ device' = [device EXCEPT ![c] = TRUE]
         /\ fits' = [fits EXCEPT ![c] = TRUE]
         /\ UNCHANGED <<plugged, stream>>

\* CaptureCamera::reload: whatever fails is logged, and the answer is that it may be
\* tried again.  Without the device nothing changes.
Reload(c) ==
    IF ~plugged[c]
    THEN UNCHANGED devVars
    ELSE /\ device' = [device EXCEPT ![c] = TRUE]
         /\ ConfigDevice(c)
         /\ UNCHANGED plugged

Counted(n) == IF n <= MaxCount THEN n ELSE MaxCount

\* The failures after which a reload is tried again.
RetryAfter(n) == 2 * n

\* A failure that brings the count to the backoff reloads the camera.
LoadFails(c) ==
    LET n == Counted(failCount[c] + 1)
    IN  /\ at[c] = "load"
        /\ plugged[c] \/ seen[c] \/ failCount[c] < MaxFails
        /\ \/ ~Readable(c) /\ UNCHANGED losses
           \/ Readable(c) /\ losses < MaxLosses /\ losses' = losses + 1
        /\ failCount' = [failCount EXCEPT ![c] = n]
        /\ IF n = backoff[c]
           THEN /\ Reload(c)
                /\ backoff' = [backoff EXCEPT ![c] = RetryAfter(@)]
                /\ reloads' = [reloads EXCEPT ![c] = Append(@, n)]
           ELSE /\ stream' = [stream EXCEPT ![c] = IF Readable(c) THEN "good" ELSE @]
                /\ UNCHANGED <<plugged, device, fits, backoff, reloads>>
        /\ UNCHANGED <<seen, runVars, at, target>>

\* A frame is read.  A raw frame that does not have the size of the buffer ends the
\* thread with a panic, before load_frame has looked at the result.
LoadFrame(c) ==
    /\ at[c] = "load" /\ Readable(c)
    /\ stream' = [stream EXCEPT ![c] = "good"]
    /\ IF c \in Raw /\ ~fits[c]
       THEN /\ at' = [at EXCEPT ![c] = "ended"]
            /\ UNCHANGED <<backoff, seen, target>>
       ELSE /\ backoff' = [backoff EXCEPT ![c] = 0]
            /\ seen' = [seen EXCEPT ![c] = TRUE]
            /\ at' = [at EXCEPT ![c] = "submit"]
            /\ target' = [target EXCEPT ![c] = 1]
    /\ UNCHANGED <<plugged, device, fits, failCount, reloads, runVars, losses>>

---------------------------------------------------------------------------
(* The runs for a frame. *)

\* run() refuses when the runner is busy, which the thread does not mind, and
\* fails for a component that expects no arguments, which ends the thread; that
\* run stays counted.
Submit(c) ==
    LET left == {n \in Accepted(c) : n >= target[c]}
    IN  /\ at[c] = "submit"
        /\ \/ /\ left = {}
              /\ at' = [at EXCEPT ![c] = "load"]
              /\ UNCHANGED <<runVars, target>>
           \/ \E n \in left :
                 /\ \A m \in left : n <= m
                 /\ \/ /\ running >= MaxRunning
                       /\ target' = [target EXCEPT ![c] = n + 1]
                       /\ UNCHANGED <<runVars, at>>
                    \/ /\ running < MaxRunning
                       /\ running' = running + 1
                       /\ IF Expecting[Targets[c][n]] # 1
                          THEN at' = [at EXCEPT ![c] = "ended"] /\ UNCHANGED <<active, target>>
                          ELSE /\ active' = active + 1
                               /\ target' = [target EXCEPT ![c] = n + 1]
                               /\ UNCHANGED at
        /\ UNCHANGED <<devVars, querier, losses>>

RunEnds ==
    /\ active > 0
    /\ active' = active - 1 /\ running' = running - 1
    /\ UNCHANGED <<devVars, querier, at, target, losses>>

---------------------------------------------------------------------------
CameraStep(c) == LoadFails(c) \/ LoadFrame(c) \/ Submit(c)

CameraNext ==
    \/ \E c \in Cameras : Pull(c) \/ PlugIn(c) \/ CameraStep(c)
    \/ RunEnds

\* Threads are scheduled, and somebody plugs a device in again.
CameraFairness ==
    /\ WF_camVars(RunEnds)
    /\ \A c \in Cameras : WF_camVars(CameraStep(c)) /\ WF_camVars(PlugIn(c))

CameraSpec == CameraInit /\ [][CameraNext]_camVars /\ CameraFairness

---------------------------------------------------------------------------
(* Properties. *)

\* "It does so with exponential backoff, so if the camera's been genuinely lost,
\* it doesn't waste time retrying to connect" (overview.md): each reload waits for
\* twice the failures that the one before it had.
BackoffIsExponential ==
    \A c \in Cameras : \A n \in 2..Len(reloads[c]) : reloads[c][n] >= 2 * reloads[c][n - 1]

\* A camera that has not delivered a frame yet is going to: the retries reach the
\* device whenever it comes (back), unless the thread ends.
FirstFrameComes == \A c \in Cameras : <>(seen[c] \/ at[c] = "ended")

\* A thread ends only for an output that takes no argument, or because its device
\* refused a setting: losing the device, at whatever point, does not end it.
LossesAreSurvived ==
    \A c \in Cameras :
        at[c] = "ended" =>
            \/ c \in Raw \cap Stubborn /\ reloads[c] # <<>>
            \/ \E n \in DOMAIN Targets[c] : Expecting[Targets[c][n]] = 0

\* A camera that fails is tried again for ever, and the less often the longer it fails.
RetriesGoOn == LossesAreSurvived /\ BackoffIsExponential

\* "By reloading the camera, we can recover from a loose USB connection or dropped
\* packets instead of losing the camera altogether" (overview.md): a camera
\* delivers frames again and again.
KeepsDelivering == \A c \in Cameras : []<>(at[c] # "load")
=============================================================================
