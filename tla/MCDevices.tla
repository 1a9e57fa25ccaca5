------------------------------ MODULE MCDevices ------------------------------
(* What the program has to do with the world outside, a part at a time: the  *)
(* parts share no state, so each moves while the others keep a state of      *)
(* theirs.                                                                   *)
EXTENDS Camera, CaptureOptions, NtClient, NtPublish, Ffmpeg, TLC

CONSTANTS
    Parts,  \* the parts to check
    front, rear, detect, draw, publish

VARIABLE scope

vars == <<camVars, capVars, ntVars, publishVars, ffmpegVars, scope>>

---------------------------------------------------------------------------
(* The values of the constants. *)

\* Two cameras: one whose device may refuse a setting and whose frames go to a
\* component without inputs, and one that sends its frames to a component that
\* is not accepted, too.
Arity == [k \in {detect, draw, publish} |->
            IF k = detect THEN 1 ELSE IF k = draw THEN 2 ELSE 0]
Outputs == [c \in Cameras |-> IF c = front THEN <<publish>> ELSE <<draw, detect>>]

\* Devices with two formats: one that lists the same sizes for both, one that lists
\* a size for one format only, and one that may refuse its lists.
Fourccs == <<"YUYV", "MJPG">>
Steps == [f \in ToSet(Fourccs), s \in {"small", "large", "huge"} |->
            IF s = "large" THEN <<"slow">> ELSE <<"slow", "fast">>]
Same == [formats   |-> Fourccs,
         sizes     |-> [YUYV |-> <<"small", "large">>, MJPG |-> <<"large", "small">>],
         intervals |-> Steps,
         refuses   |-> {}]
Mixed == [Same EXCEPT !.sizes.MJPG = <<"huge", "large">>]
Moody == [Same EXCEPT !.refuses = {"formats", "sizes", "intervals"}]
SomeDevices == {Same, Mixed, Moody}

\* A publisher with a cache, and a handle that may send another type to the same
\* topic; one more topic.
TwoTopics == [p \in {"pose", "tags", "misc"} |-> IF p = "tags" THEN "tags" ELSE "pose"]
TwoTypes == [p \in {"pose", "tags", "misc"} |-> IF p = "misc" THEN "int" ELSE "double[]"]
Sets == [p \in {"pose", "tags", "misc"} |-> IF p = "pose" THEN 2 ELSE 1]

\* Inputs on the root's level, one list beside them, and more than one.
TwoLists == {"a" :> <<0, 0>> @@ "b" :> <<1, 0>> @@ "c" :> <<1, 1>>,
             "a" :> <<1, 0>> @@ "b" :> <<2, 0>>}
AnyLists == {"a" :> <<0, 0>>, "a" :> <<0, 1>> @@ "b" :> <<0, 0>>,
             "a" :> <<0, 0>> @@ "b" :> <<1, 0>>,
             "a" :> <<0, 0>> @@ "b" :> <<0, 1>> @@ "c" :> <<1, 0>>} \cup TwoLists
SomeRemap == "b" :> "topic"

\* Two pipelines, one of them with three frames at once.
SomeFrames == {"a1", "a2", "a3", "b1"}
PipelineOf == [f \in SomeFrames |-> IF f = "b1" THEN "b" ELSE "a"]

---------------------------------------------------------------------------
(* The parts at rest: states in which nothing is left to wait for. *)

CameraRests ==
    /\ plugged = [c \in Cameras |-> TRUE] /\ device = [c \in Cameras |-> TRUE]
    /\ stream = [c \in Cameras |-> "good"] /\ fits = [c \in Cameras |-> TRUE]
    /\ failCount = [c \in Cameras |-> 0] /\ backoff = [c \in Cameras |-> 0]
    /\ reloads = [c \in Cameras |-> <<>>] /\ seen = [c \in Cameras |-> TRUE]
    /\ at = [c \in Cameras |-> "load"] /\ target = [c \in Cameras |-> 1]
    /\ running = 0 /\ active = 0 /\ losses = 0

OptionsRest ==
    /\ dev = Same /\ config = [fourcc |-> "YUYV", size |-> "small", interval |-> "slow"]
    /\ cap = NoOptions /\ listed = FALSE /\ broken = "nobody"

PublishRests ==
    /\ layout = "a" :> <<0, 0>> /\ top = <<"int">> /\ nodes = <<>> /\ visited = 0
    /\ todo = {"a"} /\ rows = <<>> /\ sent = {} /\ outcome = "running"

FfmpegRests ==
    /\ child = [i \in Ids |-> [state |-> "absent", pipe |-> <<>>, got |-> <<>>,
                         starts |-> 0, crashed |-> FALSE]]
    /\ stage = [f \in Frames |-> "done"]
    /\ writer = [i \in Ids |-> NoFrame] /\ component = "up"

Init ==
    /\ scope \in Parts
    /\ IF scope = "cameras" THEN CameraInit ELSE CameraRests
    /\ IF scope = "options" THEN OptionsInit ELSE OptionsRest
    /\ NtInit
    /\ IF scope = "publish" THEN PublishInit ELSE PublishRests
    /\ IF scope = "ffmpeg" THEN FfmpegInit ELSE FfmpegRests

Next ==
    /\ UNCHANGED scope
    /\ \/ /\ scope = "cameras" /\ CameraNext
          /\ UNCHANGED <<capVars, ntVars, publishVars, ffmpegVars>>
       \/ /\ scope = "options" /\ OptionsNext
          /\ UNCHANGED <<camVars, ntVars, publishVars, ffmpegVars>>
       \/ /\ scope = "client" /\ NtNext
          /\ UNCHANGED <<camVars, capVars, publishVars, ffmpegVars>>
       \/ /\ scope = "publish" /\ PublishNext
          /\ UNCHANGED <<camVars, capVars, ntVars, ffmpegVars>>
       \/ /\ scope = "ffmpeg" /\ FfmpegNext
          /\ UNCHANGED <<camVars, capVars, ntVars, publishVars>>

\* The fairness of each part: CameraFairness, NtFairness and FfmpegFairness.
Fairness ==
    /\ WF_camVars(scope = "cameras" /\ RunEnds)
    /\ \A c \in Cameras : /\ WF_camVars(scope = "cameras" /\ CameraStep(c))
                          /\ WF_camVars(scope = "cameras" /\ PlugIn(c))
    /\ \A p \in Publishers : WF_ntVars(scope = "client" /\ SetSend(p))
    /\ WF_ntVars(scope = "client" /\ Task)
    /\ WF_ntVars(scope = "client" /\ Arrive)
    /\ \A f \in Frames : WF_ffmpegVars(scope = "ffmpeg" /\ Run(f))
    /\ \A i \in Ids : /\ WF_ffmpegVars(scope = "ffmpeg" /\ Encoder(i))
                      /\ WF_ffmpegVars(scope = "ffmpeg" /\ Stop(i))
    /\ WF_ffmpegVars(scope = "ffmpeg" /\ (Drop \/ Dropped))

Spec == Init /\ [][Next]_vars /\ Fairness
=============================================================================
