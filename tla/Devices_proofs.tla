--------------------------- MODULE Devices_proofs ---------------------------
(***************************************************************************)
(* Proofs about the parts of the program that deal with cameras, with what *)
(* is published and with what is recorded:                                 *)
(*                                                                         *)
(*   NobodyEverPanics       CaptureOptions: what the window and the worker *)
(*                          look up in the lists that they share is there  *)
(*   LossesNeverEndACamera  Camera: a device that is lost or drops frames  *)
(*                          is tried again, at most half as often each time*)
(*   OneListArrives         NtPublish: values are sent whole and in order  *)
(*                          to the topic of their input                    *)
(*   RecordingsStayWhole    Ffmpeg: an encoder is given whole frames, each *)
(*                          pipeline starts one encoder, and an encoder    *)
(*                          that is let go of has read everything          *)
(*                                                                         *)
(* Each part has its own invariant; they share no state.                   *)
(***************************************************************************)
EXTENDS CaptureOptions, Camera, NtPublish, Ffmpeg, FiniteSetTheorems, SequenceTheorems,
        WellFoundedInduction, TLAPS

---------------------------------------------------------------------------
(* The settings of a camera. *)

\* Whatever is in a list has a place there, where it is found.
LEMMA PlaceFinds ==
    ASSUME NEW S, NEW list \in Seq(S), NEW x \in ToSet(list)
    PROVE  Place(x, list) \in DOMAIN list /\ list[Place(x, list)] = x
<1> DEFINE P == {i \in 1..Len(list) : list[i] = x}
<1>1. P # {} /\ P \subseteq Nat
  BY DEF ToSet
<1>2. PICK m \in P : \A n \in P : m <= n
  <2>1. PICK m \in P : \A n \in P : <<n, m>> \notin OpToRel(<, Nat)
    <3> HIDE DEF P
    <3> QED  BY <1>1, WFMin, NatLessThanWellFounded
  <2>2. m \in Nat
    BY <1>1, <2>1
  <2>3. ASSUME NEW n \in P PROVE m <= n
    <3>1. n \in Nat /\ ~(n < m)
      BY <1>1, <2>1, <2>2 DEF OpToRel
    <3> QED  BY <2>2, <3>1
  <2> QED  BY <2>1, <2>3
<1>3. Place(x, list) = Min(P)
  BY <1>1 DEF Place, SelectInSeq
<1>4. Min(P) \in P
  <2> HIDE DEF P
  <2> QED  BY <1>2 DEF Min
<1> QED  BY <1>3, <1>4

\* What the two sides find under the lock, with a uniform device: the format and
\* the size that are set are ones that the device lists; and once there are lists,
\* the format, the size and the interval that are shown are in those.
Shown(o, d) ==
    /\ o.formats = d.formats /\ o.fourcc \in ToSet(d.formats)
    /\ \E f \in ToSet(d.formats) : o.sizes = d.sizes[f]
    /\ o.size \in DOMAIN o.sizes
    /\ o.interval \in DOMAIN o.intervals

IsOptions(o) ==
    o = [fourcc |-> o.fourcc, formats |-> o.formats, pickFormat |-> o.pickFormat,
         sizes |-> o.sizes, size |-> o.size, pickSize |-> o.pickSize,
         intervals |-> o.intervals, interval |-> o.interval, pickInterval |-> o.pickInterval]

IsConfig(c, d) ==
    /\ c = [fourcc |-> c.fourcc, size |-> c.size, interval |-> c.interval]
    /\ c.fourcc \in ToSet(d.formats) /\ c.size \in ToSet(d.sizes[c.fourcc])

OptionsInv ==
    Uniform(dev) =>
        /\ broken = "nobody"
        /\ dev \in Devices
        /\ IsConfig(config, dev) /\ IsOptions(cap)
        /\ IF listed THEN Shown(cap, dev) ELSE cap = NoOptions

\* Before there are lists, only the camera's settings count.
LEMMA InitOptions == OptionsInit => OptionsInv
<1> SUFFICES ASSUME OptionsInit PROVE OptionsInv
  OBVIOUS
<1>1. PICK f \in ToSet(dev.formats) :
          \E s \in ToSet(dev.sizes[f]) : \E i : config = [fourcc |-> f, size |-> s, interval |-> i]
  BY DEF OptionsInit
<1>2. IsConfig(config, dev)
  BY <1>1 DEF IsConfig
<1>3. IsOptions(NoOptions)
  BY DEF IsOptions, NoOptions
<1> QED  BY <1>2, <1>3 DEF OptionsInit, OptionsInv

\* A uniform device has a place for the size that is set, and intervals for it.
LEMMA ListsOfUniform ==
    ASSUME dev \in Devices, Uniform(dev), IsConfig(config, dev)
    PROVE  LET sizes == dev.sizes[config.fourcc]
               intervals == dev.intervals[config.fourcc, config.size]
           IN  /\ Place(config.size, sizes) \in DOMAIN sizes /\ Place(config.size, sizes) # 0
               /\ 1 \in DOMAIN intervals
               /\ \A x : Place(x, intervals) # 0 => Place(x, intervals) \in DOMAIN intervals
<1> DEFINE sizes == dev.sizes[config.fourcc]
           intervals == dev.intervals[config.fourcc, config.size]
<1>1. sizes \in Seq(ToSet(sizes)) /\ config.size \in ToSet(sizes)
  BY OptionsAssumption DEF IsConfig
<1>2. intervals \in Seq(ToSet(intervals)) /\ intervals # <<>>
  BY OptionsAssumption DEF IsConfig, Uniform
<1> HIDE DEF sizes, intervals
<1>3. Place(config.size, sizes) \in DOMAIN sizes /\ 0 \notin DOMAIN sizes
  BY <1>1, PlaceFinds
<1>4. 1 \in DOMAIN intervals
  BY <1>2
<1>5. ASSUME NEW x, Place(x, intervals) # 0 PROVE Place(x, intervals) \in DOMAIN intervals
  <2>1. x \in ToSet(intervals)
    BY <1>2, <1>5 DEF Place, SelectInSeq, ToSet
  <2> QED  BY <1>2, <2>1, PlaceFinds
<1> QED  BY <1>3, <1>4, <1>5 DEF sizes, intervals

\* The worker, whatever was picked: a size of the lists of the format before is one of
\* the format now.
LEMMA WorkerKeepsOptions ==
    ASSUME OptionsInv, WorkerStep, Uniform(dev)
    PROVE  /\ broken' = "nobody"
           /\ IsConfig(config', dev) /\ IsOptions(cap') /\ Shown(cap', dev)
<1>1. /\ broken = "nobody" /\ dev \in Devices
      /\ IsConfig(config, dev) /\ IsOptions(cap)
      /\ Shown(cap, dev) \/ cap = NoOptions
  BY DEF OptionsInv
<1>2. \A kind : Answers(kind) = {TRUE}
  BY DEF Answers, Uniform
<1>3. 0 \notin DOMAIN dev.formats /\ ToSet(dev.formats) = {dev.formats[n] : n \in DOMAIN dev.formats}
  <2>1. dev.formats \in Seq(ToSet(dev.formats))
    BY <1>1, OptionsAssumption
  <2>2. 0 \notin DOMAIN dev.formats
    BY <2>1
  <2> QED  BY <2>2 DEF ToSet
<1>4. CASE ApplyFormat(cap) /\ UNCHANGED broken
  <2>1. Shown(cap, dev)
    BY <1>1, <1>3, <1>4 DEF ApplyFormat, Picked, NoOptions, None
  <2>2. PICK n \in DOMAIN dev.formats :
          /\ config' = [config EXCEPT !.fourcc = dev.formats[n]]
          /\ cap' = [cap EXCEPT !.pickFormat = None, !.fourcc = dev.formats[n]]
    BY <1>4 DEF ApplyFormat, Picked
  <2>3. dev.formats[n] \in ToSet(dev.formats)
    BY <1>3
  <2>4. /\ config'.fourcc = dev.formats[n] /\ config'.size = config.size
        /\ config' = [fourcc |-> config'.fourcc, size |-> config'.size, interval |-> config'.interval]
    BY <1>1, <2>2 DEF IsConfig
  <2>5. IsConfig(config', dev)
    BY <1>1, <2>3, <2>4 DEF IsConfig, Uniform
  <2>6. IsOptions(cap') /\ Shown(cap', dev)
    BY <1>1, <2>1, <2>2, <2>3 DEF IsOptions, Shown
  <2> QED  BY <1>1, <1>4, <2>5, <2>6
<1>5. CASE ApplySize(cap) /\ UNCHANGED broken
  <2>1. Shown(cap, dev)
    BY <1>1, <1>5 DEF ApplySize, Picked, NoOptions, None
  <2>2. PICK f \in ToSet(dev.formats) : cap.sizes = dev.sizes[f]
    BY <2>1 DEF Shown
  <2>3. cap.sizes[cap.pickSize] \in ToSet(dev.sizes[config.fourcc])
    BY <1>1, <1>5, <2>2 DEF ApplySize, Picked, Uniform, IsConfig, ToSet
  <2>4. config' = [config EXCEPT !.size = cap.sizes[cap.pickSize]]
    BY <1>5 DEF ApplySize
  <2>5. IsConfig(config', dev)
    BY <1>1, <2>3, <2>4 DEF IsConfig
  <2>6. cap' = [cap EXCEPT !.pickFormat = None, !.formats = dev.formats, !.pickSize = None,
                           !.fourcc = config.fourcc]
    BY <1>5 DEF ApplySize
  <2>7. IsOptions(cap') /\ Shown(cap', dev)
    BY <1>1, <2>1, <2>6 DEF IsOptions, Shown, IsConfig
  <2> QED  BY <1>1, <1>5, <2>5, <2>7
<1>6. /\ IsOptions(Relisted(cap))
      /\ Relisted(cap).formats = dev.formats
      /\ Relisted(cap).sizes = dev.sizes[config.fourcc]
      /\ Relisted(cap).size \in DOMAIN Relisted(cap).sizes
      /\ Relisted(cap).size # 0
      /\ Relisted(cap).intervals = cap.intervals /\ Relisted(cap).interval = cap.interval
  <2>1. PICK sizes, size : /\ sizes = dev.sizes[config.fourcc] /\ size = Place(config.size, sizes)
                           /\ size \in DOMAIN sizes /\ size # 0
    BY <1>1, ListsOfUniform
  <2>2. Relisted(cap) = [cap EXCEPT !.pickFormat = None, !.formats = dev.formats,
                                    !.pickSize = None, !.sizes = sizes, !.size = size]
    BY <2>1 DEF Relisted
  <2>3. Relisted(cap) =
          [fourcc |-> cap.fourcc, formats |-> dev.formats, pickFormat |-> None,
           sizes |-> sizes, size |-> size, pickSize |-> None,
           intervals |-> cap.intervals, interval |-> cap.interval, pickInterval |-> cap.pickInterval]
    BY <1>1, <2>2 DEF IsOptions
  <2> QED  BY <2>1, <2>3 DEF IsOptions
<1>7. CASE ApplyInterval(cap) /\ UNCHANGED broken
  <2>1. Shown(cap, dev)
    BY <1>1, <1>7 DEF ApplyInterval, Picked, NoOptions, None
  <2>2. /\ config' = [config EXCEPT !.interval = cap.intervals[cap.pickInterval]]
        /\ cap' = [Relisted(cap) EXCEPT !.pickInterval = None, !.fourcc = config.fourcc]
    BY <1>7 DEF ApplyInterval
  <2>3. IsConfig(config', dev)
    BY <1>1, <2>2 DEF IsConfig
  <2>4. IsOptions(cap') /\ Shown(cap', dev)
    BY <1>1, <1>6, <2>1, <2>2 DEF IsOptions, Shown, IsConfig
  <2> QED  BY <1>1, <1>7, <2>3, <2>4
<1>8. CASE ShowIntervals(cap) /\ UNCHANGED broken
  <2> DEFINE intervals == dev.intervals[config.fourcc, config.size]
             place == Place(config.interval, intervals)
             first == IF place = 0 THEN 1 ELSE place
  <2>1. first \in DOMAIN intervals
    BY <1>1, ListsOfUniform
  <2>2. /\ config' = config
        /\ cap' = [Relisted(cap) EXCEPT !.pickInterval = None, !.intervals = intervals,
                                        !.interval = first, !.fourcc = config.fourcc]
    BY <1>2, <1>8 DEF ShowIntervals
  <2> HIDE DEF intervals, first
  <2>3. IsOptions(cap') /\ Shown(cap', dev)
    BY <1>1, <1>6, <2>1, <2>2 DEF IsOptions, Shown, IsConfig
  <2> QED  BY <1>1, <1>8, <2>2, <2>3
<1> QED  BY <1>1, <1>2, <1>4, <1>5, <1>6, <1>7, <1>8 DEF WorkerStep

\* The window finds what it shows, and only leaves picks.
LEMMA WindowKeepsOptions ==
    ASSUME OptionsInv, WindowStep, Uniform(dev)
    PROVE  /\ UNCHANGED <<dev, config, broken>> /\ IsOptions(cap') /\ Shown(cap', dev)
<1>1. IsOptions(cap) /\ Shown(cap, dev) /\ Showable(cap)
  BY DEF OptionsInv, WindowStep, Shown, Showable
<1>2. PICK n : \/ cap' = [cap EXCEPT !.pickFormat = n]
               \/ cap' = [cap EXCEPT !.pickSize = n]
               \/ cap' = [cap EXCEPT !.pickInterval = n]
  BY <1>1 DEF WindowStep
<1>3. IsOptions(cap') /\ Shown(cap', dev)
  BY <1>1, <1>2 DEF IsOptions, Shown
<1> QED  BY <1>1, <1>3 DEF WindowStep

\* Every step keeps what the two sides rely on.
LEMMA NextOptions == OptionsInv /\ [OptionsNext]_capVars => OptionsInv'
<1> SUFFICES ASSUME OptionsInv, [OptionsNext]_capVars PROVE OptionsInv'
  OBVIOUS
<1>1. CASE WorkerStep
  <2>1. dev' = dev /\ listed' = TRUE
    BY <1>1 DEF WorkerStep
  <2> QED  BY <1>1, <2>1, WorkerKeepsOptions DEF OptionsInv
<1>2. CASE WindowStep
  <2>1. dev' = dev /\ listed' = listed /\ listed
    BY <1>2 DEF WindowStep
  <2> QED  BY <1>2, <2>1, WindowKeepsOptions DEF OptionsInv
<1>3. CASE UNCHANGED capVars
  BY <1>3 DEF capVars, OptionsInv
<1> QED  BY <1>1, <1>2, <1>3 DEF OptionsNext

\* Neither the window nor the worker of a uniform device panics while it holds the
\* lock, whatever is picked and when.
THEOREM NobodyEverPanics == OptionsSpec => []NobodyPanics
<1>1. OptionsInv => NobodyPanics
  BY DEF OptionsInv, NobodyPanics
<1> QED  BY InitOptions, NextOptions, <1>1, PTL DEF OptionsSpec
---------------------------------------------------------------------------
(* The cameras. *)

\* The cameras start with values of their types.
LEMMA InitCameraTypes == CameraInit => CameraTypeOK
  BY CameraAssumption DEF CameraInit, CameraTypeOK

\* A failure counts, up to the bound.
LEMMA CountedStays == \A n \in 0..MaxCount : Counted(n + 1) \in 1..MaxCount
  BY CameraAssumption DEF Counted

\* The outputs that are kept are known by their number.
LEMMA AcceptedPlaces == \A c \in Cameras : Accepted(c) \subseteq Nat
  <1> SUFFICES ASSUME NEW c \in Cameras PROVE Accepted(c) \subseteq Nat
    OBVIOUS
  <1>1. Targets[c] \in Seq(DOMAIN Expecting)
    BY CameraAssumption
  <1> QED  BY <1>1 DEF Accepted

\* What a failure does, with or without a reload.
LEMMA FailureSteps ==
    ASSUME CameraTypeOK, NEW c \in Cameras, LoadFails(c)
    PROVE  \E n \in 1..MaxCount :
             /\ failCount' = [failCount EXCEPT ![c] = n]
             /\ losses' \in 0..MaxLosses
             /\ \/ /\ n = backoff[c]
                   /\ Reload(c)
                   /\ backoff' = [backoff EXCEPT ![c] = 2 * n]
                   /\ reloads' = [reloads EXCEPT ![c] = Append(@, n)]
                \/ /\ stream' = [stream EXCEPT ![c] = IF Readable(c) THEN "good" ELSE @]
                   /\ UNCHANGED <<plugged, device, fits, backoff, reloads>>
             /\ UNCHANGED <<seen, running, active, at, target>>
<1>1. PICK n : n = Counted(failCount[c] + 1)
  OBVIOUS
<1>2. n \in 1..MaxCount
  BY <1>1, CountedStays DEF CameraTypeOK
<1>3. losses' \in 0..MaxLosses
  BY CameraAssumption DEF LoadFails, CameraTypeOK
<1> QED  BY <1>1, <1>2, <1>3 DEF LoadFails, RetryAfter, runVars, CameraTypeOK

\* A reload keeps the types of what the device is.
LEMMA ReloadTypes ==
    ASSUME CameraTypeOK, NEW c \in Cameras, Reload(c)
    PROVE  /\ plugged' = plugged /\ device' \in [Cameras -> BOOLEAN]
           /\ stream' \in [Cameras -> {"none", "good", "dead"}] /\ fits' \in [Cameras -> BOOLEAN]
  BY DEF CameraTypeOK, Reload, ConfigDevice, devVars

\* So does every step.
LEMMA NextCameraTypes == CameraTypeOK /\ [CameraNext]_camVars => CameraTypeOK'
<1> SUFFICES ASSUME CameraTypeOK, [CameraNext]_camVars PROVE CameraTypeOK'
  OBVIOUS
<1>1. ASSUME NEW c \in Cameras, Pull(c) PROVE CameraTypeOK'
  BY <1>1, CameraAssumption DEF CameraTypeOK, Pull, querier, runVars
<1>2. ASSUME NEW c \in Cameras, PlugIn(c) PROVE CameraTypeOK'
  BY <1>2 DEF CameraTypeOK, PlugIn, querier, runVars
<1>3. ASSUME NEW c \in Cameras, LoadFails(c) PROVE CameraTypeOK'
  <2>1. PICK n \in 1..MaxCount :
             /\ failCount' = [failCount EXCEPT ![c] = n]
             /\ losses' \in 0..MaxLosses
             /\ \/ /\ n = backoff[c]
                   /\ Reload(c)
                   /\ backoff' = [backoff EXCEPT ![c] = 2 * n]
                   /\ reloads' = [reloads EXCEPT ![c] = Append(@, n)]
                \/ /\ stream' = [stream EXCEPT ![c] = IF Readable(c) THEN "good" ELSE @]
                   /\ UNCHANGED <<plugged, device, fits, backoff, reloads>>
             /\ UNCHANGED <<seen, running, active, at, target>>
    BY <1>3, FailureSteps
  <2>2. /\ plugged' = plugged /\ device' \in [Cameras -> BOOLEAN]
        /\ stream' \in [Cameras -> {"none", "good", "dead"}] /\ fits' \in [Cameras -> BOOLEAN]
    BY <2>1, ReloadTypes DEF CameraTypeOK
  <2>3. backoff' \in [Cameras -> Nat]
    <3>1. 2 * n \in Nat
      OBVIOUS
    <3>2. backoff \in [Cameras -> Nat] /\ (backoff' = backoff \/ backoff' = [backoff EXCEPT ![c] = 2 * n])
      BY <2>1 DEF CameraTypeOK
    <3> QED  BY <3>1, <3>2
  <2>4. reloads' \in [Cameras -> Seq(Nat)]
    <3>1. reloads[c] \in Seq(Nat) /\ n \in Nat
      BY CameraAssumption DEF CameraTypeOK
    <3>2. Append(reloads[c], n) \in Seq(Nat)
      BY <3>1
    <3> QED  BY <2>1, <3>2 DEF CameraTypeOK
  <2>5. failCount' \in [Cameras -> 0..MaxCount]
    BY <2>1, CameraAssumption DEF CameraTypeOK
  <2> QED  BY <2>1, <2>2, <2>3, <2>4, <2>5 DEF CameraTypeOK
<1>4. ASSUME NEW c \in Cameras, LoadFrame(c) PROVE CameraTypeOK'
  <2>1. stream' \in [Cameras -> {"none", "good", "dead"}]
    BY <1>4 DEF CameraTypeOK, LoadFrame
  <2>2. at' \in [Cameras -> {"load", "submit", "ended"}]
    <3>1. \E a \in {"load", "submit", "ended"} : at' = [at EXCEPT ![c] = a]
      BY <1>4 DEF LoadFrame
    <3>2. at \in [Cameras -> {"load", "submit", "ended"}]
      BY DEF CameraTypeOK
    <3> QED  BY <3>1, <3>2
  <2>3. backoff' \in [Cameras -> Nat] /\ target' \in [Cameras -> Nat]
    <3>1. /\ backoff' = backoff \/ backoff' = [backoff EXCEPT ![c] = 0]
          /\ target' = target \/ target' = [target EXCEPT ![c] = 1]
      BY <1>4 DEF LoadFrame
    <3>2. backoff \in [Cameras -> Nat] /\ target \in [Cameras -> Nat]
      BY DEF CameraTypeOK
    <3> QED  BY <3>1, <3>2
  <2>4. seen' \in [Cameras -> BOOLEAN]
    BY <1>4 DEF CameraTypeOK, LoadFrame
  <2> QED  BY <1>4, <2>1, <2>2, <2>3, <2>4 DEF CameraTypeOK, LoadFrame, runVars
<1>5. ASSUME NEW c \in Cameras, Submit(c) PROVE CameraTypeOK'
  <2>1. at' \in [Cameras -> {"load", "submit", "ended"}]
    BY <1>5 DEF CameraTypeOK, Submit
  <2>3. target' = target \/ \E n \in Accepted(c) : target' = [target EXCEPT ![c] = n + 1]
    BY <1>5 DEF Submit
  <2>4. target' \in [Cameras -> Nat]
    <3>1. ASSUME NEW n \in Accepted(c) PROVE n + 1 \in Nat
      BY AcceptedPlaces
    <3> QED  BY <2>3, <3>1 DEF CameraTypeOK
  <2>2. running' \in Nat /\ active' \in 0..running'
    BY <1>5 DEF CameraTypeOK, Submit, runVars
  <2> QED  BY <1>5, <2>1, <2>2, <2>4 DEF CameraTypeOK, Submit, devVars, querier
<1>6. CASE RunEnds
  BY <1>6 DEF CameraTypeOK, RunEnds, devVars, querier
<1>7. CASE UNCHANGED camVars
  BY <1>7 DEF CameraTypeOK, camVars, devVars, querier, runVars
<1> QED  BY <1>1, <1>2, <1>3, <1>4, <1>5, <1>6, <1>7 DEF CameraNext, CameraStep

\* The device that a camera can read sends frames of the configured format, unless
\* it refused it in a reload.
Fitting(c) ==
    stream[c] = "good" \/ device[c] => fits[c] \/ (c \in Stubborn /\ reloads[c] # <<>>)

Doubling(s) == \A n \in 2..Len(s) : s[n] >= 2 * s[n - 1]

\* The backoff is twice the failures that the last reload had waited for, until a frame
\* is read.
Backing(c) ==
    backoff[c] = 0 \/ backoff[c] = IF reloads[c] = <<>> THEN 1 ELSE 2 * reloads[c][Len(reloads[c])]

CameraInv ==
    /\ CameraTypeOK /\ RetriesGoOn
    /\ \A c \in Cameras : Fitting(c) /\ Backing(c)
\* What LossesAreSurvived says of a camera.
Survives(c) ==
    at[c] = "ended" =>
        \/ c \in Raw \cap Stubborn /\ reloads[c] # <<>>
        \/ \E n \in DOMAIN Targets[c] : Expecting[Targets[c][n]] = 0

\* The invariant, a camera at a time.
LEMMA CameraByCamera ==
    CameraInv <=> /\ CameraTypeOK
                  /\ \A c \in Cameras : Survives(c) /\ Doubling(reloads[c]) /\ Fitting(c) /\ Backing(c)
  BY DEF CameraInv, RetriesGoOn, LossesAreSurvived, BackoffIsExponential, Survives, Doubling

\* A further reload that waits for twice the failures of the one before.
LEMMA DoublingGoesOn ==
    ASSUME NEW s \in Seq(Nat), Doubling(s), NEW n \in Nat, s = <<>> \/ n = 2 * s[Len(s)]
    PROVE  LET t == Append(s, n)
           IN  t \in Seq(Nat) /\ Doubling(t) /\ t # <<>> /\ t[Len(t)] = n
<1> DEFINE t == Append(s, n)
<1>1. t \in Seq(Nat) /\ Len(t) = Len(s) + 1 /\ t[Len(s) + 1] = n /\ Len(s) \in Nat
  OBVIOUS
<1>2. \A k \in 1..Len(s) : t[k] = s[k]
  OBVIOUS
<1> HIDE DEF t
<1>3. ASSUME NEW k \in 2..Len(t) PROVE t[k] >= 2 * t[k - 1]
  <2>1. CASE k <= Len(s)
    <3>1. k \in 1..Len(s) /\ k - 1 \in 1..Len(s) /\ k \in 2..Len(s)
      BY <1>1, <2>1
    <3> QED  BY <1>2, <3>1 DEF Doubling
  <2>2. CASE k = Len(s) + 1
    <3>1. s # <<>> /\ k - 1 = Len(s) /\ Len(s) \in 1..Len(s)
      BY <1>1, <2>2
    <3>2. t[k - 1] = s[Len(s)] /\ t[k] = n /\ s[Len(s)] \in Nat
      BY <1>1, <1>2, <2>2, <3>1
    <3> QED  BY <3>1, <3>2
  <2> QED  BY <1>1, <2>1, <2>2
<1>4. Doubling(t) /\ t # <<>>
  BY <1>1, <1>3 DEF Doubling
<1> QED  BY <1>1, <1>4 DEF t

\* A camera for which nothing changes that these speak of.
LEMMA CameraLeftAlone ==
    ASSUME CameraInv, NEW c \in Cameras,
           stream'[c] \in {stream[c], "none", "dead"}, device'[c] \in {device[c], FALSE},
           fits'[c] = fits[c] \/ (stream'[c] # "good" /\ device'[c] = FALSE),
           reloads'[c] = reloads[c], backoff'[c] \in {backoff[c], 0},
           at'[c] = "ended" => at[c] = "ended" \/ Survives(c)'
    PROVE  (Survives(c) /\ Doubling(reloads[c]) /\ Fitting(c) /\ Backing(c))'
<1>1. Survives(c) /\ Doubling(reloads[c]) /\ Fitting(c) /\ Backing(c)
  BY CameraByCamera
<1>2. Survives(c)'
  BY <1>1 DEF Survives
<1>3. Fitting(c)' /\ Backing(c)'
  BY <1>1 DEF Fitting, Backing
<1> QED  BY <1>1, <1>2, <1>3

\* It is enough to look at the camera that takes the step.
LEMMA OneCameraAtATime ==
    ASSUME CameraInv, CameraTypeOK', NEW c \in Cameras,
           \A d \in Cameras \ {c} :
               /\ stream'[d] = stream[d] /\ device'[d] = device[d] /\ fits'[d] = fits[d]
               /\ reloads'[d] = reloads[d] /\ backoff'[d] = backoff[d] /\ at'[d] = at[d],
           (Survives(c) /\ Doubling(reloads[c]) /\ Fitting(c) /\ Backing(c))'
    PROVE  CameraInv'
<1>1. ASSUME NEW d \in Cameras \ {c}
      PROVE  (Survives(d) /\ Doubling(reloads[d]) /\ Fitting(d) /\ Backing(d))'
  BY CameraLeftAlone
<1>2. CameraInv' <=> /\ CameraTypeOK'
                     /\ \A d \in Cameras :
                           (Survives(d) /\ Doubling(reloads[d]) /\ Fitting(d) /\ Backing(d))'
  BY DEF CameraInv, RetriesGoOn, LossesAreSurvived, BackoffIsExponential, Survives, Doubling
<1> QED  BY <1>1, <1>2

\* A failure, with its reload if the backoff is over.
LEMMA FailureKeepsCamera ==
    ASSUME CameraInv, CameraTypeOK', NEW c \in Cameras, LoadFails(c)
    PROVE  CameraInv'
<1>1. Survives(c) /\ Doubling(reloads[c]) /\ Fitting(c) /\ Backing(c) /\ CameraTypeOK
  BY CameraByCamera
<1>2. PICK n \in 1..MaxCount :
             /\ \/ /\ n = backoff[c]
                   /\ Reload(c)
                   /\ backoff' = [backoff EXCEPT ![c] = 2 * n]
                   /\ reloads' = [reloads EXCEPT ![c] = Append(@, n)]
                \/ /\ stream' = [stream EXCEPT ![c] = IF Readable(c) THEN "good" ELSE @]
                   /\ UNCHANGED <<plugged, device, fits, backoff, reloads>>
             /\ UNCHANGED at
  BY <1>1, FailureSteps
<1>3. CASE /\ stream' = [stream EXCEPT ![c] = IF Readable(c) THEN "good" ELSE @]
           /\ UNCHANGED <<plugged, device, fits, backoff, reloads>>
  <2>1. stream'[c] = "good" => Readable(c)
    BY <1>1, <1>3 DEF Readable, CameraTypeOK
  <2>2. (Survives(c) /\ Doubling(reloads[c]) /\ Fitting(c) /\ Backing(c))'
    BY <1>1, <1>2, <1>3, <2>1 DEF Survives, Fitting, Backing, Readable
  <2> QED  BY <1>1, <1>2, <1>3, <2>2, OneCameraAtATime DEF CameraTypeOK
<1>4. CASE /\ n = backoff[c]
           /\ Reload(c)
           /\ backoff' = [backoff EXCEPT ![c] = 2 * n]
           /\ reloads' = [reloads EXCEPT ![c] = Append(@, n)]
  <2>1. reloads[c] \in Seq(Nat) /\ n \in Nat /\ n # 0
    BY <1>1, CameraAssumption DEF CameraTypeOK
  <2>2. PICK t : t = Append(reloads[c], n)
    OBVIOUS
  <2>3. Doubling(t) /\ t # <<>> /\ t[Len(t)] = n
    <3>1. reloads[c] = <<>> \/ n = 2 * reloads[c][Len(reloads[c])]
      BY <1>1, <1>4, <2>1 DEF Backing
    <3> QED  BY <1>1, <2>1, <2>2, <3>1, DoublingGoesOn
  <2>4. reloads'[c] = t /\ backoff'[c] = 2 * n
    BY <1>1, <1>4, <2>2 DEF CameraTypeOK
  <2>5. Doubling(reloads[c])' /\ Backing(c)'
    BY <2>3, <2>4 DEF Backing
  <2>6. Fitting(c)'
    BY <1>1, <1>4, <2>3, <2>4 DEF Fitting, Reload, ConfigDevice, devVars, CameraTypeOK
  <2>7. Survives(c)'
    BY <1>1, <1>2, <2>3, <2>4 DEF Survives
  <2>8. \A d \in Cameras \ {c} :
            /\ stream'[d] = stream[d] /\ device'[d] = device[d] /\ fits'[d] = fits[d]
            /\ reloads'[d] = reloads[d] /\ backoff'[d] = backoff[d] /\ at'[d] = at[d]
    <3>1. /\ device' = device \/ \E x : device' = [device EXCEPT ![c] = x]
          /\ stream' = stream \/ \E x : stream' = [stream EXCEPT ![c] = x]
          /\ fits' = fits \/ \E x : fits' = [fits EXCEPT ![c] = x]
      BY <1>4 DEF Reload, ConfigDevice, devVars
    <3>2. /\ DOMAIN device = Cameras /\ DOMAIN stream = Cameras /\ DOMAIN fits = Cameras
          /\ DOMAIN reloads = Cameras /\ DOMAIN backoff = Cameras
      BY <1>1 DEF CameraTypeOK
    <3>3. TAKE d \in Cameras \ {c}
    <3>4. device'[d] = device[d] /\ stream'[d] = stream[d] /\ fits'[d] = fits[d]
      BY <3>1, <3>2
    <3>5. reloads'[d] = reloads[d] /\ backoff'[d] = backoff[d] /\ at'[d] = at[d]
      BY <1>2, <1>4, <3>2
    <3> QED  BY <3>4, <3>5
  <2> QED  BY <2>5, <2>6, <2>7, <2>8, OneCameraAtATime
<1> QED  BY <1>2, <1>3, <1>4

\* Every step keeps the cameras' invariant: only a reload leaves a device with the wrong
\* format, and only a stubborn one.
LEMMA NextCamera == CameraInv /\ [CameraNext]_camVars => CameraInv'
<1> SUFFICES ASSUME CameraInv, [CameraNext]_camVars PROVE CameraInv'
  OBVIOUS
<1>1. CameraTypeOK /\ CameraTypeOK'
  BY NextCameraTypes DEF CameraInv
<1>2. ASSUME NEW c \in Cameras
      PROVE  Survives(c) /\ Doubling(reloads[c]) /\ Fitting(c) /\ Backing(c)
  BY CameraByCamera
<1>3. ASSUME NEW c \in Cameras, Pull(c) PROVE CameraInv'
  <2>1. (Survives(c) /\ Doubling(reloads[c]) /\ Fitting(c) /\ Backing(c))'
    BY <1>1, <1>2, <1>3 DEF Pull, querier, Survives, Fitting, Backing, CameraTypeOK
  <2> QED  BY <1>1, <1>3, <2>1, OneCameraAtATime DEF Pull, querier, CameraTypeOK
<1>4. ASSUME NEW c \in Cameras, PlugIn(c) PROVE CameraInv'
  <2>1. (Survives(c) /\ Doubling(reloads[c]) /\ Fitting(c) /\ Backing(c))'
    BY <1>2, <1>4 DEF PlugIn, querier, Survives, Fitting, Backing
  <2> QED  BY <1>1, <1>4, <2>1, OneCameraAtATime DEF PlugIn, querier
<1>5. ASSUME NEW c \in Cameras, LoadFails(c) PROVE CameraInv'
  BY <1>1, <1>5, FailureKeepsCamera
<1>6. ASSUME NEW c \in Cameras, LoadFrame(c) PROVE CameraInv'
  <2>1. UNCHANGED <<device, fits, reloads>> /\ Readable(c) /\ stream' = [stream EXCEPT ![c] = "good"]
    BY <1>6 DEF LoadFrame
  <2>2. fits[c] \/ (c \in Stubborn /\ reloads[c] # <<>>)
    BY <1>2, <2>1 DEF Readable, Fitting
  <2>3. /\ backoff' = backoff \/ backoff' = [backoff EXCEPT ![c] = 0]
        /\ \E a : at' = [at EXCEPT ![c] = a] /\ (a = "ended" => c \in Raw /\ ~fits[c])
    BY <1>6 DEF LoadFrame
  <2>6. {DOMAIN stream, DOMAIN backoff, DOMAIN at} = {Cameras}
    BY <1>1 DEF CameraTypeOK
  <2>7. backoff'[c] \in {backoff[c], 0} /\ (at'[c] = "ended" => c \in Raw /\ ~fits[c])
    BY <2>3, <2>6
  <2>4. (Survives(c) /\ Doubling(reloads[c]) /\ Fitting(c) /\ Backing(c))'
    BY <1>2, <2>1, <2>2, <2>7 DEF Survives, Fitting, Backing
  <2>5. \A d \in Cameras \ {c} :
            stream'[d] = stream[d] /\ backoff'[d] = backoff[d] /\ at'[d] = at[d]
    BY <2>1, <2>3, <2>6
  <2> QED  BY <1>1, <2>1, <2>4, <2>5, OneCameraAtATime
<1>7. ASSUME NEW c \in Cameras, Submit(c) PROVE CameraInv'
  <2>1. UNCHANGED <<stream, device, fits, reloads, backoff>>
    BY <1>7 DEF Submit, devVars, querier
  <2>2. \A d \in Cameras \ {c} : at'[d] = at[d]
    BY <1>1, <1>7 DEF Submit, CameraTypeOK
  <2>3. Survives(c)'
    <3>1. SUFFICES ASSUME at'[c] = "ended" PROVE \E n \in DOMAIN Targets[c] : Expecting[Targets[c][n]] = 0
      BY DEF Survives
    <3>2. PICK n \in Accepted(c) : Expecting[Targets[c][n]] # 1
      BY <1>1, <1>7, <3>1 DEF Submit, CameraTypeOK
    <3>3. n \in DOMAIN Targets[c] /\ Expecting[Targets[c][n]] <= 1
      BY DEF Accepted
    <3>4. Targets[c] \in Seq(DOMAIN Expecting)
      BY CameraAssumption
    <3>5. Targets[c][n] \in DOMAIN Expecting
      BY <3>3, <3>4
    <3>6. Expecting[Targets[c][n]] \in Nat
      BY <3>5, CameraAssumption
    <3> QED  BY <3>2, <3>3, <3>6
  <2>4. (Doubling(reloads[c]) /\ Fitting(c) /\ Backing(c))'
    BY <1>2, <2>1 DEF Fitting, Backing
  <2> QED  BY <1>1, <2>1, <2>2, <2>3, <2>4, OneCameraAtATime
<1>8. CASE RunEnds \/ UNCHANGED camVars
  <2>1. UNCHANGED <<stream, device, fits, reloads, backoff, at>>
    BY <1>8 DEF RunEnds, camVars, devVars, querier
  <2> QED  BY <1>1, <2>1 DEF CameraInv, RetriesGoOn, LossesAreSurvived, BackoffIsExponential,
                             Fitting, Backing
<1> QED  BY <1>3, <1>4, <1>5, <1>6, <1>7, <1>8 DEF CameraNext, CameraStep

\* It holds when the cameras are opened.
LEMMA InitCamera == CameraInit => CameraInv
<1> SUFFICES ASSUME CameraInit PROVE CameraInv
  OBVIOUS
<1>1. CameraTypeOK
  BY InitCameraTypes
<1>2. ASSUME NEW c \in Cameras
      PROVE  Survives(c) /\ Doubling(reloads[c]) /\ Fitting(c) /\ Backing(c)
  BY DEF CameraInit, Survives, Doubling, Fitting, Backing
<1> QED  BY <1>1, <1>2, CameraByCamera

\* However often a device is pulled, plugged in again or loses a frame, and at
\* whatever point: it ends the thread of no camera that takes its settings, and each
\* reload waits for twice the failures of the one before.
THEOREM LossesNeverEndACamera == CameraSpec => []RetriesGoOn
<1>1. CameraInv => RetriesGoOn
  BY DEF CameraInv
<1> QED  BY InitCamera, NextCamera, <1>1, PTL DEF CameraSpec
---------------------------------------------------------------------------
(* What is published. *)

\* The nodes up to v whose value can be sent, and the array that they leave: of the
\* kind of the first, with the values of that kind in order.
Good(ns, v) == {i \in 1..v : ns[i].kinds[1] \in Sendable}

Filled(ns, kind, vals, v) ==
    /\ vals \in Seq(Nat \X Nat)
    /\ \/ Good(ns, v) = {} /\ kind = "unset" /\ vals = <<>>
       \/ /\ \E first \in Good(ns, v) : /\ \A i \in Good(ns, v) : first <= i
                                        /\ kind = ns[first].kinds[1]
          /\ InOrder(vals, {i \in Good(ns, v) : ns[i].kinds[1] = kind}, 0)

Slot(ch, kind, vals) == [topic |-> Topic(ch), kind |-> kind, vals |-> vals]

\* The next value, put behind those of earlier nodes.
LEMMA AppendInOrder ==
    ASSUME NEW vals \in Seq(Nat \X Nat), NEW v \in Nat, NEW here \in SUBSET (1..v),
           InOrder(vals, here, 0)
    PROVE  /\ Append(vals, <<v + 1, 0>>) \in Seq(Nat \X Nat)
           /\ InOrder(Append(vals, <<v + 1, 0>>), here \cup {v + 1}, 0)
<1> DEFINE new == Append(vals, <<v + 1, 0>>)
<1>1. <<v + 1, 0>> \in Nat \X Nat
  OBVIOUS
<1>2. /\ new \in Seq(Nat \X Nat) /\ Len(vals) \in Nat
      /\ DOMAIN vals = 1..Len(vals) /\ DOMAIN new = 1..(Len(vals) + 1)
      /\ new[Len(vals) + 1] = <<v + 1, 0>>
      /\ \A n \in 1..Len(vals) : new[n] = vals[n]
  BY <1>1
<1> HIDE DEF new
<1>3. Range(new) = Range(vals) \cup {<<v + 1, 0>>}
  <2>1. \A n \in DOMAIN new : n \in DOMAIN vals \/ n = Len(vals) + 1
    BY <1>2
  <2>2. DOMAIN vals \subseteq DOMAIN new /\ Len(vals) + 1 \in DOMAIN new
    BY <1>2
  <2>3. Range(new) \subseteq Range(vals) \cup {<<v + 1, 0>>}
    BY <1>2, <2>1 DEF Range
  <2>4. Range(vals) \cup {<<v + 1, 0>>} \subseteq Range(new)
    BY <1>2, <2>2 DEF Range
  <2> QED  BY <2>3, <2>4
<1>4. Range(new) = {Given(i, 0) : i \in here \cup {v + 1}}
  BY <1>3 DEF InOrder, Given
<1>5. \A n \in DOMAIN vals : vals[n][1] \in 1..v
  <2>1. ASSUME NEW n \in DOMAIN vals PROVE vals[n][1] \in 1..v
    <3>1. vals[n] \in {Given(i, 0) : i \in here}
      BY DEF InOrder, Range
    <3> QED  BY <3>1 DEF Given
  <2> QED  BY <2>1
<1>6. ASSUME NEW m \in DOMAIN new, NEW n \in DOMAIN new, m < n
      PROVE  new[m][1] < new[n][1]
  <2>1. CASE n <= Len(vals)
    <3>1. m \in DOMAIN vals /\ n \in DOMAIN vals
      BY <1>2, <1>6, <2>1
    <3> QED  BY <1>2, <1>6, <3>1 DEF InOrder
  <2>2. CASE n = Len(vals) + 1
    <3>1. m \in DOMAIN vals
      BY <1>2, <1>6, <2>2
    <3>2. new[n][1] = v + 1 /\ new[m] = vals[m]
      BY <1>2, <2>2, <3>1
    <3>3. new[m][1] \in 1..v
      BY <1>5, <3>1, <3>2
    <3> QED  BY <3>2, <3>3
  <2> QED  BY <1>2, <2>1, <2>2
<1> QED  BY <1>2, <1>4, <1>6 DEF InOrder, new

\* A node that is walked.
LEMMA PushKeepsFilled ==
    ASSUME NEW ns, NEW kind, NEW vals, NEW v \in Nat, NEW ch, Filled(ns, kind, vals, v)
    PROVE  LET pushed == Pushed(Slot(ch, kind, vals), ns[v + 1].kinds[1], Given(v + 1, 0))
           IN  \E k, w : pushed = Slot(ch, k, w) /\ Filled(ns, k, w, v + 1)
<1> DEFINE new == ns[v + 1].kinds[1]
           pushed == Pushed(Slot(ch, kind, vals), new, Given(v + 1, 0))
<1>1. Good(ns, v + 1) = IF new \in Sendable THEN Good(ns, v) \cup {v + 1} ELSE Good(ns, v)
  BY DEF Good
<1>2. "unset" \notin Sendable
  BY PublishAssumption
<1>3. CASE new \notin Sendable
  <2>1. pushed = Slot(ch, kind, vals)
    BY <1>3 DEF Pushed
  <2> QED  BY <1>1, <1>3, <2>1 DEF Filled
<1>4. CASE new \in Sendable /\ kind \notin {"unset", new}
  <2>1. pushed = Slot(ch, kind, vals)
    BY <1>4 DEF Pushed, Slot
  <2>2. PICK first \in Good(ns, v) : (\A i \in Good(ns, v) : first <= i) /\ kind = ns[first].kinds[1]
    BY <1>4 DEF Filled
  <2>3. first \in Good(ns, v + 1) /\ \A i \in Good(ns, v + 1) : first <= i
    BY <1>1, <1>4, <2>2 DEF Good
  <2>4. {i \in Good(ns, v + 1) : ns[i].kinds[1] = kind} = {i \in Good(ns, v) : ns[i].kinds[1] = kind}
    BY <1>1, <1>4
  <2> QED  BY <1>4, <2>1, <2>2, <2>3, <2>4 DEF Filled
<1>5. CASE new \in Sendable /\ kind = "unset"
  <2>1. Good(ns, v) = {} /\ vals = <<>>
    BY <1>2, <1>5 DEF Filled, Good
  <2>2. pushed = Slot(ch, new, <<Given(v + 1, 0)>>)
    <3>1. Append(<<>>, Given(v + 1, 0)) = <<Given(v + 1, 0)>>
      OBVIOUS
    <3> QED  BY <1>2, <1>5, <2>1, <3>1 DEF Pushed, Slot
  <2>3. Good(ns, v + 1) = {v + 1}
    BY <1>1, <1>5, <2>1
  <2>4. InOrder(<<Given(v + 1, 0)>>, {i \in Good(ns, v + 1) : ns[i].kinds[1] = new}, 0)
    <3>1. {i \in Good(ns, v + 1) : ns[i].kinds[1] = new} = {v + 1}
      BY <2>3
    <3> QED  BY <3>1 DEF InOrder, Range
  <2>5. <<Given(v + 1, 0)>> \in Seq(Nat \X Nat)
    BY DEF Given
  <2>6. Filled(ns, new, <<Given(v + 1, 0)>>, v + 1)
    BY <2>3, <2>4, <2>5 DEF Filled
  <2> QED  BY <2>2, <2>6
<1>6. CASE new \in Sendable /\ kind = new
  <2> DEFINE here == {i \in Good(ns, v) : ns[i].kinds[1] = kind}
  <2>1. PICK first \in Good(ns, v) : (\A i \in Good(ns, v) : first <= i) /\ kind = ns[first].kinds[1]
    BY <1>2, <1>6 DEF Filled
  <2>2. pushed = Slot(ch, kind, Append(vals, <<v + 1, 0>>))
    BY <1>6 DEF Pushed, Slot, Given
  <2>3. /\ Append(vals, <<v + 1, 0>>) \in Seq(Nat \X Nat)
        /\ InOrder(Append(vals, <<v + 1, 0>>), here \cup {v + 1}, 0)
    <3>1. here \in SUBSET (1..v) /\ vals \in Seq(Nat \X Nat) /\ InOrder(vals, here, 0)
      BY <1>2, <1>6 DEF Filled, Good
    <3> HIDE DEF here
    <3> QED  BY <3>1, AppendInOrder
  <2>4. {i \in Good(ns, v + 1) : ns[i].kinds[1] = kind} = here \cup {v + 1}
    BY <1>1, <1>6
  <2>6. PICK w : w = Append(vals, <<v + 1, 0>>)
    OBVIOUS
  <2>5. first \in Good(ns, v + 1) /\ \A i \in Good(ns, v + 1) : first <= i
    BY <1>1, <1>6, <2>1 DEF Good
  <2>7. InOrder(w, {i \in Good(ns, v + 1) : ns[i].kinds[1] = kind}, 0)
    BY <2>3, <2>4, <2>6
  <2>8. Filled(ns, kind, w, v + 1)
    BY <2>1, <2>3, <2>5, <2>6, <2>7 DEF Filled
  <2> QED  BY <2>2, <2>6, <2>8
<1> QED  BY <1>3, <1>4, <1>5, <1>6
\* Where the list is, if there is one.
IsList(ch) == ch \in DOMAIN layout /\ layout[ch] = <<1, 0>>

\* The inputs and the tree stay as they were given.
TreeOK ==
    /\ layout \in Layouts
    /\ Len(nodes) \in Nat /\ DOMAIN nodes = 1..Len(nodes)
    /\ \A i \in DOMAIN nodes : nodes[i].level = 1 /\ DOMAIN nodes[i].kinds = 1..1
    /\ DOMAIN nodes # {} => \E ch : IsList(ch)

\* What has been sent of the root, when these inputs are left.
SentOfRoot(left) ==
    {[topic |-> Topic(ch), vals |-> <<Given(0, layout[ch][2])>>] :
        ch \in {k \in DOMAIN layout \ left : layout[k][1] = 0 /\ top[layout[k][2] + 1] \in Sendable}}

\* The only row there can be is that of the list.
RowsOK ==
    \/ rows = <<>> /\ \A ch \in DOMAIN layout \ todo : layout[ch][1] = 0
    \/ \E ch, kind, vals :
          /\ IsList(ch) /\ ch \notin todo
          /\ rows = <<<<Slot(ch, kind, vals)>>>> /\ Filled(nodes, kind, vals, visited)

AllSent ==
    /\ \A ch \in DOMAIN layout : OwnNodes(ch) # {} => \E s \in sent : Whole(s, ch)
    /\ \A s \in sent : \E ch \in DOMAIN layout : OwnNodes(ch) # {} /\ Whole(s, ch)

PublishInv ==
    OneList =>
        /\ TreeOK
        /\ todo \subseteq DOMAIN layout /\ visited \in 0..Len(nodes)
        /\ todo # {} => visited = 0
        /\ \/ outcome = "running" /\ RowsOK /\ sent = SentOfRoot(todo)
           \/ outcome = "done" /\ AllSent

\* The tree has only nodes of level 1, with one value, if there is one list.
LEMMA InitPublish == PublishInit => PublishInv
<1> SUFFICES ASSUME PublishInit, OneList PROVE PublishInv
  BY DEF PublishInv
<1>1. layout \in Layouts
  BY DEF PublishInit
<1>2. PICK n \in 0..MaxNodes : \E lv \in [1..n -> UNION {1..k : k \in Levels}] :
          /\ nodes \in [1..n -> [level : Range(lv),
                                 kinds : UNION {[1..Width(l) -> Kinds] : l \in Range(lv)}]]
          /\ \A i \in 1..n : nodes[i].level = lv[i]
  BY DEF PublishInit
<1>3. PICK lv \in [1..n -> UNION {1..k : k \in Levels}] :
          /\ nodes \in [1..n -> [level : Range(lv),
                                 kinds : UNION {[1..Width(l) -> Kinds] : l \in Range(lv)}]]
          /\ \A i \in 1..n : nodes[i].level = lv[i]
  BY <1>2
<1>4. n \in Nat
  BY PublishAssumption
<1>5. Len(nodes) = n /\ DOMAIN nodes = 1..n
  BY <1>3, <1>4
<1>6. ASSUME NEW i \in 1..n PROVE lv[i] = 1 /\ \E ch : IsList(ch)
  <2>1. PICK k \in Levels : lv[i] \in 1..k
    <3>1. lv[i] \in UNION {1..k : k \in Levels}
      OBVIOUS
    <3> QED  BY <3>1
  <2>2. PICK ch \in DOMAIN layout : layout[ch][1] = k
    BY <2>1 DEF Levels
  <2>3. k # 0 /\ layout[ch] = <<1, 0>>
    BY <2>1, <2>2 DEF OneList
  <2> QED  BY <2>1, <2>2, <2>3 DEF IsList
<1>7. ASSUME NEW ch, IsList(ch) PROVE Width(1) = 1
  <2>1. {k \in DOMAIN layout : layout[k][1] = 1} = {ch}
    <3>1. ch \in DOMAIN layout /\ layout[ch] = <<1, 0>> /\ layout[ch][1] = 1
      BY <1>7 DEF IsList
    <3>2. ASSUME NEW k \in DOMAIN layout, layout[k][1] = 1 PROVE k = ch
      <4>1. layout[k] = layout[ch]
        BY <3>1, <3>2 DEF OneList
      <4> QED  BY <1>1, <3>1, <4>1, PublishAssumption
    <3> QED  BY <3>1, <3>2
  <2> QED  BY <2>1, FS_Singleton DEF Width
<1>8. ASSUME NEW i \in 1..n PROVE nodes[i].level = 1 /\ DOMAIN nodes[i].kinds = 1..1
  <2>1. Width(1) = 1 /\ Range(lv) \subseteq {1}
    BY <1>6, <1>7 DEF Range
  <2>2. nodes[i].kinds \in UNION {[1..Width(l) -> Kinds] : l \in Range(lv)}
    BY <1>3
  <2>3. PICK l \in Range(lv) : nodes[i].kinds \in [1..Width(l) -> Kinds]
    BY <2>2
  <2>4. DOMAIN nodes[i].kinds = 1..1
    BY <2>1, <2>3
  <2> QED  BY <1>3, <1>6, <2>4
<1>9. TreeOK
  BY <1>1, <1>4, <1>5, <1>6, <1>8 DEF TreeOK
<1>10. /\ visited = 0 /\ todo = DOMAIN layout /\ rows = <<>> /\ sent = {} /\ outcome = "running"
  BY DEF PublishInit
<1>11. SentOfRoot(todo) = {}
  BY <1>10 DEF SentOfRoot
<1> QED  BY <1>4, <1>5, <1>9, <1>10, <1>11 DEF PublishInv, RowsOK

\* What has been sent of the root is what its inputs should be sent.
LEMMA RootIsWhole ==
    ASSUME TreeOK, NEW ch \in DOMAIN layout, layout[ch][1] = 0
    PROVE  /\ OwnNodes(ch) = IF top[layout[ch][2] + 1] \in Sendable THEN {0} ELSE {}
           /\ \A s : s.topic = Topic(ch) /\ s.vals = <<Given(0, layout[ch][2])>> /\ OwnNodes(ch) # {}
                      => Whole(s, ch)
<1>1. Nodes(ch) = IF top[layout[ch][2] + 1] \in Sendable THEN {0} ELSE {}
  BY DEF Nodes, KindAt
<1>2. OwnNodes(ch) = Nodes(ch)
  BY <1>1 DEF OwnNodes
<1>3. InOrder(<<Given(0, layout[ch][2])>>, {0}, layout[ch][2])
  BY DEF InOrder, Range
<1> QED  BY <1>1, <1>2, <1>3 DEF Whole

\* So is the array of the list, when all nodes are visited.
LEMMA ListIsWhole ==
    ASSUME TreeOK, NEW ch, IsList(ch), NEW kind, NEW vals, Filled(nodes, kind, vals, Len(nodes))
    PROVE  /\ OwnNodes(ch) # {} <=> kind # "unset"
           /\ \A s : s.topic = Topic(ch) /\ s.vals = vals /\ OwnNodes(ch) # {} => Whole(s, ch)
<1>1. layout[ch] = <<1, 0>> /\ \A i \in DOMAIN nodes : KindAt(ch, i) = nodes[i].kinds[1]
  BY DEF IsList, KindAt, TreeOK
<1>2. Nodes(ch) = Good(nodes, Len(nodes))
  BY <1>1 DEF Nodes, Good, TreeOK
<1>3. \A i \in Nodes(ch) : KindAt(ch, i) = nodes[i].kinds[1] /\ i \in Nat
  BY <1>1, <1>2 DEF Good, TreeOK
<1>4. CASE Good(nodes, Len(nodes)) = {} /\ kind = "unset"
  BY <1>2, <1>4 DEF OwnNodes
<1>5. CASE /\ \E first \in Good(nodes, Len(nodes)) :
                /\ \A i \in Good(nodes, Len(nodes)) : first <= i
                /\ kind = nodes[first].kinds[1]
           /\ InOrder(vals, {i \in Good(nodes, Len(nodes)) : nodes[i].kinds[1] = kind}, 0)
  <2>1. PICK first \in Nodes(ch) : (\A i \in Nodes(ch) : first <= i) /\ kind = nodes[first].kinds[1]
    BY <1>2, <1>5
  <2>2. \A f \in Nodes(ch) : (\A i \in Nodes(ch) : f <= i) => f = first
    BY <1>3, <2>1
  <2>3. OwnNodes(ch) = {i \in Nodes(ch) : KindAt(ch, i) = KindAt(ch, first)}
    BY <2>1, <2>2 DEF OwnNodes
  <2>4. OwnNodes(ch) = {i \in Good(nodes, Len(nodes)) : nodes[i].kinds[1] = kind}
    BY <1>2, <1>3, <2>1, <2>3
  <2>5. first \in OwnNodes(ch)
    BY <2>1, <2>3
  <2>6. kind # "unset"
    BY <1>2, <2>1, PublishAssumption DEF Good
  <2>7. InOrder(vals, OwnNodes(ch), 0)
    BY <1>5, <2>4
  <2> QED  BY <1>1, <2>5, <2>6, <2>7 DEF Whole
<1> QED  BY <1>4, <1>5 DEF Filled

\* A node that is walked finds the row of its level, and its slot.
LEMMA WalkKeeps ==
    ASSUME PublishInv, OneList, Walk
    PROVE  /\ visited' \in 0..Len(nodes) /\ todo = {}
           /\ \E ch, kind, vals :
                /\ IsList(ch)
                /\ rows' = <<<<Slot(ch, kind, vals)>>>> /\ Filled(nodes, kind, vals, visited')
<1>1. /\ TreeOK /\ RowsOK /\ visited \in 0..Len(nodes)
      /\ todo = {} /\ visited < Len(nodes) /\ visited' = visited + 1
  BY DEF PublishInv, Walk, Walking
<1>2. PICK i : i = visited + 1
  OBVIOUS
<1>3. /\ i \in DOMAIN nodes /\ i \in 0..Len(nodes) /\ visited \in Nat
      /\ nodes[i].level = 1 /\ DOMAIN nodes[i].kinds = 1..1
  BY <1>1, <1>2 DEF TreeOK
<1>4. PICK ch, kind, vals :
        /\ IsList(ch) /\ rows = <<<<Slot(ch, kind, vals)>>>> /\ Filled(nodes, kind, vals, visited)
  <2>1. PICK k : IsList(k)
    BY <1>1, <1>3 DEF TreeOK
  <2>2. k \in DOMAIN layout \ todo /\ layout[k][1] # 0
    BY <1>1, <2>1 DEF IsList
  <2> QED  BY <1>1, <2>2 DEF RowsOK
<1>5. PICK pushed : pushed = Pushed(Slot(ch, kind, vals), nodes[i].kinds[1], Given(i, 0))
  OBVIOUS
<1>6. rows' = <<<<pushed>>>>
  <2>1. rows' = [rows EXCEPT ![1] =
                   [c \in DOMAIN @ |-> IF c \in DOMAIN nodes[i].kinds
                                       THEN Pushed(@[c], nodes[i].kinds[c], Given(i, c - 1))
                                       ELSE @[c]]]
    BY <1>2, <1>3 DEF Walk
  <2>2. PICK row : row = <<Slot(ch, kind, vals)>>
    OBVIOUS
  <2>3. rows = <<row>> /\ DOMAIN row = 1..1 /\ row[1] = Slot(ch, kind, vals)
    BY <1>4, <2>2
  <2>4. rows' = [<<row>> EXCEPT ![1] =
                   [c \in 1..1 |-> Pushed(row[c], nodes[i].kinds[c], Given(i, c - 1))]]
    BY <1>3, <2>1, <2>3
  <2>5. [c \in 1..1 |-> Pushed(row[c], nodes[i].kinds[c], Given(i, c - 1))] = <<pushed>>
    <3>1. ASSUME NEW c \in 1..1
          PROVE  Pushed(row[c], nodes[i].kinds[c], Given(i, c - 1)) = pushed
      <4>1. c = 1 /\ c - 1 = 0
        OBVIOUS
      <4> QED  BY <1>5, <2>3, <4>1
    <3> QED  BY <3>1
  <2> QED  BY <2>4, <2>5
<1>7. \E k, w : pushed = Slot(ch, k, w) /\ Filled(nodes, k, w, visited + 1)
  BY <1>2, <1>3, <1>4, <1>5, PushKeepsFilled
<1> QED  BY <1>1, <1>2, <1>3, <1>4, <1>6, <1>7

\* The list gets the first slot of the first row.
LEMMA PrepareKeeps ==
    ASSUME PublishInv, OneList, NEW ch \in DOMAIN layout, Prepare(ch)
    PROVE  /\ IsList(ch) /\ todo' = todo \ {ch}
           /\ rows' = <<<<Slot(ch, "unset", <<>>)>>>> /\ Filled(nodes, "unset", <<>>, visited)
           /\ SentOfRoot(todo') = SentOfRoot(todo)
<1>1. /\ TreeOK /\ RowsOK /\ ch \in todo /\ visited = 0 /\ todo' = todo \ {ch}
      /\ layout' = layout /\ top' = top
  BY DEF PublishInv, Prepare
<1>2. layout[ch] = <<1, 0>> /\ IsList(ch)
  <2>1. layout[ch] \in Nat \X Nat /\ layout[ch][1] > 0
    BY <1>1, PublishAssumption DEF Prepare, TreeOK
  <2> QED  BY <2>1 DEF OneList, IsList
<1>3. rows = <<>>
  <2>1. SUFFICES ASSUME NEW k, IsList(k), k \notin todo PROVE FALSE
    BY <1>1 DEF RowsOK
  <2> QED  BY <1>1, <1>2, <2>1, PublishAssumption DEF IsList, TreeOK
<1>4. rows' = [Resized(<<>>, 1, <<>>) EXCEPT
                 ![1] = [Resized(@, 1, Unset) EXCEPT ![1].topic = Topic(ch)]]
  BY <1>2, <1>3 DEF Prepare
<1>5. \A v : Resized(<<>>, 1, v) = <<v>>
  BY DEF Resized
<1>6. rows' = <<[<<Unset>> EXCEPT ![1].topic = Topic(ch)]>>
  BY <1>4, <1>5
<1>7. [<<Unset>> EXCEPT ![1].topic = Topic(ch)] = <<Slot(ch, "unset", <<>>)>>
  <2>1. PICK u, filled : u = Unset /\ filled = [u EXCEPT !.topic = Topic(ch)]
    OBVIOUS
  <2>2. filled = Slot(ch, "unset", <<>>)
    BY <2>1 DEF Unset, Slot
  <2>3. [<<u>> EXCEPT ![1].topic = Topic(ch)] = <<filled>>
    BY <2>1
  <2> QED  BY <2>1, <2>2, <2>3
<1>8. Filled(nodes, "unset", <<>>, visited)
  BY <1>1 DEF Filled, Good
<1>9. \A k \in DOMAIN layout : layout[k][1] = 0 => (k \in todo' <=> k \in todo)
  BY <1>1, <1>2
<1>10. SentOfRoot(todo') = SentOfRoot(todo)
  BY <1>9 DEF SentOfRoot
<1> QED  BY <1>1, <1>2, <1>6, <1>7, <1>8, <1>10

\* An input of the root is sent at once.
LEMMA SendTopKeeps ==
    ASSUME PublishInv, OneList, NEW ch \in DOMAIN layout, SendTop(ch)
    PROVE  /\ todo' = todo \ {ch}
           /\ sent' = SentOfRoot(todo \ {ch})
<1>1. /\ ch \in todo /\ layout[ch][1] = 0 /\ sent = SentOfRoot(todo)
      /\ todo' = todo \ {ch} /\ todo \subseteq DOMAIN layout
      /\ sent' = IF top[layout[ch][2] + 1] \in Sendable
                 THEN sent \cup {[topic |-> Topic(ch), vals |-> <<Given(0, layout[ch][2])>>]}
                 ELSE sent
  BY DEF PublishInv, SendTop
<1>2. {k \in DOMAIN layout \ (todo \ {ch}) : layout[k][1] = 0 /\ top[layout[k][2] + 1] \in Sendable}
      = {k \in DOMAIN layout \ todo : layout[k][1] = 0 /\ top[layout[k][2] + 1] \in Sendable}
          \cup (IF top[layout[ch][2] + 1] \in Sendable THEN {ch} ELSE {})
  BY <1>1
<1>3. sent' = SentOfRoot(todo \ {ch})
  BY <1>1, <1>2 DEF SentOfRoot
<1> QED  BY <1>1, <1>3

\* In the end the slot holds all that the list has to send.
LEMMA SendSendsAll ==
    ASSUME PublishInv, OneList, Send
    PROVE  AllSent'
<1>1. /\ TreeOK /\ RowsOK /\ sent = SentOfRoot({}) /\ todo = {} /\ visited = Len(nodes)
      /\ UNCHANGED <<layout, top, nodes>>
  BY DEF PublishInv, Send
<1>2. PICK slots : slots = {t \in UNION {Range(rows[l]) : l \in DOMAIN rows} : t.kind # "unset"}
  OBVIOUS
<1>3. sent' = sent \cup {[topic |-> s.topic, vals |-> s.vals] : s \in slots}
  BY <1>2 DEF Send
<1>4. SUFFICES /\ \A ch \in DOMAIN layout : OwnNodes(ch) # {} => \E s \in sent' : Whole(s, ch)
               /\ \A s \in sent' : \E ch \in DOMAIN layout : OwnNodes(ch) # {} /\ Whole(s, ch)
  <2>1. \A ch, i : KindAt(ch, i)' = KindAt(ch, i)
    BY <1>1 DEF KindAt
  <2>2. \A ch : Nodes(ch)' = Nodes(ch)
    BY <1>1, <2>1 DEF Nodes
  <2>3. \A ch : OwnNodes(ch)' = OwnNodes(ch)
    BY <2>1, <2>2 DEF OwnNodes
  <2>4. \A s, ch : Whole(s, ch)' <=> Whole(s, ch)
    BY <1>1, <2>3 DEF Whole
  <2> QED  BY <1>1, <2>3, <2>4 DEF AllSent
<1>5. ASSUME NEW ch \in DOMAIN layout, layout[ch][1] = 0, OwnNodes(ch) # {}
      PROVE  \E s \in sent' : Whole(s, ch)
  <2>1. top[layout[ch][2] + 1] \in Sendable
    BY <1>1, <1>5, RootIsWhole
  <2>2. [topic |-> Topic(ch), vals |-> <<Given(0, layout[ch][2])>>] \in sent'
    BY <1>1, <1>3, <1>5, <2>1 DEF SentOfRoot
  <2> QED  BY <1>1, <1>5, <2>2, RootIsWhole
<1>6. ASSUME NEW s \in sent
      PROVE  \E ch \in DOMAIN layout : OwnNodes(ch) # {} /\ Whole(s, ch)
  <2>1. PICK ch \in DOMAIN layout : /\ layout[ch][1] = 0 /\ top[layout[ch][2] + 1] \in Sendable
                                   /\ s = [topic |-> Topic(ch), vals |-> <<Given(0, layout[ch][2])>>]
    BY <1>1, <1>6 DEF SentOfRoot
  <2>2. s.topic = Topic(ch) /\ s.vals = <<Given(0, layout[ch][2])>>
    BY <2>1
  <2> QED  BY <1>1, <2>1, <2>2, RootIsWhole
<1>7. CASE rows = <<>> /\ \A ch \in DOMAIN layout \ todo : layout[ch][1] = 0
  <2>1. slots = {}
    BY <1>2, <1>7
  <2> QED  BY <1>1, <1>3, <1>5, <1>6, <1>7, <2>1
<1>8. CASE \E ch, kind, vals : /\ IsList(ch) /\ rows = <<<<Slot(ch, kind, vals)>>>>
                               /\ Filled(nodes, kind, vals, visited)
  <2>1. PICK ch, kind, vals : /\ IsList(ch) /\ rows = <<<<Slot(ch, kind, vals)>>>>
                              /\ Filled(nodes, kind, vals, Len(nodes))
    BY <1>1, <1>8
  <2>2. slots = IF kind = "unset" THEN {} ELSE {Slot(ch, kind, vals)}
    <3>1. PICK row : row = <<Slot(ch, kind, vals)>>
      OBVIOUS
    <3>2. Range(row) = {Slot(ch, kind, vals)}
      BY <3>1 DEF Range
    <3>3. rows = <<row>>
      BY <2>1, <3>1
    <3>4. UNION {Range(rows[l]) : l \in DOMAIN rows} = {Slot(ch, kind, vals)}
      BY <3>2, <3>3
    <3> QED  BY <1>2, <3>4 DEF Slot
  <2>3. sent' = IF kind = "unset" THEN sent ELSE sent \cup {[topic |-> Topic(ch), vals |-> vals]}
    <3>1. CASE kind = "unset"
      BY <1>3, <2>2, <3>1
    <3>2. CASE kind # "unset"
      <4>1. Slot(ch, kind, vals).topic = Topic(ch) /\ Slot(ch, kind, vals).vals = vals
        BY DEF Slot
      <4> QED  BY <1>3, <2>2, <3>2, <4>1
    <3> QED  BY <3>1, <3>2
  <2>4. /\ OwnNodes(ch) # {} <=> kind # "unset"
        /\ \A s : s.topic = Topic(ch) /\ s.vals = vals /\ OwnNodes(ch) # {} => Whole(s, ch)
    BY <1>1, <2>1, ListIsWhole
  <2>5. ASSUME NEW k \in DOMAIN layout, OwnNodes(k) # {}
        PROVE  \E s \in sent' : Whole(s, k)
    <3>1. CASE layout[k][1] = 0
      BY <1>5, <2>5, <3>1
    <3>2. CASE layout[k][1] # 0
      <4>1. k = ch
        BY <1>1, <2>1, <3>2, PublishAssumption DEF OneList, IsList, TreeOK
      <4>2. [topic |-> Topic(ch), vals |-> vals] \in sent'
        BY <2>3, <2>4, <2>5, <4>1
      <4> QED  BY <2>4, <2>5, <4>1, <4>2
    <3> QED  BY <3>1, <3>2
  <2>6. ASSUME NEW s \in sent'
        PROVE  \E k \in DOMAIN layout : OwnNodes(k) # {} /\ Whole(s, k)
    <3>1. CASE s \in sent
      BY <1>6, <3>1
    <3>2. CASE kind # "unset" /\ s = [topic |-> Topic(ch), vals |-> vals]
      <4>1. s.topic = Topic(ch) /\ s.vals = vals /\ ch \in DOMAIN layout
        BY <2>1, <3>2 DEF IsList
      <4> QED  BY <2>4, <3>2, <4>1
    <3> QED  BY <2>3, <2>6, <3>1, <3>2
  <2> QED  BY <2>5, <2>6
<1> QED  BY <1>1, <1>7, <1>8 DEF RowsOK

\* Every step keeps it, and none panics.
LEMMA NextPublish == PublishInv /\ [PublishNext]_publishVars => PublishInv'
<1> SUFFICES ASSUME PublishInv, [PublishNext]_publishVars PROVE PublishInv'
  OBVIOUS
<1>1. /\ UNCHANGED <<layout, top, nodes>>
      /\ \A ch : IsList(ch)' <=> IsList(ch)
      /\ OneList' <=> OneList
      /\ TreeOK' <=> TreeOK
      /\ \A left : SentOfRoot(left)' = SentOfRoot(left)
  <2>1. UNCHANGED <<layout, top, nodes>>
    BY DEF PublishNext, SendTop, Prepare, PreparePanics, Walk, WalkPanics, Send, Panic, publishVars
  <2>2. (\A ch : IsList(ch)' <=> IsList(ch)) /\ (OneList' <=> OneList)
    BY <2>1 DEF IsList, OneList
  <2>3. TreeOK' <=> TreeOK
    BY <2>1, <2>2 DEF TreeOK
  <2>4. \A left : SentOfRoot(left)' = SentOfRoot(left)
    BY <2>1 DEF SentOfRoot
  <2> QED  BY <2>1, <2>2, <2>3, <2>4
<1>2. SUFFICES ASSUME OneList
               PROVE  /\ todo' \subseteq DOMAIN layout /\ visited' \in 0..Len(nodes)
                      /\ todo' # {} => visited' = 0
                      /\ \/ outcome' = "running" /\ RowsOK' /\ sent' = SentOfRoot(todo')
                         \/ outcome' = "done" /\ AllSent'
  BY <1>1 DEF PublishInv
<1>3. /\ TreeOK
      /\ todo \subseteq DOMAIN layout /\ visited \in 0..Len(nodes)
      /\ todo # {} => visited = 0
      /\ \/ outcome = "running" /\ RowsOK /\ sent = SentOfRoot(todo)
         \/ outcome = "done" /\ AllSent
  BY <1>2 DEF PublishInv
<1>4. ASSUME NEW ch \in DOMAIN layout, SendTop(ch) PROVE RowsOK'
  <2>1. layout[ch][1] = 0 /\ UNCHANGED <<visited, rows>> /\ todo' = todo \ {ch} /\ RowsOK
    BY <1>3, <1>4 DEF SendTop
  <2>2. \A k : k \in DOMAIN layout \ todo' => layout[k][1] = 0 \/ k \in DOMAIN layout \ todo
    BY <2>1
  <2>3. \A k : k \notin todo => k \notin todo'
    BY <2>1
  <2> QED  BY <1>1, <2>1, <2>2, <2>3 DEF RowsOK
<1>5. ASSUME NEW ch \in DOMAIN layout, SendTop(ch)
      PROVE  /\ todo' \subseteq DOMAIN layout /\ visited' = visited /\ todo # {}
             /\ outcome' = "running" /\ sent' = SentOfRoot(todo')
  BY <1>2, <1>3, <1>5, SendTopKeeps DEF SendTop
<1>6. ASSUME NEW ch \in DOMAIN layout, Prepare(ch)
      PROVE  /\ todo' \subseteq DOMAIN layout /\ visited' = visited /\ todo # {}
             /\ outcome' = "running" /\ RowsOK' /\ sent' = SentOfRoot(todo')
  <2>1. /\ UNCHANGED <<visited, sent, outcome>> /\ outcome = "running" /\ ch \in todo
        /\ IsList(ch) /\ todo' = todo \ {ch}
        /\ rows' = <<<<Slot(ch, "unset", <<>>)>>>> /\ Filled(nodes, "unset", <<>>, visited)
        /\ SentOfRoot(todo') = SentOfRoot(todo)
    BY <1>2, <1>6, PrepareKeeps DEF Prepare
  <2>2. RowsOK'
    <3>1. ch \notin todo' /\ Filled(nodes', "unset", <<>>, visited')
      BY <1>1, <2>1
    <3> QED  BY <1>1, <2>1, <3>1 DEF RowsOK, Slot, Topic
  <2> QED  BY <1>3, <2>1, <2>2
<1>7. ASSUME NEW ch \in DOMAIN layout PROVE ~PreparePanics(ch)
  BY <1>2 DEF PreparePanics, OneList
<1>8. CASE Walk
  <2>1. /\ visited' \in 0..Len(nodes) /\ todo = {}
        /\ \E ch, kind, vals :
             /\ IsList(ch)
             /\ rows' = <<<<Slot(ch, kind, vals)>>>> /\ Filled(nodes, kind, vals, visited')
    BY <1>2, <1>8, WalkKeeps
  <2>2. UNCHANGED <<todo, sent, outcome>> /\ outcome = "running"
    BY <1>8 DEF Walk, Walking
  <2>3. PICK ch, kind, vals :
             /\ IsList(ch)
             /\ rows' = <<<<Slot(ch, kind, vals)>>>> /\ Filled(nodes, kind, vals, visited')
    BY <2>1
  <2>4. IsList(ch)' /\ ch \notin todo' /\ Filled(nodes', kind, vals, visited')
    BY <1>1, <2>1, <2>2, <2>3
  <2>5. RowsOK'
    BY <2>3, <2>4 DEF RowsOK, Slot, Topic
  <2> QED  BY <1>3, <2>1, <2>2, <2>5
<1>9. ~WalkPanics
  <2>1. SUFFICES ASSUME WalkPanics PROVE FALSE
    OBVIOUS
  <2>2. /\ RowsOK /\ todo = {} /\ visited + 1 \in DOMAIN nodes
        /\ nodes[visited + 1].level > Len(rows)
    BY <1>3, <2>1 DEF WalkPanics, Walking, TreeOK
  <2>3. nodes[visited + 1].level = 1
    BY <1>3, <2>2 DEF TreeOK
  <2>4. rows # <<>>
    <3>1. PICK k : IsList(k)
      BY <1>3, <2>2 DEF TreeOK
    <3>2. k \in DOMAIN layout \ todo /\ layout[k][1] # 0
      BY <2>2, <3>1 DEF IsList
    <3>3. SUFFICES ASSUME rows = <<>>, NEW x, rows = <<x>> PROVE FALSE
      BY <2>2, <3>2 DEF RowsOK
    <3> QED  BY <3>3
  <2>5. PICK x : rows = <<x>>
    BY <2>2, <2>4 DEF RowsOK
  <2>6. Len(rows) = 1
    BY <2>5
  <2> QED  BY <2>2, <2>3, <2>6
<1>10. CASE Send
  <2>1. AllSent'
    BY <1>2, <1>10, SendSendsAll
  <2> QED  BY <1>3, <1>10, <2>1 DEF Send
<1>11. CASE UNCHANGED publishVars
  <2>1. UNCHANGED <<layout, top, nodes, visited, todo, rows, sent, outcome>>
    BY <1>11 DEF publishVars
  <2>2. RowsOK' <=> RowsOK
    BY <2>1 DEF RowsOK, IsList, Slot, Topic
  <2>3. AllSent' <=> AllSent
    <3>1. \A ch, i : KindAt(ch, i)' = KindAt(ch, i)
      BY <2>1 DEF KindAt
    <3>2. \A ch : Nodes(ch)' = Nodes(ch)
      BY <2>1, <3>1 DEF Nodes
    <3>3. \A ch : OwnNodes(ch)' = OwnNodes(ch)
      BY <3>1, <3>2 DEF OwnNodes
    <3>4. \A s, ch : Whole(s, ch)' <=> Whole(s, ch)
      BY <2>1, <3>3 DEF Whole
    <3> QED  BY <2>1, <3>3, <3>4 DEF AllSent
  <2> QED  BY <1>3, <2>1, <2>2, <2>3
<1> QED  BY <1>3, <1>4, <1>5, <1>6, <1>7, <1>8, <1>9, <1>10, <1>11 DEF PublishNext

\* With one list beside the values of the root, every input's values are sent to its
\* own topic, whole and in order, and nothing panics: for any tree, of any size, and in
\* whatever order the inputs are looked at.
THEOREM OneListArrives == PublishSpec => []OneListSent
<1>1. PublishInv => OneListSent
  BY DEF PublishInv, OneListSent, EveryInputSent, AllSent
<1> QED  BY InitPublish, NextPublish, <1>1, PTL DEF PublishSpec

---------------------------------------------------------------------------
(* The recordings of the ffmpeg component. *)

Pieces == Frames \X {1, 2}

FrameStages == {"start", "found", "first", "second", "absent", "waiting", "ownFirst", "ownSecond",
           "done"}

ChildEntries ==
    [state: {"absent", "running", "failed", "closed", "exited", "drained"},
     pipe: Seq(Pieces), got: Seq(Pieces), starts: Nat, crashed: BOOLEAN]

\* What the variables range over.
FfmpegTypeOK ==
    /\ child \in [Ids -> ChildEntries]
    /\ stage \in [Frames -> FrameStages]
    /\ writer \in [Ids -> Frames \cup {NoFrame}]
    /\ component \in {"up", "dropping", "gone"}

\* A frame that has a read lock and writes has the stdin of its child.
StdinHeld == \A f \in Frames : stage[f] \in {"first", "second"} => writer[Of[f]] = f

\* A frame that has the write lock has the table for itself.
TableHeld ==
    \A f \in Writers : Readers = {} /\ Writers \subseteq {f}

\* The frames of pipeline i of which the first half is written.
Halves(i) == {f \in Frames : Of[f] = i /\ stage[f] \in {"second", "ownSecond"}}

\* The last piece of a stream that is cut short is the one of the frame that is
\* being written, and a stream into which no frame is being written is not cut short,
\* as long as its child runs.
CutByWriter ==
    \A i \in Ids :
        /\ \A f \in Halves(i) : /\ Len(Stream(i)) % 2 = 1
                                /\ Stream(i)[Len(Stream(i))] = Piece(f, 1)
        /\ Halves(i) = {} /\ child[i].state = "running" => Len(Stream(i)) % 2 = 0

\* A frame past the lookup has an entry; a pipeline without one started nothing.
EntriesFilled ==
    /\ \A f \in Readers \cup Writers : child[Of[f]].state # "absent"
    /\ \A i \in Ids : child[i].state = "absent" =>
           child[i].starts = 0 /\ child[i].pipe = <<>> /\ child[i].got = <<>>

\* The state an entry is let go of from: its child has read everything or crashed.
ExitsEmpty ==
    \A i \in Ids : child[i].state \in {"failed", "exited", "drained"} =>
        child[i].crashed \/ child[i].pipe = <<>>

FfmpegInv ==
    /\ FfmpegTypeOK /\ StdinHeld /\ TableHeld /\ CutByWriter /\ EntriesFilled /\ ExitsEmpty
    /\ FramesWhole /\ OneEncoder

-----------------------------------------------------------------------------
\* What the encoder reads leaves its pipe and stays in the stream.
LEMMA ReadStays ==
    ASSUME NEW g \in Seq(Pieces), NEW p \in Seq(Pieces), p # <<>>
    PROVE  /\ Append(g, Head(p)) \o Tail(p) = g \o p
           /\ Append(g, Head(p)) \in Seq(Pieces) /\ Tail(p) \in Seq(Pieces)
<1>1. Head(p) \in Pieces /\ Tail(p) \in Seq(Pieces) /\ <<Head(p)>> \in Seq(Pieces)
  BY HeadTailProperties
<1>2. p = <<Head(p)>> \o Tail(p)
  <2>1. /\ Len(p) \in Nat \ {0} /\ Len(Tail(p)) = Len(p) - 1
        /\ \A k \in 1..Len(Tail(p)) : Tail(p)[k] = p[k + 1]
    BY EmptySeq, HeadTailProperties
  <2> DEFINE q == <<Head(p)>> \o Tail(p)
  <2>2. q \in Seq(Pieces) /\ Len(q) = Len(p)
    BY <1>1, <2>1, ConcatProperties
  <2>3. ASSUME NEW k \in 1..Len(p) PROVE q[k] = p[k]
    <3>1. q[k] = IF k <= 1 THEN <<Head(p)>>[k] ELSE Tail(p)[k - 1]
      BY <1>1, <2>1, ConcatProperties
    <3> HIDE DEF q
    <3>2. CASE k = 1
      BY <3>1, <3>2
    <3>3. CASE k # 1
      <4>1. k - 1 \in 1..Len(Tail(p)) /\ (k - 1) + 1 = k
        BY <2>1, <3>3
      <4> QED
        BY <2>1, <3>1, <4>1
    <3> QED
      BY <3>2, <3>3
  <2> HIDE DEF q
  <2>4. q = p
    BY <2>1, <2>2, <2>3, SeqEqual
  <2> QED
    BY <2>4 DEF q
<1>3. Append(g, Head(p)) = g \o <<Head(p)>> /\ Append(g, Head(p)) \in Seq(Pieces)
  BY <1>1, AppendIsConcat, AppendProperties
<1>4. (g \o <<Head(p)>>) \o Tail(p) = g \o (<<Head(p)>> \o Tail(p))
  BY <1>1, ConcatAssociative
<1> QED
  BY <1>1, <1>2, <1>3, <1>4

\* A piece that is written is the new end of the stream.
LEMMA WrittenLast ==
    ASSUME NEW g \in Seq(Pieces), NEW p \in Seq(Pieces), NEW e \in Pieces
    PROVE  /\ g \o Append(p, e) = Append(g \o p, e)
           /\ g \o p \in Seq(Pieces) /\ Append(p, e) \in Seq(Pieces)
<1>1. g \o p \in Seq(Pieces) /\ <<e>> \in Seq(Pieces)
  BY ConcatProperties
<1>2. Append(p, e) = p \o <<e>> /\ Append(p, e) \in Seq(Pieces)
  BY AppendIsConcat, AppendProperties
<1>3. Append(g \o p, e) = (g \o p) \o <<e>>
  BY <1>1, AppendIsConcat
<1>4. (g \o p) \o <<e>> = g \o (p \o <<e>>)
  BY <1>1, ConcatAssociative
<1> QED
  BY <1>1, <1>2, <1>3, <1>4

\* A sequence of whole frames, the last of which may be cut short.
WholeFrames(s) ==
    \A n \in 1..Len(s) : s[n] = Piece(s[n][1], IF n % 2 = 1 THEN 1 ELSE 2)
                            /\ (n % 2 = 0 => s[n][1] = s[n - 1][1])

\* The stream of a child, what its encoder has read and what is in its pipe, is pieces.
LEMMA StreamType == FfmpegTypeOK => \A i \in Ids : Stream(i) \in Seq(Pieces)
BY ConcatProperties DEF FfmpegTypeOK, ChildEntries, Stream

\* FramesWhole, stream by stream.
LEMMA WholeStreams == FfmpegTypeOK => (FramesWhole <=> \A i \in Ids : WholeFrames(Stream(i)))
<1> SUFFICES ASSUME FfmpegTypeOK
             PROVE  FramesWhole <=> \A i \in Ids : WholeFrames(Stream(i))
  OBVIOUS
<1>1. \A i \in Ids : DOMAIN Stream(i) = 1..Len(Stream(i))
  BY StreamType
<1> QED
  BY <1>1 DEF FramesWhole, WholeFrames

\* A first piece after whole frames, or the second piece of the frame that the
\* stream is cut in, leaves whole frames.
LEMMA AppendWhole ==
    ASSUME NEW s \in Seq(Pieces), WholeFrames(s), NEW f \in Frames, NEW n \in {1, 2},
           n = 1 => Len(s) % 2 = 0,
           n = 2 => Len(s) % 2 = 1 /\ s[Len(s)] = Piece(f, 1)
    PROVE  LET t == Append(s, Piece(f, n))
           IN  WholeFrames(t) /\ t[Len(t)] = Piece(f, n) /\ Len(t) % 2 = n % 2
<1> DEFINE t == Append(s, Piece(f, n))
<1>1. /\ t \in Seq(Pieces) /\ Len(t) = Len(s) + 1 /\ Len(s) \in Nat
      /\ \A k \in 1..Len(s) : t[k] = s[k]
      /\ t[Len(t)] = Piece(f, n)
  BY AppendProperties DEF Piece, Pieces
<1> HIDE DEF t
<1>2. Len(t) % 2 = n % 2
  BY <1>1
<1>3. ASSUME NEW k \in 1..Len(t)
      PROVE  /\ t[k] = Piece(t[k][1], IF k % 2 = 1 THEN 1 ELSE 2)
             /\ k % 2 = 0 => t[k][1] = t[k - 1][1]
  <2>1. CASE k \in 1..Len(s)
    <3>1. t[k] = s[k] /\ (k % 2 = 0 => k - 1 \in 1..Len(s))
      BY <1>1, <2>1
    <3>2. k % 2 = 0 => t[k - 1] = s[k - 1]
      BY <1>1, <3>1
    <3> QED
      BY <2>1, <3>1, <3>2 DEF WholeFrames
  <2>2. CASE k = Len(t)
    <3>1. t[k] = Piece(f, n) /\ t[k][1] = f /\ k % 2 = n % 2
      BY <1>1, <1>2, <2>2 DEF Piece
    <3>2. CASE n = 1
      BY <3>1, <3>2
    <3>3. CASE n = 2
      <4>1. k - 1 = Len(s) /\ Len(s) \in 1..Len(s)
        BY <1>1, <2>2, <3>3
      <4>2. t[k - 1] = Piece(f, 1)
        BY <1>1, <3>3, <4>1
      <4>3. t[k - 1][1] = f
        BY <4>2 DEF Piece
      <4> QED
        BY <3>1, <3>3, <4>3
    <3> QED
      BY <3>2, <3>3
  <2> QED
    BY <1>1, <2>1, <2>2
<1> QED
  BY <1>1, <1>2, <1>3 DEF t, WholeFrames

-----------------------------------------------------------------------------
\* No child, no frame under way.
LEMMA InitFfmpeg == FfmpegInit => FfmpegInv
<1> SUFFICES ASSUME FfmpegInit PROVE FfmpegInv
  OBVIOUS
<1>1. FfmpegTypeOK /\ Readers = {} /\ Writers = {} /\ \A i \in Ids : Halves(i) = {}
  BY DEF FfmpegInit, FfmpegTypeOK, ChildEntries, Readers, Writers, Halves, FrameStages
<1>2. ASSUME NEW i \in Ids PROVE Stream(i) = <<>> /\ Len(Stream(i)) = 0
  <2>1. child[i].got = <<>> /\ child[i].pipe = <<>> /\ <<>> \in Seq(Pieces)
    BY DEF FfmpegInit
  <2>2. <<>> \o <<>> = <<>>
    BY <2>1, ConcatEmptySeq
  <2> QED
    BY <2>1, <2>2 DEF Stream
<1>3. CutByWriter /\ FramesWhole
  <2>1. \A i \in Ids : WholeFrames(Stream(i))
    BY <1>2 DEF WholeFrames
  <2> QED
    BY <1>1, <1>2, <2>1, WholeStreams DEF CutByWriter
<1>4. StdinHeld /\ TableHeld /\ EntriesFilled /\ ExitsEmpty /\ OneEncoder
  BY <1>1 DEF FfmpegInit, StdinHeld, TableHeld, EntriesFilled, ExitsEmpty, OneEncoder
<1> QED
  BY <1>1, <1>3, <1>4 DEF FfmpegInv

\* A step that leaves the children alone, adds nobody to those that are half way
\* and takes only a frame whose child has exited from them leaves every stream as it is.
LEMMA StreamsStay ==
    ASSUME FfmpegInv, UNCHANGED child,
           \A i \in Ids : Halves(i)' \subseteq Halves(i),
           \A i \in Ids : Halves(i)' = Halves(i) \/ child[i].state # "running"
    PROVE  CutByWriter' /\ FramesWhole' /\ OneEncoder' /\ ExitsEmpty'
<1>1. \A i \in Ids : Stream(i)' = Stream(i)
  BY DEF Stream
<1>2. FramesWhole'
  BY <1>1 DEF FfmpegInv, FramesWhole
<1>3. CutByWriter'
  BY <1>1 DEF FfmpegInv, CutByWriter
<1> QED
  BY <1>2, <1>3 DEF FfmpegInv, OneEncoder, ExitsEmpty

\* run(), up to the lock of the stdin: nothing is written.
LEMMA LookKeeps ==
    ASSUME FfmpegInv, NEW f \in Frames, Look(f)
    PROVE  FfmpegInv'
<1> USE DEF FfmpegInv, Look, Goes
<1>1. Of[f] \in Ids /\ Writers = {}
  BY DEF Ids, ReadLockable
<1>2. FfmpegTypeOK'
  BY DEF FfmpegTypeOK, ChildEntries, FrameStages
<1>3. Writers' = {} /\ (\A i \in Ids : Halves(i)' = Halves(i))
  BY <1>1 DEF FfmpegTypeOK, ChildEntries, Writers, Halves
<1>4. Readers' \subseteq Readers \cup {f} /\ (f \in Readers' => child[Of[f]].state = "running")
  BY DEF FfmpegTypeOK, ChildEntries, Readers
<1>5. StdinHeld' /\ TableHeld'
  BY <1>3 DEF FfmpegTypeOK, ChildEntries, StdinHeld, TableHeld
<1>6. EntriesFilled'
  BY <1>3, <1>4 DEF EntriesFilled
<1>7. CutByWriter' /\ FramesWhole' /\ OneEncoder' /\ ExitsEmpty'
  BY <1>3, StreamsStay
<1> QED
  BY <1>2, <1>5, <1>6, <1>7

LEMMA LockStdinKeeps ==
    ASSUME FfmpegInv, NEW f \in Frames, LockStdin(f)
    PROVE  FfmpegInv'
<1> USE DEF FfmpegInv, LockStdin, Goes
<1>1. Of[f] \in Ids /\ f \in Readers
  BY DEF Ids, Readers
<1>2. FfmpegTypeOK'
  BY <1>1 DEF FfmpegTypeOK, ChildEntries, FrameStages
<1>3. Writers' = Writers /\ Readers' = Readers /\ (\A i \in Ids : Halves(i)' = Halves(i))
  BY DEF FfmpegTypeOK, ChildEntries, Writers, Readers, Halves
<1>4. StdinHeld'
  <2> SUFFICES ASSUME NEW g \in Frames, stage'[g] \in {"first", "second"}
               PROVE  writer'[Of[g]] = g
    BY DEF StdinHeld
  <2>1. CASE g = f
    BY <1>1, <2>1 DEF FfmpegTypeOK, ChildEntries
  <2>2. CASE g # f
    <3>1. writer[Of[g]] = g /\ g # NoFrame
      BY <2>2, FfmpegAssumption DEF FfmpegTypeOK, ChildEntries, StdinHeld
    <3> QED
      BY <1>1, <3>1 DEF FfmpegTypeOK, ChildEntries
  <2> QED
    BY <2>1, <2>2
<1>5. TableHeld' /\ EntriesFilled'
  BY <1>3 DEF TableHeld, EntriesFilled
<1>6. CutByWriter' /\ FramesWhole' /\ OneEncoder' /\ ExitsEmpty'
  BY <1>3, StreamsStay
<1> QED
  BY <1>2, <1>4, <1>5, <1>6

LEMMA AskToWriteKeeps ==
    ASSUME FfmpegInv, NEW f \in Frames, AskToWrite(f)
    PROVE  FfmpegInv'
<1> USE DEF FfmpegInv, AskToWrite, Goes
<1>1. FfmpegTypeOK'
  BY DEF FfmpegTypeOK, ChildEntries, FrameStages
<1>2. Writers' = Writers /\ Readers' = Readers /\ (\A i \in Ids : Halves(i)' = Halves(i))
  BY DEF FfmpegTypeOK, ChildEntries, Writers, Readers, Halves
<1>3. StdinHeld' /\ TableHeld' /\ EntriesFilled'
  BY <1>2 DEF FfmpegTypeOK, ChildEntries, StdinHeld, TableHeld, EntriesFilled
<1>4. CutByWriter' /\ FramesWhole' /\ OneEncoder' /\ ExitsEmpty'
  BY <1>2, StreamsStay
<1> QED
  BY <1>1, <1>3, <1>4

\* A frame that stops writing lets go of its own lock only.
LEMMA FreeKeeps ==
    ASSUME FfmpegTypeOK, StdinHeld, NEW f \in Frames, Goes(f, "done"), Free(f)
    PROVE  StdinHeld' /\ writer' \in [Ids -> Frames \cup {NoFrame}]
<1> USE DEF FfmpegTypeOK, ChildEntries, Goes, Free
<1>1. Of[f] \in Ids
  BY DEF Ids
<1>2. writer' \in [Ids -> Frames \cup {NoFrame}]
  BY <1>1
<1>3. ASSUME NEW g \in Frames, stage'[g] \in {"first", "second"}
      PROVE  writer'[Of[g]] = g
  <2>1. g # f /\ writer[Of[g]] = g
    BY <1>3 DEF StdinHeld
  <2> QED
    BY <1>1, <2>1
<1> QED
  BY <1>2, <1>3 DEF StdinHeld

\* The child of a frame that gives up runs no more.
LEMMA BrokenKeeps ==
    ASSUME FfmpegInv, NEW f \in Frames, Broken(f)
    PROVE  FfmpegInv'
<1> USE DEF FfmpegInv, Broken
<1>1. FfmpegTypeOK' /\ StdinHeld'
  BY FreeKeeps DEF FfmpegTypeOK, ChildEntries, FrameStages, Goes
<1>2. /\ Writers' \subseteq Writers /\ Readers' \subseteq Readers
      /\ \A i \in Ids : Halves(i)' \subseteq Halves(i)
      /\ \A i \in Ids : Halves(i)' = Halves(i) \/ child[i].state # "running"
  BY DEF FfmpegTypeOK, ChildEntries, Goes, Writers, Readers, Halves
<1>3. TableHeld' /\ EntriesFilled'
  BY <1>2 DEF TableHeld, EntriesFilled
<1>4. CutByWriter' /\ FramesWhole' /\ OneEncoder' /\ ExitsEmpty'
  BY <1>2, StreamsStay
<1> QED
  BY <1>1, <1>3, <1>4

\* The frame that gets the write lock has the table for itself, and fills the entry
\* only when no other frame has filled it meanwhile.
LEMMA StartKeeps ==
    ASSUME FfmpegInv, NEW f \in Frames, NEW ok \in BOOLEAN, Start(f, ok)
    PROVE  FfmpegInv'
<1> USE DEF FfmpegInv, Start, Goes
<1>1. Of[f] \in Ids /\ Writers = {} /\ Readers = {}
  BY DEF Ids, WriteLockable
<1>2. FfmpegTypeOK'
  BY <1>1 DEF FfmpegTypeOK, ChildEntries, FrameStages
<1>3. /\ Writers' \subseteq {f} /\ Readers' = {}
      /\ (f \in Writers' => child'[Of[f]].state = "running")
      /\ \A i \in Ids : Halves(i)' = {} /\ Halves(i) = {}
  BY <1>1 DEF FfmpegTypeOK, ChildEntries, Writers, Readers, Halves
<1>4. ASSUME NEW i \in Ids
      PROVE  /\ child'[i].pipe = child[i].pipe /\ child'[i].got = child[i].got
             /\ child'[i].crashed = child[i].crashed
             /\ \/ child'[i] = child[i]
                \/ /\ child[i].state = "absent" /\ child'[i].state \in {"running", "failed"}
                   /\ child'[i].starts = child[i].starts + 1
  BY <1>1 DEF FfmpegTypeOK, ChildEntries
<1>5. \A i \in Ids : Stream(i)' = Stream(i)
  BY <1>4 DEF Stream
<1>6. StdinHeld' /\ TableHeld' /\ FramesWhole'
  BY <1>1, <1>3, <1>5 DEF FfmpegTypeOK, ChildEntries, StdinHeld, TableHeld, FramesWhole, Readers
<1>7. CutByWriter'
  <2>1. ASSUME NEW i \in Ids, child[i].state = "absent" PROVE Len(Stream(i)) = 0
    <3>1. child[i].got = <<>> /\ child[i].pipe = <<>> /\ <<>> \in Seq(Pieces)
      BY <2>1 DEF EntriesFilled
    <3>2. <<>> \o <<>> = <<>>
      BY <3>1, ConcatEmptySeq
    <3> QED
      BY <3>1, <3>2 DEF Stream
  <2>2. ASSUME NEW i \in Ids, child'[i].state = "running" PROVE Len(Stream(i)) % 2 = 0
    <3>1. CASE child'[i] = child[i]
      BY <1>3, <2>2, <3>1 DEF CutByWriter
    <3>2. CASE child[i].state = "absent"
      BY <2>1, <3>2
    <3> QED
      BY <1>4, <3>1, <3>2
  <2> QED
    BY <1>3, <1>5, <2>2 DEF CutByWriter
<1>8. EntriesFilled'
  <2>1. \A g \in Readers' \cup Writers' : child'[Of[g]].state # "absent"
    BY <1>3
  <2>2. ASSUME NEW i \in Ids, child'[i].state = "absent"
        PROVE  child'[i].starts = 0 /\ child'[i].pipe = <<>> /\ child'[i].got = <<>>
    <3>1. child'[i] = child[i]
      BY <1>4, <2>2
    <3> QED
      BY <2>2, <3>1 DEF EntriesFilled
  <2> QED
    BY <2>1, <2>2 DEF EntriesFilled
<1>9. ExitsEmpty' /\ OneEncoder'
  BY <1>4 DEF FfmpegTypeOK, ChildEntries, ExitsEmpty, OneEncoder, EntriesFilled
<1> QED
  BY <1>2, <1>6, <1>7, <1>8, <1>9

\* A frame that writes has its child to itself: no other is half way into it.
LEMMA AloneInChild ==
    ASSUME FfmpegInv, NEW f \in Frames, NEW g \in Halves(Of[f]),
           stage[f] \in {"first", "second", "ownFirst", "ownSecond"}
    PROVE  f = g
<1> USE DEF FfmpegInv
<1>1. g \in Frames /\ Of[g] = Of[f] /\ stage[g] \in {"second", "ownSecond"}
  BY DEF Halves
<1>2. CASE f \in Writers \/ g \in Writers
  BY <1>1, <1>2 DEF TableHeld, Writers, Readers
<1>3. CASE f \notin Writers /\ g \notin Writers
  <2>1. stage[f] \in {"first", "second"} /\ stage[g] \in {"first", "second"}
    BY <1>1, <1>3 DEF Writers
  <2> QED
    BY <1>1, <2>1 DEF StdinHeld
<1> QED
  BY <1>2, <1>3

\* One piece: the stream was not cut short, or was cut in this frame.
LEMMA WriteKeeps ==
    ASSUME FfmpegInv, NEW f \in Frames, Write(f)
    PROVE  FfmpegInv'
<1> USE DEF FfmpegInv
<1>0. PICK i \in Ids, n \in {1, 2} :
          i = Of[f] /\ n = IF stage[f] \in {"first", "ownFirst"} THEN 1 ELSE 2
  BY DEF Ids
<1>1. /\ i = Of[f] /\ n = IF stage[f] \in {"first", "ownFirst"} THEN 1 ELSE 2
      /\ stage[f] \in {"first", "second", "ownFirst", "ownSecond"}
      /\ child[i].state = "running"
      /\ child' = [child EXCEPT ![i].pipe = Append(@, Piece(f, n))]
      /\ Goes(f, CASE stage[f] = "first" -> "second"
                   [] stage[f] = "ownFirst" -> "ownSecond"
                   [] OTHER -> "done")
      /\ n = 1 => writer' = writer
      /\ n = 2 => Free(f)
      /\ component' = component
  BY <1>0 DEF Write
<1>2. f \in Readers \cup Writers /\ Piece(f, n) \in Pieces
  BY <1>1 DEF Readers, Writers, Piece, Pieces
<1>3. n = 2 => Goes(f, "done")
  <2>1. n = 2 => stage[f] \notin {"first", "ownFirst"}
    BY <1>1
  <2> QED
    BY <1>1, <2>1
<1>4. FfmpegTypeOK' /\ StdinHeld'
  <2>1. writer' \in [Ids -> Frames \cup {NoFrame}] /\ StdinHeld'
    <3>1. CASE n = 1
      BY <1>1, <3>1 DEF FfmpegTypeOK, ChildEntries, StdinHeld, Goes
    <3>2. CASE n = 2
      BY <1>1, <1>3, <3>2, FreeKeeps
    <3> QED
      BY <3>1, <3>2
  <2>2. child' \in [Ids -> ChildEntries]
    <3>1. child[i] \in ChildEntries /\ child[i].pipe \in Seq(Pieces)
      BY DEF FfmpegTypeOK, ChildEntries
    <3>2. Append(child[i].pipe, Piece(f, n)) \in Seq(Pieces)
      BY <1>2, <3>1, AppendProperties
    <3>3. [child[i] EXCEPT !.pipe = Append(child[i].pipe, Piece(f, n))] \in ChildEntries
      BY <3>1, <3>2 DEF ChildEntries
    <3> QED
      BY <1>1, <3>3 DEF FfmpegTypeOK, ChildEntries
  <2> QED
    BY <1>1, <2>1, <2>2 DEF FfmpegTypeOK, ChildEntries, FrameStages, Goes
<1>5. /\ Writers' \subseteq Writers /\ Readers' \subseteq Readers
      /\ \A j \in Ids \ {i} : Halves(j)' = Halves(j)
      /\ Halves(i)' = IF n = 1 THEN {f} ELSE {}
      /\ n = 2 => f \in Halves(i)
  <2>1. Halves(i) \subseteq {f}
    BY <1>1, AloneInChild
  <2> QED
    BY <1>1, <2>1 DEF FfmpegTypeOK, ChildEntries, Writers, Readers, Halves, Goes
<1>6. /\ \A j \in Ids \ {i} : child'[j] = child[j]
      /\ \A j \in Ids : /\ child'[j].state = child[j].state /\ child'[j].got = child[j].got
                        /\ child'[j].starts = child[j].starts
      /\ child'[i].pipe = Append(child[i].pipe, Piece(f, n))
  BY <1>1 DEF FfmpegTypeOK, ChildEntries
<1>7. TableHeld' /\ EntriesFilled' /\ OneEncoder' /\ ExitsEmpty'
  <2>1. TableHeld' /\ OneEncoder'
    BY <1>5, <1>6 DEF TableHeld, OneEncoder
  <2>2. EntriesFilled'
    <3>1. \A g \in Readers' \cup Writers' : child'[Of[g]].state # "absent"
      BY <1>5, <1>6 DEF EntriesFilled, Readers, Writers, Ids
    <3>2. \A j \in Ids : child'[j].state = "absent" => j # i
      BY <1>1, <1>6
    <3> QED
      BY <1>6, <3>1, <3>2 DEF EntriesFilled
  <2>3. ExitsEmpty'
    BY <1>1, <1>6 DEF ExitsEmpty
  <2> QED
    BY <2>1, <2>2, <2>3
<1>8. \A j \in Ids \ {i} : Stream(j)' = Stream(j)
  BY <1>6 DEF Stream
<1>9. Stream(i)' = Append(Stream(i), Piece(f, n)) /\ Stream(i) \in Seq(Pieces)
  <2>1. child[i].got \in Seq(Pieces) /\ child[i].pipe \in Seq(Pieces)
    BY <1>1 DEF FfmpegTypeOK, ChildEntries
  <2>2. child[i].got \o Append(child[i].pipe, Piece(f, n))
            = Append(child[i].got \o child[i].pipe, Piece(f, n))
    BY <1>2, <2>1, WrittenLast
  <2> QED
    BY <1>6, <2>2, StreamType DEF Stream
<1>10. WholeFrames(Stream(i)') /\ Stream(i)'[Len(Stream(i)')] = Piece(f, n)
          /\ Len(Stream(i)') % 2 = n % 2
  <2>1. WholeFrames(Stream(i))
    BY <1>1, WholeStreams
  <2>2. n = 1 => Len(Stream(i)) % 2 = 0
    <3>1. n = 1 => Halves(i) = {}
      <4>1. n = 1 => f \notin Halves(i)
        BY <1>1 DEF Halves
      <4> QED
        BY <1>1, <4>1, AloneInChild
    <3> QED
      BY <1>1, <3>1 DEF CutByWriter
  <2>3. n = 2 => Len(Stream(i)) % 2 = 1 /\ Stream(i)[Len(Stream(i))] = Piece(f, 1)
    BY <1>1, <1>5 DEF CutByWriter
  <2> QED
    BY <1>9, <2>1, <2>2, <2>3, AppendWhole
<1>11. CutByWriter'
  <2>1. ASSUME NEW j \in Ids, j # i
        PROVE  /\ \A g \in Halves(j)' : /\ Len(Stream(j)') % 2 = 1
                                        /\ Stream(j)'[Len(Stream(j)')] = Piece(g, 1)
               /\ Halves(j)' = {} /\ child'[j].state = "running" => Len(Stream(j)') % 2 = 0
    BY <1>5, <1>6, <1>8, <2>1 DEF CutByWriter
  <2>2. /\ \A g \in Halves(i)' : /\ Len(Stream(i)') % 2 = 1
                                 /\ Stream(i)'[Len(Stream(i)')] = Piece(g, 1)
        /\ Halves(i)' = {} /\ child'[i].state = "running" => Len(Stream(i)') % 2 = 0
    BY <1>1, <1>5, <1>10
  <2> QED
    BY <2>1, <2>2 DEF CutByWriter
<1>12. FramesWhole'
  <2>1. \A j \in Ids : WholeFrames(Stream(j)')
    BY <1>8, <1>10, WholeStreams
  <2>2. ASSUME NEW j \in Ids PROVE DOMAIN Stream(j)' = 1..Len(Stream(j)')
    <3>1. Append(Stream(i), Piece(f, n)) \in Seq(Pieces)
      BY <1>2, <1>9, AppendProperties
    <3> QED
      BY <1>8, <1>9, <3>1, StreamType
  <2> QED
    BY <2>1, <2>2 DEF FramesWhole, WholeFrames
<1> QED
  BY <1>4, <1>7, <1>11, <1>12

-----------------------------------------------------------------------------
(* The encoders and stop_all: no frame moves, and no stream changes.       *)

\* A step of one child that leaves its stream as it is.
LEMMA ChildKeeps ==
    ASSUME FfmpegInv, UNCHANGED <<stage, writer>>, FfmpegTypeOK',
           \A i \in Ids : Stream(i)' = Stream(i),
           NEW i \in Ids, \A j \in Ids : j # i => child'[j] = child[j],
           child[i].state # "absent", child'[i].state \notin {"absent", "running"}
               \/ child'[i].state = child[i].state,
           child'[i].starts = child[i].starts,
           child'[i].state \in {"failed", "exited", "drained"} =>
               child'[i].crashed \/ child'[i].pipe = <<>>
    PROVE  FfmpegInv'
<1> USE DEF FfmpegInv
<1>1. Readers' = Readers /\ Writers' = Writers /\ (\A j \in Ids : Halves(j)' = Halves(j))
  BY DEF Readers, Writers, Halves
<1>2. \A j \in Ids : /\ child'[j].state = "running" => child[j].state = "running"
                     /\ child'[j].state = "absent" => child'[j] = child[j]
                     /\ child[j].state # "absent" => child'[j].state # "absent"
                     /\ child'[j].starts = child[j].starts
  OBVIOUS
<1>3. StdinHeld' /\ TableHeld' /\ FramesWhole' /\ OneEncoder'
  BY <1>1, <1>2 DEF StdinHeld, TableHeld, FramesWhole, OneEncoder
<1>4. CutByWriter'
  BY <1>1, <1>2 DEF CutByWriter
<1>5. EntriesFilled'
  <2>1. ASSUME NEW g \in Readers' \cup Writers' PROVE child'[Of[g]].state # "absent"
    <3>1. g \in Readers \cup Writers /\ Of[g] \in Ids
      BY <1>1 DEF Readers, Writers, Ids
    <3> QED
      BY <1>2, <3>1 DEF EntriesFilled
  <2> QED
    BY <1>2, <2>1 DEF EntriesFilled
<1>6. ExitsEmpty'
  BY DEF ExitsEmpty
<1> QED
  BY <1>3, <1>4, <1>5, <1>6

\* What an encoder reads moves from the pipe.
LEMMA EntryRead ==
    ASSUME NEW s \in ChildEntries, NEW g \in Seq(Pieces), NEW p \in Seq(Pieces)
    PROVE  [s EXCEPT !.got = g, !.pipe = p] \in ChildEntries
BY DEF ChildEntries

LEMMA EncodeKeeps ==
    ASSUME FfmpegInv, NEW i \in Ids, Encode(i)
    PROVE  FfmpegInv'
<1> DEFINE s == child[i]
<1>1. s.pipe \in Seq(Pieces) /\ s.got \in Seq(Pieces) /\ s.pipe # <<>>
      /\ s.state \in {"running", "closed"}
  BY DEF FfmpegInv, FfmpegTypeOK, ChildEntries, Encode
<1>2. /\ Append(s.got, Head(s.pipe)) \o Tail(s.pipe) = s.got \o s.pipe
      /\ Append(s.got, Head(s.pipe)) \in Seq(Pieces) /\ Tail(s.pipe) \in Seq(Pieces)
  BY <1>1, ReadStays
<1>3. child' = [child EXCEPT ![i].got = Append(s.got, Head(s.pipe)), ![i].pipe = Tail(s.pipe)]
  BY DEF FfmpegInv, FfmpegTypeOK, ChildEntries, Encode
<1>4. /\ child'[i] = [s EXCEPT !.got = Append(s.got, Head(s.pipe)), !.pipe = Tail(s.pipe)]
      /\ \A j \in Ids : j # i => child'[j] = child[j]
  BY <1>3 DEF FfmpegInv, FfmpegTypeOK, ChildEntries
<1>5. FfmpegTypeOK'
  <2>1. child'[i] \in ChildEntries
    <3>1. s \in ChildEntries
      BY DEF FfmpegInv, FfmpegTypeOK
    <3> HIDE DEF s
    <3> QED
      BY <1>2, <1>4, <3>1, EntryRead
  <2> QED
    BY <1>3, <1>4, <2>1 DEF FfmpegInv, FfmpegTypeOK, ChildEntries, Encode
<1>6. /\ child'[i].state = s.state /\ child'[i].starts = s.starts
      /\ child'[i].got = Append(s.got, Head(s.pipe)) /\ child'[i].pipe = Tail(s.pipe)
  BY <1>4 DEF FfmpegInv, FfmpegTypeOK, ChildEntries
<1>7. \A j \in Ids : Stream(j)' = Stream(j)
  BY <1>2, <1>4, <1>6 DEF Stream
<1> QED
  BY <1>1, <1>4, <1>5, <1>6, <1>7, ChildKeeps DEF Encode

\* An encoder that reaches the end of its input, or that crashes, and an entry that
\* stop_all closes or lets go of: only the state of the process changes.
LEMMA StateKeeps ==
    ASSUME FfmpegInv, NEW i \in Ids, EndOfInput(i) \/ Crash(i) \/ Stop(i)
    PROVE  FfmpegInv'
<1>1. UNCHANGED <<stage, writer, component>>
  BY DEF EndOfInput, Crash, Stop
<1>2. child[i] \in ChildEntries
  BY DEF FfmpegInv, FfmpegTypeOK
<1>3. PICK e \in ChildEntries :
          /\ child' = [child EXCEPT ![i] = e]
          /\ child[i].state # "absent" /\ e.state \in {"closed", "exited", "drained"}
          /\ e.starts = child[i].starts /\ e.got = child[i].got /\ e.pipe = child[i].pipe
          /\ e.state \in {"failed", "exited", "drained"} => e.crashed \/ e.pipe = <<>>
  <2>1. CASE EndOfInput(i)
    <3>1. [child[i] EXCEPT !.state = "exited"] \in ChildEntries
      BY <1>2 DEF ChildEntries
    <3> QED
      BY <1>2, <2>1, <3>1 DEF EndOfInput, ChildEntries
  <2>2. CASE Crash(i)
    <3> DEFINE e == [child[i] EXCEPT !.state = "exited", !.crashed = TRUE]
    <3>1. e \in ChildEntries /\ e.state = "exited" /\ e.crashed /\ e.starts = child[i].starts
          /\ e.got = child[i].got /\ e.pipe = child[i].pipe
      BY <1>2 DEF ChildEntries
    <3>2. child' = [child EXCEPT ![i] = e] /\ child[i].state # "absent"
      BY <2>2 DEF Crash, FfmpegInv, FfmpegTypeOK
    <3> HIDE DEF e
    <3> QED
      BY <3>1, <3>2
  <2>3. CASE Stop(i) /\ child[i].state = "running"
    <3>1. [child[i] EXCEPT !.state = "closed"] \in ChildEntries
      BY <1>2 DEF ChildEntries
    <3> QED
      BY <1>2, <2>3, <3>1 DEF Stop, ChildEntries
  <2>4. CASE Stop(i) /\ child[i].state # "running"
    <3>1. [child[i] EXCEPT !.state = "drained"] \in ChildEntries
      BY <1>2 DEF ChildEntries
    <3>2. child[i].crashed \/ child[i].pipe = <<>>
      BY <2>4 DEF FfmpegInv, Stop, ExitsEmpty
    <3> QED
      BY <1>2, <2>4, <3>1, <3>2 DEF Stop, ChildEntries
  <2> QED
    BY <2>1, <2>2, <2>3, <2>4
<1>4. /\ FfmpegTypeOK' /\ child'[i] = e
      /\ \A j \in Ids : j # i => child'[j] = child[j]
  BY <1>1, <1>3 DEF FfmpegInv, FfmpegTypeOK
<1>5. \A j \in Ids : Stream(j)' = Stream(j)
  BY <1>3, <1>4 DEF Stream
<1> QED
  BY <1>1, <1>3, <1>4, <1>5, ChildKeeps

\* Steps of the component itself, and none at all.
LEMMA DropKeeps ==
    ASSUME FfmpegInv, UNCHANGED <<child, stage, writer>>,
           component' = component \/ component' \in {"dropping", "gone"}
    PROVE  FfmpegInv'
<1> USE DEF FfmpegInv
<1>1. FfmpegTypeOK'
  BY DEF FfmpegTypeOK, ChildEntries
<1>2. Readers' = Readers /\ Writers' = Writers /\ (\A j \in Ids : Halves(j)' = Halves(j))
  BY DEF Readers, Writers, Halves
<1>3. StdinHeld' /\ TableHeld' /\ EntriesFilled'
  BY <1>2 DEF StdinHeld, TableHeld, EntriesFilled
<1> QED
  BY <1>1, <1>2, <1>3, StreamsStay

\* Every step keeps the invariant.
LEMMA NextFfmpeg ==
    ASSUME FfmpegInv, [FfmpegNext]_ffmpegVars
    PROVE  FfmpegInv'
<1>1. ASSUME NEW f \in Frames, Run(f) PROVE FfmpegInv'
  <2>1. CASE Look(f)
    BY <2>1, LookKeeps
  <2>2. CASE LockStdin(f)
    BY <2>2, LockStdinKeeps
  <2>3. CASE AskToWrite(f)
    BY <2>3, AskToWriteKeeps
  <2>4. CASE Broken(f)
    BY <2>4, BrokenKeeps
  <2>5. CASE Write(f)
    BY <2>5, WriteKeeps
  <2>6. CASE \E ok \in BOOLEAN : Start(f, ok)
    BY <2>6, StartKeeps
  <2> QED
    BY <1>1, <2>1, <2>2, <2>3, <2>4, <2>5, <2>6 DEF Run
<1>2. ASSUME NEW i \in Ids, Encoder(i) \/ Crash(i) \/ Stop(i) PROVE FfmpegInv'
  <2>1. CASE Encode(i)
    BY <2>1, EncodeKeeps
  <2>2. CASE EndOfInput(i) \/ Crash(i) \/ Stop(i)
    BY <2>2, StateKeeps
  <2> QED
    BY <1>2, <2>1, <2>2 DEF Encoder
<1>3. CASE Drop \/ Dropped \/ UNCHANGED ffmpegVars
  BY <1>3, DropKeeps DEF Drop, Dropped, ffmpegVars
<1> QED
  BY <1>1, <1>2, <1>3 DEF FfmpegNext

\* The recordings: for any number of frames, pipelines and encoders that get stuck
\* or crash, every encoder is given whole frames, one pipeline starts one encoder,
\* and stop_all lets go of one only when it read all of its pipe or crashed.
THEOREM RecordingsStayWhole == FfmpegSpec => []RecordingsWhole
<1>1. FfmpegInv => RecordingsWhole
  BY DEF FfmpegInv, RecordingsWhole, RecordingComplete, ExitsEmpty
<1> QED
  BY <1>1, InitFfmpeg, NextFfmpeg, PTL DEF FfmpegSpec
=============================================================================
