----------------------------- MODULE Playground -----------------------------
(***************************************************************************)
(* The playground (src/bins/vv-pg): windows for cameras whose worker       *)
(* threads read frames, derive frames from them and share their settings   *)
(* with the window under a lock.  The interface is one thread, so the      *)
(* handles of Daemon have one caller.  An action of the interface is what  *)
(* it does while it holds a worker's lock, or one button of the utilities. *)
(* Every run state, wakeup and end of a thread is Daemon's.                *)
(***************************************************************************)
EXTENDS Daemon, Sequences, FiniteSetsExt

CONSTANTS
    Sizes, Colors,  \* what a monochrome camera can be set to
    NoLook,         \* no options yet, or not a monochrome camera
    Settings,       \* of a derived detector
    NotYet,         \* the settings of a detector that does not exist yet
    Image,          \* the id of a camera that shows a file
    MaxIds,         \* bound: ids of monochrome cameras are below it
    MaxDerived,     \* bound: derived frames of a window
    MaxCounter      \* bound: derived frames that a process makes

ASSUME PlaygroundAssumption == MaxIds \in Nat /\ MaxDerived \in Nat /\ Image \notin Nat
                               /\ NotYet \notin Settings

Looks == [size : Sizes, color : Colors]
Options == [look : Looks, reshape : BOOLEAN, recolor : BOOLEAN]

ASSUME LookAssumption == Sizes # {} /\ Colors # {} /\ Callers # {} /\ NoLook \notin Options

DefaultLook == CHOOSE l \in Looks : TRUE

VARIABLES
    windows,    \* cameras: the open windows and the workers behind them
    ident,      \* state.ident of a worker's window: Image or the id of a monochrome
    buf,        \* the look of the frames a monochrome camera reads
    opts,       \* LockedState.mono: the look in the sliders and what of it is pending
    tree,       \* LockedState.tree: the detectors derived from the camera
    counter,    \* UNIQUE_COUNTER
    monochrome, \* the looks by id that are saved and reopened
    monoCount   \* mono_count

pgVars == <<windows, ident, buf, opts, tree, counter, monochrome, monoCount>>
vars == <<daemonVars, pgVars>>

UI == CHOOSE c \in Callers : TRUE

\* An entry of the saved list of monochrome cameras.
Entry(id, look) == [id |-> id, look |-> look]
\* Mutated form: the next number, whether or not it is taken.
TheNext(n, entries) == n

FreeFrom(n, entries) == Min({k \in n..(n + Cardinality(entries)) : \A m \in entries : m.id # k})

\* A detector: what its sliders say, whether it is to be told, and what it was told.
NewDerived(id, s) == [id |-> id, settings |-> s, changed |-> FALSE, applied |-> NotYet]

PlaygroundTypeOK ==
    /\ TypeOK
    /\ windows \in SUBSET Workers
    /\ ident \in [Workers -> 0..MaxIds \cup {Image}]
    /\ buf \in [Workers -> Looks]
    /\ opts \in [Workers -> Options \cup {NoLook}]
    /\ \A w \in Workers : \A n \in DOMAIN tree[w] :
           /\ tree[w][n].settings \in Settings
           /\ tree[w][n].changed \in BOOLEAN
           /\ tree[w][n].applied \in Settings \cup {NotYet}
    /\ counter \in Nat /\ monoCount \in 0..MaxIds
    /\ \A m \in monochrome : m.id \in 0..MaxIds /\ m.look \in Looks

PlaygroundInit ==
    /\ Init
    /\ windows = {}
    /\ ident = [w \in Workers |-> Image]
    /\ buf = [w \in Workers |-> DefaultLook]
    /\ opts = [w \in Workers |-> NoLook]
    /\ tree = [w \in Workers |-> <<>>]
    /\ counter = 0
    /\ monochrome = {}
    /\ monoCount = 0

\* The interface is between two calls of a handle.
Idle == unparking[UI] = NoWorker

---------------------------------------------------------------------------
(* Opening a window.  spawn_from_mono and spawn_from_img_path make a        *)
(* daemon, whose thread starts in PAUSED, and call start().                 *)

\* The thread of a new daemon that start() has unparked: it finds the token if it
\* had gone to park before.
Spawned(w) ==
    /\ runState' = [runState EXCEPT ![w] = "RUNNING"]
    /\ token' = [token EXCEPT ![w] = TRUE]
    /\ UNCHANGED <<at, unparking>>

OpenWindow(w, id) ==
    /\ Spawned(w)
    /\ windows' = windows \cup {w}
    /\ ident' = [ident EXCEPT ![w] = id]
    /\ UNCHANGED <<buf, opts, tree>>

\* A slot without a window is as it was in the beginning.
Freed(w) ==
    /\ runState' = [runState EXCEPT ![w] = "PAUSED"]
    /\ token' = [token EXCEPT ![w] = FALSE]
    /\ at' = [at EXCEPT ![w] = "load"]
    /\ ident' = [ident EXCEPT ![w] = Image]
    /\ buf' = [buf EXCEPT ![w] = DefaultLook]
    /\ opts' = [opts EXCEPT ![w] = NoLook]
    /\ tree' = [tree EXCEPT ![w] = <<>>]

\* The button "Monochrome": the next id is looked for before the new entry is
\* in the list, and the entry is made only if the thread could be spawned.
AddMono ==
    /\ Idle
    /\ LET n == FreeFrom(monoCount + 1, monochrome) IN n <= MaxIds /\ monoCount' = n
    /\ \/ \E w \in Workers \ windows :
            /\ OpenWindow(w, monoCount)
            /\ monochrome' = monochrome \cup {Entry(monoCount, DefaultLook)}
       \/ UNCHANGED <<daemonVars, windows, ident, buf, opts, tree, monochrome>>
    /\ UNCHANGED <<counter>>

\* The file picker's answer.
AddImage ==
    /\ Idle
    /\ \E w \in Workers \ windows : OpenWindow(w, Image)
    /\ UNCHANGED <<counter, monochrome, monoCount>>

---------------------------------------------------------------------------
(* A window.  show_camera reads the run state and offers the buttons that   *)
(* fit it; render_frame shows the windows of the derived frames.            *)

\* Mutated form: the buttons do not look at the run state.
ClickAnything(w) ==
    /\ w \in windows
    /\ Pause(UI, w) \/ Start(UI, w) \/ Shutdown(UI, w)
    /\ UNCHANGED pgVars

\* The buttons are alternatives: "Pause" of a running camera, "Start" of a
\* paused one, "Close" of either; none of a camera that is closing.
Click(w) ==
    /\ w \in windows
    /\ \/ runState[w] = "RUNNING" /\ Pause(UI, w)
       \/ runState[w] = "PAUSED" /\ Start(UI, w)
       \/ runState[w] # "SHUTDOWN" /\ Shutdown(UI, w)
    /\ UNCHANGED pgVars

\* The sliders and the colour of a monochrome camera, which are there once its
\* worker has made the options.  The list is kept up to date in the same frame.
EditMono(w) ==
    /\ Idle
    /\ w \in windows /\ opts[w] # NoLook
    /\ \E look \in Looks :
        LET edited == [look    |-> look,
                       reshape |-> opts[w].reshape \/ look.size # opts[w].look.size,
                       recolor |-> opts[w].recolor \/ look.color # opts[w].look.color]
        IN  /\ look # opts[w].look
            /\ opts' = [opts EXCEPT ![w] = edited]
            /\ monochrome' = {IF m.id = ident[w] THEN Entry(m.id, look) ELSE m : m \in monochrome}
    /\ UNCHANGED <<daemonVars, windows, ident, buf, tree, counter, monoCount>>

\* The button "Add derived".  The id of the frame is made of that of the window
\* and a counter of the process.
AddDerived(w) ==
    /\ Idle
    /\ w \in windows /\ Len(tree[w]) < MaxDerived /\ counter < MaxCounter
    /\ \E s \in Settings :
        tree' = [tree EXCEPT ![w] = Append(@, NewDerived(<<ident[w], counter>>, s))]
    /\ counter' = counter + 1
    /\ UNCHANGED <<daemonVars, windows, ident, buf, opts, monochrome, monoCount>>

\* A frame of the interface draws every derived window: its sliders set the
\* settings, and `changed` says whether they did in this frame.
RenderOne(d, s) == [d EXCEPT !.settings = s, !.changed = s # d.settings]

Render(w) ==
    /\ Idle
    /\ w \in windows
    /\ \E n \in DOMAIN tree[w] : \E s \in Settings :
        tree' = [tree EXCEPT ![w] =
                    [k \in DOMAIN @ |-> RenderOne(@[k], IF k = n THEN s ELSE @[k].settings)]]
    /\ UNCHANGED <<daemonVars, windows, ident, buf, opts, counter, monochrome, monoCount>>

\* The button "Delete" of a derived frame; the others are drawn in the same frame.
DeleteDerived(w) ==
    /\ Idle
    /\ w \in windows
    /\ \E n \in DOMAIN tree[w] :
        LET kept == SubSeq(tree[w], 1, n - 1) \o SubSeq(tree[w], n + 1, Len(tree[w]))
        IN  tree' = [tree EXCEPT ![w] =
                        [k \in DOMAIN kept |-> RenderOne(kept[k], kept[k].settings)]]
    /\ UNCHANGED <<daemonVars, windows, ident, buf, opts, counter, monochrome, monoCount>>

\* The end of the loop over the cameras: the window of a thread that has
\* finished goes away, and with a monochrome camera its entry.
Reap(w) ==
    /\ Idle
    /\ w \in windows /\ IsFinished(w)
    /\ windows' = windows \ {w}
    /\ monochrome' = {m \in monochrome : m.id # ident[w]}
    /\ Freed(w)
    /\ UNCHANGED <<unparking, counter, monoCount>>

---------------------------------------------------------------------------
(* The worker's step of work: CameraWorker::work. *)

\* A detector is told its settings when it is new or they were changed.
UpdateOne(d) ==
    IF d.applied = NotYet \/ d.changed
    THEN [d EXCEPT !.changed = FALSE, !.applied = d.settings]
    ELSE d

\* Mutated form: what is pending is overwritten.
Overwritten(o, b) == b

\* The options the worker leaves behind: a new shape asks for the colour, and
\* what is not pending is set back to what the camera has.
Exchange(o, b) ==
    LET size  == IF o.reshape THEN o.look.size ELSE b.size
        color == IF o.reshape \/ o.recolor THEN o.look.color ELSE b.color
    IN  [size |-> size, color |-> color]

Settled(look) == [look |-> look, reshape |-> FALSE, recolor |-> FALSE]

CameraWork(w) ==
    /\ Work(w)
    /\ tree' = [tree EXCEPT ![w] = [k \in DOMAIN @ |-> UpdateOne(@[k])]]
    /\ IF ident[w] = Image
       THEN UNCHANGED <<buf, opts>>
       ELSE LET look == IF opts[w] = NoLook THEN buf[w] ELSE Exchange(opts[w], buf[w])
            IN  /\ buf' = [buf EXCEPT ![w] = look]
                /\ opts' = [opts EXCEPT ![w] = Settled(look)]
    /\ UNCHANGED <<windows, ident, counter, monochrome, monoCount>>

CameraThread(w) ==
    /\ w \in windows
    /\ \/ (Load(w) \/ Unparked(w) \/ Cleanup(w)) /\ UNCHANGED pgVars
       \/ CameraWork(w)

---------------------------------------------------------------------------
(* The storage. *)

\* What is restored of a derived frame: neither the detector nor `changed`.
Restored(frames) ==
    [k \in DOMAIN frames |-> [frames[k] EXCEPT !.changed = FALSE, !.applied = NotYet]]

\* Mutated form: the look of a new camera.
NewLook(id, entries) == DefaultLook

LookOf(id, entries) ==
    IF \E m \in entries : m.id = id
    THEN (CHOOSE m \in entries : m.id = id).look
    ELSE DefaultLook

\* The process ends, whatever it was doing, and starts from what it saved last.
\* What came after save() leaves no trace, so the model ends right after it.  A
\* monochrome camera without an entry is dropped, the others get a new thread.
Restart ==
    /\ windows' = {w \in windows : ident[w] = Image \/ \E m \in monochrome : m.id = ident[w]}
    /\ ident' = [w \in Workers |-> IF w \in windows' THEN ident[w] ELSE Image]
    /\ tree' = [w \in Workers |-> IF w \in windows' THEN Restored(tree[w]) ELSE <<>>]
    /\ monoCount' = FreeFrom(0, monochrome)
    /\ buf' = [w \in Workers |-> LookOf(ident'[w], monochrome)]
    /\ opts' = [w \in Workers |-> NoLook]
    /\ counter' = 0
    /\ runState' = [w \in Workers |-> IF w \in windows' THEN "RUNNING" ELSE "PAUSED"]
    /\ token' = [w \in Workers |-> w \in windows']
    /\ at' = [w \in Workers |-> "load"]
    /\ unparking' = [c \in Callers |-> NoWorker]
    /\ UNCHANGED monochrome

---------------------------------------------------------------------------
Interface ==
    \/ AddMono \/ AddImage
    \/ \E w \in Workers :
        \/ Click(w) \/ EditMono(w) \/ AddDerived(w)
        \/ Render(w) \/ DeleteDerived(w) \/ Reap(w)
    \/ Unpark(UI) /\ UNCHANGED pgVars

PlaygroundNext == Interface \/ Restart \/ \E w \in Workers : CameraThread(w)

\* Threads are scheduled, and the interface draws frame after frame and comes to
\* the end of the loop for every window in each; nobody has to click.
PlaygroundSpec ==
    /\ PlaygroundInit /\ [][PlaygroundNext]_vars
    /\ WF_vars(Unpark(UI) /\ UNCHANGED pgVars)
    /\ \A w \in Workers : WF_vars(CameraThread(w)) /\ SF_vars(Reap(w))

---------------------------------------------------------------------------
(* Properties. *)

Shown(o, b) == IF o # NoLook /\ (o.reshape \/ o.recolor) THEN o.look ELSE b

\* Every window of a monochrome camera has an entry of its own in the list that
\* is saved, and the entry has the look that was chosen last, whether or not the
\* worker has taken it over: the two copies of the options agree.
MonosRemembered ==
    \A w \in windows : ident[w] # Image =>
        /\ \A v \in windows : ident[v] = ident[w] => v = w
        /\ {m \in monochrome : m.id = ident[w]} = {Entry(ident[w], Shown(opts[w], buf[w]))}

\* A restart closes no window: a camera that was saved finds its entry, and it
\* comes back with the look that was chosen.
RestartKeeps ==
    [][Restart =>
        /\ windows' = windows
        /\ \A w \in windows : ident[w] # Image => buf'[w] = Shown(opts[w], buf[w])]_vars

\* The thread of a window that is closing stays told to end: the windows never
\* use start() and pause() to call it back, although the handle would.
StaysClosed ==
    [][\A w \in windows :
            runState[w] = "SHUTDOWN" /\ w \in windows' /\ ~Restart
                => runState'[w] = "SHUTDOWN"]_vars

\* "Close" ends in the window going away (or in the program starting again).
ClosedGoesAway ==
    \A w \in Workers :
        (w \in windows /\ runState[w] = "SHUTDOWN")
            ~> (w \notin windows \/ runState[w] # "SHUTDOWN")

\* What was chosen for a camera (and is remembered for the next start) reaches it,
\* as long as it is not paused or closed.
ChoiceArrives ==
    \A w \in Workers :
        (w \in windows /\ ident[w] # Image /\ LookOf(ident[w], monochrome) # buf[w])
            ~> (runState[w] # "RUNNING" \/ LookOf(ident[w], monochrome) = buf[w])

\* A detector that is not to be told anything works with what its sliders say.
\* Every frame of the interface sets `changed` anew, so a change is forgotten
\* when the next frame comes before the worker.
DetectorUpToDate ==
    \A w \in windows : \A n \in DOMAIN tree[w] :
        LET d == tree[w][n]
        IN  d.applied # NotYet /\ ~d.changed => d.applied = d.settings

\* No two derived frames share a window id.  UNIQUE_COUNTER starts at 0 again in
\* every process and the ids are saved.
DerivedIdsDistinct ==
    \A w \in windows : \A m, n \in DOMAIN tree[w] :
        tree[w][m].id = tree[w][n].id => m = n
=============================================================================
