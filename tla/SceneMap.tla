------------------------------- MODULE SceneMap -------------------------------
(***************************************************************************)
(* One browser tab with the network map (NetworkMapPage.tsx, undo.ts) and  *)
(* the panel that keeps its scenes (routers/network.py).  Others save the  *)
(* same scenes; the live channel tells the tab (useDiagramLive.ts).        *)
(*                                                                         *)
(* A step is one turn of the tab's event loop.  A scene is told by the     *)
(* changes it holds: a change leaves a mark of its own, also one that      *)
(* takes something away.  A save carries the canvas as it was when the     *)
(* save was set off, and goes to the scene that is open when its timer     *)
(* fires.                                                                  *)
(***************************************************************************)
EXTENDS Integers, Sequences, FiniteSets, SequencesExt

CONSTANTS
    Scenes,
    MaxEdits,    \* bound on the changes of this tab
    MaxOther,    \* bound on the saves of others, layouts and traces included
    MaxPuts,     \* bound on the saves under way
    UndoLimit,   \* 40 in the code
    Patient,     \* the user lets the saves finish before another scene is opened
    NoScene, NoGet

ASSUME SceneAssumption ==
    /\ MaxEdits \in Nat /\ MaxOther \in Nat /\ MaxPuts \in Nat
    /\ UndoLimit \in Nat \ {0}
    /\ Patient \in BOOLEAN
    /\ Scenes # {} /\ NoScene \notin Scenes

VARIABLES
    stored,    \* stored[s]: NetworkMapScene.scene_json
    edits,     \* history: changes of the tab so far
    other,     \* history: changes of others so far
    gone,      \* history: changes of the tab the user has cleared or undone
    failed,    \* history: what was in a save that never reached the server
    stale,     \* history: a layout without changes of the tab was painted
    scene,     \* sceneIdRef
    canvas,    \* sceneRef and the nodes on the canvas
    past,      \* the undo stack, newest last
    future,    \* the redo stack, newest last
    timer,     \* saveTimer
    busy,      \* collabBusyRef
    puts,      \* saves under way, oldest first
    get,       \* get[s]: the GET of the scene that is under way
    opening,   \* the scene whose answer applySceneDto waits for
    pulls      \* the scenes refetchRemoteScene waits for

pastVars == <<edits, other, gone, failed, stale>>
undoVars == <<past, future>>
netVars == <<get, opening, pulls>>
vars == <<stored, pastVars, scene, canvas, undoVars, timer, busy, puts, netVars>>

-------------------------------------------------------------------------------
Mark == [scene : Scenes, n : (-MaxOther)..MaxEdits]
MarksOf(s) == {m \in Mark : m.scene = s}
Mine(layout) == {m \in layout : m.n > 0}

(* What a timer does when it fires: "edit" is persist or persistViewport,  *)
(* "undo" a timer of applyUndo, which leaves the busy flag alone.          *)
Timer == [how : {"none", "edit", "undo"}, layout : SUBSET Mark]
NoTimer == [how |-> "none", layout |-> {}]

(* "newest" says that saveGenRef has not moved on since this save began;   *)
(* a save of applyUndo has no generation.                                  *)
Put == [scene : Scenes, layout : SUBSET Mark, newest : BOOLEAN, taken : BOOLEAN]

TypeOK ==
    /\ stored \in [Scenes -> SUBSET Mark]
    /\ edits \in 0..MaxEdits /\ other \in 0..MaxOther
    /\ gone \in SUBSET Mark /\ failed \in SUBSET Mark /\ stale \in BOOLEAN
    /\ scene \in Scenes
    /\ canvas \in SUBSET Mark
    /\ past \in Seq(SUBSET Mark) /\ Len(past) <= UndoLimit
    /\ future \in Seq(SUBSET Mark) /\ Len(future) <= UndoLimit
    /\ timer \in Timer
    /\ busy \in BOOLEAN
    /\ puts \in Seq(Put) /\ Len(puts) <= MaxPuts
    /\ Cardinality({i \in DOMAIN puts : puts[i].newest}) <= 1
    /\ get \in [Scenes -> {NoGet} \cup SUBSET Mark]
    /\ opening \in Scenes \cup {NoScene}
    /\ pulls \in SUBSET Scenes

Init ==
    /\ stored = [s \in Scenes |-> {}]
    /\ edits = 0 /\ other = 0 /\ gone = {} /\ failed = {} /\ stale = FALSE
    /\ scene = CHOOSE s \in Scenes : TRUE
    /\ canvas = {}
    /\ past = <<>> /\ future = <<>>
    /\ timer = NoTimer
    /\ busy = FALSE
    /\ puts = <<>>
    /\ get = [s \in Scenes |-> NoGet]
    /\ opening = NoScene
    /\ pulls = {}

-------------------------------------------------------------------------------
Settled == timer = NoTimer /\ puts = <<>>
Switching == opening # NoScene

(* A request of persist or flushSave: older ones no longer count as the    *)
(* newest generation, and the tab is busy until this one is answered.      *)
Send(layout) ==
    /\ Len(puts) < MaxPuts
    /\ puts' = Append([i \in DOMAIN puts |-> [puts[i] EXCEPT !.newest = FALSE]],
                      [scene |-> scene, layout |-> layout, newest |-> TRUE, taken |-> FALSE])
    /\ busy' = TRUE

(* A request without a generation. *)
SendPlain(layout) ==
    /\ Len(puts) < MaxPuts
    /\ puts' = Append(puts, [scene |-> scene, layout |-> layout, newest |-> FALSE, taken |-> FALSE])
    /\ UNCHANGED busy

(* Mutated form of Pushed: no snapshot gives way. *)
PushedOnTop(stack, layout) == Append(stack, layout)

(* createUndoStack().push: the oldest snapshot gives way to the newest. *)
Pushed(stack, layout) ==
    IF Len(stack) = UndoLimit THEN Append(Tail(stack), layout) ELSE Append(stack, layout)

(* A GET that is under way is shared.  The server reads the scene in the   *)
(* step that asks for it, so an answer is as old as it can be.             *)
AskFor(s) ==
    get' = IF get[s] = NoGet THEN [get EXCEPT ![s] = stored[s]] ELSE get

(* persist: the change is on the canvas at once and saved after 280 ms. *)
Edit ==
    /\ edits < MaxEdits
    /\ Patient => ~Switching
    /\ edits' = edits + 1
    /\ past' = Pushed(past, canvas)
    /\ future' = <<>>
    /\ canvas' = canvas \cup {[scene |-> scene, n |-> edits']}
    /\ timer' = [how |-> "edit", layout |-> canvas']
    /\ busy' = TRUE
    /\ UNCHANGED <<stored, other, gone, failed, stale, scene, puts, netVars>>

(* onBlank, after the typed confirmation: persist at once. *)
Clear ==
    /\ canvas # {}
    /\ Patient => ~Switching
    /\ past' = Pushed(past, canvas)
    /\ future' = <<>>
    /\ gone' = gone \cup Mine(canvas)
    /\ canvas' = {}
    /\ timer' = NoTimer
    /\ Send({})
    /\ UNCHANGED <<stored, edits, other, failed, stale, scene, netVars>>

(* persistViewport: the camera has moved; the canvas is saved with it. *)
MoveCamera ==
    /\ Patient => ~Switching
    /\ timer' = [how |-> "edit", layout |-> canvas]
    /\ busy' = TRUE
    /\ UNCHANGED <<stored, pastVars, scene, canvas, undoVars, puts, netVars>>

(* applyUndo, in both directions. *)
Restore(layout) ==
    /\ Patient => ~Switching
    /\ gone' = gone \cup Mine(canvas \ layout)
    /\ canvas' = layout
    /\ timer' = [how |-> "undo", layout |-> layout]
    /\ UNCHANGED <<stored, edits, other, failed, stale, scene, busy, puts, netVars>>

Undo ==
    /\ past # <<>>
    /\ past' = Front(past)
    /\ future' = Append(future, canvas)
    /\ Restore(Last(past))

Redo ==
    /\ future # <<>>
    /\ future' = Front(future)
    /\ past' = Append(past, canvas)
    /\ Restore(Last(future))

SaveTimer ==
    /\ timer # NoTimer
    /\ timer' = NoTimer
    /\ IF timer.how = "edit" THEN Send(timer.layout) ELSE SendPlain(timer.layout)
    /\ UNCHANGED <<stored, pastVars, scene, canvas, undoVars, netVars>>

(* Mutated form of Hide: the timer is cleared, as when the page is left    *)
(* without flushSave.                                                      *)
HideQuietly ==
    /\ Patient => ~Switching
    /\ timer' = NoTimer
    /\ UNCHANGED <<stored, pastVars, scene, canvas, undoVars, busy, puts, netVars>>

(* flushSave: the tab is hidden or left. *)
Hide ==
    /\ Patient => ~Switching
    /\ timer' = NoTimer
    /\ Send(canvas)
    /\ UNCHANGED <<stored, pastVars, scene, canvas, undoVars, netVars>>

(* openScene; bound: one scene is being opened at a time. *)
OpenScene(s) ==
    /\ s # scene
    /\ opening = NoScene
    /\ Patient => Settled
    /\ opening' = s
    /\ AskFor(s)
    /\ UNCHANGED <<stored, pastVars, scene, canvas, undoVars, timer, busy, puts, pulls>>

-------------------------------------------------------------------------------
(* The server takes the saves in the order they were sent. *)
ServerTakes ==
    \E i \in DOMAIN puts :
        /\ ~puts[i].taken
        /\ \A j \in 1..(i - 1) : puts[j].taken
        /\ stored' = [stored EXCEPT ![puts[i].scene] = puts[i].layout]
        /\ puts' = [puts EXCEPT ![i].taken = TRUE]
        /\ UNCHANGED <<pastVars, scene, canvas, undoVars, timer, busy, netVars>>

OtherSaves(s) ==
    /\ other < MaxOther
    /\ other' = other + 1
    /\ stored' = [stored EXCEPT ![s] = @ \cup {[scene |-> s, n |-> -other']}]
    /\ UNCHANGED <<edits, gone, failed, stale, scene, canvas, undoVars, timer, busy, puts, get,
                   opening, pulls>>

(* layoutActive or runTrace: the server changes the scene and answers with *)
(* it; a scene laid out anew counts as a change after all the others.  The *)
(* request and what the server does are one step.                          *)
Rework ==
    /\ other < MaxOther
    /\ opening = NoScene
    /\ get[scene] = NoGet
    /\ Patient => Settled
    /\ other' = other + 1
    /\ stored' = [stored EXCEPT ![scene] = @ \cup {[scene |-> scene, n |-> -other']}]
    /\ opening' = scene
    /\ get' = [get EXCEPT ![scene] = stored'[scene]]
    /\ UNCHANGED <<edits, gone, failed, stale, scene, canvas, undoVars, timer, busy, puts, pulls>>

(* The finally of a save: the newest one ends the busy state, also when a  *)
(* timer has been armed since.                                             *)
PutEnds(i) ==
    /\ puts' = RemoveAt(puts, i)
    /\ busy' = IF puts[i].newest THEN FALSE ELSE busy
    /\ UNCHANGED <<stored, edits, other, gone, stale, scene, canvas, undoVars, timer, netVars>>

PutAnswered ==
    /\ \E i \in DOMAIN puts : puts[i].taken /\ PutEnds(i)
    /\ UNCHANGED failed

(* Bound: one save of a behaviour never reaches the server. *)
PutFails ==
    \E i \in DOMAIN puts :
        /\ puts[i].taken \/ failed = {}
        /\ PutEnds(i)
        /\ failed' = IF puts[i].taken THEN failed ELSE puts[i].layout

-------------------------------------------------------------------------------
(* The tab has heard, 45 ms ago, that somebody saved the scene.  Others    *)
(* may save at any time, also without changing anything.                   *)
NoticeArrives ==
    /\ ~busy
    /\ pulls' = pulls \cup {scene}
    /\ AskFor(scene)
    /\ UNCHANGED <<stored, pastVars, scene, canvas, undoVars, timer, busy, puts, opening>>

(* Mutated form of ApplySceneDto: the undo stack is kept. *)
ApplySceneDtoOnly(s, layout) ==
    /\ scene' = s
    /\ canvas' = layout
    /\ UNCHANGED undoVars

(* applySceneDto: the scene, its canvas and an empty undo stack; a timer   *)
(* that was armed stays armed.                                             *)
ApplySceneDto(s, layout) ==
    /\ scene' = s
    /\ canvas' = layout
    /\ past' = <<>> /\ future' = <<>>

(* Mutated form of MayPaint: the scene is not compared after the await. *)
MayPaintAny(s) == ~busy

(* The rest of refetchRemoteScene, after its await. *)
MayPaint(s) == ~busy /\ scene = s

GetArrives(s) ==
    /\ get[s] # NoGet
    /\ get' = [get EXCEPT ![s] = NoGet]
    /\ pulls' = pulls \ {s}
    /\ opening' = IF opening = s THEN NoScene ELSE opening
    /\ \/ /\ opening = s
          /\ ApplySceneDto(s, get[s])
          /\ stale' = (stale \/ ~(Mine(stored[s]) \subseteq get[s]))
       \/ /\ opening # s /\ s \in pulls /\ MayPaint(s)
          /\ canvas' = get[s]
          /\ stale' = (stale \/ ~(Mine(canvas \cup stored[s]) \subseteq get[s]))
          /\ UNCHANGED <<scene, undoVars>>
       \/ /\ opening # s /\ ~(s \in pulls /\ MayPaint(s))
          /\ UNCHANGED <<scene, canvas, undoVars, stale>>
    /\ UNCHANGED <<stored, edits, other, gone, failed, timer, busy, puts>>

(* The request fails; the canvas stays as it is. *)
GetFails(s) ==
    /\ get[s] # NoGet
    /\ get' = [get EXCEPT ![s] = NoGet]
    /\ pulls' = pulls \ {s}
    /\ opening' = IF opening = s THEN NoScene ELSE opening
    /\ UNCHANGED <<stored, pastVars, scene, canvas, undoVars, timer, busy, puts>>

-------------------------------------------------------------------------------
UserStep ==
    \/ Edit \/ Clear \/ MoveCamera \/ Undo \/ Redo \/ Hide \/ Rework
    \/ \E s \in Scenes : OpenScene(s)
ServerStep ==
    \/ ServerTakes
    \/ \E s \in Scenes : OtherSaves(s)
TabStep ==
    \/ SaveTimer \/ NoticeArrives \/ PutAnswered
    \/ \E s \in Scenes : GetArrives(s)
Fault ==
    \/ PutFails \/ \E s \in Scenes : GetFails(s)

Next == UserStep \/ ServerStep \/ TabStep \/ Fault

Spec == Init /\ [][Next]_vars

-------------------------------------------------------------------------------
(* No change is saved into a scene it was not made on: neither by a timer  *)
(* that outlives its scene, nor by a remote scene painted after another    *)
(* one was opened.                                                         *)
OwnScene ==
    /\ \A s \in Scenes : stored[s] \subseteq MarksOf(s)
    /\ canvas \subseteq MarksOf(scene)

(* Undo and redo lead to states of the scene that is open, never to those  *)
(* of the scene that was open before.                                      *)
UndoOfScene ==
    \A layout \in ToSet(past) \cup ToSet(future) : layout \subseteq MarksOf(scene)

(* As long as no remote layout was painted over changes of the tab, every  *)
(* change on the canvas is on the server once no save is armed or under    *)
(* way, unless it was in a save that failed or the user took it back: no   *)
(* save is dropped, replaced by an older canvas or overtaken by one.       *)
SettledIsStored ==
    Settled /\ ~Switching /\ ~stale =>
        Mine(canvas) \subseteq stored[scene] \cup failed \cup gone
===============================================================================
