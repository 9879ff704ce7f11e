------------------------------- MODULE FloorMap -------------------------------
(***************************************************************************)
(* One browser tab with the building map (KnowledgeSitemapPage.tsx), the   *)
(* live channel it listens to (useDiagramLive.ts) and the panel that keeps *)
(* the floors (routers/diagrams.py).  Other editors save the same floors.  *)
(*                                                                         *)
(* A step is one turn of the tab's event loop: a handler, a timer or the   *)
(* code after an await, with the effects React runs for it.  A floor's     *)
(* layout is told by the edits its objects hold: an edit, also one that    *)
(* takes an object away, leaves a mark of its own.  A save replaces what   *)
(* the server had.  Settings and background of a floor are left out.       *)
(*                                                                         *)
(* Times (320 ms of autosave, 45 ms of debounce, 650 ms of echo window)    *)
(* are left to the scheduler: a timer fires some time after it was set.    *)
(***************************************************************************)
EXTENDS Integers, Sequences, FiniteSets, SequencesExt

CONSTANTS
    Floors,
    MaxEdits,   \* bound on the edits of this tab
    MaxOther,   \* bound on the saves of other editors
    Patient,    \* the user waits for the answers before Save and before another floor
    InOrder,    \* the server takes the tab's saves in the order they were sent
    NoFloor, NoIcons

ASSUME FloorAssumption ==
    /\ MaxEdits \in Nat /\ MaxOther \in Nat
    /\ Patient \in BOOLEAN /\ InOrder \in BOOLEAN
    /\ Floors # {} /\ NoFloor \notin Floors

VARIABLES
    saved,     \* saved[f]: Diagram.floor_layout_json
    edits,     \* history: edits of the tab so far
    other,     \* history: saves of others so far
    failed,    \* history: what was in a save that never reached the server
    active,    \* activeId
    shown,     \* layout
    loaded,    \* loadedRef
    tick,      \* the setTimeout 0 of loadDiagram that sets loadedRef
    badge,     \* saveState
    timer,     \* the autosave timer, told by the floor its closure holds
    soon,      \* the setTimeout 0 of a pointer-up, told the same way
    pend,      \* pendingIconsRef
    flight,    \* autosaveInFlightRef: the floor a PATCH is under way for
    put,       \* the floor a PUT is under way for
    wire,      \* saves the server has not taken yet, oldest first
    get,       \* get[f]: the GET of the floor that is under way
    loading,   \* the floors a loadDiagram waits for
    pull,      \* the floor the newest refetchForLive waits for
    debounce   \* remoteLayoutTimerRef

tabVars == <<active, shown, loaded, tick, badge>>
saveVars == <<timer, soon, pend, flight, put>>
vars == <<saved, edits, other, failed, tabVars, saveVars, wire, get, loading, pull, debounce>>

-------------------------------------------------------------------------------
Token == [floor : Floors, n : (-MaxOther)..MaxEdits]
Mine(layout) == {t \in layout : t.n > 0}

(* pendingIconsRef tells a layout, also an empty one, from null. *)
ASSUME IconsAssumption == \A layout \in SUBSET Token : layout # NoIcons

Save == [how : {"patch", "put"}, floor : Floors, layout : SUBSET Token]
Get == [at : {"none", "asked", "read"}, layout : SUBSET Token]
NoGet == [at |-> "none", layout |-> {}]
Sent(how) == \E i \in DOMAIN wire : wire[i].how = how

TypeOK ==
    /\ saved \in [Floors -> SUBSET Token]
    /\ edits \in 0..MaxEdits /\ other \in 0..MaxOther
    /\ failed \in SUBSET Token
    /\ active \in Floors
    /\ shown \in SUBSET Token
    /\ loaded \in BOOLEAN /\ tick \in BOOLEAN
    /\ badge \in {"idle", "dirty", "saving", "saved", "error"}
    /\ timer \in Floors \cup {NoFloor}
    /\ soon \in Floors \cup {NoFloor}
    /\ pend \in {NoIcons} \cup SUBSET Token
    /\ flight \in Floors \cup {NoFloor}
    /\ put \in Floors \cup {NoFloor}
    /\ wire \in Seq(Save) /\ Len(wire) <= 2
    /\ get \in [Floors -> Get]
    /\ loading \in SUBSET Floors
    /\ pull \in Floors \cup {NoFloor}
    /\ debounce \in BOOLEAN

(* The page has opened and shows some floor; nobody has edited one. *)
Init ==
    /\ saved = [f \in Floors |-> {}]
    /\ edits = 0 /\ other = 0 /\ failed = {}
    /\ active = CHOOSE f \in Floors : TRUE
    /\ shown = {}
    /\ loaded = TRUE /\ tick = FALSE
    /\ badge = "idle"
    /\ timer = NoFloor /\ soon = NoFloor
    /\ pend = NoIcons
    /\ flight = NoFloor /\ put = NoFloor
    /\ wire = <<>>
    /\ get = [f \in Floors |-> NoGet]
    /\ loading = {}
    /\ pull = NoFloor
    /\ debounce = FALSE

-------------------------------------------------------------------------------
(* Nothing of the tab waits for the server or for a timer that saves. *)
Settled ==
    /\ timer = NoFloor /\ soon = NoFloor /\ pend = NoIcons
    /\ flight = NoFloor /\ put = NoFloor
    /\ loading = {} /\ ~tick

(* Mutated form of Autosave: a change that comes while the timer is armed  *)
(* is left to it, and the timer sends what it was armed with.              *)
AutosaveFirst(icons) ==
    /\ badge' = "dirty"
    /\ pend' = IF timer = NoFloor THEN icons ELSE pend
    /\ timer' = active

(* The autosave effect, run because the objects on the screen changed. *)
Autosave(icons) ==
    /\ badge' = "dirty"
    /\ pend' = icons
    /\ timer' = active

(* Mutated forms of FlushIconsPatch: what comes up while a PATCH is under  *)
(* way is dropped, or is sent at once.                                     *)
FlushIconsPatchOrDrop(f, icons) ==
    /\ pend' = NoIcons
    /\ IF flight # NoFloor \/ icons = NoIcons
       THEN UNCHANGED <<badge, flight, wire>>
       ELSE /\ flight' = f
            /\ badge' = "saving"
            /\ wire' = Append(wire, [how |-> "patch", floor |-> f, layout |-> icons])

FlushIconsPatchAtOnce(f, icons) ==
    /\ pend' = NoIcons
    /\ IF icons = NoIcons
       THEN UNCHANGED <<badge, flight, wire>>
       ELSE /\ flight' = f
            /\ badge' = "saving"
            /\ wire' = Append(wire, [how |-> "patch", floor |-> f, layout |-> icons])

(* flushIconsPatch of floor f, called when pendingIconsRef holds "icons". *)
FlushIconsPatch(f, icons) ==
    IF flight # NoFloor \/ icons = NoIcons
    THEN /\ pend' = icons
         /\ UNCHANGED <<badge, flight, wire>>
    ELSE /\ pend' = NoIcons
         /\ flight' = f
         /\ badge' = "saving"
         /\ wire' = Append(wire, [how |-> "patch", floor |-> f, layout |-> icons])

(* saveLayout; bound: one PUT at a time. *)
SaveLayout(f, layout) ==
    /\ put = NoFloor
    /\ Patient => flight = NoFloor
    /\ put' = f
    /\ badge' = "saving"
    /\ wire' = Append(wire, [how |-> "put", floor |-> f, layout |-> layout])

(* A GET that is under way is shared by whoever asks for the same floor. *)
AskFor(f) ==
    get' = IF get[f].at = "none" THEN [get EXCEPT ![f] = [at |-> "asked", layout |-> {}]]
                                 ELSE get

(* Mutated form of ChooseFloor: loadedRef is not reset, so the effect of   *)
(* the new floor saves the layout that is still on the screen.             *)
ChooseFloorLoaded(f) ==
    /\ f # active
    /\ Patient => Settled /\ pull = NoFloor
    /\ active' = f
    /\ badge' = "dirty"
    /\ pend' = shown
    /\ timer' = f
    /\ loading' = loading \cup {f}
    /\ AskFor(f)
    /\ debounce' = FALSE
    /\ UNCHANGED <<saved, edits, other, failed, shown, loaded, tick, soon, flight, put,
                   wire, pull>>

(* The floor select. *)
ChooseFloor(f) ==
    /\ f # active
    /\ Patient => Settled /\ pull = NoFloor
    /\ timer' = NoFloor
    /\ active' = f
    /\ loaded' = FALSE
    /\ loading' = loading \cup {f}
    /\ AskFor(f)
    /\ debounce' = FALSE
    /\ UNCHANGED <<saved, edits, other, failed, shown, tick, badge, soon, pend, flight, put,
                   wire, pull>>

(* A user's change to the objects: an object moved, added, deleted or      *)
(* filled in.  The effect saves it only once the floor has been loaded.    *)
Edit ==
    /\ edits < MaxEdits
    /\ Patient => loaded /\ put = NoFloor
    /\ edits' = edits + 1
    /\ shown' = shown \cup {[floor |-> active, n |-> edits']}
    /\ IF loaded THEN Autosave(shown') ELSE UNCHANGED <<badge, pend, timer>>
    /\ UNCHANGED <<saved, other, failed, active, loaded, tick, soon, flight, put, wire, get,
                   loading, pull, debounce>>

(* The fields of the hover card are settings, saved at once with the whole *)
(* layout.                                                                 *)
UpdatePcHoverFields ==
    /\ Patient => loaded
    /\ SaveLayout(active, shown)
    /\ UNCHANGED <<saved, edits, other, failed, active, shown, loaded, tick, timer, soon,
                   pend, flight, get, loading, pull, debounce>>

(* A drag ends, and the tab saves at once, without waiting for the timer. *)
PointerUp ==
    /\ soon = NoFloor
    /\ Patient => loaded
    /\ soon' = active
    /\ UNCHANGED <<saved, edits, other, failed, tabVars, timer, pend, flight, put, wire, get,
                   loading, pull, debounce>>

FlushAfterPointerUp ==
    /\ soon # NoFloor
    /\ soon' = NoFloor
    /\ timer' = NoFloor
    /\ FlushIconsPatch(soon, shown)
    /\ UNCHANGED <<saved, edits, other, failed, active, shown, loaded, tick, put, get,
                   loading, pull, debounce>>

AutosaveTimer ==
    /\ timer # NoFloor
    /\ timer' = NoFloor
    /\ FlushIconsPatch(timer, pend)
    /\ UNCHANGED <<saved, edits, other, failed, active, shown, loaded, tick, soon, put, get,
                   loading, pull, debounce>>

(* The Save button. *)
SaveNow ==
    /\ Patient => loaded
    /\ timer' = NoFloor
    /\ pend' = NoIcons
    /\ SaveLayout(active, shown)
    /\ UNCHANGED <<saved, edits, other, failed, active, shown, loaded, tick, soon, flight, get,
                   loading, pull, debounce>>

-------------------------------------------------------------------------------
(* A notice of a saved floor reaches the tab when its socket is open and   *)
(* the tab has not saved within the last 650 ms; one that is missed is     *)
(* missed for good.  The tab hears of its own saves, too: the server sends *)
(* the notice before the answer.                                           *)
Notice(f) ==
    \/ UNCHANGED debounce
    \/ /\ f = active
       /\ debounce' = TRUE

ServerTakes ==
    /\ \E i \in DOMAIN wire :
          /\ InOrder => i = 1
          /\ saved' = [saved EXCEPT ![wire[i].floor] = wire[i].layout]
          /\ Notice(wire[i].floor)
          /\ wire' = RemoveAt(wire, i)
    /\ UNCHANGED <<edits, other, failed, tabVars, saveVars, get, loading, pull>>

(* Another editor adds something to floor f. *)
OtherSaves(f) ==
    /\ other < MaxOther
    /\ other' = other + 1
    /\ saved' = [saved EXCEPT ![f] =
                   @ \cup {[floor |-> f, n |-> -other']}]
    /\ Notice(f)
    /\ UNCHANGED <<edits, failed, tabVars, saveVars, wire, get, loading, pull>>

(* The request has failed: the server never saw it, or its answer is lost. *)
(* Bound: one save of a behaviour never reaches the server.                *)
PlaceOf(how) == CHOOSE i \in DOMAIN wire : wire[i].how = how
Unsent(how) == IF Sent(how) THEN RemoveAt(wire, PlaceOf(how)) ELSE wire
Fails(how) ==
    /\ failed = {}
    /\ failed' = IF Sent(how) THEN wire[PlaceOf(how)].layout ELSE {}

(* The rest of flushIconsPatch; what came up meanwhile is sent by the same *)
(* closure, so to the same floor.                                          *)
PatchEnds(as) ==
    IF pend = NoIcons
    THEN /\ flight' = NoFloor
         /\ badge' = as
         /\ UNCHANGED pend
    ELSE /\ pend' = NoIcons
         /\ badge' = "saving"
         /\ UNCHANGED flight

Resent == [how |-> "patch", floor |-> flight, layout |-> pend]

PatchAnswered ==
    /\ flight # NoFloor
    /\ ~Sent("patch")
    /\ PatchEnds("saved")
    /\ wire' = IF pend = NoIcons THEN wire ELSE Append(wire, Resent)
    /\ UNCHANGED <<saved, edits, other, failed, active, shown, loaded, tick, timer, soon, put,
                   get, loading, pull, debounce>>

PatchFails ==
    /\ flight # NoFloor
    /\ PatchEnds("error")
    /\ Fails("patch")
    /\ wire' = IF pend = NoIcons THEN Unsent("patch") ELSE Append(Unsent("patch"), Resent)
    /\ UNCHANGED <<saved, edits, other, active, shown, loaded, tick, timer, soon, put,
                   get, loading, pull, debounce>>

PutAnswered ==
    /\ put # NoFloor
    /\ ~Sent("put")
    /\ put' = NoFloor
    /\ badge' = "saved"
    /\ UNCHANGED <<saved, edits, other, failed, active, shown, loaded, tick, timer, soon,
                   pend, flight, wire, get, loading, pull, debounce>>

PutFails ==
    /\ put # NoFloor
    /\ put' = NoFloor
    /\ badge' = "error"
    /\ Fails("put")
    /\ wire' = Unsent("put")
    /\ UNCHANGED <<saved, edits, other, active, shown, loaded, tick, timer, soon, pend,
                   flight, get, loading, pull, debounce>>

-------------------------------------------------------------------------------
(* The debounce of a notice ends: refetch, unless the badge says that      *)
(* there are unsaved edits or a PATCH is under way.                        *)
DebounceEnds ==
    /\ debounce
    /\ debounce' = FALSE
    /\ IF badge = "dirty" \/ flight # NoFloor
       THEN UNCHANGED <<get, pull>>
       ELSE pull' = active /\ AskFor(active)
    /\ UNCHANGED <<saved, edits, other, failed, tabVars, saveVars, wire, loading>>

ServerReads(f) ==
    /\ get[f].at = "asked"
    /\ get' = [get EXCEPT ![f] = [at |-> "read", layout |-> saved[f]]]
    /\ UNCHANGED <<saved, edits, other, failed, tabVars, saveVars, wire, loading, pull, debounce>>

(* The answer reaches whoever waited for it: loadDiagram paints it, and so *)
(* does the newest refetchForLive where it differs from the screen.  A     *)
(* layout that was painted is a change of the objects like any other, so   *)
(* the effect saves it once loadedRef is set.                              *)
Painted(f) ==
    IF f \in loading
    THEN /\ shown' = get[f].layout
         /\ badge' = "idle"
         /\ tick' = TRUE
         /\ UNCHANGED <<pend, timer>>
    ELSE IF pull = f /\ get[f].layout # shown
    THEN /\ shown' = get[f].layout
         /\ UNCHANGED tick
         /\ IF loaded THEN Autosave(get[f].layout)
            ELSE badge' = "idle" /\ UNCHANGED <<pend, timer>>
    ELSE UNCHANGED <<shown, badge, tick, pend, timer>>

GetArrives(f) ==
    /\ get[f].at = "read"
    /\ Painted(f)
    /\ get' = [get EXCEPT ![f] = NoGet]
    /\ loading' = loading \ {f}
    /\ pull' = IF pull = f THEN NoFloor ELSE pull
    /\ UNCHANGED <<saved, edits, other, failed, active, loaded, soon, flight, put, wire, debounce>>

(* All attempts of the GET have failed; a load leaves loadedRef unset. *)
GetFails(f) ==
    /\ get[f].at # "none"
    /\ get' = [get EXCEPT ![f] = NoGet]
    /\ loading' = loading \ {f}
    /\ pull' = IF pull = f THEN NoFloor ELSE pull
    /\ UNCHANGED <<saved, edits, other, failed, tabVars, saveVars, wire, debounce>>

(* loadedRef is set in a task of its own; the effect of the paint runs     *)
(* before it and does nothing, or after it and saves what was painted.     *)
LoadedTick ==
    /\ tick
    /\ tick' = FALSE
    /\ loaded' = TRUE
    /\ Autosave(shown) \/ UNCHANGED <<badge, pend, timer>>
    /\ UNCHANGED <<saved, edits, other, failed, active, shown, soon, flight, put, wire, get,
                   loading, pull, debounce>>

-------------------------------------------------------------------------------
UserStep ==
    \/ Edit \/ UpdatePcHoverFields \/ PointerUp \/ SaveNow
    \/ \E f \in Floors : ChooseFloor(f)
Fault ==
    \/ PatchFails \/ PutFails
    \/ \E f \in Floors : GetFails(f)
Timer == AutosaveTimer \/ FlushAfterPointerUp \/ DebounceEnds \/ LoadedTick
Answer ==
    \/ ServerTakes \/ PatchAnswered \/ PutAnswered
    \/ \E f \in Floors : ServerReads(f) \/ GetArrives(f)

Next ==
    \/ UserStep \/ Timer \/ Answer \/ Fault
    \/ \E f \in Floors : OtherSaves(f)

Spec == Init /\ [][Next]_vars
FairSpec ==
    /\ Spec
    /\ WF_vars(AutosaveTimer) /\ WF_vars(FlushAfterPointerUp)
    /\ WF_vars(ServerTakes) /\ WF_vars(PatchAnswered)

-------------------------------------------------------------------------------
(* Once the tab is calm, every object on the screen is on the server or    *)
(* was in a save that failed: no autosave was dropped because another one  *)
(* was under way, or was overtaken by an older save.                       *)
SettledIsStored ==
    Settled /\ loaded => shown \subseteq saved[active] \cup failed

(* The objects of a floor are never saved into another floor, whatever     *)
(* floor was on the screen when the save was set off.                      *)
OwnFloor == \A f \in Floors : \A t \in saved[f] : t.floor = f

(* Every object the user put on a loaded floor reaches the server, or the  *)
(* save it was in fails, or the object leaves the screen.                  *)
EditsAreStored ==
    \A n \in 1..MaxEdits :
        (loaded /\ \E t \in shown : t.n = n)
          ~> \A t \in shown : t.n = n => t \in saved[t.floor] \cup failed

(* What the legend of the live channel says: while there are unsaved edits *)
(* of the user, what others saved is not painted over them.                *)
NotOverUnsaved ==
    [][\A t \in Mine(shown) \ saved[active] :
          active' = active /\ loading = {} => t \in shown']_vars
===============================================================================
