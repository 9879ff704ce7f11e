------------------------------- MODULE NoteEditor ------------------------------
(***************************************************************************)
(* The notes page in one browser tab (NotesPage.tsx) and the panel that    *)
(* keeps the notes (routers/notes.py).  The page saves the open note after *)
(* a pause in typing, when the editor loses focus, when another note is    *)
(* asked for, and when the tab is hidden or the page is left.              *)
(*                                                                         *)
(* A step is one turn of the tab's event loop.  The text of a note is told *)
(* by the last change made to it; title, dates and colour are saved with   *)
(* it and left out.  So are the list of notes, shares and deletion; every  *)
(* note may be edited.                                                     *)
(***************************************************************************)
EXTENDS Naturals, Sequences, FiniteSets, SequencesExt

CONSTANTS
    Notes,
    MaxEdits,   \* bound on the changes
    MaxSaves,   \* bound on the saves at once, waiting or under way
    NoNote, Blank

ASSUME NoteAssumption ==
    /\ MaxEdits \in Nat /\ MaxSaves \in Nat \ {0}
    /\ NoNote \notin Notes

VARIABLES
    stored,    \* stored[n]: the note's row
    edits,     \* history: changes so far
    typed,     \* history: typed[n] is the last change made to note n
    excused,   \* history: notes the last change of which may be lost
    failed,    \* history: a save has failed before it reached the server
    open,      \* the page is mounted
    note,      \* noteRef
    editor,    \* what the editor of the open note holds
    body,      \* bodyHtmlRef
    timer,     \* saveTimer is armed
    saves,     \* calls of persistNow that have not ended, oldest first
    inFlight,  \* persistInFlight: the save whose promise it is
    selected,  \* the note of the address
    phase,     \* how far the newest run of the select effect has come
    awaits,    \* the save it awaits while it is "saving"
    get        \* get[n]: the GET of the note that is under way

pastVars == <<edits, typed, excused, failed>>
pageVars == <<open, note, editor, body, timer>>
saveVars == <<saves, inFlight>>
selectVars == <<selected, phase, awaits>>
vars == <<stored, pastVars, pageVars, saveVars, selectVars, get>>

-------------------------------------------------------------------------------
Text == [note : Notes, n : 0..MaxEdits]
Ids == 1..MaxSaves
(* An "old" save was begun before the page was left: the refs it knows are  *)
(* not those of the page that is open now.                                 *)
Save == [id : Ids, at : {"waiting", "sent", "taken"}, on : 0..MaxSaves,
         note : Notes, text : Text, old : BOOLEAN]
InUse == {saves[i].id : i \in DOMAIN saves}
Free == {id \in Ids : id \notin InUse}
NewId == CHOOSE id \in Free : \A k \in Free : id <= k

TypeOK ==
    /\ stored \in [Notes -> Text]
    /\ edits \in 0..MaxEdits
    /\ typed \in [Notes -> 0..MaxEdits]
    /\ excused \in SUBSET Notes /\ failed \in BOOLEAN
    /\ open \in BOOLEAN
    /\ note \in Notes \cup {NoNote}
    /\ editor \in Text \cup {Blank} /\ body \in Text \cup {Blank}
    /\ timer \in BOOLEAN
    /\ saves \in Seq(Save) /\ Cardinality(InUse) = Len(saves)
    /\ \A i \in DOMAIN saves : saves[i].at = "waiting" => saves[i].on \in InUse
    /\ inFlight \in InUse \cup {0}
    /\ selected \in Notes \cup {NoNote}
    /\ phase \in {"done", "saving", "loading"}
    /\ awaits \in InUse \cup {0}
    /\ get \in [Notes -> Text \cup {Blank}]

(* The page is open and no note is. *)
Init ==
    /\ stored = [n \in Notes |-> [note |-> n, n |-> 0]]
    /\ edits = 0 /\ typed = [n \in Notes |-> 0]
    /\ excused = {} /\ failed = FALSE
    /\ open = TRUE
    /\ note = NoNote
    /\ editor = Blank /\ body = Blank
    /\ timer = FALSE
    /\ saves = <<>> /\ inFlight = 0
    /\ selected = NoNote /\ phase = "done" /\ awaits = 0
    /\ get = [n \in Notes |-> Blank]

-------------------------------------------------------------------------------
(* Mutated form of Begun: no save waits for another. *)
BegunAtOnce(text) ==
    [id |-> NewId, at |-> "sent", on |-> 0, note |-> note, text |-> text, old |-> FALSE]

(* persistNow for the open note with the text it has at the call; the save *)
(* goes behind the one that is in flight, if there is one.                 *)
Begun(text) ==
    [id |-> NewId, at |-> IF inFlight = 0 THEN "sent" ELSE "waiting", on |-> inFlight,
     note |-> note, text |-> text, old |-> FALSE]

(* Mutated form of PersistNow: nothing to do while a save is in flight. *)
PersistNowUnlessBusy ==
    /\ Free # {}
    /\ saves' = IF inFlight = 0 THEN Append(saves, Begun(editor)) ELSE saves
    /\ inFlight' = IF inFlight = 0 THEN NewId ELSE inFlight
    /\ timer' = FALSE
    /\ body' = editor

PersistNow ==
    /\ Free # {}
    /\ saves' = Append(saves, Begun(editor))
    /\ inFlight' = IF inFlight = 0 THEN NewId ELSE inFlight
    /\ timer' = FALSE
    /\ body' = editor

(* scheduleSave, for a change in the editor. *)
Edit ==
    /\ note # NoNote
    /\ edits < MaxEdits
    /\ edits' = edits + 1
    /\ typed' = [typed EXCEPT ![note] = edits']
    /\ editor' = [note |-> note, n |-> edits']
    /\ body' = editor'
    /\ timer' = TRUE
    /\ UNCHANGED <<stored, excused, failed, open, note, saveVars, selectVars, get>>

(* Without an open note persistNow does nothing. *)
SaveTimer ==
    /\ timer
    /\ IF note = NoNote
       THEN timer' = FALSE /\ UNCHANGED <<body, saveVars>>
       ELSE PersistNow
    /\ UNCHANGED <<stored, edits, typed, excused, failed, open, note, editor, selectVars, get>>

(* The editor loses focus, a colour or a mark is picked, a format applied, *)
(* or the tab is hidden.                                                   *)
SaveNow ==
    /\ note # NoNote
    /\ PersistNow
    /\ UNCHANGED <<stored, edits, typed, excused, failed, open, note, editor, selectVars, get>>

-------------------------------------------------------------------------------
(* A GET that is under way is shared; the server reads the note in the     *)
(* step that asks for it, so an answer is as old as it can be.             *)
AskFor(n) == get' = IF get[n] = Blank THEN [get EXCEPT ![n] = stored[n]] ELSE get

(* No note is open any more, and what the timer was to save is lost. *)
Shut(lost) ==
    /\ note' = NoNote
    /\ editor' = Blank
    /\ excused' = excused \cup lost \cup (IF timer THEN {note} \ {NoNote} ELSE {})

(* The effect that runs when the note of the address has changed to n: the *)
(* open note is saved before n is asked for.  The run before is cancelled. *)
SelectEffect(n) ==
    /\ selected' = n
    /\ IF note # NoNote
       THEN PersistNow /\ awaits' = NewId /\ phase' = "saving"
       ELSE /\ awaits' = 0
            /\ phase' = IF n = NoNote THEN "done" ELSE "loading"
            /\ UNCHANGED <<saveVars, timer, body>>
    /\ UNCHANGED <<stored, edits, typed, excused, failed, open, note, editor>>

Select(n) ==
    /\ open
    /\ n # selected
    /\ SelectEffect(n)
    /\ IF phase' = "loading" THEN AskFor(n) ELSE UNCHANGED get

(* The close button of the narrow layout: the note is gone before the      *)
(* effect and the timer look for it.                                       *)
Close ==
    /\ note # NoNote
    /\ Shut({})
    /\ selected' = NoNote /\ phase' = "done" /\ awaits' = 0
    /\ UNCHANGED <<stored, edits, typed, failed, open, body, timer, saveVars, get>>

(* The page is left: its cleanup saves once more.  The editor is gone by   *)
(* then, so the text is that of bodyHtmlRef.  Saves that were begun go on. *)
Leave ==
    /\ open
    /\ open' = FALSE
    /\ IF note = NoNote
       THEN saves' = [i \in DOMAIN saves |-> [saves[i] EXCEPT !.old = TRUE]]
       ELSE /\ Free # {}
            /\ LET all == Append(saves, Begun(body))
               IN  saves' = [i \in DOMAIN all |-> [all[i] EXCEPT !.old = TRUE]]
    /\ timer' = FALSE
    /\ inFlight' = 0
    /\ note' = NoNote /\ editor' = Blank /\ body' = Blank
    /\ selected' = NoNote /\ phase' = "done" /\ awaits' = 0
    /\ UNCHANGED <<stored, edits, typed, excused, failed, get>>

(* The page is opened again: its refs are new. *)
Enter ==
    /\ ~open
    /\ open' = TRUE
    /\ UNCHANGED <<stored, pastVars, note, editor, body, timer, saveVars, selectVars, get>>

-------------------------------------------------------------------------------
(* Requests that are under way at once reach the server in any order. *)
ServerTakes(id) ==
    /\ \E i \in DOMAIN saves :
          /\ saves[i].id = id /\ saves[i].at = "sent"
          /\ saves' = [saves EXCEPT ![i].at = "taken"]
          /\ stored' = [stored EXCEPT ![saves[i].note] = saves[i].text]
    /\ UNCHANGED <<pastVars, pageVars, inFlight, selectVars, get>>

(* The promise of save i is kept: its own call forgets what is in flight,  *)
(* whichever save that is, and the calls that wait for it send theirs, all *)
(* at once; the last of them is in flight.                                 *)
WaitFor(i) == {j \in DOMAIN saves : saves[j].at = "waiting" /\ saves[j].on = saves[i].id}

(* Mutated form of NextInFlight: a save that has ended stays in flight. *)
NextInFlightKept(i) ==
    IF WaitFor(i) = {} THEN saves[i].id
    ELSE saves[CHOOSE j \in WaitFor(i) : \A k \in WaitFor(i) : k <= j].id

NextInFlight(i) ==
    IF WaitFor(i) = {} THEN 0
    ELSE saves[CHOOSE j \in WaitFor(i) : \A k \in WaitFor(i) : k <= j].id

Ends(i, lost) ==
    /\ saves' = RemoveAt([j \in DOMAIN saves |->
                             IF j \in WaitFor(i) THEN [saves[j] EXCEPT !.at = "sent", !.on = 0]
                                                 ELSE saves[j]], i)
    /\ inFlight' = IF saves[i].old THEN inFlight ELSE NextInFlight(i)
    /\ IF awaits # saves[i].id
       THEN excused' = excused \cup lost /\ UNCHANGED <<note, editor, phase, awaits, get>>
       ELSE /\ awaits' = 0
            /\ IF selected = NoNote
               THEN Shut(lost) /\ phase' = "done" /\ UNCHANGED get
               ELSE /\ phase' = "loading" /\ AskFor(selected)
                    /\ excused' = excused \cup lost
                    /\ UNCHANGED <<note, editor>>
    /\ UNCHANGED <<stored, edits, typed, open, body, timer, selected>>

SaveEnds(id) ==
    /\ \E i \in DOMAIN saves : saves[i].id = id /\ saves[i].at = "taken" /\ Ends(i, {})
    /\ UNCHANGED failed

(* The request fails, before or after the server has taken the save.       *)
(* Bound: one save of a behaviour never reaches the server.                *)
SaveFails ==
    \E i \in DOMAIN saves :
        \/ /\ saves[i].at = "taken"
           /\ Ends(i, {})
           /\ UNCHANGED failed
        \/ /\ saves[i].at = "sent" /\ ~failed
           /\ failed' = TRUE
           /\ Ends(i, {saves[i].note})

(* The answer lacks a change that a save of this tab brings, or that the   *)
(* editor of the same note holds.                                          *)
TooOld(n) ==
    \/ get[n] # stored[n]
    \/ \E i \in DOMAIN saves : saves[i].note = n /\ saves[i].at # "taken"
    \/ note = n /\ get[n] # editor

(* Mutated form of Shown: the editor is filled only when it is created. *)
ShownFirst(n) == IF note # NoNote THEN editor ELSE get[n]

(* What the editor of note n shows: it is filled when its note changes. *)
Shown(n) == IF note = n THEN editor ELSE get[n]

(* The answer opens the note, unless another one has been selected since.  *)
(* The editor of a note that is open already keeps what it holds.          *)
GetArrives(n) ==
    /\ get[n] # Blank
    /\ get' = [get EXCEPT ![n] = Blank]
    /\ IF phase = "loading" /\ selected = n
       THEN /\ phase' = "done"
            /\ note' = n
            /\ editor' = Shown(n)
            /\ body' = get[n]
            /\ excused' = excused
                    \cup (IF timer THEN {note} \ {n, NoNote} ELSE {})
                    \cup (IF TooOld(n) THEN {n} ELSE {})
       ELSE UNCHANGED <<phase, note, editor, body, excused>>
    /\ UNCHANGED <<stored, edits, typed, failed, open, timer, saveVars, selected, awaits>>

(* The note cannot be loaded: the address is taken back. *)
GetFails(n) ==
    /\ get[n] # Blank
    /\ get' = [get EXCEPT ![n] = Blank]
    /\ IF phase = "loading" /\ selected = n
       THEN SelectEffect(NoNote)
       ELSE UNCHANGED <<stored, pastVars, pageVars, saveVars, selectVars>>

-------------------------------------------------------------------------------
UserStep ==
    \/ Edit \/ SaveNow \/ Close \/ Leave \/ Enter
    \/ \E n \in Notes \cup {NoNote} : Select(n)
TabStep ==
    \/ SaveTimer
    \/ \E id \in Ids : SaveEnds(id)
    \/ \E n \in Notes : GetArrives(n)
Fault == SaveFails \/ \E n \in Notes : GetFails(n)

Next == UserStep \/ TabStep \/ Fault \/ \E id \in Ids : ServerTakes(id)

Spec == Init /\ [][Next]_vars

-------------------------------------------------------------------------------
(* No note is ever given the text of another one, however notes are        *)
(* switched while their saves wait and are under way.                      *)
OwnNote == \A n \in Notes : stored[n].note = n

(* A change is never overwritten by an older text: persistInFlight keeps   *)
(* one save behind another, although the server may take requests that are *)
(* under way at once in any order.  (It does not keep three in order.)     *)
NewestStays ==
    [][\A n \in Notes : n \in excused' \/ stored'[n].n >= stored[n].n]_vars

(* Once no save is armed, waits or is under way, every note is stored with *)
(* its last change, also a note that is not open any more.                 *)
SettledIsSaved ==
    saves = <<>> /\ ~timer =>
        \A n \in Notes \ excused : stored[n].n = typed[n]
===============================================================================
