---------------------------- MODULE NoteEditorProofs ----------------------------
(***************************************************************************)
(* Proofs about NoteEditor, for any number of notes, changes and saves.    *)
(***************************************************************************)
EXTENDS NoteEditor, CommonLemmas

-------------------------------------------------------------------------------
(* The inductive invariant. *)

(* No two saves under way have one identity. *)
DistinctIds == \A i, j \in DOMAIN saves : saves[i].id = saves[j].id => i = j

(* TypeOK without the count of identities. *)
Shape ==
    /\ stored \in [Notes -> Text]
    /\ edits \in 0..MaxEdits
    /\ typed \in [Notes -> 0..MaxEdits]
    /\ excused \in SUBSET Notes /\ failed \in BOOLEAN
    /\ open \in BOOLEAN
    /\ note \in Notes \cup {NoNote}
    /\ editor \in Text \cup {Blank} /\ body \in Text \cup {Blank}
    /\ timer \in BOOLEAN
    /\ selected \in Notes \cup {NoNote}
    /\ phase \in {"done", "saving", "loading"}
    /\ get \in [Notes -> Text \cup {Blank}]

SavesShape == saves \in Seq(Save) /\ DistinctIds

(* What names a save that is under way names one that is there; a call     *)
(* waits for a save, and what is in flight was begun by this page, as was  *)
(* what waits for a save of this page.                                     *)
NamedSaves ==
    /\ \A i \in DOMAIN saves : saves[i].at = "waiting" => saves[i].on \in InUse
    /\ inFlight \in InUse \cup {0}
    /\ awaits \in InUse \cup {0}
    /\ \A i \in DOMAIN saves : saves[i].id = inFlight => ~saves[i].old
    /\ \A i, j \in DOMAIN saves :
          saves[i].at = "waiting" /\ saves[i].on = saves[j].id /\ saves[i].old => saves[j].old

(* The editor and bodyHtmlRef hold the text of the open note, a save the   *)
(* text of its note, an answer that of the note that was asked for.        *)
OpenText ==
    note # NoNote => /\ editor \in Text /\ editor.note = note
                     /\ body \in Text /\ body.note = note
SavedText == \A i \in DOMAIN saves : saves[i].text.note = saves[i].note
AskedText == \A n \in Notes : get[n] # Blank => get[n].note = n

TextInv == OpenText /\ SavedText /\ AskedText /\ OwnNote
NoteInv == Shape /\ SavesShape /\ NamedSaves /\ TextInv

-------------------------------------------------------------------------------
(* Sequences.                                                              *)

(* The saves after one was taken out: those that are left are the others. *)
LEMMA OtherSaves ==
    ASSUME NEW s \in Seq(Save), NEW p \in DOMAIN s,
           \A i, j \in DOMAIN s : s[i].id = s[j].id => i = j
    PROVE  LET t == RemoveAt(s, p) IN
           /\ t \in Seq(Save)
           /\ \A i, j \in DOMAIN t : t[i].id = t[j].id => i = j
           /\ \A i \in DOMAIN t : \E j \in DOMAIN s \ {p} : t[i] = s[j]
           /\ \A j \in DOMAIN s \ {p} : \E i \in DOMAIN t : t[i] = s[j]
<1> DEFINE t == RemoveAt(s, p)
<1>1. t \in Seq(Save) /\ \E place : KeptPlaces(s, p, t, place)
  BY RemovedPlaces
<1> HIDE DEF t
<1>2. PICK place : KeptPlaces(s, p, t, place)
  BY <1>1
<1>3. ASSUME NEW i \in DOMAIN t, NEW j \in DOMAIN t, t[i].id = t[j].id
      PROVE  i = j
  BY <1>2, <1>3 DEF KeptPlaces
<1>4. /\ \A i \in DOMAIN t : \E j \in DOMAIN s \ {p} : t[i] = s[j]
      /\ \A j \in DOMAIN s \ {p} : \E i \in DOMAIN t : t[i] = s[j]
  BY <1>2 DEF KeptPlaces
<1> QED
  BY <1>1, <1>3, <1>4 DEF t

(* The saves after one was begun. *)
LEMMA OneMoreSave ==
    ASSUME NEW s \in Seq(Save), NEW e \in Save,
           \A i, j \in DOMAIN s : s[i].id = s[j].id => i = j,
           \A i \in DOMAIN s : s[i].id # e.id
    PROVE  LET t == Append(s, e) IN
           /\ t \in Seq(Save)
           /\ \A i, j \in DOMAIN t : t[i].id = t[j].id => i = j
           /\ \A i \in DOMAIN t : t[i] = e \/ \E j \in DOMAIN s : t[i] = s[j]
           /\ \A j \in DOMAIN s : j \in DOMAIN t /\ t[j] = s[j]
           /\ \E i \in DOMAIN t : t[i] = e
<1> DEFINE t == Append(s, e)
<1>1. /\ t \in Seq(Save) /\ Len(t) = Len(s) + 1
      /\ \A i \in 1..Len(s) : t[i] = s[i]
      /\ t[Len(s) + 1] = e
  BY AppendProperties
<1>2. Len(s) \in Nat /\ DOMAIN s = 1..Len(s) /\ DOMAIN t = 1..(Len(s) + 1)
  BY <1>1, LenProperties
<1> HIDE DEF t
<1>3. \A i \in DOMAIN t : i \in DOMAIN s \/ i = Len(s) + 1
  BY <1>2
<1>4. ASSUME NEW i \in DOMAIN t, NEW j \in DOMAIN t, t[i].id = t[j].id
      PROVE  i = j
  <2>1. CASE i \in DOMAIN s /\ j \in DOMAIN s
    BY <1>1, <1>2, <1>4, <2>1
  <2>2. CASE i \in DOMAIN s /\ j = Len(s) + 1
    BY <1>1, <1>2, <1>4, <2>2
  <2>3. CASE i = Len(s) + 1 /\ j \in DOMAIN s
    BY <1>1, <1>2, <1>4, <2>3
  <2> QED
    BY <1>3, <2>1, <2>2, <2>3
<1>5. Len(s) + 1 \in DOMAIN t
  BY <1>2
<1> QED
  BY <1>1, <1>2, <1>3, <1>4, <1>5 DEF t

(* Distinct identities are as many as there are saves. *)
LEMMA AsManyIds ==
    ASSUME saves \in Seq(Save), DistinctIds
    PROVE  Cardinality(InUse) = Len(saves)
<1> DEFINE ids == [i \in 1..Len(saves) |-> saves[i].id]
<1>1. Len(saves) \in Nat /\ DOMAIN saves = 1..Len(saves)
  BY LenProperties
<1>2. ids \in Bijection(1..Len(saves), InUse)
  BY <1>1 DEF InUse, DistinctIds, Bijection, Injection, Surjection, IsInjective
<1>3. ExistsBijection(1..Len(saves), InUse)
  <2> HIDE DEF ids
  <2> QED
    BY <1>2 DEF ExistsBijection
<1> QED
  BY <1>1, <1>3, FS_CountingElements

-------------------------------------------------------------------------------
(* What the steps make of the saves.                                       *)

LEMMA UsedIds ==
    ASSUME SavesShape
    PROVE  InUse \subseteq Ids /\ 0 \notin InUse /\ \A i \in DOMAIN saves : saves[i] \in Save
<1>1. \A i \in DOMAIN saves : saves[i] \in Save
  BY DEF SavesShape
<1>2. \A i \in DOMAIN saves : saves[i].id \in Ids
  BY <1>1 DEF Save
<1> QED
  BY <1>1, <1>2 DEF InUse, Ids

LEMMA NewIdIsFree ==
    ASSUME SavesShape, Free # {}
    PROVE  NewId \in Ids /\ NewId \notin InUse
<1>1. Free \in SUBSET (1..MaxSaves)
  BY DEF Free, Ids
<1>2. \E id \in Free : \A k \in Free : id <= k
  BY <1>1, LeastMember, NoteAssumption
<1> QED
  BY <1>2 DEF NewId, Free

(* persistNow puts one save of the open note behind the others. *)
LEMMA BegunIsSave ==
    ASSUME SavesShape, NamedSaves, Free # {}, note \in Notes, NEW text \in Text
    PROVE  /\ Begun(text) \in Save /\ Begun(text).id = NewId
           /\ Begun(text).note = note /\ Begun(text).text = text /\ ~Begun(text).old
           /\ Begun(text).at = "waiting" => Begun(text).on = inFlight /\ inFlight # 0
<1>1. NewId \in Ids /\ inFlight \in 0..MaxSaves
  BY NewIdIsFree, UsedIds, NoteAssumption DEF NamedSaves, Ids
<1> QED
  BY <1>1 DEF Begun, Save

LEMMA MoreSaves ==
    ASSUME SavesShape, NamedSaves, SavedText, Free # {}, note \in Notes, NEW text \in Text,
           text.note = note
    PROVE  LET all == Append(saves, Begun(text)) IN
           /\ all \in Seq(Save)
           /\ \A i, j \in DOMAIN all : all[i].id = all[j].id => i = j
           /\ {all[i].id : i \in DOMAIN all} = InUse \cup {NewId}
           /\ \A i \in DOMAIN all : all[i].at = "waiting" => all[i].on \in InUse
           /\ \A i \in DOMAIN all : all[i].text.note = all[i].note
           /\ \A i \in DOMAIN all : all[i] = Begun(text) \/ \E j \in DOMAIN saves : all[i] = saves[j]
<1> DEFINE e == Begun(text)
           all == Append(saves, e)
<1>1. /\ e \in Save /\ e.id = NewId /\ e.note = note /\ e.text = text
      /\ e.at = "waiting" => e.on = inFlight /\ inFlight # 0
  BY BegunIsSave
<1> HIDE DEF e
<1>2. NewId \notin InUse
  BY NewIdIsFree
<1>3. \A i \in DOMAIN saves : saves[i].id # e.id
  BY <1>1, <1>2 DEF InUse
<1>4. /\ all \in Seq(Save)
      /\ \A i, j \in DOMAIN all : all[i].id = all[j].id => i = j
      /\ \A i \in DOMAIN all : all[i] = e \/ \E j \in DOMAIN saves : all[i] = saves[j]
      /\ \A j \in DOMAIN saves : j \in DOMAIN all /\ all[j] = saves[j]
      /\ \E i \in DOMAIN all : all[i] = e
  BY <1>1, <1>3, OneMoreSave DEF SavesShape, DistinctIds
<1> HIDE DEF all
<1>5. {all[i].id : i \in DOMAIN all} = InUse \cup {NewId}
  BY <1>1, <1>4 DEF InUse
<1>6. \A i \in DOMAIN all : all[i].at = "waiting" => all[i].on \in InUse
  BY <1>1, <1>4 DEF NamedSaves
<1>7. \A i \in DOMAIN all : all[i].text.note = all[i].note
  BY <1>1, <1>4 DEF SavedText
<1> QED
  BY <1>4, <1>5, <1>6, <1>7 DEF e, all

LEMMA PersistNowSaves ==
    ASSUME Shape, SavesShape, NamedSaves, TextInv, note # NoNote, PersistNow,
           awaits' \in {awaits, 0, NewId}
    PROVE  SavesShape' /\ NamedSaves' /\ SavedText' /\ timer' = FALSE /\ body' = editor
<1>1. note \in Notes /\ editor \in Text /\ editor.note = note /\ Free # {}
  BY DEF Shape, TextInv, OpenText, PersistNow
<1>2. saves' = Append(saves, Begun(editor))
  BY DEF PersistNow
<1>3. /\ saves' \in Seq(Save)
      /\ \A i, j \in DOMAIN saves' : saves'[i].id = saves'[j].id => i = j
      /\ {saves'[i].id : i \in DOMAIN saves'} = InUse \cup {NewId}
      /\ \A i \in DOMAIN saves' : saves'[i].at = "waiting" => saves'[i].on \in InUse
      /\ \A i \in DOMAIN saves' : saves'[i].text.note = saves'[i].note
      /\ \A i \in DOMAIN saves' : saves'[i] = Begun(editor) \/ \E j \in DOMAIN saves : saves'[i] = saves[j]
  BY <1>1, <1>2, MoreSaves DEF TextInv
<1>4. InUse' = InUse \cup {NewId}
  BY <1>3 DEF InUse
<1>5. inFlight' \in InUse' \cup {0} /\ awaits' \in InUse' \cup {0}
  BY <1>4 DEF PersistNow, NamedSaves
<1>6. \A i \in DOMAIN saves' : saves'[i].id = inFlight' => ~saves'[i].old
  <2> SUFFICES ASSUME NEW i \in DOMAIN saves', saves'[i].id = inFlight'
               PROVE  ~saves'[i].old
    OBVIOUS
  <2>1. Begun(editor).id = NewId /\ ~Begun(editor).old
    BY <1>1, BegunIsSave
  <2>2. NewId \notin InUse
    BY <1>1, NewIdIsFree
  <2>3. ASSUME NEW j \in DOMAIN saves, saves'[i] = saves[j]
        PROVE  ~saves'[i].old
    <3>1. saves[j].id \in InUse
      BY DEF InUse
    <3>2. inFlight' = inFlight
      BY <2>2, <2>3, <3>1 DEF PersistNow
    <3> QED
      BY <2>3, <3>2 DEF NamedSaves
  <2> QED
    BY <1>3, <2>1, <2>3
<1>7. ASSUME NEW i \in DOMAIN saves', NEW j \in DOMAIN saves',
             saves'[i].at = "waiting", saves'[i].on = saves'[j].id, saves'[i].old
      PROVE  saves'[j].old
  <2>1. Begun(editor).id = NewId /\ ~Begun(editor).old /\ NewId \notin InUse
    BY <1>1, BegunIsSave, NewIdIsFree
  <2>2. saves'[j] # Begun(editor)
    BY <1>3, <1>7, <2>1
  <2> QED
    BY <1>3, <1>7, <2>1, <2>2 DEF NamedSaves
<1> QED
  BY <1>3, <1>4, <1>5, <1>6, <1>7 DEF SavesShape, DistinctIds, NamedSaves, SavedText, PersistNow

(* The page is left: the saves go on without it. *)
LEMMA LeaveSaves ==
    ASSUME Shape, SavesShape, NamedSaves, TextInv, Leave
    PROVE  SavesShape' /\ NamedSaves' /\ SavedText'
<1> DEFINE Kept(all) ==
        /\ all \in Seq(Save)
        /\ \A i, j \in DOMAIN all : all[i].id = all[j].id => i = j
        /\ \A i \in DOMAIN all : all[i].at = "waiting" => \E j \in DOMAIN all : all[i].on = all[j].id
        /\ \A i \in DOMAIN all : all[i].text.note = all[i].note
        /\ saves' = [i \in DOMAIN all |-> [all[i] EXCEPT !.old = TRUE]]
<1>1. \E all : Kept(all)
  <2>1. CASE note = NoNote
    <3>1. \A i \in DOMAIN saves : saves[i].at = "waiting" => \E j \in DOMAIN saves : saves[i].on = saves[j].id
      BY DEF NamedSaves, InUse
    <3>2. saves' = [i \in DOMAIN saves |-> [saves[i] EXCEPT !.old = TRUE]]
      BY <2>1 DEF Leave
    <3>3. Kept(saves)
      BY <3>1, <3>2 DEF SavesShape, DistinctIds, TextInv, SavedText
    <3> QED
      BY <3>3
  <2>2. CASE note # NoNote
    <3> DEFINE all == Append(saves, Begun(body))
    <3>1. Free # {} /\ note \in Notes /\ body \in Text /\ body.note = note
      BY <2>2 DEF Leave, Shape, TextInv, OpenText
    <3>2. /\ all \in Seq(Save)
          /\ \A i, j \in DOMAIN all : all[i].id = all[j].id => i = j
          /\ {all[i].id : i \in DOMAIN all} = InUse \cup {NewId}
          /\ \A i \in DOMAIN all : all[i].at = "waiting" => all[i].on \in InUse
          /\ \A i \in DOMAIN all : all[i].text.note = all[i].note
      BY <3>1, MoreSaves DEF TextInv
    <3>3. saves' = [i \in DOMAIN all |-> [all[i] EXCEPT !.old = TRUE]]
      BY <2>2 DEF Leave
    <3> HIDE DEF all
    <3>4. \A i \in DOMAIN all : all[i].at = "waiting" => \E j \in DOMAIN all : all[i].on = all[j].id
      BY <3>2
    <3>5. Kept(all)
      BY <3>2, <3>3, <3>4
    <3> QED
      BY <3>5
  <2> QED
    BY <2>1, <2>2
<1>2. PICK all : Kept(all)
  BY <1>1
<1>3. \A i \in DOMAIN all : all[i] \in Save
  BY <1>2
<1>4. /\ DOMAIN saves' = DOMAIN all
      /\ \A i \in DOMAIN all : /\ saves'[i] \in Save
                               /\ saves'[i].id = all[i].id /\ saves'[i].at = all[i].at
                               /\ saves'[i].on = all[i].on /\ saves'[i].note = all[i].note
                               /\ saves'[i].text = all[i].text /\ saves'[i].old
  BY <1>2, <1>3 DEF Save
<1>5. saves' \in Seq(Save)
  <2>1. Len(all) \in Nat /\ DOMAIN all = 1..Len(all)
    BY <1>2, LenProperties
  <2>2. saves' \in [1..Len(all) -> Save]
    BY <1>2, <1>4, <2>1
  <2> QED
    BY <2>1, <2>2
<1>6. \A i \in DOMAIN saves' : saves'[i].at = "waiting" => saves'[i].on \in InUse'
  BY <1>2, <1>4 DEF InUse
<1>7. inFlight' = 0 /\ awaits' = 0
  BY DEF Leave
<1>8. \A i \in DOMAIN saves' : saves'[i].id # 0
  BY <1>4 DEF Save, Ids
<1> QED
  BY <1>2, <1>4, <1>5, <1>6, <1>7, <1>8 DEF SavesShape, DistinctIds, NamedSaves, SavedText

(* The server takes a save. *)
LEMMA TakenSaves ==
    ASSUME Shape, SavesShape, NamedSaves, TextInv, NEW id \in Ids, ServerTakes(id)
    PROVE  SavesShape' /\ NamedSaves' /\ SavedText' /\ OwnNote' /\ stored' \in [Notes -> Text]
<1>1. PICK i \in DOMAIN saves : /\ saves[i].at = "sent"
                                /\ saves' = [saves EXCEPT ![i].at = "taken"]
                                /\ stored' = [stored EXCEPT ![saves[i].note] = saves[i].text]
  BY DEF ServerTakes
<1>2. Len(saves) \in Nat /\ DOMAIN saves = 1..Len(saves) /\ \A j \in DOMAIN saves : saves[j] \in Save
  BY LenProperties, UsedIds DEF SavesShape
<1>3. /\ DOMAIN saves' = DOMAIN saves
      /\ \A j \in DOMAIN saves : /\ saves'[j] \in Save
                                 /\ saves'[j].id = saves[j].id /\ saves'[j].on = saves[j].on
                                 /\ saves'[j].old = saves[j].old
                                 /\ saves'[j].note = saves[j].note /\ saves'[j].text = saves[j].text
                                 /\ saves'[j].at = "waiting" => saves[j].at = "waiting"
  <2>1. saves' = [saves EXCEPT ![i] = [saves[i] EXCEPT !.at = "taken"]]
    BY <1>1
  <2>2. [saves[i] EXCEPT !.at = "taken"] \in Save
    BY <1>2 DEF Save
  <2>3. ASSUME NEW j \in DOMAIN saves, j # i
        PROVE  saves'[j] = saves[j]
    BY <2>1, <2>3
  <2>4. saves'[i] = [saves[i] EXCEPT !.at = "taken"]
    BY <2>1, <1>2
  <2>5. /\ saves'[i].id = saves[i].id /\ saves'[i].on = saves[i].on /\ saves'[i].old = saves[i].old
        /\ saves'[i].note = saves[i].note /\ saves'[i].text = saves[i].text /\ saves'[i].at = "taken"
    BY <1>2, <2>4 DEF Save
  <2>6. DOMAIN saves' = DOMAIN saves
    BY <2>1
  <2> QED
    BY <1>2, <2>2, <2>3, <2>4, <2>5, <2>6
<1>4. saves' \in Seq(Save)
  <2>1. saves' \in [1..Len(saves) -> Save]
    BY <1>1, <1>2, <1>3
  <2> QED
    BY <1>2, <2>1
<1>5. InUse' = InUse
  BY <1>3 DEF InUse
<1>6. SavesShape' /\ SavedText'
  BY <1>3, <1>4 DEF SavesShape, DistinctIds, TextInv, SavedText
<1>7. NamedSaves'
  <2>1. UNCHANGED <<inFlight, awaits>>
    BY DEF ServerTakes, selectVars
  <2> QED
    BY <1>3, <1>5, <2>1 DEF NamedSaves
<1>8. saves[i].note \in Notes /\ saves[i].text \in Text /\ saves[i].text.note = saves[i].note
  BY <1>2 DEF Save, TextInv, SavedText
<1>9. OwnNote' /\ stored' \in [Notes -> Text]
  BY <1>1, <1>8 DEF OwnNote, TextInv, Shape
<1> QED
  BY <1>6, <1>7, <1>9

(* A save ends: the calls that wait for it are sent. *)
LEMMA EndedSaves ==
    ASSUME SavesShape, NamedSaves, SavedText, NEW p \in DOMAIN saves, NEW lost, Ends(p, lost),
           saves[p].at # "waiting"
    PROVE  SavesShape' /\ NamedSaves' /\ SavedText'
<1> DEFINE all == [j \in DOMAIN saves |->
                      IF j \in WaitFor(p) THEN [saves[j] EXCEPT !.at = "sent", !.on = 0] ELSE saves[j]]
<1>1. Len(saves) \in Nat /\ DOMAIN saves = 1..Len(saves) /\ \A j \in DOMAIN saves : saves[j] \in Save
  BY LenProperties, UsedIds DEF SavesShape
<1>2. ASSUME NEW j \in DOMAIN saves
      PROVE  /\ all[j] \in Save
             /\ all[j].id = saves[j].id /\ all[j].old = saves[j].old
             /\ all[j].note = saves[j].note /\ all[j].text = saves[j].text
             /\ all[j].at = "waiting" => /\ saves[j].at = "waiting" /\ all[j].on = saves[j].on
                                         /\ saves[j].on # saves[p].id
  <2>1. CASE j \in WaitFor(p)
    <3>1. 0 \in 0..MaxSaves
      BY NoteAssumption
    <3>2. all[j] = [saves[j] EXCEPT !.at = "sent", !.on = 0]
      BY <2>1
    <3> HIDE DEF all
    <3> QED
      BY <1>1, <3>1, <3>2 DEF Save
  <2>2. CASE j \notin WaitFor(p)
    <3>1. all[j] = saves[j]
      BY <2>2
    <3>2. saves[j].at = "waiting" => saves[j].on # saves[p].id
      BY <2>2 DEF WaitFor
    <3> HIDE DEF all
    <3> QED
      BY <1>1, <3>1, <3>2
  <2> QED
    BY <2>1, <2>2
<1>3. DOMAIN all = DOMAIN saves /\ saves' = RemoveAt(all, p)
  BY DEF Ends
<1> HIDE DEF all
<1>4. all \in Seq(Save)
  <2>1. all \in [1..Len(saves) -> Save]
    <3>1. all = [j \in 1..Len(saves) |-> all[j]]
      BY <1>1 DEF all
    <3> QED
      BY <1>1, <1>2, <3>1
  <2> QED
    BY <1>1, <2>1
<1>5. \A i, j \in DOMAIN all : all[i].id = all[j].id => i = j
  BY <1>2, <1>3 DEF SavesShape, DistinctIds
<1>6. /\ saves' \in Seq(Save)
      /\ \A i, j \in DOMAIN saves' : saves'[i].id = saves'[j].id => i = j
      /\ \A i \in DOMAIN saves' : \E j \in DOMAIN saves \ {p} : saves'[i] = all[j]
      /\ \A j \in DOMAIN saves \ {p} : \E i \in DOMAIN saves' : saves'[i] = all[j]
  <2> DEFINE t == RemoveAt(all, p)
  <2>1. /\ t \in Seq(Save)
        /\ \A i, j \in DOMAIN t : t[i].id = t[j].id => i = j
        /\ \A i \in DOMAIN t : \E j \in DOMAIN all \ {p} : t[i] = all[j]
        /\ \A j \in DOMAIN all \ {p} : \E i \in DOMAIN t : t[i] = all[j]
    BY <1>3, <1>4, <1>5, OtherSaves
  <2> HIDE DEF t
  <2>2. saves' = t
    BY <1>3 DEF t
  <2> QED
    BY <1>3, <2>1, <2>2
<1>7. ASSUME NEW j \in DOMAIN saves, saves[j].id # saves[p].id
      PROVE  saves[j].id \in InUse'
  BY <1>2, <1>6, <1>7 DEF InUse
<1>8. \A id \in InUse : id # saves[p].id => id \in InUse'
  BY <1>7 DEF InUse
<1>9. SavesShape' /\ SavedText'
  BY <1>2, <1>6 DEF SavesShape, DistinctIds, SavedText
<1>10. \A i \in DOMAIN saves' : saves'[i].at = "waiting" => saves'[i].on \in InUse'
  BY <1>2, <1>6, <1>8 DEF NamedSaves
<1>11. awaits' \in InUse' \cup {0}
  BY <1>8 DEF Ends, NamedSaves
<1>12. ASSUME NEW i \in DOMAIN saves', NEW j \in DOMAIN saves',
              saves'[i].at = "waiting", saves'[i].on = saves'[j].id, saves'[i].old
       PROVE  saves'[j].old
  BY <1>2, <1>6, <1>12 DEF NamedSaves
<1>13. inFlight' \in InUse' \cup {0} /\ \A i \in DOMAIN saves' : saves'[i].id = inFlight' => ~saves'[i].old
  <2>1. CASE saves[p].old
    <3>1. inFlight' = inFlight /\ inFlight # saves[p].id
      BY <2>1 DEF Ends, NamedSaves
    <3> QED
      BY <1>2, <1>6, <1>8, <3>1 DEF NamedSaves
  <2>2. CASE ~saves[p].old /\ WaitFor(p) = {}
    <3>1. inFlight' = 0
      BY <2>2 DEF Ends, NextInFlight
    <3>2. \A i \in DOMAIN saves' : saves'[i].id # 0
      <4>1. \A j \in DOMAIN saves : all[j].id \in Ids
        BY <1>2 DEF Save
      <4> QED
        BY <1>6, <4>1, NoteAssumption DEF Ids
    <3> QED
      BY <3>1, <3>2
  <2>3. CASE ~saves[p].old /\ WaitFor(p) # {}
    <3> DEFINE k == CHOOSE j \in WaitFor(p) : \A h \in WaitFor(p) : h <= j
    <3>1. WaitFor(p) \in SUBSET (1..Len(saves))
      BY <1>1 DEF WaitFor
    <3>2. k \in WaitFor(p)
      BY <1>1, <2>3, <3>1, GreatestMember
    <3>3. inFlight' = saves[k].id
      BY <2>3 DEF Ends, NextInFlight
    <3> HIDE DEF k
    <3>4. k \in DOMAIN saves /\ saves[k].at = "waiting" /\ saves[k].on = saves[p].id
      BY <3>2 DEF WaitFor
    <3>5. ~saves[k].old /\ saves[k].id # saves[p].id
      BY <2>3, <3>4 DEF NamedSaves, SavesShape, DistinctIds
    <3>6. saves[k].id \in InUse'
      BY <1>7, <3>4, <3>5
    <3>7. \A i \in DOMAIN saves' : saves'[i].id = inFlight' => ~saves'[i].old
      BY <1>2, <1>6, <3>3, <3>4, <3>5 DEF SavesShape, DistinctIds
    <3> QED
      BY <3>3, <3>6, <3>7
  <2> QED
    BY <2>1, <2>2, <2>3
<1> QED
  BY <1>9, <1>10, <1>11, <1>12, <1>13 DEF NamedSaves

LEMMA SameSaves ==
    ASSUME SavesShape, NamedSaves, SavedText, UNCHANGED <<saves, inFlight>>, awaits' \in {0, awaits}
    PROVE  SavesShape' /\ NamedSaves' /\ SavedText'
BY DEF SavesShape, DistinctIds, NamedSaves, SavedText, InUse

-------------------------------------------------------------------------------
(* Every step keeps the invariant.                                         *)

(* The note is asked for: the answer is the row's text. *)
LEMMA AskedIsOwn ==
    ASSUME Shape, AskedText, OwnNote, NEW n \in Notes, AskFor(n)
    PROVE  AskedText' /\ get' \in [Notes -> Text \cup {Blank}]
BY DEF Shape, AskedText, OwnNote, AskFor

LEMMA EditStep ==
    ASSUME NoteInv, Edit
    PROVE  NoteInv'
<1> USE DEF NoteInv
<1>1. note \in Notes /\ edits + 1 \in 0..MaxEdits
  BY NoteAssumption DEF Edit, Shape
<1>2. [note |-> note, n |-> edits + 1] \in Text
  BY <1>1 DEF Text
<1>3. Shape'
  BY <1>1, <1>2 DEF Edit, Shape, selectVars
<1>4. SavesShape' /\ NamedSaves' /\ SavedText'
  BY SameSaves DEF Edit, saveVars, selectVars, TextInv
<1>5. OpenText'
  BY <1>2 DEF Edit, OpenText
<1>6. AskedText' /\ OwnNote'
  BY DEF Edit, TextInv, AskedText, OwnNote
<1> QED
  BY <1>3, <1>4, <1>5, <1>6 DEF TextInv

(* A save of the open note begins; the page stays where it is. *)
LEMMA PersistStep ==
    ASSUME NoteInv, note # NoNote, PersistNow, awaits' \in {awaits, 0, NewId},
           phase' \in {"done", "saving", "loading"}, selected' \in Notes \cup {NoNote},
           UNCHANGED <<stored, edits, typed, excused, failed, open, note, editor>>,
           AskedText', get' \in [Notes -> Text \cup {Blank}]
    PROVE  NoteInv'
<1> USE DEF NoteInv
<1>1. SavesShape' /\ NamedSaves' /\ SavedText' /\ timer' = FALSE /\ body' = editor
  BY PersistNowSaves
<1>2. Shape'
  BY <1>1 DEF Shape
<1>3. OpenText' /\ OwnNote'
  BY <1>1 DEF TextInv, OpenText, OwnNote
<1> QED
  BY <1>1, <1>2, <1>3 DEF TextInv

(* A step of the page that begins no save and changes no text. *)
LEMMA QuietStep ==
    ASSUME NoteInv, UNCHANGED <<stored, edits, typed, failed, saves, inFlight, body, editor, note>>,
           excused' \in SUBSET Notes, open' \in BOOLEAN, timer' \in BOOLEAN,
           awaits' \in {awaits, 0},
           phase' \in {"done", "saving", "loading"}, selected' \in Notes \cup {NoNote},
           AskedText', get' \in [Notes -> Text \cup {Blank}]
    PROVE  NoteInv'
<1> USE DEF NoteInv
<1>1. SavesShape' /\ NamedSaves' /\ SavedText'
  BY SameSaves DEF TextInv
<1>2. Shape'
  BY DEF Shape
<1>3. OpenText' /\ OwnNote'
  BY DEF TextInv, OpenText, OwnNote
<1> QED
  BY <1>1, <1>2, <1>3 DEF TextInv

LEMMA SameGet ==
    ASSUME NoteInv, UNCHANGED get
    PROVE  AskedText' /\ get' \in [Notes -> Text \cup {Blank}]
BY DEF NoteInv, TextInv, AskedText, Shape

LEMMA SaveTimerStep ==
    ASSUME NoteInv, SaveTimer
    PROVE  NoteInv'
<1>1. AskedText' /\ get' \in [Notes -> Text \cup {Blank}]
  BY SameGet DEF SaveTimer
<1>2. /\ UNCHANGED <<stored, edits, typed, excused, failed, open, note, editor>>
      /\ UNCHANGED <<selected, phase, awaits>>
  BY DEF SaveTimer, selectVars
<1>3. /\ phase \in {"done", "saving", "loading"} /\ selected \in Notes \cup {NoNote}
      /\ excused \in SUBSET Notes /\ open \in BOOLEAN
  BY DEF NoteInv, Shape
<1>4. CASE note = NoNote
  BY <1>1, <1>2, <1>3, <1>4, QuietStep DEF SaveTimer, saveVars
<1>5. CASE note # NoNote
  BY <1>1, <1>2, <1>3, <1>5, PersistStep DEF SaveTimer
<1> QED
  BY <1>4, <1>5

LEMMA SaveNowStep ==
    ASSUME NoteInv, SaveNow
    PROVE  NoteInv'
<1>1. AskedText' /\ get' \in [Notes -> Text \cup {Blank}]
  BY SameGet DEF SaveNow
<1>2. /\ UNCHANGED <<stored, edits, typed, excused, failed, open, note, editor>>
      /\ UNCHANGED <<selected, phase, awaits>> /\ note # NoNote /\ PersistNow
  BY DEF SaveNow, selectVars
<1>3. phase \in {"done", "saving", "loading"} /\ selected \in Notes \cup {NoNote}
  BY DEF NoteInv, Shape
<1> QED
  BY <1>1, <1>2, <1>3, PersistStep

(* The select effect, for a note that was chosen or after a failed GET. *)
LEMMA EffectStep ==
    ASSUME NoteInv, NEW n \in Notes \cup {NoNote}, SelectEffect(n),
           AskedText', get' \in [Notes -> Text \cup {Blank}]
    PROVE  NoteInv'
<1>1. /\ UNCHANGED <<stored, edits, typed, excused, failed, open, note, editor>>
      /\ selected' \in Notes \cup {NoNote}
  BY DEF SelectEffect
<1>2. excused \in SUBSET Notes /\ open \in BOOLEAN /\ timer \in BOOLEAN
  BY DEF NoteInv, Shape
<1>3. CASE note # NoNote
  BY <1>1, <1>3, PersistStep DEF SelectEffect
<1>4. CASE note = NoNote
  BY <1>1, <1>2, <1>4, QuietStep DEF SelectEffect, saveVars
<1> QED
  BY <1>3, <1>4

LEMMA SelectStep ==
    ASSUME NoteInv, NEW n \in Notes \cup {NoNote}, Select(n)
    PROVE  NoteInv'
<1>1. AskedText' /\ get' \in [Notes -> Text \cup {Blank}]
  <2>1. CASE phase' = "loading"
    <3>1. n \in Notes
      BY <2>1 DEF Select, SelectEffect
    <3> QED
      BY <2>1, <3>1, AskedIsOwn DEF Select, NoteInv, TextInv
  <2>2. CASE phase' # "loading"
    BY <2>2, SameGet DEF Select
  <2> QED
    BY <2>1, <2>2
<1> QED
  BY <1>1, EffectStep DEF Select

(* The open note is given up. *)
LEMMA ShutStep ==
    ASSUME NoteInv, NEW lost \in SUBSET Notes, Shut(lost),
           UNCHANGED <<stored, edits, typed, open, body, timer>>,
           failed' \in BOOLEAN, phase' \in {"done", "saving", "loading"},
           selected' \in Notes \cup {NoNote},
           SavesShape', NamedSaves', SavedText', AskedText', get' \in [Notes -> Text \cup {Blank}]
    PROVE  NoteInv'
<1> USE DEF NoteInv
<1>1. excused' \in SUBSET Notes
  BY DEF Shut, Shape
<1>2. Shape'
  BY <1>1 DEF Shut, Shape
<1>3. OpenText' /\ OwnNote'
  BY DEF Shut, TextInv, OpenText, OwnNote
<1> QED
  BY <1>2, <1>3 DEF TextInv

LEMMA CloseStep ==
    ASSUME NoteInv, Close
    PROVE  NoteInv'
<1>1. AskedText' /\ get' \in [Notes -> Text \cup {Blank}]
  BY SameGet DEF Close
<1>2. SavesShape' /\ NamedSaves' /\ SavedText'
  BY SameSaves DEF Close, saveVars, NoteInv, TextInv
<1>3. /\ UNCHANGED <<stored, edits, typed, open, body, timer>>
      /\ failed' \in BOOLEAN /\ phase' = "done" /\ selected' = NoNote /\ Shut({})
  BY DEF Close, NoteInv, Shape
<1> QED
  BY <1>1, <1>2, <1>3, ShutStep

LEMMA LeaveStep ==
    ASSUME NoteInv, Leave
    PROVE  NoteInv'
<1> USE DEF NoteInv
<1>1. SavesShape' /\ NamedSaves' /\ SavedText'
  BY LeaveSaves
<1>2. Shape'
  BY DEF Leave, Shape
<1>3. OpenText' /\ AskedText' /\ OwnNote'
  BY DEF Leave, TextInv, OpenText, AskedText, OwnNote
<1> QED
  BY <1>1, <1>2, <1>3 DEF TextInv

LEMMA EnterStep ==
    ASSUME NoteInv, Enter
    PROVE  NoteInv'
<1>1. AskedText' /\ get' \in [Notes -> Text \cup {Blank}]
  BY SameGet DEF Enter
<1>2. /\ UNCHANGED <<stored, edits, typed, excused, failed, saves, inFlight, body, editor, note>>
      /\ UNCHANGED <<selected, phase, awaits, timer>> /\ open' = TRUE
  BY DEF Enter, pastVars, saveVars, selectVars
<1>3. /\ phase \in {"done", "saving", "loading"} /\ selected \in Notes \cup {NoNote}
      /\ excused \in SUBSET Notes /\ timer \in BOOLEAN
  BY DEF NoteInv, Shape
<1> QED
  BY <1>1, <1>2, <1>3, QuietStep

LEMMA TakeStep ==
    ASSUME NoteInv, NEW id \in Ids, ServerTakes(id)
    PROVE  NoteInv'
<1> USE DEF NoteInv
<1>1. SavesShape' /\ NamedSaves' /\ SavedText' /\ OwnNote' /\ stored' \in [Notes -> Text]
  BY TakenSaves
<1>2. Shape'
  BY <1>1 DEF Shape, ServerTakes, pastVars, pageVars, selectVars
<1>3. OpenText' /\ AskedText'
  BY DEF ServerTakes, pageVars, TextInv, OpenText, AskedText
<1> QED
  BY <1>1, <1>2, <1>3 DEF TextInv

LEMMA EndStep ==
    ASSUME NoteInv, NEW p \in DOMAIN saves, saves[p].at # "waiting", NEW lost \in SUBSET Notes,
           Ends(p, lost), failed' \in BOOLEAN
    PROVE  NoteInv'
<1> USE DEF NoteInv
<1>1. SavesShape' /\ NamedSaves' /\ SavedText'
  BY EndedSaves DEF TextInv
<1>2. UNCHANGED <<stored, edits, typed, open, body, timer, selected>>
  BY DEF Ends
<1>3. ASSUME UNCHANGED <<note, editor>>, excused' = excused \cup lost,
             phase' \in {"done", "saving", "loading"},
             AskedText', get' \in [Notes -> Text \cup {Blank}]
      PROVE  NoteInv'
  <2>1. Shape'
    BY <1>2, <1>3 DEF Shape
  <2>2. OpenText' /\ OwnNote'
    BY <1>2, <1>3 DEF TextInv, OpenText, OwnNote
  <2> QED
    BY <1>1, <1>3, <2>1, <2>2 DEF TextInv
<1>4. CASE awaits # saves[p].id
  <2>1. excused' = excused \cup lost /\ UNCHANGED <<note, editor, phase, get>>
    BY <1>4 DEF Ends
  <2>2. phase' \in {"done", "saving", "loading"}
    BY <2>1 DEF Shape
  <2> QED
    BY <1>3, <2>1, <2>2, SameGet
<1>5. CASE awaits = saves[p].id /\ selected = NoNote
  <2>1. Shut(lost) /\ phase' = "done" /\ UNCHANGED get
    BY <1>5 DEF Ends
  <2>2. AskedText' /\ get' \in [Notes -> Text \cup {Blank}]
    BY <2>1, SameGet
  <2>3. selected' \in Notes \cup {NoNote}
    BY <1>2 DEF Shape
  <2> QED
    BY <1>1, <1>2, <2>1, <2>2, <2>3, ShutStep
<1>6. CASE awaits = saves[p].id /\ selected # NoNote
  <2>1. /\ phase' = "loading" /\ AskFor(selected) /\ excused' = excused \cup lost
        /\ UNCHANGED <<note, editor>>
    BY <1>6 DEF Ends
  <2>2. selected \in Notes
    BY <1>6 DEF Shape
  <2>3. AskedText' /\ get' \in [Notes -> Text \cup {Blank}]
    BY <2>1, <2>2, AskedIsOwn DEF TextInv
  <2> QED
    BY <1>3, <2>1, <2>3
<1> QED
  BY <1>4, <1>5, <1>6

LEMMA EndSteps ==
    ASSUME NoteInv, SaveFails \/ \E id \in Ids : SaveEnds(id)
    PROVE  NoteInv'
<1>1. failed \in BOOLEAN /\ \A i \in DOMAIN saves : {} \in SUBSET Notes /\ {saves[i].note} \in SUBSET Notes
  <2>1. \A i \in DOMAIN saves : saves[i] \in Save
    BY UsedIds DEF NoteInv
  <2> QED
    BY <2>1 DEF NoteInv, Shape, Save
<1>2. ASSUME NEW id \in Ids, SaveEnds(id)
      PROVE  NoteInv'
  <2>1. PICK i \in DOMAIN saves : saves[i].at = "taken" /\ Ends(i, {})
    BY <1>2 DEF SaveEnds
  <2>2. failed' \in BOOLEAN
    BY <1>1, <1>2 DEF SaveEnds
  <2> QED
    BY <2>1, <2>2, EndStep
<1>3. CASE SaveFails
  <2>1. PICK i \in DOMAIN saves : \/ /\ saves[i].at = "taken" /\ Ends(i, {})
                                     /\ UNCHANGED failed
                                  \/ /\ saves[i].at = "sent" /\ failed' = TRUE
                                     /\ Ends(i, {saves[i].note})
    BY <1>3 DEF SaveFails
  <2>2. CASE saves[i].at = "taken" /\ Ends(i, {}) /\ UNCHANGED failed
    BY <1>1, <2>2, EndStep
  <2>3. CASE saves[i].at = "sent" /\ Ends(i, {saves[i].note}) /\ failed' = TRUE
    BY <1>1, <2>3, EndStep
  <2> QED
    BY <2>1, <2>2, <2>3
<1> QED
  BY <1>2, <1>3

(* An answer that came is gone from those under way. *)
LEMMA AnsweredGet ==
    ASSUME NoteInv, NEW n \in Notes, get' = [get EXCEPT ![n] = Blank]
    PROVE  AskedText' /\ get' \in [Notes -> Text \cup {Blank}]
BY DEF NoteInv, TextInv, AskedText, Shape

LEMMA GetArrivesStep ==
    ASSUME NoteInv, NEW n \in Notes, GetArrives(n)
    PROVE  NoteInv'
<1> USE DEF NoteInv
<1>1. AskedText' /\ get' \in [Notes -> Text \cup {Blank}]
  BY AnsweredGet DEF GetArrives
<1>2. UNCHANGED <<stored, edits, typed, failed, open, timer, saves, inFlight, selected, awaits>>
  BY DEF GetArrives, saveVars
<1>3. SavesShape' /\ NamedSaves' /\ SavedText'
  BY <1>2, SameSaves DEF TextInv
<1>4. CASE phase = "loading" /\ selected = n
  <2>1. get[n] \in Text /\ get[n].note = n
    BY DEF GetArrives, Shape, TextInv, AskedText
  <2>2. /\ phase' = "done" /\ note' = n /\ editor' = Shown(n) /\ body' = get[n]
        /\ excused' = excused \cup (IF timer THEN {note} \ {n, NoNote} ELSE {})
                              \cup (IF TooOld(n) THEN {n} ELSE {})
    BY <1>4 DEF GetArrives
  <2>3. editor' \in Text /\ editor'.note = n
    <3>1. CASE note = n
      BY <2>2, <3>1, NoteAssumption DEF Shown, TextInv, OpenText
    <3>2. CASE note # n
      BY <2>1, <2>2, <3>2 DEF Shown
    <3> QED
      BY <3>1, <3>2
  <2>4. excused' \in SUBSET Notes
    BY <2>2 DEF Shape
  <2>5. Shape'
    BY <1>1, <1>2, <2>1, <2>2, <2>3, <2>4 DEF Shape
  <2>6. OpenText' /\ OwnNote'
    BY <1>2, <2>1, <2>2, <2>3 DEF TextInv, OpenText, OwnNote
  <2> QED
    BY <1>1, <1>3, <2>5, <2>6 DEF TextInv
<1>5. CASE ~(phase = "loading" /\ selected = n)
  <2>1. UNCHANGED <<phase, note, editor, body, excused>>
    BY <1>5 DEF GetArrives
  <2>2. Shape'
    BY <1>1, <1>2, <2>1 DEF Shape
  <2>3. OpenText' /\ OwnNote'
    BY <1>2, <2>1 DEF TextInv, OpenText, OwnNote
  <2> QED
    BY <1>1, <1>3, <2>2, <2>3 DEF TextInv
<1> QED
  BY <1>4, <1>5

LEMMA GetFailsStep ==
    ASSUME NoteInv, NEW n \in Notes, GetFails(n)
    PROVE  NoteInv'
<1>1. AskedText' /\ get' \in [Notes -> Text \cup {Blank}]
  BY AnsweredGet DEF GetFails
<1>2. CASE phase = "loading" /\ selected = n
  BY <1>1, <1>2, EffectStep DEF GetFails
<1>3. CASE ~(phase = "loading" /\ selected = n)
  <2>1. UNCHANGED <<stored, pastVars, pageVars, saveVars, selectVars>>
    BY <1>3 DEF GetFails
  <2>2. /\ UNCHANGED <<stored, edits, typed, excused, failed, saves, inFlight, body, editor, note>>
        /\ UNCHANGED <<selected, phase, awaits, timer, open>>
    BY <2>1 DEF pastVars, pageVars, saveVars, selectVars
  <2>3. /\ phase \in {"done", "saving", "loading"} /\ selected \in Notes \cup {NoNote}
        /\ excused \in SUBSET Notes /\ timer \in BOOLEAN /\ open \in BOOLEAN
    BY DEF NoteInv, Shape
  <2> QED
    BY <1>1, <2>2, <2>3, QuietStep
<1> QED
  BY <1>2, <1>3

LEMMA InvStep ==
    ASSUME NoteInv, [Next]_vars
    PROVE  NoteInv'
<1>1. CASE UserStep
  BY <1>1, EditStep, SaveNowStep, CloseStep, LeaveStep, EnterStep, SelectStep DEF UserStep
<1>2. CASE TabStep
  BY <1>2, SaveTimerStep, EndSteps, GetArrivesStep DEF TabStep
<1>3. CASE Fault
  BY <1>3, EndSteps, GetFailsStep DEF Fault
<1>4. CASE \E id \in Ids : ServerTakes(id)
  BY <1>4, TakeStep
<1>5. CASE UNCHANGED vars
  <2> USE <1>5 DEF vars, pastVars, pageVars, saveVars, selectVars, NoteInv
  <2>1. Shape'
    BY DEF Shape
  <2>2. SavesShape' /\ NamedSaves' /\ SavedText'
    BY SameSaves DEF TextInv
  <2>3. OpenText' /\ AskedText' /\ OwnNote'
    BY DEF TextInv, OpenText, AskedText, OwnNote
  <2> QED
    BY <2>1, <2>2, <2>3 DEF TextInv
<1> QED
  BY <1>1, <1>2, <1>3, <1>4, <1>5 DEF Next

LEMMA InvInit == Init => NoteInv
<1> SUFFICES ASSUME Init PROVE NoteInv
  OBVIOUS
<1> USE NoteAssumption DEF Init
<1>1. 0 \in 0..MaxEdits /\ \A n \in Notes : [note |-> n, n |-> 0] \in Text
  BY DEF Text
<1>2. Shape
  BY <1>1 DEF Shape
<1>3. SavesShape /\ NamedSaves
  BY DEF SavesShape, DistinctIds, NamedSaves
<1>4. TextInv
  BY DEF TextInv, OpenText, SavedText, AskedText, OwnNote
<1> QED
  BY <1>2, <1>3, <1>4 DEF NoteInv

LEMMA NoteInvariant == Spec => []NoteInv
BY InvInit, InvStep, PTL DEF Spec

(* Page, saves and answers keep their shape; saves under way have          *)
(* identities of their own, and nothing refers to a save that has ended.   *)
THEOREM NoteTypeCorrect == Spec => []TypeOK
<1>1. NoteInv => TypeOK
  BY AsManyIds DEF NoteInv, Shape, SavesShape, NamedSaves, TypeOK
<1> QED
  BY <1>1, NoteInvariant, PTL

(* No note is ever given the text of another one, with any number of notes *)
(* and saves that wait, overtake each other, fail or outlive their page.   *)
THEOREM NotesKeepTheirText == Spec => []OwnNote
<1>1. NoteInv => OwnNote
  BY DEF NoteInv, TextInv
<1> QED
  BY <1>1, NoteInvariant, PTL

-------------------------------------------------------------------------------
(* No change is lost or overwritten by an older text while at most two     *)
(* saves are at work: one that is under way and one that waits for it.     *)
FewSaves == MaxSaves <= 2

(* A save waits for an earlier one, of the saves this page has begun only  *)
(* the first is under way, and the page knows of it.                       *)
LineInv ==
    /\ \A j \in DOMAIN saves : saves[j].at = "waiting" =>
          \E i \in DOMAIN saves : i < j /\ saves[j].on = saves[i].id
    /\ \A i, j \in DOMAIN saves : i < j /\ ~saves[i].old /\ ~saves[j].old => saves[j].at = "waiting"
    /\ \A i \in DOMAIN saves : ~saves[i].old => inFlight # 0

(* The saves that will still change the row of note n, and that the last   *)
(* of them, or else the row, holds the last change.                        *)
Untaken(n) == {i \in DOMAIN saves : saves[i].note = n /\ saves[i].at # "taken"}
Newest(n) ==
    /\ Untaken(n) = {} => stored[n].n = typed[n]
    /\ \A i \in Untaken(n) :
          (\A j \in Untaken(n) : j <= i) => saves[i].text.n = typed[n]

(* The saves of a note come in the order of their texts, the first of them *)
(* alone is under way, and a page that was left has none for an open note. *)
InLine(n) ==
    /\ stored[n].n <= typed[n]
    /\ \A i \in Untaken(n) :
          /\ stored[n].n <= saves[i].text.n /\ saves[i].text.n <= typed[n]
          /\ note = n => ~saves[i].old
    /\ \A i, j \in Untaken(n) : i < j =>
          saves[i].text.n <= saves[j].text.n /\ saves[j].at = "waiting"
Shows(n) == note = n => editor.n = typed[n] /\ body.n = typed[n]

LatestInv ==
    /\ \A n \in Notes : typed[n] <= edits
    /\ \A n \in Notes \ excused : Shows(n) /\ ((note = n /\ timer) \/ Newest(n)) /\ InLine(n)

SavedInv == NoteInv /\ LineInv /\ LatestInv

-------------------------------------------------------------------------------
(* What the saves are after a step.                                        *)
LEMMA FewAtOnce ==
    ASSUME FewSaves, SavesShape
    PROVE  /\ Len(saves) \in 0..2 /\ DOMAIN saves = 1..Len(saves)
           /\ \A i \in DOMAIN saves : i \in {1, 2}
<1>1. Len(saves) \in Nat /\ DOMAIN saves = 1..Len(saves)
  BY LenProperties DEF SavesShape
<1>2. Cardinality(InUse) = Len(saves) /\ InUse \subseteq 1..MaxSaves
  BY AsManyIds, UsedIds DEF SavesShape, Ids
<1>3. IsFiniteSet(1..MaxSaves) /\ Cardinality(1..MaxSaves) = MaxSaves
  BY FS_Interval, NoteAssumption
<1>4. Cardinality(InUse) <= MaxSaves
  BY <1>2, <1>3, FS_Subset
<1>5. Len(saves) \in 0..2
  BY <1>1, <1>2, <1>4, NoteAssumption DEF FewSaves
<1> QED
  BY <1>1, <1>5

(* Numbers of changes are natural numbers. *)
LEMMA Counts ==
    ASSUME NoteInv
    PROVE  /\ edits \in Nat
           /\ \A n \in Notes : typed[n] \in Nat /\ stored[n].n \in Nat
           /\ \A i \in DOMAIN saves : saves[i] \in Save /\ saves[i].text.n \in Nat
<1>1. edits \in Nat /\ \A n \in Notes : typed[n] \in Nat
  BY NoteAssumption DEF NoteInv, Shape
<1>2. \A n \in Notes : stored[n] \in Text
  BY DEF NoteInv, Shape
<1>3. \A i \in DOMAIN saves : saves[i] \in Save /\ saves[i].text \in Text
  BY UsedIds DEF NoteInv, Save
<1> QED
  BY <1>1, <1>2, <1>3, NoteAssumption DEF Text

(* The saves once one of the open note was begun behind the others. *)
LEMMA BegunPlaces ==
    ASSUME SavesShape, NamedSaves, Free # {}, note \in Notes, NEW text \in Text
    PROVE  LET all == Append(saves, Begun(text))
               last == Len(saves) + 1
           IN  /\ last \in Nat /\ last \notin DOMAIN saves
               /\ \A i \in DOMAIN saves : i < last
               /\ DOMAIN all = DOMAIN saves \cup {last}
               /\ \A i \in DOMAIN saves : all[i] = saves[i]
               /\ all[last] = Begun(text)
               /\ Begun(text).note = note /\ Begun(text).text = text /\ ~Begun(text).old
               /\ Begun(text).id = NewId /\ NewId # 0
               /\ Begun(text).at = IF inFlight = 0 THEN "sent" ELSE "waiting"
               /\ Begun(text).on = inFlight
<1>1. Begun(text) \in Save /\ NewId \in Ids
  BY BegunIsSave, NewIdIsFree
<1>2. saves \in Seq(Save)
  BY DEF SavesShape
<1> DEFINE e == Begun(text)
<1>3. /\ e.note = note /\ e.text = text /\ ~e.old /\ e.id = NewId
      /\ e.at = (IF inFlight = 0 THEN "sent" ELSE "waiting") /\ e.on = inFlight
  BY DEF Begun
<1> HIDE DEF e
<1>4. LET t == Append(saves, e) IN
      /\ Len(saves) \in Nat /\ Len(saves) + 1 \notin DOMAIN saves
      /\ DOMAIN saves = 1..Len(saves)
      /\ DOMAIN t = DOMAIN saves \cup {Len(saves) + 1}
      /\ \A i \in DOMAIN saves : t[i] = saves[i]
      /\ t[Len(saves) + 1] = e
  BY <1>1, <1>2, AppendedPlaces DEF e
<1>5. NewId # 0
  BY <1>1 DEF Ids
<1> QED
  BY <1>3, <1>4, <1>5 DEF e

(* The save that is left when another one has ended. *)
LEMMA LeftPlaces ==
    ASSUME FewSaves, SavesShape, NEW p \in DOMAIN saves, NEW lost, Ends(p, lost)
    PROVE  \/ DOMAIN saves = {p} /\ DOMAIN saves' = {}
           \/ \E k \in DOMAIN saves \ {p} :
                /\ DOMAIN saves = {p, k} /\ DOMAIN saves' = {1}
                /\ saves'[1].id = saves[k].id /\ saves'[1].old = saves[k].old
                /\ saves'[1].note = saves[k].note /\ saves'[1].text = saves[k].text
                /\ saves'[1].at = IF k \in WaitFor(p) THEN "sent" ELSE saves[k].at
<1> DEFINE all == [j \in DOMAIN saves |->
                      IF j \in WaitFor(p) THEN [saves[j] EXCEPT !.at = "sent", !.on = 0] ELSE saves[j]]
<1>1. /\ Len(saves) \in 0..2 /\ DOMAIN saves = 1..Len(saves) /\ p \in 1..Len(saves)
      /\ \A j \in DOMAIN saves : saves[j] \in Save
  BY FewAtOnce, UsedIds
<1>2. \A j \in DOMAIN saves : /\ all[j].id = saves[j].id /\ all[j].old = saves[j].old
                              /\ all[j].note = saves[j].note /\ all[j].text = saves[j].text
                              /\ all[j].at = IF j \in WaitFor(p) THEN "sent" ELSE saves[j].at
                              /\ all[j] \in Save
  <2> SUFFICES ASSUME NEW j \in DOMAIN saves
               PROVE  /\ all[j].id = saves[j].id /\ all[j].old = saves[j].old
                      /\ all[j].note = saves[j].note /\ all[j].text = saves[j].text
                      /\ all[j].at = IF j \in WaitFor(p) THEN "sent" ELSE saves[j].at
                      /\ all[j] \in Save
    OBVIOUS
  <2>1. CASE j \in WaitFor(p)
    <3>1. all[j] = [saves[j] EXCEPT !.at = "sent", !.on = 0] /\ 0 \in 0..MaxSaves
      BY <2>1, NoteAssumption
    <3> HIDE DEF all
    <3> QED
      BY <1>1, <2>1, <3>1 DEF Save
  <2>2. CASE j \notin WaitFor(p)
    BY <1>1, <2>2
  <2> QED
    BY <2>1, <2>2
<1>3. DOMAIN all = DOMAIN saves /\ saves' = RemoveAt(all, p)
  BY DEF Ends
<1>4. all \in Seq(Save)
  <2>1. all = [j \in 1..Len(saves) |-> all[j]]
    BY <1>1
  <2> HIDE DEF all
  <2>2. all \in [1..Len(saves) -> Save]
    BY <1>1, <1>2, <2>1
  <2> QED
    BY <1>1, <2>2
<1> HIDE DEF all
<1>5. /\ DOMAIN all = 1..Len(all) /\ Len(all) \in Nat
      /\ DOMAIN saves' = 1..(Len(all) - 1)
      /\ \A i \in 1..(Len(all) - 1) : saves'[i] = IF i < p THEN all[i] ELSE all[i + 1]
  BY <1>3, <1>4, Removed
<1>6. Len(all) = Len(saves)
  BY <1>1, <1>3, <1>5
<1>7. CASE Len(saves) = 1
  BY <1>1, <1>5, <1>6, <1>7
<1>8. CASE Len(saves) = 2
  <2>1. PICK k \in DOMAIN saves \ {p} : DOMAIN saves = {p, k} /\ k = (IF p = 1 THEN 2 ELSE 1)
    BY <1>1, <1>8
  <2>2. DOMAIN saves' = {1} /\ saves'[1] = all[k]
    BY <1>1, <1>5, <1>6, <1>8, <2>1
  <2> QED
    BY <1>2, <2>1, <2>2
<1> QED
  BY <1>1, <1>7, <1>8

-------------------------------------------------------------------------------
(* Every step keeps the saves in line.                                     *)
LEMMA LinePersist ==
    ASSUME NoteInv, LineInv, note # NoNote, PersistNow
    PROVE  LineInv'
<1> DEFINE all == Append(saves, Begun(editor))
           last == Len(saves) + 1
<1>1. saves' = all /\ inFlight' = (IF inFlight = 0 THEN NewId ELSE inFlight) /\ inFlight \in InUse \cup {0}
  BY DEF PersistNow, NoteInv, NamedSaves
<1>2. /\ last \in Nat /\ last \notin DOMAIN saves
      /\ \A i \in DOMAIN saves : i < last
      /\ DOMAIN all = DOMAIN saves \cup {last}
      /\ \A i \in DOMAIN saves : all[i] = saves[i]
      /\ all[last].id = NewId /\ NewId # 0
      /\ all[last].at = (IF inFlight = 0 THEN "sent" ELSE "waiting")
      /\ all[last].on = inFlight
  BY BegunPlaces DEF NoteInv, PersistNow, Shape, TextInv, OpenText
<1>3. DOMAIN saves = 1..Len(saves) /\ Len(saves) \in Nat
  BY LenProperties DEF NoteInv, SavesShape
<1> HIDE DEF all, last
<1>4. ASSUME NEW j \in DOMAIN all, all[j].at = "waiting"
      PROVE  \E i \in DOMAIN all : i < j /\ all[j].on = all[i].id
  <2>1. CASE j = last
    <3>1. PICK i \in DOMAIN saves : inFlight = saves[i].id
      BY <1>1, <1>2, <1>4, <2>1 DEF InUse
    <3> QED
      BY <1>2, <2>1, <3>1
  <2>2. CASE j # last
    <3>1. PICK i \in DOMAIN saves : i < j /\ saves[j].on = saves[i].id
      BY <1>2, <1>4, <2>2 DEF LineInv
    <3> QED
      BY <1>2, <2>2, <3>1
  <2> QED
    BY <2>1, <2>2
<1>5. ASSUME NEW i \in DOMAIN all, NEW j \in DOMAIN all, i < j, ~all[i].old, ~all[j].old
      PROVE  all[j].at = "waiting"
  <2>1. i # last
    BY <1>2, <1>3, <1>5
  <2>2. i \in DOMAIN saves /\ all[i] = saves[i]
    BY <1>2, <2>1
  <2>3. inFlight # 0
    BY <1>5, <2>2 DEF LineInv
  <2> QED
    BY <1>2, <1>5, <2>2, <2>3 DEF LineInv
<1>6. inFlight' # 0
  BY <1>1, <1>2
<1> QED
  BY <1>1, <1>4, <1>5, <1>6 DEF LineInv

LEMMA LineLeave ==
    ASSUME NoteInv, LineInv, Leave
    PROVE  LineInv'
<1>1. CASE note = NoNote
  <2>1. saves' = [i \in DOMAIN saves |-> [saves[i] EXCEPT !.old = TRUE]]
    BY <1>1 DEF Leave
  <2>2. \A i \in DOMAIN saves : saves[i] \in Save
    BY UsedIds DEF NoteInv
  <2>3. /\ DOMAIN saves' = DOMAIN saves
        /\ \A i \in DOMAIN saves : /\ saves'[i].old /\ saves'[i].id = saves[i].id
                                   /\ saves'[i].at = saves[i].at /\ saves'[i].on = saves[i].on
    BY <2>1, <2>2 DEF Save
  <2> QED
    BY <2>3 DEF LineInv
<1>2. CASE note # NoNote
  <2> DEFINE all == Append(saves, Begun(body))
             last == Len(saves) + 1
  <2>0. Free # {} /\ note \in Notes /\ body \in Text /\ body.note = note /\ inFlight \in InUse \cup {0}
    BY <1>2 DEF Leave, NoteInv, Shape, TextInv, OpenText, NamedSaves
  <2>1. saves' = [i \in DOMAIN all |-> [all[i] EXCEPT !.old = TRUE]]
    BY <1>2 DEF Leave
  <2>2. /\ last \in Nat /\ last \notin DOMAIN saves
        /\ \A i \in DOMAIN saves : i < last
        /\ DOMAIN all = DOMAIN saves \cup {last}
        /\ \A i \in DOMAIN saves : all[i] = saves[i]
        /\ all[last].at = (IF inFlight = 0 THEN "sent" ELSE "waiting")
        /\ all[last].on = inFlight
    BY <2>0, BegunPlaces DEF NoteInv
  <2>3. all \in Seq(Save)
    BY <2>0, MoreSaves DEF NoteInv, TextInv
  <2>4. \A i \in DOMAIN all : all[i] \in Save
    BY <2>3
  <2> HIDE DEF all, last
  <2>5. /\ DOMAIN saves' = DOMAIN all
        /\ \A i \in DOMAIN all : /\ saves'[i].old /\ saves'[i].id = all[i].id
                                 /\ saves'[i].at = all[i].at /\ saves'[i].on = all[i].on
    BY <2>1, <2>4 DEF Save
  <2>6. ASSUME NEW j \in DOMAIN all, all[j].at = "waiting"
        PROVE  \E i \in DOMAIN all : i < j /\ all[j].on = all[i].id
    <3>1. CASE j = last
      <4>1. PICK i \in DOMAIN saves : inFlight = saves[i].id
        BY <2>0, <2>2, <2>6, <3>1 DEF InUse
      <4> QED
        BY <2>2, <3>1, <4>1
    <3>2. CASE j # last
      <4>1. PICK i \in DOMAIN saves : i < j /\ saves[j].on = saves[i].id
        BY <2>2, <2>6, <3>2 DEF LineInv
      <4> QED
        BY <2>2, <3>2, <4>1
    <3> QED
      BY <3>1, <3>2
  <2> QED
    BY <2>5, <2>6 DEF LineInv
<1> QED
  BY <1>1, <1>2

(* What the server makes of the saves. *)
LEMMA TakenPlaces ==
    ASSUME NoteInv, NEW id \in Ids, ServerTakes(id)
    PROVE  \E i \in DOMAIN saves :
             /\ saves[i].at = "sent"
             /\ stored' = [stored EXCEPT ![saves[i].note] = saves[i].text]
             /\ DOMAIN saves' = DOMAIN saves
             /\ saves'[i].at = "taken"
             /\ \A j \in DOMAIN saves : /\ saves'[j].id = saves[j].id /\ saves'[j].on = saves[j].on
                                        /\ saves'[j].old = saves[j].old
                                        /\ saves'[j].note = saves[j].note
                                        /\ saves'[j].text = saves[j].text
                                        /\ j # i => saves'[j].at = saves[j].at
<1>1. PICK i \in DOMAIN saves : /\ saves[i].at = "sent"
                                /\ saves' = [saves EXCEPT ![i].at = "taken"]
                                /\ stored' = [stored EXCEPT ![saves[i].note] = saves[i].text]
  BY DEF ServerTakes
<1>2. \A j \in DOMAIN saves : saves[j] \in Save
  BY UsedIds DEF NoteInv
<1>3. saves' = [saves EXCEPT ![i] = [saves[i] EXCEPT !.at = "taken"]]
  BY <1>1
<1>4. saves'[i] = [saves[i] EXCEPT !.at = "taken"] /\ \A j \in DOMAIN saves \ {i} : saves'[j] = saves[j]
  BY <1>3
<1>5. DOMAIN saves' = DOMAIN saves
  BY <1>3
<1> QED
  BY <1>1, <1>2, <1>4, <1>5 DEF Save

LEMMA LineTaken ==
    ASSUME NoteInv, LineInv, NEW id \in Ids, ServerTakes(id)
    PROVE  LineInv'
<1>1. PICK i \in DOMAIN saves :
             /\ saves[i].at = "sent"
             /\ DOMAIN saves' = DOMAIN saves
             /\ saves'[i].at = "taken"
             /\ \A j \in DOMAIN saves : /\ saves'[j].id = saves[j].id /\ saves'[j].on = saves[j].on
                                        /\ saves'[j].old = saves[j].old
                                        /\ j # i => saves'[j].at = saves[j].at
  BY TakenPlaces
<1>2. inFlight' = inFlight
  BY DEF ServerTakes
<1> QED
  BY <1>1, <1>2 DEF LineInv

LEMMA LineEnds ==
    ASSUME FewSaves, NoteInv, LineInv, NEW p \in DOMAIN saves, saves[p].at # "waiting",
           NEW lost, Ends(p, lost)
    PROVE  LineInv'
<1>1. CASE DOMAIN saves' = {}
  BY <1>1 DEF LineInv
<1>2. ASSUME NEW k \in DOMAIN saves \ {p}, DOMAIN saves = {p, k}, DOMAIN saves' = {1},
             saves'[1].id = saves[k].id, saves'[1].old = saves[k].old,
             saves'[1].at = IF k \in WaitFor(p) THEN "sent" ELSE saves[k].at
      PROVE  LineInv'
  <2>1. DOMAIN saves \subseteq Nat /\ \A i \in DOMAIN saves : saves[i] \in Save
    BY FewAtOnce, UsedIds DEF NoteInv
  <2>2. saves[k].at = "waiting" => k \in WaitFor(p)
    <3> SUFFICES ASSUME saves[k].at = "waiting"
                 PROVE  k \in WaitFor(p)
      OBVIOUS
    <3>1. PICK i \in DOMAIN saves : i < k /\ saves[k].on = saves[i].id
      BY DEF LineInv
    <3>2. i = p
      BY <1>2, <2>1, <3>1
    <3> QED
      BY <3>1, <3>2 DEF WaitFor
  <2>3. saves'[1].at # "waiting"
    BY <1>2, <2>2
  <2>4. ~saves[k].old => inFlight' # 0
    <3> SUFFICES ASSUME ~saves[k].old
                 PROVE  inFlight' # 0
      OBVIOUS
    <3>1. CASE saves[p].old
      BY <3>1 DEF Ends, LineInv
    <3>2. CASE ~saves[p].old
      <4>1. k \in WaitFor(p)
        BY <1>2, <2>1, <2>2, <3>2 DEF LineInv
      <4>2. WaitFor(p) = {k}
        BY <1>2, <4>1 DEF WaitFor
      <4>3. (CHOOSE j \in WaitFor(p) : \A h \in WaitFor(p) : h <= j) = k
        <5>1. \E j \in WaitFor(p) : \A h \in WaitFor(p) : h <= j
          BY <2>1, <4>2
        <5> QED
          BY <4>2, <5>1
      <4>4. inFlight' = saves[k].id
        BY <3>2, <4>1, <4>3 DEF Ends, NextInFlight
      <4> QED
        BY <2>1, <4>4 DEF Save, Ids
    <3> QED
      BY <3>1, <3>2
  <2> QED
    BY <1>2, <2>3, <2>4 DEF LineInv
<1> QED
  BY <1>1, <1>2, LeftPlaces DEF NoteInv

LEMMA LineSame ==
    ASSUME LineInv, UNCHANGED <<saves, inFlight>>
    PROVE  LineInv'
BY DEF LineInv

LEMMA LineEffect ==
    ASSUME NoteInv, LineInv, NEW n, SelectEffect(n)
    PROVE  LineInv'
<1>1. CASE note # NoNote
  BY <1>1, LinePersist DEF SelectEffect
<1>2. CASE note = NoNote
  BY <1>2, LineSame DEF SelectEffect, saveVars
<1> QED
  BY <1>1, <1>2

LEMMA LineStep ==
    ASSUME FewSaves, NoteInv, LineInv, [Next]_vars
    PROVE  LineInv'
<1>1. CASE Edit \/ Close \/ Enter \/ UNCHANGED vars
  BY <1>1, LineSame DEF Edit, Close, Enter, vars, saveVars
<1>2. CASE SaveNow
  BY <1>2, LinePersist DEF SaveNow
<1>3. CASE SaveTimer
  <2>1. CASE note = NoNote
    BY <1>3, <2>1, LineSame DEF SaveTimer, saveVars
  <2>2. CASE note # NoNote
    BY <1>3, <2>2, LinePersist DEF SaveTimer
  <2> QED
    BY <2>1, <2>2
<1>4. ASSUME NEW n \in Notes \cup {NoNote}, Select(n)
      PROVE  LineInv'
  BY <1>4, LineEffect DEF Select
<1>5. ASSUME NEW n \in Notes, GetArrives(n) \/ GetFails(n)
      PROVE  LineInv'
  <2>1. CASE GetArrives(n)
    BY <2>1, LineSame DEF GetArrives, saveVars
  <2>2. CASE GetFails(n)
    BY <2>2, LineSame, LineEffect DEF GetFails, saveVars
  <2> QED
    BY <1>5, <2>1, <2>2
<1>6. ASSUME NEW p \in DOMAIN saves, NEW lost, Ends(p, lost), saves[p].at # "waiting"
      PROVE  LineInv'
  BY <1>6, LineEnds
<1>7. CASE SaveFails \/ \E id \in Ids : SaveEnds(id)
  BY <1>6, <1>7 DEF SaveFails, SaveEnds
<1> QED
  BY <1>1, <1>2, <1>3, <1>4, <1>5, <1>7, LineLeave, LineTaken DEF Next, UserStep, TabStep, Fault

-------------------------------------------------------------------------------
(* Every step keeps the last change of a note on its way.                  *)

(* A step that leaves the saves, the rows and the changes alone. *)
LEMMA LatestSame ==
    ASSUME NoteInv, LatestInv, UNCHANGED <<stored, edits, typed, saves>>,
           excused \subseteq excused',
           \A n \in Notes \ excused' : note' = n =>
              note = n /\ editor' = editor /\ body' = body,
           \A n \in Notes \ excused' : note = n /\ timer => note' = n /\ timer'
    PROVE  LatestInv'
<1>1. ASSUME NEW n \in Notes \ excused'
      PROVE  Shows(n)' /\ ((note' = n /\ timer') \/ Newest(n)') /\ InLine(n)'
  <2>1. Shows(n) /\ ((note = n /\ timer) \/ Newest(n)) /\ InLine(n)
    BY DEF LatestInv
  <2>2. Untaken(n)' = Untaken(n)
    BY DEF Untaken
  <2>3. Shows(n)'
    BY <2>1 DEF Shows
  <2>4. Newest(n) => Newest(n)'
    BY <2>2 DEF Newest
  <2>5. InLine(n)'
    BY <2>1, <2>2 DEF InLine
  <2> QED
    BY <2>1, <2>3, <2>4, <2>5
<1> QED
  BY <1>1 DEF LatestInv

(* One more save of the open note, with all that was changed in it. *)
LEMMA LatestBegun ==
    ASSUME NoteInv, LineInv, LatestInv, UNCHANGED <<stored, edits, typed, excused>>,
           note # NoNote, NEW last \in Nat, last \notin DOMAIN saves, DOMAIN saves \subseteq Nat,
           \A i \in DOMAIN saves : i < last,
           DOMAIN saves' = DOMAIN saves \cup {last},
           \A i \in DOMAIN saves :
              /\ saves'[i].note = saves[i].note /\ saves'[i].text = saves[i].text
              /\ saves'[i].at = saves[i].at
              /\ note' # NoNote => saves'[i].old = saves[i].old,
           saves'[last].note = note,
           note \notin excused => saves'[last].text.n = typed[note],
           saves'[last].at = IF inFlight = 0 THEN "sent" ELSE "waiting",
           note' # NoNote => note' = note /\ ~saves'[last].old /\ editor' = editor /\ body' = editor
    PROVE  LatestInv'
<1>1. ASSUME NEW n \in Notes \ excused'
      PROVE  Shows(n)' /\ Newest(n)' /\ InLine(n)'
  <2>1. /\ Shows(n) /\ ((note = n /\ timer) \/ Newest(n)) /\ InLine(n)
        /\ n # NoNote /\ note \in Notes
    BY NoteAssumption DEF LatestInv, NoteInv, Shape
  <2>2. Shows(n)'
    BY <2>1 DEF Shows
  <2>3. CASE n # note
    <3>1. Untaken(n)' = Untaken(n) /\ Untaken(n) \subseteq DOMAIN saves
      BY <2>3 DEF Untaken
    <3>2. Newest(n)'
      BY <2>1, <2>3, <3>1 DEF Newest
    <3>3. note' # n
      BY <2>1, <2>3
    <3>4. InLine(n)'
      BY <2>1, <3>1, <3>3 DEF InLine
    <3> QED
      BY <2>2, <3>2, <3>4
  <2>4. CASE n = note
    <3>1. Untaken(n)' = Untaken(n) \cup {last} /\ Untaken(n) \subseteq DOMAIN saves
      BY <2>4 DEF Untaken
    <3>2. /\ saves'[last].text.n = typed[n] /\ typed[n] \in Nat /\ stored[n].n \in Nat
          /\ \A i \in Untaken(n) : saves[i].text.n \in Nat
      BY <2>4, <3>1, Counts
    <3>3. Newest(n)'
      <4>1. \A i \in Untaken(n) : ~(last <= i) /\ last \in Untaken(n)'
        BY <3>1
      <4> QED
        BY <3>1, <3>2, <4>1 DEF Newest
    <3>4. Untaken(n) # {} => inFlight # 0
      BY <2>1, <2>4, <3>1 DEF InLine, LineInv
    <3>5. ASSUME NEW i \in Untaken(n)'
          PROVE  /\ stored'[n].n <= saves'[i].text.n /\ saves'[i].text.n <= typed'[n]
                 /\ note' = n => ~saves'[i].old
      <4>1. CASE i = last
        BY <2>1, <3>2, <4>1 DEF InLine
      <4>2. CASE i # last
        BY <2>1, <2>4, <3>1, <3>5, <4>2 DEF InLine
      <4> QED
        BY <4>1, <4>2
    <3>6. ASSUME NEW i \in Untaken(n)', NEW j \in Untaken(n)', i < j
          PROVE  saves'[i].text.n <= saves'[j].text.n /\ saves'[j].at = "waiting"
      <4>1. i # last
        BY <3>1, <3>6
      <4>2. CASE j = last
        BY <2>1, <3>1, <3>2, <3>4, <3>6, <4>1, <4>2 DEF InLine
      <4>3. CASE j # last
        BY <2>1, <3>1, <3>6, <4>1, <4>3 DEF InLine
      <4> QED
        BY <4>2, <4>3
    <3>7. stored'[n].n <= typed'[n]
      BY <2>1 DEF InLine
    <3> QED
      BY <2>2, <3>3, <3>5, <3>6, <3>7 DEF InLine
  <2> QED
    BY <2>3, <2>4
<1>2. \A n \in Notes : typed'[n] <= edits'
  BY DEF LatestInv
<1> QED
  BY <1>1, <1>2 DEF LatestInv

LEMMA LatestPersist ==
    ASSUME NoteInv, LineInv, LatestInv, note # NoNote, PersistNow,
           UNCHANGED <<stored, edits, typed, excused, note, editor>>
    PROVE  LatestInv'
<1> DEFINE all == Append(saves, Begun(editor))
           last == Len(saves) + 1
<1>1. saves' = all /\ body' = editor /\ note \in Notes
  BY DEF PersistNow, NoteInv, Shape
<1>2. /\ last \in Nat /\ last \notin DOMAIN saves
      /\ \A i \in DOMAIN saves : i < last
      /\ DOMAIN all = DOMAIN saves \cup {last}
      /\ \A i \in DOMAIN saves : all[i] = saves[i]
      /\ all[last].note = note /\ all[last].text = editor /\ ~all[last].old
      /\ all[last].at = (IF inFlight = 0 THEN "sent" ELSE "waiting")
  BY BegunPlaces DEF NoteInv, PersistNow, Shape, TextInv, OpenText
<1>3. DOMAIN saves \subseteq Nat
  BY LenProperties DEF NoteInv, SavesShape
<1>4. note \notin excused => editor.n = typed[note]
  BY <1>1 DEF LatestInv, Shows
<1> HIDE DEF all, last
<1> QED
  BY <1>1, <1>2, <1>3, <1>4, LatestBegun

(* The page is left; the text of bodyHtmlRef is that of the editor. *)
LEMMA LatestLeave ==
    ASSUME NoteInv, LineInv, LatestInv, Leave
    PROVE  LatestInv'
<1>0. UNCHANGED <<stored, edits, typed, excused>> /\ note' = NoNote
  BY DEF Leave
<1>1. CASE note = NoNote
  <2>1. saves' = [i \in DOMAIN saves |-> [saves[i] EXCEPT !.old = TRUE]]
    BY <1>1 DEF Leave
  <2>2. \A i \in DOMAIN saves : saves[i] \in Save
    BY UsedIds DEF NoteInv
  <2>3. /\ DOMAIN saves' = DOMAIN saves
        /\ \A i \in DOMAIN saves : /\ saves'[i].note = saves[i].note
                                   /\ saves'[i].text = saves[i].text /\ saves'[i].at = saves[i].at
    BY <2>1, <2>2 DEF Save
  <2>4. ASSUME NEW n \in Notes \ excused'
        PROVE  Shows(n)' /\ Newest(n)' /\ InLine(n)'
    <3>1. n # NoNote /\ Shows(n) /\ ((note = n /\ timer) \/ Newest(n)) /\ InLine(n)
      BY <1>0, NoteAssumption DEF LatestInv
    <3>2. Untaken(n)' = Untaken(n) /\ Untaken(n) \subseteq DOMAIN saves
      BY <2>3 DEF Untaken
    <3>3. Newest(n)'
      BY <1>0, <1>1, <2>3, <3>1, <3>2 DEF Newest
    <3>4. InLine(n)'
      BY <1>0, <2>3, <3>1, <3>2 DEF InLine
    <3>5. Shows(n)'
      BY <1>0, <3>1 DEF Shows
    <3> QED
      BY <3>3, <3>4, <3>5
  <2> QED
    BY <1>0, <2>4 DEF LatestInv
<1>2. CASE note # NoNote
  <2> DEFINE all == Append(saves, Begun(body))
             last == Len(saves) + 1
  <2>0. Free # {} /\ note \in Notes /\ body \in Text /\ body.note = note
    BY <1>2 DEF Leave, NoteInv, Shape, TextInv, OpenText
  <2>1. saves' = [i \in DOMAIN all |-> [all[i] EXCEPT !.old = TRUE]]
    BY <1>2 DEF Leave
  <2>2. /\ last \in Nat /\ last \notin DOMAIN saves
        /\ \A i \in DOMAIN saves : i < last
        /\ DOMAIN all = DOMAIN saves \cup {last}
        /\ \A i \in DOMAIN saves : all[i] = saves[i]
        /\ all[last].note = note /\ all[last].text = body
        /\ all[last].at = (IF inFlight = 0 THEN "sent" ELSE "waiting")
    BY <2>0, BegunPlaces DEF NoteInv
  <2>3. all \in Seq(Save)
    BY <2>0, MoreSaves DEF NoteInv, TextInv
  <2>4. \A i \in DOMAIN all : all[i] \in Save
    BY <2>3
  <2> HIDE DEF all, last
  <2>5. /\ DOMAIN saves' = DOMAIN all
        /\ \A i \in DOMAIN all : /\ saves'[i].note = all[i].note
                                 /\ saves'[i].text = all[i].text /\ saves'[i].at = all[i].at
    BY <2>1, <2>4 DEF Save
  <2>6. DOMAIN saves \subseteq Nat
    BY LenProperties DEF NoteInv, SavesShape
  <2>7. note \notin excused => body.n = typed[note]
    BY <2>0 DEF LatestInv, Shows
  <2>8. last \in DOMAIN all /\ DOMAIN saves \subseteq DOMAIN all
    BY <2>2
  <2> QED
    BY <1>0, <1>2, <2>2, <2>5, <2>6, <2>7, <2>8, LatestBegun
<1> QED
  BY <1>1, <1>2

LEMMA LatestEdit ==
    ASSUME NoteInv, LatestInv, Edit
    PROVE  LatestInv'
<1>1. /\ note \in Notes /\ edits \in Nat /\ edits' = edits + 1
      /\ typed' = [typed EXCEPT ![note] = edits + 1]
      /\ UNCHANGED <<stored, excused, note, saves>> /\ timer' = TRUE
      /\ editor'.n = edits + 1 /\ body' = editor'
  BY Counts DEF Edit, NoteInv, Shape, saveVars
<1>2. /\ typed'[note] = edits + 1 /\ \A n \in Notes \ {note} : typed'[n] = typed[n]
  BY <1>1 DEF NoteInv, Shape
<1>3. \A n \in Notes : typed[n] <= edits /\ typed[n] \in Nat /\ typed[n] <= typed'[n] /\ typed'[n] <= edits'
  BY <1>1, <1>2, Counts DEF LatestInv
<1>4. ASSUME NEW n \in Notes \ excused'
      PROVE  Shows(n)' /\ ((note' = n /\ timer') \/ Newest(n)') /\ InLine(n)'
  <2>1. Shows(n) /\ ((note = n /\ timer) \/ Newest(n)) /\ InLine(n)
    BY <1>1 DEF LatestInv
  <2>2. Untaken(n)' = Untaken(n) /\ Untaken(n) \subseteq DOMAIN saves
    BY <1>1 DEF Untaken
  <2>3. Shows(n)'
    BY <1>1, <1>2 DEF Shows
  <2>4. n # note => Newest(n)'
    BY <1>1, <1>2, <2>1, <2>2 DEF Newest
  <2>5. InLine(n)'
    <3>1. stored[n].n \in Nat /\ \A i \in Untaken(n) : saves[i].text.n \in Nat
      BY <2>2, Counts
    <3>2. stored'[n].n <= typed'[n]
      BY <1>1, <1>3, <2>1, <3>1 DEF InLine
    <3>3. \A i \in Untaken(n) : saves'[i].text.n <= typed'[n]
      BY <1>1, <1>3, <2>1, <3>1 DEF InLine
    <3> QED
      BY <1>1, <2>1, <2>2, <3>2, <3>3 DEF InLine
  <2> QED
    BY <1>1, <2>3, <2>4, <2>5
<1> QED
  BY <1>3, <1>4 DEF LatestInv

(* The server takes the first save of a note only, which is none of an     *)
(* older text than the row's.                                              *)
LEMMA LatestTaken ==
    ASSUME NoteInv, LatestInv, NEW id \in Ids, ServerTakes(id)
    PROVE  /\ LatestInv'
           /\ \A n \in Notes : n \in excused' \/ stored'[n].n >= stored[n].n
<1>1. PICK p \in DOMAIN saves :
             /\ saves[p].at = "sent"
             /\ stored' = [stored EXCEPT ![saves[p].note] = saves[p].text]
             /\ DOMAIN saves' = DOMAIN saves
             /\ saves'[p].at = "taken"
             /\ \A j \in DOMAIN saves : /\ saves'[j].old = saves[j].old
                                        /\ saves'[j].note = saves[j].note
                                        /\ saves'[j].text = saves[j].text
                                        /\ j # p => saves'[j].at = saves[j].at
  BY TakenPlaces
<1>2. UNCHANGED <<edits, typed, excused, note, editor, body, timer>>
  BY DEF ServerTakes, pastVars, pageVars
<1>3. /\ saves[p].note \in Notes /\ stored'[saves[p].note] = saves[p].text
      /\ \A n \in Notes \ {saves[p].note} : stored'[n] = stored[n]
  BY <1>1, UsedIds DEF NoteInv, Shape, Save
<1>4. ASSUME NEW n \in Notes \ excused'
      PROVE  /\ Shows(n)' /\ ((note' = n /\ timer') \/ Newest(n)') /\ InLine(n)'
             /\ stored'[n].n >= stored[n].n
  <2>1. Shows(n) /\ ((note = n /\ timer) \/ Newest(n)) /\ InLine(n)
    BY <1>2 DEF LatestInv
  <2>2. /\ Untaken(n)' = Untaken(n) \ {p} /\ Untaken(n) \subseteq DOMAIN saves
    BY <1>1 DEF Untaken
  <2>3. Shows(n)'
    BY <1>2, <2>1 DEF Shows
  <2>4. /\ typed[n] \in Nat /\ stored[n].n \in Nat /\ DOMAIN saves \subseteq Nat
        /\ \A i \in DOMAIN saves : saves[i].text.n \in Nat
    BY Counts, LenProperties DEF NoteInv, SavesShape
  <2>5. CASE n # saves[p].note
    <3>1. Untaken(n)' = Untaken(n) /\ p \notin Untaken(n) /\ stored'[n] = stored[n]
      BY <1>3, <2>2, <2>5 DEF Untaken
    <3>2. Newest(n) => Newest(n)'
      BY <1>1, <1>2, <2>2, <3>1 DEF Newest
    <3>3. InLine(n)'
      BY <1>1, <1>2, <2>1, <2>2, <3>1 DEF InLine
    <3> QED
      BY <1>2, <2>1, <2>3, <2>4, <3>1, <3>2, <3>3
  <2>6. CASE n = saves[p].note
    <3>1. p \in Untaken(n) /\ stored'[n].n = saves[p].text.n
      BY <1>1, <1>3, <2>6 DEF Untaken
    <3>2. \A i \in Untaken(n) : p <= i
      BY <1>1, <2>1, <2>2, <2>4, <3>1 DEF InLine
    <3>3. Newest(n) => Newest(n)'
      <4> SUFFICES ASSUME Newest(n)
                   PROVE  Newest(n)'
        OBVIOUS
      <4>1. Untaken(n)' = {} => stored'[n].n = typed[n]
        <5> SUFFICES ASSUME Untaken(n)' = {}
                     PROVE  stored'[n].n = typed[n]
          OBVIOUS
        <5>1. Untaken(n) = {p}
          BY <2>2, <3>1
        <5>2. \A j \in Untaken(n) : j <= p
          BY <2>2, <2>4, <5>1
        <5> QED
          BY <3>1, <5>2 DEF Newest
      <4>2. ASSUME NEW i \in Untaken(n)', \A j \in Untaken(n)' : j <= i
            PROVE  saves'[i].text.n = typed[n]
        <5>1. i \in Untaken(n) /\ p <= i
          BY <2>2, <3>2, <4>2
        <5>2. \A j \in Untaken(n) : j <= i
          BY <2>2, <4>2, <5>1
        <5> QED
          BY <1>1, <2>2, <5>1, <5>2 DEF Newest
      <4> QED
        BY <1>2, <4>1, <4>2 DEF Newest
    <3>4. ASSUME NEW i \in Untaken(n)'
          PROVE  /\ stored'[n].n <= saves'[i].text.n /\ saves'[i].text.n <= typed'[n]
                 /\ note' = n => ~saves'[i].old
      <4>1. i \in Untaken(n) /\ p < i
        BY <2>2, <2>4, <3>2, <3>4
      <4> QED
        BY <1>1, <1>2, <2>1, <2>2, <3>1, <4>1 DEF InLine
    <3>5. ASSUME NEW i \in Untaken(n)', NEW j \in Untaken(n)', i < j
          PROVE  saves'[i].text.n <= saves'[j].text.n /\ saves'[j].at = "waiting"
      BY <1>1, <2>1, <2>2, <3>5 DEF InLine
    <3>6. stored'[n].n <= typed'[n] /\ stored'[n].n >= stored[n].n
      BY <1>2, <2>1, <2>2, <2>4, <3>1 DEF InLine
    <3>7. InLine(n)'
      BY <3>4, <3>5, <3>6 DEF InLine
    <3> QED
      BY <1>2, <2>1, <2>3, <3>3, <3>6, <3>7
  <2> QED
    BY <2>5, <2>6
<1>5. \A n \in Notes : typed'[n] <= edits'
  BY <1>2 DEF LatestInv
<1> QED
  BY <1>4, <1>5 DEF LatestInv

(* A save ends; if it has not reached the server, its change is lost. *)
LEMMA LatestEnds ==
    ASSUME FewSaves, NoteInv, LatestInv, NEW p \in DOMAIN saves, NEW lost \in SUBSET Notes,
           Ends(p, lost), saves[p].at = "taken" \/ saves[p].note \in lost
    PROVE  LatestInv'
<1>1. /\ UNCHANGED <<stored, edits, typed, body, timer>>
      /\ excused \cup lost \subseteq excused'
      /\ \A n \in Notes : note' = n => note = n /\ editor' = editor
      /\ \A n \in Notes \ excused' : note = n /\ timer => note' = n
  <2>1. CASE awaits = saves[p].id /\ selected = NoNote
    <3>1. /\ note' = NoNote
          /\ excused' = excused \cup lost \cup (IF timer THEN {note} \ {NoNote} ELSE {})
      BY <2>1 DEF Ends, Shut
    <3> QED
      BY <3>1, NoteAssumption DEF Ends
  <2>2. CASE ~(awaits = saves[p].id /\ selected = NoNote)
    BY <2>2 DEF Ends
  <2> QED
    BY <2>1, <2>2
<1>2. DOMAIN saves \subseteq Nat
  BY LenProperties DEF NoteInv, SavesShape
<1>3. ASSUME NEW n \in Notes \ excused'
      PROVE  Shows(n)' /\ ((note' = n /\ timer') \/ Newest(n)') /\ InLine(n)'
  <2>1. Shows(n) /\ ((note = n /\ timer) \/ Newest(n)) /\ InLine(n)
    BY <1>1 DEF LatestInv
  <2>2. Shows(n)'
    BY <1>1, <2>1 DEF Shows
  <2>3. p \notin Untaken(n)
    BY <1>1 DEF Untaken
  <2>4. CASE Untaken(n) = {} /\ Untaken(n)' = {}
    <3>1. Newest(n) => Newest(n)'
      BY <1>1, <2>4 DEF Newest
    <3>2. InLine(n)'
      BY <1>1, <2>1, <2>4 DEF InLine
    <3> QED
      BY <1>1, <2>1, <2>2, <3>1, <3>2
  <2>5. ASSUME NEW k \in DOMAIN saves, Untaken(n) = {k}, Untaken(n)' = {1},
               saves'[1].text = saves[k].text, saves'[1].old = saves[k].old
        PROVE  Shows(n)' /\ ((note' = n /\ timer') \/ Newest(n)') /\ InLine(n)'
    <3>1. Newest(n) => Newest(n)'
      <4>1. \A j \in Untaken(n) : j <= k
        BY <1>2, <2>5
      <4> QED
        BY <1>1, <2>5, <4>1 DEF Newest
    <3>2. InLine(n)'
      BY <1>1, <2>1, <2>5 DEF InLine
    <3> QED
      BY <1>1, <2>1, <2>2, <3>1, <3>2
  <2>6. CASE DOMAIN saves = {p} /\ DOMAIN saves' = {}
    <3>1. Untaken(n) = {} /\ Untaken(n)' = {}
      BY <2>3, <2>6 DEF Untaken
    <3> QED
      BY <2>4, <3>1
  <2>7. ASSUME NEW k \in DOMAIN saves \ {p}, DOMAIN saves = {p, k}, DOMAIN saves' = {1},
               saves'[1].old = saves[k].old,
               saves'[1].note = saves[k].note, saves'[1].text = saves[k].text,
               saves'[1].at = IF k \in WaitFor(p) THEN "sent" ELSE saves[k].at
        PROVE  Shows(n)' /\ ((note' = n /\ timer') \/ Newest(n)') /\ InLine(n)'
    <3>1. saves'[1].at = "taken" <=> saves[k].at = "taken"
      BY <2>7 DEF WaitFor
    <3>2. CASE k \in Untaken(n)
      <4>1. Untaken(n) = {k} /\ Untaken(n)' = {1}
        BY <2>3, <2>7, <3>1, <3>2 DEF Untaken
      <4> QED
        BY <2>5, <2>7, <4>1
    <3>3. CASE k \notin Untaken(n)
      <4>1. Untaken(n) = {} /\ Untaken(n)' = {}
        BY <2>3, <2>7, <3>1, <3>3 DEF Untaken
      <4> QED
        BY <2>4, <4>1
    <3> QED
      BY <3>2, <3>3
  <2> QED
    BY <2>6, <2>7, LeftPlaces DEF NoteInv
<1>4. \A n \in Notes : typed'[n] <= edits'
  BY <1>1 DEF LatestInv
<1> QED
  BY <1>3, <1>4 DEF LatestInv

(* The answer that opens a note shows its last change, or it is excused. *)
LEMMA LatestArrives ==
    ASSUME NoteInv, LatestInv, NEW n \in Notes, GetArrives(n)
    PROVE  LatestInv'
<1>1. UNCHANGED <<stored, edits, typed, timer, saves>>
  BY DEF GetArrives, saveVars
<1>2. CASE ~(phase = "loading" /\ selected = n)
  <2>1. UNCHANGED <<note, editor, body, excused>>
    BY <1>2 DEF GetArrives
  <2> QED
    BY <1>1, <2>1, LatestSame
<1>3. CASE phase = "loading" /\ selected = n
  <2>1. /\ note' = n /\ editor' = Shown(n) /\ body' = get[n]
        /\ excused' = excused \cup (IF timer THEN {note} \ {n, NoNote} ELSE {})
                              \cup (IF TooOld(n) THEN {n} ELSE {})
    BY <1>3 DEF GetArrives
  <2>2. ASSUME NEW m \in Notes \ excused', m # n
        PROVE  Shows(m)' /\ ((note' = m /\ timer') \/ Newest(m)') /\ InLine(m)'
    <3>1. Shows(m) /\ Newest(m) /\ InLine(m)
      BY <2>1, <2>2, NoteAssumption DEF LatestInv
    <3>2. Untaken(m)' = Untaken(m)
      BY <1>1 DEF Untaken
    <3>3. Shows(m)'
      BY <2>1, <2>2 DEF Shows
    <3>4. Newest(m)'
      BY <1>1, <3>1, <3>2 DEF Newest
    <3>5. InLine(m)'
      BY <1>1, <2>1, <2>2, <3>1, <3>2 DEF InLine
    <3> QED
      BY <3>3, <3>4, <3>5
  <2>3. ASSUME n \notin excused'
        PROVE  Shows(n)' /\ ((note' = n /\ timer') \/ Newest(n)') /\ InLine(n)'
    <3>1. ~TooOld(n) /\ n \notin excused
      BY <2>1, <2>3
    <3>2. Shows(n) /\ ((note = n /\ timer) \/ Newest(n)) /\ InLine(n)
      BY <3>1 DEF LatestInv
    <3>3. /\ get[n] = stored[n] /\ Untaken(n) = {} /\ Untaken(n)' = {}
          /\ note = n => get[n] = editor
      BY <1>1, <3>1 DEF TooOld, Untaken
    <3>4. editor' = get[n]
      BY <2>1, <3>3 DEF Shown
    <3>5. get[n].n = typed[n]
      <4>1. CASE note = n
        BY <3>2, <3>3, <4>1 DEF Shows
      <4>2. CASE note # n
        BY <3>2, <3>3, <4>2 DEF Newest
      <4> QED
        BY <4>1, <4>2
    <3>6. Shows(n)'
      BY <1>1, <2>1, <3>4, <3>5 DEF Shows
    <3>7. Newest(n)'
      BY <1>1, <3>3, <3>5 DEF Newest
    <3>8. InLine(n)'
      BY <1>1, <3>2, <3>3 DEF InLine
    <3> QED
      BY <3>6, <3>7, <3>8
  <2>4. \A m \in Notes : typed'[m] <= edits'
    BY <1>1 DEF LatestInv
  <2> QED
    BY <2>2, <2>3, <2>4 DEF LatestInv
<1> QED
  BY <1>2, <1>3

LEMMA LatestEffect ==
    ASSUME NoteInv, LineInv, LatestInv, NEW n, SelectEffect(n)
    PROVE  LatestInv'
<1>1. UNCHANGED <<stored, edits, typed, excused, note, editor>>
  BY DEF SelectEffect
<1>2. CASE note # NoNote
  BY <1>1, <1>2, LatestPersist DEF SelectEffect
<1>3. CASE note = NoNote
  <2>1. UNCHANGED <<saves, timer, body>>
    BY <1>3 DEF SelectEffect, saveVars
  <2> QED
    BY <1>1, <2>1, LatestSame
<1> QED
  BY <1>2, <1>3

LEMMA LatestStep ==
    ASSUME FewSaves, NoteInv, LineInv, LatestInv, [Next]_vars
    PROVE  LatestInv'
<1>1. CASE UNCHANGED vars
  <2>1. UNCHANGED <<stored, edits, typed, excused, note, editor, body, timer, saves>>
    BY <1>1 DEF vars, pastVars, pageVars, saveVars
  <2> QED
    BY <2>1, LatestSame
<1>2. CASE SaveNow
  BY <1>2, LatestPersist DEF SaveNow
<1>3. CASE SaveTimer
  <2>1. CASE note = NoNote
    <3>1. UNCHANGED <<stored, edits, typed, excused, note, editor, body, saves>>
      BY <1>3, <2>1 DEF SaveTimer, saveVars
    <3> QED
      BY <2>1, <3>1, LatestSame, NoteAssumption
  <2>2. CASE note # NoNote
    BY <1>3, <2>2, LatestPersist DEF SaveTimer
  <2> QED
    BY <2>1, <2>2
<1>4. CASE Close
  <2>1. /\ UNCHANGED <<stored, edits, typed, saves>> /\ note' = NoNote
        /\ excused' = excused \cup {} \cup (IF timer THEN {note} \ {NoNote} ELSE {})
    BY <1>4 DEF Close, Shut, saveVars
  <2> QED
    BY <2>1, LatestSame, NoteAssumption
<1>5. CASE Enter
  <2>1. UNCHANGED <<stored, edits, typed, excused, note, editor, body, timer, saves>>
    BY <1>5 DEF Enter, pastVars, saveVars
  <2> QED
    BY <2>1, LatestSame
<1>6. ASSUME NEW n \in Notes \cup {NoNote}, Select(n)
      PROVE  LatestInv'
  BY <1>6, LatestEffect DEF Select
<1>7. ASSUME NEW n \in Notes, GetFails(n)
      PROVE  LatestInv'
  <2>1. CASE phase = "loading" /\ selected = n
    BY <1>7, <2>1, LatestEffect DEF GetFails
  <2>2. CASE ~(phase = "loading" /\ selected = n)
    <3>1. UNCHANGED <<stored, edits, typed, excused, note, editor, body, timer, saves>>
      BY <1>7, <2>2 DEF GetFails, pastVars, pageVars, saveVars
    <3> QED
      BY <3>1, LatestSame
  <2> QED
    BY <2>1, <2>2
<1>8. CASE \E id \in Ids : SaveEnds(id)
  <2>1. PICK p \in DOMAIN saves : saves[p].at = "taken" /\ Ends(p, {})
    BY <1>8 DEF SaveEnds
  <2> QED
    BY <2>1, LatestEnds
<1>9. CASE SaveFails
  <2>1. PICK p \in DOMAIN saves : \/ saves[p].at = "taken" /\ Ends(p, {})
                                  \/ saves[p].at = "sent" /\ Ends(p, {saves[p].note})
    BY <1>9 DEF SaveFails
  <2>2. {saves[p].note} \in SUBSET Notes /\ {} \in SUBSET Notes
    BY UsedIds DEF NoteInv, Save
  <2> QED
    BY <2>1, <2>2, LatestEnds
<1> QED
  BY <1>1, <1>2, <1>3, <1>4, <1>5, <1>6, <1>7, <1>8, <1>9, LatestEdit, LatestLeave,
     LatestTaken, LatestArrives DEF Next, UserStep, TabStep, Fault

LEMMA SavedInit == Init => LineInv /\ LatestInv
<1> SUFFICES ASSUME Init PROVE LineInv /\ LatestInv
  OBVIOUS
<1>1. DOMAIN saves = {}
  BY DEF Init
<1>2. \A n \in Notes : /\ stored[n].n = 0 /\ typed[n] = 0 /\ edits = 0 /\ note # n
                       /\ Untaken(n) = {}
  BY <1>1, NoteAssumption DEF Init, Untaken
<1> QED
  BY <1>1, <1>2 DEF LineInv, LatestInv, Shows, Newest, InLine

LEMMA SavedInvariant == FewSaves => (Spec => []SavedInv)
<1> SUFFICES ASSUME FewSaves
             PROVE  Spec => []SavedInv
  OBVIOUS
<1>1. Init => SavedInv
  BY InvInit, SavedInit DEF SavedInv
<1>2. SavedInv /\ [Next]_vars => SavedInv'
  BY InvStep, LineStep, LatestStep DEF SavedInv
<1> QED
  BY <1>1, <1>2, PTL DEF Spec

(* Once no save is armed, waits or is under way, every note is stored with *)
(* its last change, also a note that is not open any more, for any number  *)
(* of notes and changes, if no more than one save ever waits for another.  *)
THEOREM SettledNotesAreSaved == FewSaves => (Spec => []SettledIsSaved)
<1> SUFFICES ASSUME FewSaves
             PROVE  Spec => []SettledIsSaved
  OBVIOUS
<1>1. SavedInv => SettledIsSaved
  <2> SUFFICES ASSUME SavedInv, saves = <<>>, ~timer, NEW n \in Notes \ excused
               PROVE  stored[n].n = typed[n]
    BY DEF SettledIsSaved
  <2>1. Untaken(n) = {}
    BY DEF Untaken
  <2> QED
    BY <2>1 DEF SavedInv, LatestInv, Newest
<1> QED
  BY <1>1, SavedInvariant, PTL

(* A change is never overwritten by an older text, whatever the order in   *)
(* which the server takes the requests that are under way, if no more than *)
(* one save ever waits for another.                                        *)
THEOREM NewestTextStays == FewSaves => (Spec => NewestStays)
<1> SUFFICES ASSUME FewSaves
             PROVE  Spec => NewestStays
  OBVIOUS
<1>1. SavedInv /\ [Next]_vars
        => [\A n \in Notes : n \in excused' \/ stored'[n].n >= stored[n].n]_vars
  <2> SUFFICES ASSUME SavedInv, Next
               PROVE  \A n \in Notes : n \in excused' \/ stored'[n].n >= stored[n].n
    OBVIOUS
  <2>1. \A n \in Notes : stored[n].n \in Nat
    BY Counts DEF SavedInv
  <2>2. CASE \E id \in Ids : ServerTakes(id)
    BY <2>2, LatestTaken DEF SavedInv
  <2>3. CASE ~\E id \in Ids : ServerTakes(id)
    <3>1. stored' = stored
      BY <2>3 DEF Next, UserStep, TabStep, Fault, Edit, SaveNow, Close, Leave, Enter, Select,
            SelectEffect, SaveTimer, SaveEnds, SaveFails, Ends, GetArrives, GetFails
    <3> QED
      BY <2>1, <3>1
  <2> QED
    BY <2>2, <2>3
<1> QED
  BY <1>1, SavedInvariant, PTL DEF Spec, NewestStays
================================================================================
