----------------------------- MODULE FloorMapProofs -----------------------------
(***************************************************************************)
(* Proofs about FloorMap, for any number of floors, edits and editors.     *)
(***************************************************************************)
EXTENDS FloorMap, CommonLemmas

-------------------------------------------------------------------------------
(* Saves under way.                                                        *)

Has(w, how) == \E i \in DOMAIN w : w[i].how = how

(* At most one PATCH and one PUT. *)
Wire(w) ==
    /\ w \in Seq(Save)
    /\ \A i, j \in DOMAIN w : w[i].how = w[j].how => i = j

LEMMA AtMostTwo ==
    ASSUME NEW w, Wire(w)
    PROVE  Len(w) <= 2
<1>1. Len(w) \in Nat /\ DOMAIN w = 1..Len(w) /\ \A i \in DOMAIN w : w[i].how \in {"patch", "put"}
  <2>1. \A i \in DOMAIN w : w[i] \in Save
    BY DEF Wire
  <2> QED
    BY <2>1, LenProperties DEF Wire, Save
<1> SUFFICES ASSUME ~(Len(w) <= 2) PROVE FALSE
  OBVIOUS
<1>2. 1 \in DOMAIN w /\ 2 \in DOMAIN w /\ 3 \in DOMAIN w
  BY <1>1
<1> QED
  BY <1>1, <1>2 DEF Wire

(* A save is sent behind the others. *)
LEMMA Added ==
    ASSUME NEW w, Wire(w), NEW e \in Save, ~Has(w, e.how)
    PROVE  LET t == Append(w, e) IN
           /\ Wire(t)
           /\ \A how : Has(t, how) <=> Has(w, how) \/ how = e.how
           /\ \A i \in DOMAIN t : t[i] = e \/ \E j \in DOMAIN w : t[i] = w[j]
           /\ t # <<>> /\ t[Len(t)] = e
<1> DEFINE t == Append(w, e)
<1>1. /\ t \in Seq(Save) /\ t # <<>>
      /\ Len(w) + 1 \notin DOMAIN w
      /\ DOMAIN t = DOMAIN w \cup {Len(w) + 1}
      /\ \A i \in DOMAIN w : t[i] = w[i]
      /\ t[Len(w) + 1] = e
  BY AppendedPlaces DEF Wire
<1>2. Len(t) = Len(w) + 1
  BY AppendProperties DEF Wire
<1> HIDE DEF t
<1>3. ASSUME NEW i \in DOMAIN t, NEW j \in DOMAIN t, t[i].how = t[j].how
      PROVE  i = j
  <2>1. CASE i \in DOMAIN w /\ j \in DOMAIN w
    BY <1>1, <1>3, <2>1 DEF Wire
  <2>2. CASE i \in DOMAIN w /\ j \notin DOMAIN w
    BY <1>1, <1>3, <2>2 DEF Has
  <2>3. CASE i \notin DOMAIN w /\ j \in DOMAIN w
    BY <1>1, <1>3, <2>3 DEF Has
  <2>4. CASE i \notin DOMAIN w /\ j \notin DOMAIN w
    BY <1>1, <2>4
  <2> QED
    BY <2>1, <2>2, <2>3, <2>4
<1>4. \A how : Has(t, how) <=> Has(w, how) \/ how = e.how
  BY <1>1 DEF Has
<1> QED
  BY <1>1, <1>2, <1>3, <1>4 DEF Wire, t

(* A save is not on its way any more. *)
LEMMA TakenOut ==
    ASSUME NEW w, Wire(w), NEW p \in DOMAIN w
    PROVE  LET t == RemoveAt(w, p) IN
           /\ Wire(t)
           /\ \A how : Has(t, how) <=> Has(w, how) /\ how # w[p].how
           /\ \A i \in DOMAIN t : \E j \in DOMAIN w : t[i] = w[j]
           /\ Len(w) \in DOMAIN w
           /\ p # Len(w) => t # <<>> /\ t[Len(t)] = w[Len(w)]
           /\ t # <<>> => p # Len(w) \/ Len(w) # 1
<1> DEFINE t == RemoveAt(w, p)
<1>1. /\ t \in Seq(Save) /\ DOMAIN w = 1..Len(w) /\ Len(w) \in Nat
      /\ DOMAIN t = 1..(Len(w) - 1)
      /\ \A i \in 1..(Len(w) - 1) : t[i] = IF i < p THEN w[i] ELSE w[i + 1]
  BY Removed DEF Wire
<1>2. \E place : KeptPlaces(w, p, t, place)
  BY RemovedPlaces DEF Wire
<1> HIDE DEF t
<1>3. PICK place : KeptPlaces(w, p, t, place)
  BY <1>2
<1>4. Wire(t)
  BY <1>1, <1>3 DEF KeptPlaces, Wire
<1>5. \A how : Has(t, how) <=> Has(w, how) /\ how # w[p].how
  BY <1>3 DEF KeptPlaces, Wire, Has
<1>6. \A i \in DOMAIN t : \E j \in DOMAIN w : t[i] = w[j]
  BY <1>3 DEF KeptPlaces
<1>7. Len(t) = Len(w) - 1
  <2>1. Len(t) \in Nat /\ DOMAIN t = 1..Len(t)
    BY <1>1, LenProperties
  <2>2. Len(w) - 1 \in Nat /\ 1..Len(t) = 1..(Len(w) - 1)
    <3>1. p \in 1..Len(w) /\ Len(w) \in Nat
      BY <1>1
    <3>2. Len(w) - 1 \in Nat
      BY <3>1
    <3> QED
      BY <1>1, <2>1, <3>2
  <2>3. ASSUME NEW m \in Nat, NEW n \in Nat, 1..m = 1..n
        PROVE  m <= n
    <3>1. m \in 1..n \/ m = 0
      BY <2>3
    <3> QED
      BY <3>1
  <2>4. Len(t) <= Len(w) - 1 /\ Len(w) - 1 <= Len(t)
    BY <2>1, <2>2, <2>3
  <2> QED
    BY <2>1, <2>2, <2>4
<1>8. Len(w) \in DOMAIN w
  BY <1>1
<1>9. p # Len(w) => t # <<>> /\ t[Len(t)] = w[Len(w)]
  <2> SUFFICES ASSUME p # Len(w) PROVE t # <<>> /\ t[Len(t)] = w[Len(w)]
    OBVIOUS
  <2>1. Len(w) - 1 \in 1..(Len(w) - 1) /\ ~(Len(w) - 1 < p) /\ Len(w) - 1 + 1 = Len(w)
    BY <1>1
  <2> QED
    BY <1>1, <1>7, <2>1
<1>10. t # <<>> => Len(w) # 1
  BY <1>1, <1>7, EmptySeq
<1> QED
  BY <1>4, <1>5, <1>6, <1>8, <1>9, <1>10 DEF t

(* A request of one kind has failed: none of that kind is on its way, and  *)
(* the save sent last is still the last, or it is the one that failed.     *)
LEMMA UnsentWire ==
    ASSUME Wire(wire), NEW how
    PROVE  LET t == Unsent(how) IN
           /\ Wire(t) /\ ~Has(t, how)
           /\ \A h : Has(t, h) => Has(wire, h)
           /\ \A i \in DOMAIN t : \E j \in DOMAIN wire : t[i] = wire[j]
           /\ Sent(how) => PlaceOf(how) \in DOMAIN wire
           /\ \/ t = wire
              \/ t # <<>> /\ wire # <<>> /\ t[Len(t)] = wire[Len(wire)]
              \/ Sent(how) /\ wire # <<>> /\ wire[PlaceOf(how)] = wire[Len(wire)]
<1>1. CASE Sent(how)
  <2>1. PlaceOf(how) \in DOMAIN wire /\ wire[PlaceOf(how)].how = how
    BY <1>1 DEF Sent, PlaceOf
  <2>2. Unsent(how) = RemoveAt(wire, PlaceOf(how))
    BY <1>1 DEF Unsent
  <2>3. LET t == RemoveAt(wire, PlaceOf(how)) IN
        /\ Wire(t)
        /\ \A h : Has(t, h) <=> Has(wire, h) /\ h # wire[PlaceOf(how)].how
        /\ \A i \in DOMAIN t : \E j \in DOMAIN wire : t[i] = wire[j]
        /\ Len(wire) \in DOMAIN wire
        /\ PlaceOf(how) # Len(wire) => t # <<>> /\ t[Len(t)] = wire[Len(wire)]
    BY <2>1, TakenOut
  <2>4. wire # <<>>
    BY <2>1
  <2> QED
    BY <1>1, <2>1, <2>2, <2>3, <2>4
<1>2. CASE ~Sent(how)
  BY <1>2 DEF Unsent, Sent, Has
<1> QED
  BY <1>1, <1>2

-------------------------------------------------------------------------------
(* The shape of the state. *)

PageShape ==
    /\ saved \in [Floors -> SUBSET Token]
    /\ edits \in 0..MaxEdits /\ other \in 0..MaxOther
    /\ failed \in SUBSET Token
    /\ active \in Floors
    /\ shown \in SUBSET Token
    /\ loaded \in BOOLEAN /\ tick \in BOOLEAN
    /\ get \in [Floors -> Get]
    /\ loading \in SUBSET Floors
    /\ pull \in Floors \cup {NoFloor}
    /\ debounce \in BOOLEAN

SaveShape ==
    /\ badge \in {"idle", "dirty", "saving", "saved", "error"}
    /\ timer \in Floors \cup {NoFloor}
    /\ soon \in Floors \cup {NoFloor}
    /\ pend \in {NoIcons} \cup SUBSET Token
    /\ flight \in Floors \cup {NoFloor}
    /\ put \in Floors \cup {NoFloor}

(* What is on its way is known to be. *)
WireShape ==
    /\ Wire(wire)
    /\ Has(wire, "patch") => flight # NoFloor
    /\ Has(wire, "put") => put # NoFloor

Shape == PageShape /\ SaveShape /\ WireShape

LEMMA SameWire ==
    ASSUME WireShape, UNCHANGED <<wire, flight, put>>
    PROVE  WireShape'
BY DEF WireShape, Wire, Has

(* A PATCH is sent, or what it would send waits. *)
LEMMA FlushShape ==
    ASSUME Shape, NEW f \in Floors, NEW icons \in {NoIcons} \cup SUBSET Token,
           FlushIconsPatch(f, icons), UNCHANGED <<soon, put>> \/ (UNCHANGED put /\ soon' = NoFloor),
           timer' = NoFloor
    PROVE  SaveShape' /\ WireShape'
<1>1. CASE flight # NoFloor \/ icons = NoIcons
  BY <1>1, SameWire DEF FlushIconsPatch, Shape, SaveShape
<1>2. CASE ~(flight # NoFloor \/ icons = NoIcons)
  <2> DEFINE e == [how |-> "patch", floor |-> f, layout |-> icons]
  <2>1. e \in Save /\ e.how = "patch"
    BY <1>2 DEF Save
  <2>2. wire' = Append(wire, e) /\ ~Has(wire, "patch")
    BY <1>2 DEF FlushIconsPatch, Shape, WireShape
  <2> HIDE DEF e
  <2>3. Wire(wire') /\ \A how : Has(wire', how) <=> Has(wire, how) \/ how = "patch"
    BY <2>1, <2>2, Added DEF Shape, WireShape
  <2>4. pend' = NoIcons /\ flight' = f /\ badge' = "saving" /\ f # NoFloor
    BY <1>2, FloorAssumption DEF FlushIconsPatch
  <2>5. WireShape'
    BY <2>3, <2>4 DEF Shape, WireShape
  <2> QED
    BY <2>4, <2>5 DEF Shape, SaveShape
<1> QED
  BY <1>1, <1>2

(* A PUT is sent. *)
LEMMA PutShape ==
    ASSUME Shape, SaveLayout(active, shown), UNCHANGED flight
    PROVE  WireShape' /\ badge' = "saving" /\ put' = active
<1> DEFINE e == [how |-> "put", floor |-> active, layout |-> shown]
<1>1. e \in Save /\ e.how = "put"
  BY DEF Save, Shape, PageShape
<1>2. wire' = Append(wire, e) /\ ~Has(wire, "put") /\ put' = active /\ active # NoFloor
  BY FloorAssumption DEF SaveLayout, Shape, WireShape, PageShape
<1> HIDE DEF e
<1>3. Wire(wire') /\ \A how : Has(wire', how) <=> Has(wire, how) \/ how = "put"
  BY <1>1, <1>2, Added DEF Shape, WireShape
<1> QED
  BY <1>2, <1>3 DEF SaveLayout, Shape, WireShape

(* A PATCH ends, answered or not, and the next one is sent. *)
LEMMA PatchEndShape ==
    ASSUME Shape, flight # NoFloor, NEW as \in {"saved", "error"}, PatchEnds(as),
           NEW w, Wire(w), ~Has(w, "patch"), Has(w, "put") => Has(wire, "put"),
           wire' = IF pend = NoIcons THEN w ELSE Append(w, Resent),
           UNCHANGED <<timer, soon, put>>
    PROVE  SaveShape' /\ WireShape'
<1>1. CASE pend = NoIcons
  BY <1>1 DEF PatchEnds, Shape, SaveShape, WireShape
<1>2. CASE pend # NoIcons
  <2>1. Resent \in Save /\ Resent.how = "patch"
    BY <1>2 DEF Resent, Save, Shape, SaveShape
  <2>2. wire' = Append(w, Resent)
    BY <1>2
  <2>3. Wire(wire') /\ \A how : Has(wire', how) <=> Has(w, how) \/ how = "patch"
    BY <2>1, <2>2, Added
  <2>4. UNCHANGED flight /\ pend' = NoIcons /\ badge' = "saving"
    BY <1>2 DEF PatchEnds
  <2>5. WireShape'
    BY <2>3, <2>4 DEF Shape, WireShape
  <2> QED
    BY <2>4, <2>5 DEF Shape, SaveShape
<1> QED
  BY <1>1, <1>2

(* What a request lost that has failed. *)
LEMMA FailedShape ==
    ASSUME Shape, NEW how, Fails(how)
    PROVE  failed' \in SUBSET Token
<1>1. CASE Sent(how)
  <2>1. PlaceOf(how) \in DOMAIN wire
    BY <1>1, UnsentWire DEF Shape, WireShape
  <2>2. wire[PlaceOf(how)] \in Save
    BY <2>1 DEF Shape, WireShape, Wire
  <2> QED
    BY <1>1, <2>2 DEF Fails, Save
<1>2. CASE ~Sent(how)
  BY <1>2 DEF Fails
<1> QED
  BY <1>1, <1>2

LEMMA AskedShape ==
    ASSUME PageShape, NEW f \in Floors, AskFor(f)
    PROVE  get' \in [Floors -> Get]
BY DEF AskFor, PageShape, Get

-------------------------------------------------------------------------------
(* Every step keeps the shape.                                             *)

LEMMA ChooseShape ==
    ASSUME Shape, NEW f \in Floors, ChooseFloor(f)
    PROVE  Shape'
<1>1. get' \in [Floors -> Get]
  BY AskedShape DEF ChooseFloor, Shape
<1>2. PageShape'
  BY <1>1 DEF ChooseFloor, Shape, PageShape
<1>3. SaveShape'
  BY DEF ChooseFloor, Shape, SaveShape
<1> QED
  BY <1>2, <1>3, SameWire DEF ChooseFloor, Shape

LEMMA EditShape ==
    ASSUME Shape, Edit
    PROVE  Shape'
<1>1. edits + 1 \in 1..MaxEdits /\ edits' = edits + 1
  BY FloorAssumption DEF Edit, Shape, PageShape
<1>2. [floor |-> active, n |-> edits'] \in Token
  BY <1>1, FloorAssumption DEF Token, Shape, PageShape
<1>3. shown' \in SUBSET Token
  BY <1>2 DEF Edit, Shape, PageShape
<1>4. PageShape'
  BY <1>1, <1>3 DEF Edit, Shape, PageShape
<1>5. SaveShape'
  BY <1>3 DEF Edit, Autosave, Shape, PageShape, SaveShape
<1> QED
  BY <1>4, <1>5, SameWire DEF Edit, Shape

LEMMA PutSteps ==
    ASSUME Shape, UpdatePcHoverFields \/ SaveNow
    PROVE  Shape'
<1>1. WireShape' /\ badge' = "saving" /\ put' = active
  BY PutShape DEF UpdatePcHoverFields, SaveNow
<1>2. PageShape'
  BY DEF UpdatePcHoverFields, SaveNow, Shape, PageShape
<1>3. SaveShape'
  BY <1>1 DEF UpdatePcHoverFields, SaveNow, Shape, PageShape, SaveShape
<1> QED
  BY <1>1, <1>2, <1>3 DEF Shape

LEMMA PointerUpShape ==
    ASSUME Shape, PointerUp
    PROVE  Shape'
<1>1. PageShape' /\ SaveShape'
  BY DEF PointerUp, tabVars, Shape, PageShape, SaveShape
<1> QED
  BY <1>1, SameWire DEF PointerUp, Shape

LEMMA FlushSteps ==
    ASSUME Shape, FlushAfterPointerUp \/ AutosaveTimer
    PROVE  Shape'
<1>1. PageShape'
  BY DEF FlushAfterPointerUp, AutosaveTimer, Shape, PageShape
<1>2. SaveShape' /\ WireShape'
  <2>1. CASE FlushAfterPointerUp
    <3>1. soon \in Floors /\ shown \in {NoIcons} \cup SUBSET Token
      BY <2>1 DEF FlushAfterPointerUp, Shape, SaveShape, PageShape
    <3> QED
      BY <2>1, <3>1, FlushShape DEF FlushAfterPointerUp
  <2>2. CASE AutosaveTimer
    <3>1. timer \in Floors /\ pend \in {NoIcons} \cup SUBSET Token
      BY <2>2 DEF AutosaveTimer, Shape, SaveShape
    <3> QED
      BY <2>2, <3>1, FlushShape DEF AutosaveTimer
  <2> QED
    BY <2>1, <2>2
<1> QED
  BY <1>1, <1>2 DEF Shape

LEMMA TakeShape ==
    ASSUME Shape, ServerTakes
    PROVE  Shape'
<1>1. PICK i \in DOMAIN wire : /\ saved' = [saved EXCEPT ![wire[i].floor] = wire[i].layout]
                               /\ Notice(wire[i].floor)
                               /\ wire' = RemoveAt(wire, i)
  BY DEF ServerTakes
<1>2. wire[i].layout \in SUBSET Token
  <2>1. wire[i] \in Save
    BY DEF Shape, WireShape, Wire
  <2> QED
    BY <2>1 DEF Save
<1>3. Wire(wire') /\ \A how : Has(wire', how) => Has(wire, how)
  BY <1>1, TakenOut DEF Shape, WireShape
<1>4. UNCHANGED <<edits, other, failed, tabVars, saveVars, get, loading, pull>>
  BY DEF ServerTakes
<1>5. WireShape'
  BY <1>3, <1>4 DEF Shape, WireShape, saveVars
<1>6. PageShape'
  BY <1>1, <1>2, <1>4 DEF Notice, Shape, PageShape, tabVars
<1>7. SaveShape'
  BY <1>4 DEF Shape, SaveShape, tabVars, saveVars
<1> QED
  BY <1>5, <1>6, <1>7 DEF Shape

(* What another editor adds. *)
LEMMA OtherToken ==
    ASSUME PageShape, other < MaxOther, other' = other + 1, NEW f \in Floors
    PROVE  [floor |-> f, n |-> -other'] \in Token /\ other' \in 0..MaxOther
<1>1. other + 1 \in 1..MaxOther /\ -(other + 1) \in (-MaxOther)..MaxEdits
  BY FloorAssumption DEF PageShape
<1> QED
  BY <1>1 DEF Token

LEMMA OtherShape ==
    ASSUME Shape, NEW f \in Floors, OtherSaves(f)
    PROVE  Shape'
<1>1. [floor |-> f, n |-> -other'] \in Token /\ other' \in 0..MaxOther
  BY OtherToken DEF OtherSaves, Shape
<1>2. saved' \in [Floors -> SUBSET Token]
  BY <1>1 DEF OtherSaves, Shape, PageShape
<1>3. UNCHANGED <<edits, failed, tabVars, saveVars, wire, get, loading, pull>> /\ Notice(f)
  BY DEF OtherSaves
<1>4. PageShape'
  BY <1>1, <1>2, <1>3 DEF Notice, Shape, PageShape, tabVars
<1>5. SaveShape' /\ WireShape'
  BY <1>3, SameWire DEF Shape, SaveShape, tabVars, saveVars
<1> QED
  BY <1>4, <1>5 DEF Shape

LEMMA PatchSteps ==
    ASSUME Shape, PatchAnswered \/ PatchFails
    PROVE  Shape'
<1>1. CASE PatchAnswered
  <2>1. SaveShape' /\ WireShape'
    <3>1. Wire(wire) /\ ~Has(wire, "patch")
      BY <1>1 DEF PatchAnswered, Sent, Has, Shape, WireShape
    <3> QED
      BY <1>1, <3>1, PatchEndShape DEF PatchAnswered
  <2>2. PageShape'
    BY <1>1 DEF PatchAnswered, Shape, PageShape
  <2> QED
    BY <2>1, <2>2 DEF Shape
<1>2. CASE PatchFails
  <2>1. SaveShape' /\ WireShape'
    <3>1. LET w == Unsent("patch") IN
          Wire(w) /\ ~Has(w, "patch") /\ (Has(w, "put") => Has(wire, "put"))
      BY UnsentWire DEF Shape, WireShape
    <3> QED
      BY <1>2, <3>1, PatchEndShape DEF PatchFails
  <2>2. failed' \in SUBSET Token
    BY <1>2, FailedShape DEF PatchFails
  <2>3. PageShape'
    BY <1>2, <2>2 DEF PatchFails, Shape, PageShape
  <2> QED
    BY <2>1, <2>3 DEF Shape
<1> QED
  BY <1>1, <1>2

LEMMA PutEndShape ==
    ASSUME Shape, PutAnswered \/ PutFails
    PROVE  Shape'
<1>1. CASE PutAnswered
  <2>1. WireShape'
    BY <1>1 DEF PutAnswered, Sent, Has, Wire, Shape, WireShape
  <2>2. PageShape' /\ SaveShape'
    BY <1>1 DEF PutAnswered, Shape, PageShape, SaveShape
  <2> QED
    BY <2>1, <2>2 DEF Shape
<1>2. CASE PutFails
  <2>1. LET w == Unsent("put") IN
        Wire(w) /\ ~Has(w, "put") /\ (Has(w, "patch") => Has(wire, "patch"))
    BY UnsentWire DEF Shape, WireShape
  <2>2. WireShape'
    BY <1>2, <2>1 DEF PutFails, Shape, WireShape
  <2>3. failed' \in SUBSET Token
    BY <1>2, FailedShape DEF PutFails
  <2>4. PageShape' /\ SaveShape'
    BY <1>2, <2>3 DEF PutFails, Shape, PageShape, SaveShape
  <2> QED
    BY <2>2, <2>4 DEF Shape
<1> QED
  BY <1>1, <1>2

LEMMA DebounceShape ==
    ASSUME Shape, DebounceEnds
    PROVE  Shape'
<1>1. get' \in [Floors -> Get] /\ pull' \in Floors \cup {NoFloor}
  <2>1. CASE badge = "dirty" \/ flight # NoFloor
    BY <2>1 DEF DebounceEnds, Shape, PageShape
  <2>2. CASE ~(badge = "dirty" \/ flight # NoFloor)
    BY <2>2, AskedShape DEF DebounceEnds, Shape, PageShape
  <2> QED
    BY <2>1, <2>2
<1>2. PageShape' /\ SaveShape'
  BY <1>1 DEF DebounceEnds, Shape, PageShape, SaveShape, tabVars, saveVars
<1> QED
  BY <1>2, SameWire DEF DebounceEnds, Shape, saveVars

LEMMA ReadShape ==
    ASSUME Shape, NEW f \in Floors, ServerReads(f)
    PROVE  Shape'
<1>1. [at |-> "read", layout |-> saved[f]] \in Get
  BY DEF Get, Shape, PageShape
<1>2. PageShape' /\ SaveShape'
  BY <1>1 DEF ServerReads, Shape, PageShape, SaveShape, tabVars, saveVars
<1> QED
  BY <1>2, SameWire DEF ServerReads, Shape, saveVars

LEMMA ArriveShape ==
    ASSUME Shape, NEW f \in Floors, GetArrives(f)
    PROVE  Shape'
<1>1. get[f].layout \in SUBSET Token /\ NoGet \in Get
  BY DEF Shape, PageShape, Get, NoGet
<1>2. /\ shown' \in SUBSET Token /\ tick' \in BOOLEAN
      /\ badge' \in {"idle", "dirty", "saving", "saved", "error"}
      /\ pend' \in {NoIcons} \cup SUBSET Token /\ timer' \in Floors \cup {NoFloor}
  BY <1>1 DEF GetArrives, Painted, Autosave, Shape, PageShape, SaveShape
<1>3. PageShape' /\ SaveShape'
  BY <1>1, <1>2 DEF GetArrives, Shape, PageShape, SaveShape
<1> QED
  BY <1>3, SameWire DEF GetArrives, Shape

LEMMA GetFailsShape ==
    ASSUME Shape, NEW f \in Floors, GetFails(f)
    PROVE  Shape'
<1>1. NoGet \in Get
  BY DEF Get, NoGet
<1>2. PageShape' /\ SaveShape'
  BY <1>1 DEF GetFails, Shape, PageShape, SaveShape, tabVars, saveVars
<1> QED
  BY <1>2, SameWire DEF GetFails, Shape, saveVars

LEMMA TickShape ==
    ASSUME Shape, LoadedTick
    PROVE  Shape'
<1>1. PageShape'
  BY DEF LoadedTick, Shape, PageShape
<1>2. SaveShape'
  BY DEF LoadedTick, Autosave, Shape, PageShape, SaveShape
<1> QED
  BY <1>1, <1>2, SameWire DEF LoadedTick, Shape

LEMMA ShapeStep ==
    ASSUME Shape, [Next]_vars
    PROVE  Shape'
<1>1. CASE UserStep
  BY <1>1, EditShape, PutSteps, PointerUpShape, ChooseShape DEF UserStep
<1>2. CASE Timer
  BY <1>2, FlushSteps, DebounceShape, TickShape DEF Timer
<1>3. CASE Answer
  BY <1>3, TakeShape, PatchSteps, PutEndShape, ReadShape, ArriveShape DEF Answer
<1>4. CASE Fault
  BY <1>4, PatchSteps, PutEndShape, GetFailsShape DEF Fault
<1>5. CASE \E f \in Floors : OtherSaves(f)
  BY <1>5, OtherShape
<1>6. CASE UNCHANGED vars
  <2> USE <1>6 DEF vars, tabVars, saveVars
  <2>1. PageShape' /\ SaveShape'
    BY DEF Shape, PageShape, SaveShape
  <2> QED
    BY <2>1, SameWire DEF Shape
<1> QED
  BY <1>1, <1>2, <1>3, <1>4, <1>5, <1>6 DEF Next

LEMMA ShapeInit == Init => Shape
<1> SUFFICES ASSUME Init PROVE Shape
  OBVIOUS
<1>1. active \in Floors /\ 0 \in 0..MaxEdits /\ 0 \in 0..MaxOther
  BY FloorAssumption DEF Init
<1>2. saved \in [Floors -> SUBSET Token] /\ get \in [Floors -> Get]
  BY DEF Init, NoGet, Get
<1>3. PageShape /\ SaveShape
  BY <1>1, <1>2 DEF Init, PageShape, SaveShape
<1>4. WireShape
  BY DEF Init, WireShape, Wire, Has
<1> QED
  BY <1>3, <1>4 DEF Shape

LEMMA ShapeInvariant == Spec => []Shape
BY ShapeInit, ShapeStep, PTL DEF Spec

(* Page, timers and requests keep their shape; a floor's saves overlap by  *)
(* one PATCH and one PUT at most.                                          *)
THEOREM FloorTypeCorrect == Spec => []TypeOK
<1>1. Shape => TypeOK
  BY AtMostTwo DEF Shape, PageShape, SaveShape, WireShape, Wire, TypeOK
<1> QED
  BY <1>1, ShapeInvariant, PTL

-------------------------------------------------------------------------------
(* Whose objects are where, when the user waits for the answers before     *)
(* Save and before another floor.                                          *)

TokensOf(f) == {t \in Token : t.floor = f}

(* Everything the tab waits for is about the floor it shows. *)
Places ==
    /\ timer \in {active, NoFloor} /\ soon \in {active, NoFloor}
    /\ flight \in {active, NoFloor} /\ put \in {active, NoFloor}
    /\ pull \in {active, NoFloor} /\ loading \subseteq {active}

(* Nothing is saved until the floor has been loaded. *)
Quiet ==
    /\ ~loaded => /\ timer = NoFloor /\ soon = NoFloor /\ pend = NoIcons
                  /\ flight = NoFloor /\ put = NoFloor
    /\ loaded => loading = {} /\ ~tick
    /\ tick => loading = {}

OwnWire(w) == \A i \in DOMAIN w : w[i].floor = active /\ w[i].layout \subseteq TokensOf(active)
OwnSaved == \A f \in Floors : saved[f] \subseteq TokensOf(f)
OwnGet == \A f \in Floors : get[f].layout \subseteq TokensOf(f)
OwnShown == loaded \/ tick => shown \subseteq TokensOf(active)
OwnPend == pend # NoIcons => pend \subseteq TokensOf(active)

OwnInv == Places /\ Quiet /\ OwnWire(wire) /\ OwnSaved /\ OwnGet /\ OwnShown /\ OwnPend

LEMMA SameOwn ==
    ASSUME OwnInv, UNCHANGED active
    PROVE  /\ UNCHANGED <<timer, soon, flight, put, pull, loading>> => Places'
           /\ UNCHANGED <<loaded, timer, soon, pend, flight, put, loading, tick>> => Quiet'
           /\ UNCHANGED wire => OwnWire(wire)'
           /\ UNCHANGED saved => OwnSaved'
           /\ UNCHANGED get => OwnGet'
           /\ UNCHANGED <<loaded, tick, shown>> => OwnShown'
           /\ UNCHANGED pend => OwnPend'
BY DEF OwnInv, Places, Quiet, OwnWire, OwnSaved, OwnGet, OwnShown, OwnPend, TokensOf

(* A save of what the screen shows, or of what was on it, is sent. *)
LEMMA AddedOwn ==
    ASSUME NEW w, OwnWire(w), Wire(w), NEW e \in Save, e.floor = active,
           e.layout \subseteq TokensOf(active), ~Has(w, e.how)
    PROVE  OwnWire(Append(w, e))
<1>1. \A i \in DOMAIN Append(w, e) : Append(w, e)[i] = e \/ \E j \in DOMAIN w : Append(w, e)[i] = w[j]
  BY Added
<1> QED
  BY <1>1 DEF OwnWire

LEMMA AskedOwn ==
    ASSUME PageShape, OwnGet, NEW f \in Floors, AskFor(f)
    PROVE  OwnGet'
BY DEF AskFor, PageShape, OwnGet, TokensOf

(* Without a PATCH and a PUT nothing is on its way. *)
LEMMA NothingSent ==
    ASSUME WireShape, flight = NoFloor, put = NoFloor
    PROVE  wire = <<>>
<1>1. \A i \in DOMAIN wire : wire[i].how \in {"patch", "put"} /\ Has(wire, wire[i].how)
  <2>1. \A i \in DOMAIN wire : wire[i] \in Save
    BY DEF WireShape, Wire
  <2> QED
    BY <2>1 DEF Has, Save
<1>2. DOMAIN wire = {}
  BY <1>1 DEF WireShape
<1>3. wire \in Seq(Save)
  BY DEF WireShape, Wire
<1> QED
  BY <1>2, <1>3, EmptySeq, LenProperties

LEMMA ChooseOwn ==
    ASSUME Patient, Shape, OwnInv, NEW f \in Floors, ChooseFloor(f)
    PROVE  OwnInv'
<1>1. /\ Settled /\ pull = NoFloor /\ timer' = NoFloor /\ active' = f /\ loaded' = FALSE
      /\ loading' = loading \cup {f} /\ AskFor(f)
      /\ UNCHANGED <<saved, shown, tick, soon, pend, flight, put, wire, pull>>
  BY DEF ChooseFloor
<1>2. wire = <<>>
  BY <1>1, NothingSent DEF Settled, Shape
<1>3. Places' /\ Quiet'
  BY <1>1 DEF Settled, Places, Quiet
<1>4. OwnWire(wire)' /\ OwnSaved' /\ OwnShown' /\ OwnPend'
  BY <1>1, <1>2 DEF Settled, OwnInv, OwnWire, OwnSaved, OwnShown, OwnPend, TokensOf
<1>5. OwnGet'
  BY <1>1, AskedOwn DEF Shape, OwnInv
<1> QED
  BY <1>3, <1>4, <1>5 DEF OwnInv

LEMMA EditOwn ==
    ASSUME Patient, Shape, OwnInv, Edit
    PROVE  OwnInv'
<1>1. /\ loaded /\ shown' = shown \cup {[floor |-> active, n |-> edits']}
      /\ pend' = shown' /\ timer' = active
      /\ UNCHANGED <<saved, active, loaded, tick, soon, flight, put, wire, get, loading, pull>>
  BY DEF Edit, Autosave
<1>2. shown' \in SUBSET Token
  BY EditShape DEF Shape, PageShape
<1>3. shown' \subseteq TokensOf(active)
  BY <1>1, <1>2 DEF OwnInv, OwnShown, TokensOf
<1>4. Places' /\ Quiet' /\ OwnShown' /\ OwnPend'
  BY <1>1, <1>3 DEF OwnInv, Places, Quiet, OwnShown, OwnPend, TokensOf
<1> QED
  BY <1>1, <1>4, SameOwn DEF OwnInv

LEMMA PutStepsOwn ==
    ASSUME Patient, Shape, OwnInv, UpdatePcHoverFields \/ SaveNow
    PROVE  OwnInv'
<1> DEFINE e == [how |-> "put", floor |-> active, layout |-> shown]
<1>1. /\ loaded /\ wire' = Append(wire, e) /\ put = NoFloor /\ put' = active
      /\ timer' \in {timer, NoFloor} /\ pend' \in {pend, NoIcons}
      /\ UNCHANGED <<saved, active, shown, loaded, tick, soon, flight, get, loading, pull>>
  BY DEF UpdatePcHoverFields, SaveNow, SaveLayout
<1>2. e \in Save /\ e.floor = active /\ e.layout = shown /\ e.how = "put"
  BY DEF Save, Shape, PageShape
<1> HIDE DEF e
<1>3. shown \subseteq TokensOf(active) /\ ~Has(wire, "put")
  BY <1>1 DEF OwnInv, OwnShown, Shape, WireShape
<1>4. OwnWire(wire')
  BY <1>1, <1>2, <1>3, AddedOwn DEF OwnInv, Shape, WireShape
<1>5. OwnWire(wire)'
  BY <1>1, <1>4 DEF OwnWire, TokensOf
<1>6. Places' /\ Quiet' /\ OwnPend'
  BY <1>1 DEF OwnInv, Places, Quiet, OwnPend, TokensOf
<1> QED
  BY <1>1, <1>5, <1>6, SameOwn DEF OwnInv

LEMMA PointerUpOwn ==
    ASSUME Patient, Shape, OwnInv, PointerUp
    PROVE  OwnInv'
<1>1. /\ loaded /\ soon' = active
      /\ UNCHANGED <<saved, active, shown, loaded, tick, timer, pend, flight, put, wire, get,
                     loading, pull>>
  BY DEF PointerUp, tabVars
<1>2. Places' /\ Quiet'
  BY <1>1 DEF OwnInv, Places, Quiet
<1> QED
  BY <1>1, <1>2, SameOwn DEF OwnInv

(* The PATCH that is sent holds what the screen shows, or what was noted.  *)
LEMMA FlushOwn ==
    ASSUME Shape, OwnInv, NEW icons \in {NoIcons} \cup SUBSET Token,
           icons # NoIcons => icons \subseteq TokensOf(active),
           FlushIconsPatch(active, icons), UNCHANGED active
    PROVE  OwnWire(wire)' /\ OwnPend' /\ flight' \in {flight, active}
<1>1. CASE flight # NoFloor \/ icons = NoIcons
  BY <1>1, SameOwn DEF FlushIconsPatch, OwnPend, TokensOf
<1>2. CASE ~(flight # NoFloor \/ icons = NoIcons)
  <2> DEFINE e == [how |-> "patch", floor |-> active, layout |-> icons]
  <2>1. e \in Save /\ e.how = "patch" /\ e.floor = active /\ e.layout = icons
    BY <1>2 DEF Save, Shape, PageShape
  <2>2. wire' = Append(wire, e) /\ ~Has(wire, "patch")
    BY <1>2 DEF FlushIconsPatch, Shape, WireShape
  <2> HIDE DEF e
  <2>3. OwnWire(wire')
    BY <1>2, <2>1, <2>2, AddedOwn DEF OwnInv, Shape, WireShape
  <2> QED
    BY <1>2, <2>3 DEF FlushIconsPatch, OwnWire, OwnPend, TokensOf
<1> QED
  BY <1>1, <1>2

LEMMA FlushStepsOwn ==
    ASSUME Patient, Shape, OwnInv, FlushAfterPointerUp \/ AutosaveTimer
    PROVE  OwnInv'
<1>1. /\ UNCHANGED <<saved, active, shown, loaded, tick, put, get, loading, pull>>
      /\ timer' = NoFloor /\ soon' \in {soon, NoFloor}
      /\ soon = active \/ timer = active
  BY DEF FlushAfterPointerUp, AutosaveTimer, OwnInv, Places
<1>2. loaded
  BY <1>1, FloorAssumption DEF OwnInv, Quiet, Shape, PageShape
<1>3. \E icons \in {NoIcons} \cup SUBSET Token :
          /\ icons # NoIcons => icons \subseteq TokensOf(active)
          /\ FlushIconsPatch(active, icons)
  <2>1. CASE FlushAfterPointerUp
    BY <1>2, <2>1 DEF FlushAfterPointerUp, OwnInv, Places, OwnShown, Shape, PageShape
  <2>2. CASE AutosaveTimer
    BY <2>2 DEF AutosaveTimer, OwnInv, Places, OwnPend, Shape, SaveShape
  <2> QED
    BY <2>1, <2>2
<1>4. OwnWire(wire)' /\ OwnPend' /\ flight' \in {flight, active}
  BY <1>1, <1>3, FlushOwn
<1>5. Places' /\ Quiet'
  BY <1>1, <1>2, <1>4 DEF OwnInv, Places, Quiet
<1> QED
  BY <1>1, <1>4, <1>5, SameOwn DEF OwnInv

LEMMA TakeOwn ==
    ASSUME Patient, Shape, OwnInv, ServerTakes
    PROVE  OwnInv'
<1>1. PICK i \in DOMAIN wire : /\ saved' = [saved EXCEPT ![wire[i].floor] = wire[i].layout]
                               /\ wire' = RemoveAt(wire, i)
  BY DEF ServerTakes
<1>2. UNCHANGED <<active, shown, loaded, tick, timer, soon, pend, flight, put, get, loading, pull>>
  BY DEF ServerTakes, tabVars, saveVars
<1>3. OwnSaved'
  BY <1>1 DEF OwnInv, OwnWire, OwnSaved, TokensOf, Shape, PageShape
<1>4. \A k \in DOMAIN wire' : \E j \in DOMAIN wire : wire'[k] = wire[j]
  BY <1>1, TakenOut DEF Shape, WireShape
<1>5. OwnWire(wire)'
  BY <1>2, <1>4 DEF OwnInv, OwnWire, TokensOf
<1> QED
  BY <1>2, <1>3, <1>5, SameOwn DEF OwnInv

LEMMA OtherOwn ==
    ASSUME Patient, Shape, OwnInv, NEW f \in Floors, OtherSaves(f)
    PROVE  OwnInv'
<1>1. [floor |-> f, n |-> -other'] \in Token
  BY OtherToken DEF OtherSaves, Shape
<1>2. UNCHANGED <<active, shown, loaded, tick, timer, soon, pend, flight, put, wire, get, loading,
                  pull>>
  BY DEF OtherSaves, tabVars, saveVars
<1>3. OwnSaved'
  BY <1>1 DEF OtherSaves, OwnInv, OwnSaved, TokensOf, Shape, PageShape
<1> QED
  BY <1>2, <1>3, SameOwn DEF OwnInv

(* A PATCH ends, and what came up meanwhile follows. *)
LEMMA PatchEndOwn ==
    ASSUME Shape, OwnInv, flight # NoFloor, NEW as, PatchEnds(as),
           NEW w, Wire(w), ~Has(w, "patch"), OwnWire(w),
           wire' = IF pend = NoIcons THEN w ELSE Append(w, Resent),
           UNCHANGED <<saved, active, shown, loaded, tick, timer, soon, put, get, loading, pull>>
    PROVE  OwnInv'
<1>1. loaded /\ flight = active
  BY DEF OwnInv, Quiet, Places
<1>2. pend' = NoIcons /\ flight' \in {flight, NoFloor}
  BY DEF PatchEnds
<1>3. OwnWire(wire')
  <2>1. CASE pend # NoIcons
    <3>1. Resent \in Save /\ Resent.how = "patch" /\ Resent.floor = active /\ Resent.layout = pend
      BY <1>1, <2>1 DEF Resent, Save, Shape, PageShape, SaveShape
    <3>2. Resent.layout \subseteq TokensOf(active)
      BY <2>1, <3>1 DEF OwnInv, OwnPend
    <3> QED
      BY <2>1, <3>1, <3>2, AddedOwn
  <2> QED
    BY <2>1
<1>4. OwnWire(wire)' /\ OwnPend'
  BY <1>2, <1>3 DEF OwnWire, OwnPend, TokensOf
<1>5. Places' /\ Quiet'
  BY <1>1, <1>2 DEF OwnInv, Places, Quiet
<1> QED
  BY <1>4, <1>5, SameOwn DEF OwnInv

LEMMA UnsentOwn ==
    ASSUME Shape, OwnInv, NEW how
    PROVE  OwnWire(Unsent(how))
<1>1. \A i \in DOMAIN Unsent(how) : \E j \in DOMAIN wire : Unsent(how)[i] = wire[j]
  BY UnsentWire DEF Shape, WireShape
<1> QED
  BY <1>1 DEF OwnInv, OwnWire

LEMMA PatchStepsOwn ==
    ASSUME Patient, Shape, OwnInv, PatchAnswered \/ PatchFails
    PROVE  OwnInv'
<1>1. CASE PatchAnswered
  <2>1. Wire(wire) /\ ~Has(wire, "patch") /\ OwnWire(wire)
    BY <1>1 DEF PatchAnswered, Sent, Has, Shape, WireShape, OwnInv
  <2> QED
    BY <1>1, <2>1, PatchEndOwn DEF PatchAnswered
<1>2. CASE PatchFails
  <2>1. Wire(Unsent("patch")) /\ ~Has(Unsent("patch"), "patch") /\ OwnWire(Unsent("patch"))
    BY UnsentWire, UnsentOwn DEF Shape, WireShape
  <2> QED
    BY <1>2, <2>1, PatchEndOwn DEF PatchFails
<1> QED
  BY <1>1, <1>2

LEMMA PutEndOwn ==
    ASSUME Patient, Shape, OwnInv, PutAnswered \/ PutFails
    PROVE  OwnInv'
<1>1. /\ UNCHANGED <<saved, active, shown, loaded, tick, timer, soon, pend, flight, get, loading,
                     pull>>
      /\ put' = NoFloor
  BY DEF PutAnswered, PutFails
<1>2. OwnWire(wire')
  BY UnsentOwn DEF PutAnswered, PutFails, OwnInv
<1>3. OwnWire(wire)'
  BY <1>1, <1>2 DEF OwnWire, TokensOf
<1>4. Places' /\ Quiet'
  BY <1>1 DEF OwnInv, Places, Quiet
<1> QED
  BY <1>1, <1>3, <1>4, SameOwn DEF OwnInv

LEMMA DebounceOwn ==
    ASSUME Patient, Shape, OwnInv, DebounceEnds
    PROVE  OwnInv'
<1>1. UNCHANGED <<saved, active, shown, loaded, tick, timer, soon, pend, flight, put, wire, loading>>
  BY DEF DebounceEnds, tabVars, saveVars
<1>2. OwnGet' /\ pull' \in {pull, active}
  <2>1. CASE badge = "dirty" \/ flight # NoFloor
    BY <1>1, <2>1, SameOwn DEF DebounceEnds
  <2>2. CASE ~(badge = "dirty" \/ flight # NoFloor)
    BY <2>2, AskedOwn DEF DebounceEnds, Shape, PageShape, OwnInv
  <2> QED
    BY <2>1, <2>2
<1>3. Places'
  BY <1>1, <1>2 DEF OwnInv, Places
<1> QED
  BY <1>1, <1>2, <1>3, SameOwn DEF OwnInv

LEMMA ReadOwn ==
    ASSUME Patient, Shape, OwnInv, NEW f \in Floors, ServerReads(f)
    PROVE  OwnInv'
<1>1. UNCHANGED <<saved, active, shown, loaded, tick, timer, soon, pend, flight, put, wire, loading,
                  pull>>
  BY DEF ServerReads, tabVars, saveVars
<1>2. OwnGet'
  BY DEF ServerReads, OwnInv, OwnGet, OwnSaved, Shape, PageShape, TokensOf
<1> QED
  BY <1>1, <1>2, SameOwn DEF OwnInv

LEMMA ArriveOwn ==
    ASSUME Patient, Shape, OwnInv, NEW f \in Floors, GetArrives(f)
    PROVE  OwnInv'
<1>1. /\ UNCHANGED <<saved, active, loaded, soon, flight, put, wire>>
      /\ get' = [get EXCEPT ![f] = NoGet] /\ loading' = loading \ {f} /\ pull' \in {pull, NoFloor}
      /\ Painted(f)
  BY DEF GetArrives
<1>2. get[f].layout \subseteq TokensOf(f)
  BY DEF OwnInv, OwnGet
<1>3. OwnGet'
  BY <1>1 DEF OwnInv, OwnGet, NoGet, TokensOf, Shape, PageShape
<1>4. CASE f \in loading
  <2>1. f = active /\ ~loaded
    BY <1>4 DEF OwnInv, Places, Quiet
  <2>2. shown' = get[f].layout /\ tick' = TRUE /\ UNCHANGED <<pend, timer>>
    BY <1>1, <1>4 DEF Painted
  <2>3. Places' /\ Quiet' /\ OwnShown'
    BY <1>1, <1>2, <2>1, <2>2 DEF OwnInv, Places, Quiet, OwnShown, TokensOf
  <2> QED
    BY <1>1, <1>3, <2>2, <2>3, SameOwn DEF OwnInv
<1>5. CASE f \notin loading /\ pull = f /\ get[f].layout # shown
  <2>1. f = active /\ get[f].layout \in SUBSET Token
    BY <1>5, FloorAssumption DEF OwnInv, Places, Shape, PageShape, Get
  <2>2. /\ shown' = get[f].layout /\ UNCHANGED tick
        /\ \/ loaded /\ pend' = get[f].layout /\ timer' = active
           \/ ~loaded /\ UNCHANGED <<pend, timer>>
    BY <1>1, <1>5 DEF Painted, Autosave
  <2>3. Places' /\ Quiet'
    BY <1>1, <2>2 DEF OwnInv, Places, Quiet
  <2>4. OwnShown' /\ OwnPend'
    BY <1>1, <1>2, <2>1, <2>2 DEF OwnInv, OwnShown, OwnPend, TokensOf
  <2> QED
    BY <1>1, <1>3, <2>3, <2>4, SameOwn DEF OwnInv
<1>6. CASE f \notin loading /\ ~(pull = f /\ get[f].layout # shown)
  <2>1. UNCHANGED <<shown, tick, pend, timer>>
    BY <1>1, <1>6 DEF Painted
  <2>2. Places' /\ Quiet'
    BY <1>1, <2>1 DEF OwnInv, Places, Quiet
  <2> QED
    BY <1>1, <1>3, <2>1, <2>2, SameOwn DEF OwnInv
<1> QED
  BY <1>4, <1>5, <1>6

LEMMA GetFailsOwn ==
    ASSUME Patient, Shape, OwnInv, NEW f \in Floors, GetFails(f)
    PROVE  OwnInv'
<1>1. /\ UNCHANGED <<saved, active, shown, loaded, tick, timer, soon, pend, flight, put, wire>>
      /\ get' = [get EXCEPT ![f] = NoGet] /\ loading' = loading \ {f} /\ pull' \in {pull, NoFloor}
  BY DEF GetFails, tabVars, saveVars
<1>2. OwnGet'
  BY <1>1 DEF OwnInv, OwnGet, NoGet, TokensOf, Shape, PageShape
<1>3. Places' /\ Quiet'
  BY <1>1 DEF OwnInv, Places, Quiet
<1> QED
  BY <1>1, <1>2, <1>3, SameOwn DEF OwnInv

LEMMA TickOwn ==
    ASSUME Patient, Shape, OwnInv, LoadedTick
    PROVE  OwnInv'
<1>1. /\ UNCHANGED <<saved, active, shown, soon, flight, put, wire, get, loading, pull>>
      /\ tick /\ tick' = FALSE /\ loaded' = TRUE
      /\ (pend' = shown /\ timer' = active) \/ UNCHANGED <<pend, timer>>
  BY DEF LoadedTick, Autosave
<1>2. shown \subseteq TokensOf(active)
  BY <1>1 DEF OwnInv, OwnShown
<1>3. Places' /\ Quiet' /\ OwnShown' /\ OwnPend'
  BY <1>1, <1>2 DEF OwnInv, Places, Quiet, OwnShown, OwnPend, TokensOf
<1> QED
  BY <1>1, <1>3, SameOwn DEF OwnInv

LEMMA OwnStep ==
    ASSUME Patient, Shape, OwnInv, [Next]_vars
    PROVE  OwnInv'
<1>1. CASE UserStep
  BY <1>1, EditOwn, PutStepsOwn, PointerUpOwn, ChooseOwn DEF UserStep
<1>2. CASE Timer
  BY <1>2, FlushStepsOwn, DebounceOwn, TickOwn DEF Timer
<1>3. CASE Answer
  BY <1>3, TakeOwn, PatchStepsOwn, PutEndOwn, ReadOwn, ArriveOwn DEF Answer
<1>4. CASE Fault
  BY <1>4, PatchStepsOwn, PutEndOwn, GetFailsOwn DEF Fault
<1>5. CASE \E f \in Floors : OtherSaves(f)
  BY <1>5, OtherOwn
<1>6. CASE UNCHANGED vars
  <2>1. UNCHANGED <<saved, active, shown, loaded, tick, timer, soon, pend, flight, put, wire, get,
                    loading, pull>>
    BY <1>6 DEF vars, tabVars, saveVars
  <2> QED
    BY <2>1, SameOwn DEF OwnInv
<1> QED
  BY <1>1, <1>2, <1>3, <1>4, <1>5, <1>6 DEF Next

LEMMA OwnInit == Init => OwnInv
<1> SUFFICES ASSUME Init PROVE OwnInv
  OBVIOUS
<1>1. Places /\ Quiet
  BY DEF Init, Places, Quiet
<1>2. OwnWire(wire) /\ OwnSaved /\ OwnGet
  BY DEF Init, OwnWire, OwnSaved, OwnGet, NoGet
<1>3. OwnShown /\ OwnPend
  BY DEF Init, OwnShown, OwnPend
<1> QED
  BY <1>1, <1>2, <1>3 DEF OwnInv

LEMMA OwnInvariant == Patient => (Spec => []OwnInv)
<1> SUFFICES ASSUME Patient PROVE Spec => []OwnInv
  OBVIOUS
<1> QED
  BY OwnInit, OwnStep, ShapeInvariant, PTL DEF Spec

(* The objects of a floor are never saved into another floor, whatever was *)
(* on the screen when a save was set off, as long as the user waits for    *)
(* the answers before another floor is chosen.                             *)
THEOREM ObjectsStayOnTheirFloor == Patient => (Spec => []OwnFloor)
<1> SUFFICES ASSUME Patient PROVE Spec => []OwnFloor
  OBVIOUS
<1>1. OwnInv => OwnFloor
  BY DEF OwnInv, OwnSaved, OwnFloor, TokensOf
<1> QED
  BY <1>1, OwnInvariant, PTL

-------------------------------------------------------------------------------
(* Where the objects on the screen are, when the server also takes the     *)
(* saves in the order they were sent.                                      *)

(* What waits to be sent is what the screen shows. *)
PendIsShown == pend # NoIcons => pend = shown

(* Somebody waits for every answer; before it was read it holds nothing.   *)
Awaited ==
    \A f \in Floors : /\ get[f].at # "none" => f \in loading \/ pull = f
                      /\ get[f].at = "none" => get[f].layout = {}

(* While a floor is being loaded nobody takes anything off the server. *)
Fresh ==
    /\ ~loaded => \A f \in Floors : get[f].layout \subseteq saved[f]
    /\ tick => shown \subseteq saved[active]

(* The save sent last, or else the server, has what the screen shows. *)
Covers(w) == shown \subseteq (IF w = <<>> THEN saved[active] ELSE w[Len(w)].layout) \cup failed
Covered == loaded /\ pend = NoIcons => Covers(wire)

StoredInv == PendIsShown /\ Awaited /\ Fresh /\ Covered

LEMMA SameStored ==
    ASSUME StoredInv, UNCHANGED active
    PROVE  /\ UNCHANGED <<pend, shown>> => PendIsShown'
           /\ UNCHANGED <<get, loading, pull>> => Awaited'
           /\ UNCHANGED <<loaded, get, saved, tick, shown>> => Fresh'
           /\ UNCHANGED <<loaded, pend, shown, wire, saved, failed>> => Covered'
BY DEF StoredInv, PendIsShown, Awaited, Fresh, Covered, Covers

(* Everything the screen shows waits, or has just been sent. *)
LEMMA ShownIsCovered ==
    ASSUME pend' = shown' \/ (pend' = NoIcons /\ wire' # <<>> /\ wire'[Len(wire')].layout = shown')
    PROVE  PendIsShown' /\ (shown' \in SUBSET Token => Covered')
<1>1. PendIsShown'
  BY DEF PendIsShown
<1>2. ASSUME shown' \in SUBSET Token
      PROVE  Covered'
  <2>1. pend' # shown' \/ pend' # NoIcons
    BY <1>2, IconsAssumption
  <2> QED
    BY <2>1 DEF Covered, Covers
<1> QED
  BY <1>1, <1>2

LEMMA NotLoaded ==
    ASSUME Shape, OwnInv, ~loaded
    PROVE  wire = <<>> /\ pend = NoIcons
<1>1. flight = NoFloor /\ put = NoFloor /\ pend = NoIcons
  BY DEF OwnInv, Quiet
<1> QED
  BY <1>1, NothingSent DEF Shape

LEMMA ChooseStored ==
    ASSUME Patient, Shape, OwnInv, StoredInv, NEW f \in Floors, ChooseFloor(f)
    PROVE  StoredInv'
<1>1. /\ Settled /\ pull = NoFloor /\ active' = f /\ loaded' = FALSE
      /\ loading' = loading \cup {f} /\ AskFor(f)
      /\ UNCHANGED <<saved, shown, tick, pend, pull>>
  BY DEF ChooseFloor
<1>2. \A g \in Floors : get[g].at = "none" /\ get[g].layout = {}
  BY <1>1, FloorAssumption DEF Settled, StoredInv, Awaited
<1>3. get' = [get EXCEPT ![f] = [at |-> "asked", layout |-> {}]]
  BY <1>1, <1>2 DEF AskFor
<1>4. \A g \in Floors : get'[g].layout = {} /\ (get'[g].at = "none" \/ g = f)
  BY <1>2, <1>3 DEF Shape, PageShape
<1>5. Awaited' /\ Fresh'
  BY <1>1, <1>4 DEF Awaited, Fresh, Settled
<1>6. PendIsShown' /\ Covered'
  BY <1>1 DEF Settled, PendIsShown, Covered
<1> QED
  BY <1>5, <1>6 DEF StoredInv

LEMMA EditStored ==
    ASSUME Patient, Shape, OwnInv, StoredInv, Edit
    PROVE  StoredInv'
<1>1. /\ loaded /\ pend' = shown' /\ UNCHANGED <<saved, active, loaded, tick, get, loading, pull>>
  BY DEF Edit, Autosave
<1>2. shown' \in SUBSET Token
  BY EditShape DEF Shape, PageShape
<1>3. Fresh'
  BY <1>1 DEF Fresh, OwnInv, Quiet
<1> QED
  BY <1>1, <1>2, <1>3, ShownIsCovered, SameStored DEF StoredInv

LEMMA PutStepsStored ==
    ASSUME Patient, Shape, OwnInv, StoredInv, UpdatePcHoverFields \/ SaveNow
    PROVE  StoredInv'
<1> DEFINE e == [how |-> "put", floor |-> active, layout |-> shown]
<1>1. /\ loaded /\ wire' = Append(wire, e) /\ pend' \in {pend, NoIcons} /\ put = NoFloor
      /\ UNCHANGED <<saved, active, shown, loaded, tick, get, loading, pull>>
  BY DEF UpdatePcHoverFields, SaveNow, SaveLayout
<1>2. e \in Save /\ e.layout = shown /\ e.how = "put"
  BY DEF Save, Shape, PageShape
<1> HIDE DEF e
<1>3. wire' # <<>> /\ wire'[Len(wire')] = e
  BY <1>1, <1>2, Added DEF Shape, WireShape
<1>4. PendIsShown'
  BY <1>1 DEF StoredInv, PendIsShown
<1>5. Covered'
  BY <1>1, <1>2, <1>3 DEF Covered, Covers
<1> QED
  BY <1>1, <1>4, <1>5, SameStored DEF StoredInv

LEMMA FlushStepsStored ==
    ASSUME Patient, Shape, OwnInv, StoredInv, FlushAfterPointerUp \/ AutosaveTimer
    PROVE  StoredInv'
<1>1. UNCHANGED <<saved, failed, active, shown, loaded, tick, get, loading, pull>>
  BY DEF FlushAfterPointerUp, AutosaveTimer
<1>2. PICK f \in Floors, icons \in {pend, shown} : FlushIconsPatch(f, icons)
  BY DEF FlushAfterPointerUp, AutosaveTimer, Shape, SaveShape
<1>3. shown \in SUBSET Token /\ shown # NoIcons /\ (icons = shown \/ (icons = NoIcons /\ pend = NoIcons))
  BY <1>2, IconsAssumption DEF Shape, PageShape, StoredInv, PendIsShown
<1>4. CASE icons # NoIcons /\ flight = NoFloor
  <2> DEFINE e == [how |-> "patch", floor |-> f, layout |-> icons]
  <2>1. e \in Save /\ e.how = "patch" /\ e.layout = shown
    BY <1>3, <1>4 DEF Save
  <2>2. wire' = Append(wire, e) /\ ~Has(wire, "patch") /\ pend' = NoIcons
    BY <1>2, <1>4 DEF FlushIconsPatch, Shape, WireShape
  <2> HIDE DEF e
  <2>3. wire' # <<>> /\ wire'[Len(wire')] = e
    BY <2>1, <2>2, Added DEF Shape, WireShape
  <2> QED
    BY <1>1, <1>3, <2>1, <2>2, <2>3, ShownIsCovered, SameStored DEF StoredInv
<1>5. CASE icons # NoIcons /\ flight # NoFloor
  <2>1. pend' = shown'
    BY <1>1, <1>2, <1>3, <1>5 DEF FlushIconsPatch
  <2> QED
    BY <1>1, <1>3, <2>1, ShownIsCovered, SameStored DEF StoredInv
<1>6. CASE icons = NoIcons
  <2>1. UNCHANGED <<pend, wire>>
    BY <1>2, <1>3, <1>6 DEF FlushIconsPatch
  <2> QED
    BY <1>1, <2>1, SameStored DEF StoredInv
<1> QED
  BY <1>4, <1>5, <1>6

LEMMA TakeStored ==
    ASSUME InOrder, Shape, OwnInv, StoredInv, ServerTakes
    PROVE  StoredInv'
<1>1. /\ 1 \in DOMAIN wire /\ wire' = RemoveAt(wire, 1)
      /\ saved' = [saved EXCEPT ![wire[1].floor] = wire[1].layout]
  BY DEF ServerTakes
<1>2. UNCHANGED <<failed, active, shown, loaded, tick, pend, get, loading, pull>>
  BY DEF ServerTakes, tabVars, saveVars
<1>3. loaded
  BY <1>1, NotLoaded
<1>4. saved'[active] = wire[1].layout
  BY <1>1 DEF OwnInv, OwnWire, Shape, PageShape
<1>5. /\ wire # <<>>
      /\ 1 # Len(wire) => wire' # <<>> /\ wire'[Len(wire')] = wire[Len(wire)]
      /\ 1 = Len(wire) => wire' = <<>>
  <2>1. wire # <<>>
    BY <1>1
  <2> DEFINE t == RemoveAt(wire, 1)
  <2>2. /\ 1 # Len(wire) => t # <<>> /\ t[Len(t)] = wire[Len(wire)]
        /\ t # <<>> => 1 # Len(wire) \/ Len(wire) # 1
    BY <1>1, TakenOut DEF Shape, WireShape
  <2>3. wire' = t
    BY <1>1
  <2> HIDE DEF t
  <2> QED
    BY <2>1, <2>2, <2>3
<1>6. Covered'
  <2>1. CASE 1 = Len(wire)
    BY <1>2, <1>3, <1>4, <1>5, <2>1 DEF StoredInv, Covered, Covers
  <2>2. CASE 1 # Len(wire)
    BY <1>2, <1>3, <1>5, <2>2 DEF StoredInv, Covered, Covers
  <2> QED
    BY <2>1, <2>2
<1>7. Fresh'
  BY <1>2, <1>3 DEF Fresh, OwnInv, Quiet
<1> QED
  BY <1>2, <1>6, <1>7, SameStored DEF StoredInv

LEMMA OtherStored ==
    ASSUME Shape, StoredInv, NEW f \in Floors, OtherSaves(f)
    PROVE  StoredInv'
<1>1. UNCHANGED <<failed, active, shown, loaded, tick, pend, wire, get, loading, pull>>
  BY DEF OtherSaves, tabVars, saveVars
<1>2. \A g \in Floors : saved[g] \subseteq saved'[g]
  BY DEF OtherSaves, Shape, PageShape
<1>3. active \in Floors
  BY DEF Shape, PageShape
<1>4. Fresh' /\ Covered'
  BY <1>1, <1>2, <1>3 DEF StoredInv, Fresh, Covered, Covers
<1> QED
  BY <1>1, <1>4, SameStored DEF StoredInv

(* What was in a failed request counts as failed, so the others, or what   *)
(* failed, have what the screen shows.                                     *)
LEMMA UnsentCovers ==
    ASSUME Shape, NEW how, Fails(how), UNCHANGED <<saved, active, shown>>, Covers(wire)
    PROVE  shown' \subseteq (IF Unsent(how) = <<>> THEN saved'[active']
                            ELSE Unsent(how)[Len(Unsent(how))].layout) \cup failed'
<1>1. failed = {} /\ (Sent(how) => failed' = wire[PlaceOf(how)].layout)
  BY DEF Fails
<1> DEFINE t == Unsent(how)
<1>2. \/ t = wire
      \/ t # <<>> /\ wire # <<>> /\ t[Len(t)] = wire[Len(wire)]
      \/ Sent(how) /\ wire # <<>> /\ wire[PlaceOf(how)] = wire[Len(wire)]
  BY UnsentWire DEF Shape, WireShape
<1> HIDE DEF t
<1>3. shown' \subseteq (IF t = <<>> THEN saved'[active'] ELSE t[Len(t)].layout) \cup failed'
  BY <1>1, <1>2 DEF Covers
<1> QED
  BY <1>3 DEF t

LEMMA PatchEndStored ==
    ASSUME Shape, OwnInv, StoredInv, flight # NoFloor, NEW as, PatchEnds(as),
           NEW w, Wire(w), ~Has(w, "patch"),
           pend = NoIcons => shown \subseteq (IF w = <<>> THEN saved[active] ELSE w[Len(w)].layout) \cup failed',
           wire' = IF pend = NoIcons THEN w ELSE Append(w, Resent),
           UNCHANGED <<saved, active, shown, loaded, tick, get, loading, pull>>
    PROVE  StoredInv'
<1>1. CASE pend = NoIcons
  <2>1. wire' = w /\ pend' = NoIcons
    BY <1>1 DEF PatchEnds
  <2>2. PendIsShown' /\ Covered'
    BY <1>1, <2>1 DEF PendIsShown, Covered, Covers
  <2> QED
    BY <2>2, SameStored DEF StoredInv
<1>2. CASE pend # NoIcons
  <2>1. Resent \in Save /\ Resent.how = "patch" /\ Resent.layout = pend
    BY <1>2 DEF Resent, Save, Shape, SaveShape
  <2>2. wire' = Append(w, Resent) /\ pend' = NoIcons /\ pend = shown
    BY <1>2 DEF PatchEnds, StoredInv, PendIsShown
  <2>3. wire' # <<>> /\ wire'[Len(wire')] = Resent
    BY <2>1, <2>2, Added
  <2>4. PendIsShown' /\ Covered'
    BY <2>1, <2>2, <2>3 DEF PendIsShown, Covered, Covers
  <2> QED
    BY <2>4, SameStored DEF StoredInv
<1> QED
  BY <1>1, <1>2

LEMMA PatchStepsStored ==
    ASSUME Patient, Shape, OwnInv, StoredInv, PatchAnswered \/ PatchFails
    PROVE  StoredInv'
<1>1. loaded /\ flight # NoFloor
  BY DEF PatchAnswered, PatchFails, OwnInv, Quiet
<1>2. pend = NoIcons => Covers(wire)
  BY <1>1 DEF StoredInv, Covered
<1>3. CASE PatchAnswered
  <2>1. Wire(wire) /\ ~Has(wire, "patch")
    BY <1>3 DEF PatchAnswered, Sent, Has, Shape, WireShape
  <2>2. pend = NoIcons
          => shown \subseteq (IF wire = <<>> THEN saved[active] ELSE wire[Len(wire)].layout) \cup failed'
    BY <1>2, <1>3 DEF Covers, PatchAnswered
  <2> QED
    BY <1>1, <1>3, <2>1, <2>2, PatchEndStored DEF PatchAnswered
<1>4. CASE PatchFails
  <2> DEFINE w == Unsent("patch")
  <2>1. Wire(w) /\ ~Has(w, "patch")
    BY UnsentWire DEF Shape, WireShape
  <2>2. pend = NoIcons
          => shown \subseteq (IF w = <<>> THEN saved[active] ELSE w[Len(w)].layout) \cup failed'
    BY <1>2, <1>4, UnsentCovers DEF PatchFails
  <2>3. wire' = IF pend = NoIcons THEN w ELSE Append(w, Resent)
    BY <1>4 DEF PatchFails
  <2> HIDE DEF w
  <2> QED
    BY <1>1, <1>4, <2>1, <2>2, <2>3, PatchEndStored DEF PatchFails
<1> QED
  BY <1>3, <1>4

LEMMA PutEndStored ==
    ASSUME Patient, Shape, OwnInv, StoredInv, PutAnswered \/ PutFails
    PROVE  StoredInv'
<1>1. UNCHANGED <<saved, active, shown, loaded, tick, pend, get, loading, pull>>
  BY DEF PutAnswered, PutFails
<1>2. Covered'
  <2>1. CASE PutAnswered
    BY <1>1, <2>1, SameStored DEF PutAnswered
  <2>2. CASE PutFails
    <3>1. wire' = Unsent("put") /\ Fails("put")
      BY <2>2 DEF PutFails
    <3>2. ASSUME loaded, pend = NoIcons
          PROVE  shown' \subseteq (IF wire' = <<>> THEN saved'[active'] ELSE wire'[Len(wire')].layout) \cup failed'
      <4>1. Covers(wire)
        BY <3>2 DEF StoredInv, Covered
      <4> QED
        BY <1>1, <3>1, <4>1, UnsentCovers
    <3> QED
      BY <1>1, <3>2 DEF Covered, Covers
  <2> QED
    BY <2>1, <2>2
<1> QED
  BY <1>1, <1>2, SameStored DEF StoredInv

LEMMA DebounceStored ==
    ASSUME Patient, Shape, OwnInv, StoredInv, DebounceEnds
    PROVE  StoredInv'
<1>1. UNCHANGED <<saved, failed, active, shown, loaded, tick, pend, wire, loading>>
  BY DEF DebounceEnds, tabVars, saveVars
<1>2. CASE badge = "dirty" \/ flight # NoFloor
  BY <1>1, <1>2, SameStored DEF DebounceEnds, StoredInv
<1>3. CASE ~(badge = "dirty" \/ flight # NoFloor)
  <2>1. pull' = active /\ AskFor(active)
    BY <1>3 DEF DebounceEnds
  <2>2. \A g \in Floors : \/ get'[g] = get[g]
                          \/ g = active /\ get'[g].at = "asked" /\ get'[g].layout = {}
    BY <2>1 DEF AskFor, Shape, PageShape
  <2>3. Awaited' /\ Fresh'
    BY <1>1, <2>1, <2>2, FloorAssumption DEF StoredInv, Awaited, Fresh, OwnInv, Places
  <2> QED
    BY <1>1, <2>3, SameStored DEF StoredInv
<1> QED
  BY <1>2, <1>3

LEMMA ReadStored ==
    ASSUME Shape, StoredInv, NEW f \in Floors, ServerReads(f)
    PROVE  StoredInv'
<1>1. UNCHANGED <<saved, failed, active, shown, loaded, tick, pend, wire, loading, pull>>
  BY DEF ServerReads, tabVars, saveVars
<1>2. \A g \in Floors : \/ get'[g] = get[g]
                        \/ g = f /\ get[g].at = "asked" /\ get'[g].at = "read" /\ get'[g].layout = saved[g]
  BY DEF ServerReads, Shape, PageShape
<1>3. Awaited' /\ Fresh'
  BY <1>1, <1>2 DEF StoredInv, Awaited, Fresh
<1> QED
  BY <1>1, <1>3, SameStored DEF StoredInv

(* An answer is handed over, or none came: nobody waits for it any more.   *)
LEMMA NoMoreAwaited ==
    ASSUME Shape, StoredInv, NEW f \in Floors, get' = [get EXCEPT ![f] = NoGet],
           loading' = loading \ {f}, pull' = IF pull = f THEN NoFloor ELSE pull
    PROVE  /\ Awaited'
           /\ \A g \in Floors : get'[g].layout = {} \/ get'[g] = get[g]
BY DEF Shape, PageShape, StoredInv, Awaited, NoGet

LEMMA ArriveStored ==
    ASSUME Patient, Shape, OwnInv, StoredInv, NEW f \in Floors, GetArrives(f)
    PROVE  StoredInv'
<1>1. /\ UNCHANGED <<saved, failed, active, loaded, wire>>
      /\ Awaited' /\ \A g \in Floors : get'[g].layout = {} \/ get'[g] = get[g]
      /\ Painted(f)
  BY NoMoreAwaited DEF GetArrives
<1>2. get[f].layout \in SUBSET Token
  BY DEF Shape, PageShape, Get
<1>3. ~loaded => \A g \in Floors : get'[g].layout \subseteq saved[g]
  BY <1>1 DEF StoredInv, Fresh
<1>4. CASE f \in loading
  <2>1. f = active /\ ~loaded /\ pend = NoIcons
    BY <1>4 DEF OwnInv, Places, Quiet
  <2>2. shown' = get[f].layout /\ UNCHANGED pend
    BY <1>1, <1>4 DEF Painted
  <2>3. Fresh' /\ PendIsShown' /\ Covered'
    BY <1>1, <1>3, <2>1, <2>2 DEF StoredInv, Fresh, PendIsShown, Covered
  <2> QED
    BY <1>1, <2>3 DEF StoredInv
<1>5. CASE f \notin loading /\ pull = f /\ get[f].layout # shown
  <2>1. f = active
    BY <1>5, FloorAssumption DEF OwnInv, Places
  <2>2. shown' = get[f].layout /\ UNCHANGED tick
    BY <1>1, <1>5 DEF Painted
  <2>3. CASE loaded
    <3>1. pend' = shown'
      BY <1>1, <1>5, <2>2, <2>3 DEF Painted, Autosave
    <3>2. Fresh'
      BY <1>1, <2>2, <2>3 DEF Fresh, OwnInv, Quiet
    <3> QED
      BY <1>1, <1>2, <2>2, <3>1, <3>2, ShownIsCovered DEF StoredInv
  <2>4. CASE ~loaded
    <3>1. UNCHANGED pend /\ pend = NoIcons
      BY <1>1, <1>5, <2>4, NotLoaded DEF Painted
    <3>2. Fresh' /\ PendIsShown' /\ Covered'
      BY <1>1, <1>3, <2>1, <2>2, <2>4, <3>1 DEF StoredInv, Fresh, PendIsShown, Covered
    <3> QED
      BY <1>1, <3>2 DEF StoredInv
  <2> QED
    BY <2>3, <2>4
<1>6. CASE f \notin loading /\ ~(pull = f /\ get[f].layout # shown)
  <2>1. UNCHANGED <<shown, tick, pend>>
    BY <1>1, <1>6 DEF Painted
  <2>2. Fresh'
    BY <1>1, <1>3, <2>1 DEF StoredInv, Fresh
  <2> QED
    BY <1>1, <2>1, <2>2, SameStored DEF StoredInv
<1> QED
  BY <1>4, <1>5, <1>6

LEMMA GetFailsStored ==
    ASSUME Shape, StoredInv, NEW f \in Floors, GetFails(f)
    PROVE  StoredInv'
<1>1. /\ UNCHANGED <<saved, failed, active, shown, loaded, tick, pend, wire>>
      /\ Awaited' /\ \A g \in Floors : get'[g].layout = {} \/ get'[g] = get[g]
  BY NoMoreAwaited DEF GetFails, tabVars, saveVars
<1>2. Fresh'
  BY <1>1 DEF StoredInv, Fresh
<1> QED
  BY <1>1, <1>2, SameStored DEF StoredInv

LEMMA TickStored ==
    ASSUME Shape, OwnInv, StoredInv, LoadedTick
    PROVE  StoredInv'
<1>1. /\ UNCHANGED <<saved, failed, active, shown, wire, get, loading, pull>>
      /\ tick /\ tick' = FALSE /\ loaded' = TRUE
      /\ pend' = shown \/ UNCHANGED pend
  BY DEF LoadedTick, Autosave
<1>2. ~loaded /\ wire = <<>> /\ pend = NoIcons
  BY <1>1, NotLoaded DEF OwnInv, Quiet
<1>3. shown \subseteq saved[active] /\ shown \in SUBSET Token
  BY <1>1 DEF StoredInv, Fresh, Shape, PageShape
<1>4. PendIsShown' /\ Covered'
  <2>1. CASE pend' = shown
    BY <1>1, <1>3, <2>1, ShownIsCovered
  <2>2. CASE UNCHANGED pend
    BY <1>1, <1>2, <1>3, <2>2 DEF PendIsShown, Covered, Covers
  <2> QED
    BY <1>1, <2>1, <2>2
<1>5. Fresh'
  BY <1>1 DEF Fresh
<1> QED
  BY <1>1, <1>4, <1>5, SameStored DEF StoredInv

LEMMA StoredStep ==
    ASSUME Patient, InOrder, Shape, OwnInv, StoredInv, [Next]_vars
    PROVE  StoredInv'
<1>1. ASSUME UNCHANGED <<saved, failed, active, shown, loaded, tick, pend, wire, get, loading, pull>>
      PROVE  StoredInv'
  BY <1>1, SameStored DEF StoredInv
<1>2. CASE UserStep
  <2>1. CASE PointerUp
    BY <1>1, <2>1 DEF PointerUp, tabVars
  <2> QED
    BY <1>2, <2>1, EditStored, PutStepsStored, ChooseStored DEF UserStep
<1>3. CASE Timer
  BY <1>3, FlushStepsStored, DebounceStored, TickStored DEF Timer
<1>4. CASE Answer
  BY <1>4, TakeStored, PatchStepsStored, PutEndStored, ReadStored, ArriveStored DEF Answer
<1>5. CASE Fault
  BY <1>5, PatchStepsStored, PutEndStored, GetFailsStored DEF Fault
<1>6. CASE \E f \in Floors : OtherSaves(f)
  BY <1>6, OtherStored
<1>7. CASE UNCHANGED vars
  BY <1>1, <1>7 DEF vars, tabVars, saveVars
<1> QED
  BY <1>2, <1>3, <1>4, <1>5, <1>6, <1>7 DEF Next

LEMMA StoredInit == Init => StoredInv
<1> SUFFICES ASSUME Init PROVE StoredInv
  OBVIOUS
<1>1. \A f \in Floors : get[f].at = "none" /\ get[f].layout = {}
  BY DEF Init, NoGet
<1>2. PendIsShown /\ Covered
  BY DEF Init, PendIsShown, Covered, Covers
<1>3. Awaited /\ Fresh
  BY <1>1 DEF Init, Awaited, Fresh
<1> QED
  BY <1>2, <1>3 DEF StoredInv

(* No autosave is dropped because another one was under way, or overtaken  *)
(* by an older save: once the tab is calm, everything on the screen is on  *)
(* the server or was in a save that failed.                                *)
THEOREM CalmScreenIsStored == Patient /\ InOrder => (Spec => []SettledIsStored)
<1> SUFFICES ASSUME Patient, InOrder PROVE Spec => []SettledIsStored
  OBVIOUS
<1>1. ASSUME Shape, StoredInv
      PROVE  SettledIsStored
  <2>1. Settled => wire = <<>> /\ pend = NoIcons
    BY <1>1, NothingSent DEF Settled, Shape
  <2> QED
    BY <1>1, <2>1 DEF StoredInv, Covered, Covers, SettledIsStored
<1> QED
  BY <1>1, StoredInit, StoredStep, OwnInvariant, ShapeInvariant, PTL DEF Spec

=================================================================================
