----------------------------- MODULE SceneMapProofs -----------------------------
(***************************************************************************)
(* Proofs about SceneMap, for any number of scenes, changes, saves and     *)
(* snapshots.                                                              *)
(***************************************************************************)
EXTENDS SceneMap, CommonLemmas

-------------------------------------------------------------------------------
(* The inductive invariant. *)

(* TypeOK, in parts; both stacks together never outgrow the undo stack. *)
PageShape ==
    /\ stored \in [Scenes -> SUBSET Mark]
    /\ edits \in 0..MaxEdits /\ other \in 0..MaxOther
    /\ gone \in SUBSET Mark /\ failed \in SUBSET Mark /\ stale \in BOOLEAN
    /\ scene \in Scenes
    /\ canvas \in SUBSET Mark
    /\ timer \in Timer
    /\ busy \in BOOLEAN
    /\ get \in [Scenes -> {NoGet} \cup SUBSET Mark]
    /\ opening \in Scenes \cup {NoScene}
    /\ pulls \in SUBSET Scenes

StackShape ==
    /\ past \in Seq(SUBSET Mark) /\ future \in Seq(SUBSET Mark)
    /\ Len(past) + Len(future) <= UndoLimit

OneNewest == \A i, j \in DOMAIN puts : puts[i].newest /\ puts[j].newest => i = j

PutsShape == puts \in Seq(Put) /\ Len(puts) <= MaxPuts /\ OneNewest

Shape == PageShape /\ StackShape /\ PutsShape

-------------------------------------------------------------------------------
(* Stacks of layouts.                                                      *)

AllIn(stack, marks) == \A i \in DOMAIN stack : stack[i] \subseteq marks

(* push keeps the limit and brings nothing but its snapshot. *)
LEMMA PushedStack ==
    ASSUME NEW stack \in Seq(SUBSET Mark), Len(stack) <= UndoLimit, NEW layout \in SUBSET Mark
    PROVE  /\ Pushed(stack, layout) \in Seq(SUBSET Mark)
           /\ Len(Pushed(stack, layout)) <= UndoLimit
           /\ \A marks : AllIn(stack, marks) /\ layout \subseteq marks
                            => AllIn(Pushed(stack, layout), marks)
<1>1. UndoLimit \in Nat \ {0} /\ Len(stack) \in Nat
  BY SceneAssumption, LenProperties
<1>2. ASSUME NEW rest \in Seq(SUBSET Mark), Len(rest) < UndoLimit,
             \A marks : AllIn(stack, marks) => AllIn(rest, marks)
      PROVE  /\ Append(rest, layout) \in Seq(SUBSET Mark)
             /\ Len(Append(rest, layout)) <= UndoLimit
             /\ \A marks : AllIn(stack, marks) /\ layout \subseteq marks
                              => AllIn(Append(rest, layout), marks)
  <2> DEFINE t == Append(rest, layout)
  <2>1. /\ t \in Seq(SUBSET Mark)
        /\ Len(rest) \in Nat
        /\ DOMAIN t = DOMAIN rest \cup {Len(rest) + 1}
        /\ \A i \in DOMAIN rest : t[i] = rest[i]
        /\ t[Len(rest) + 1] = layout
    BY AppendedPlaces
  <2>2. Len(t) = Len(rest) + 1
    BY AppendProperties
  <2> HIDE DEF t
  <2>3. ASSUME NEW marks, AllIn(rest, marks), layout \subseteq marks
        PROVE  AllIn(t, marks)
    BY <2>1, <2>3 DEF AllIn
  <2>4. Len(t) <= UndoLimit
    BY <1>1, <1>2, <2>1, <2>2
  <2> QED
    BY <1>2, <2>1, <2>3, <2>4 DEF t
<1>3. CASE Len(stack) = UndoLimit
  <2>1. stack # <<>>
    BY <1>1, <1>3
  <2>2. /\ Tail(stack) \in Seq(SUBSET Mark)
        /\ \A i \in DOMAIN Tail(stack) : i + 1 \in DOMAIN stack /\ Tail(stack)[i] = stack[i + 1]
    BY <2>1, TailPlaces
  <2>3. Len(Tail(stack)) = Len(stack) - 1
    BY <2>1, HeadTailProperties
  <2>4. Len(Tail(stack)) < UndoLimit
    BY <1>1, <1>3, <2>3
  <2>5. \A marks : AllIn(stack, marks) => AllIn(Tail(stack), marks)
    BY <2>2 DEF AllIn
  <2>6. Pushed(stack, layout) = Append(Tail(stack), layout)
    BY <1>3 DEF Pushed
  <2> QED
    BY <1>2, <2>2, <2>4, <2>5, <2>6
<1>4. CASE Len(stack) # UndoLimit
  <2>1. Len(stack) < UndoLimit
    BY <1>1, <1>4
  <2>2. Pushed(stack, layout) = Append(stack, layout)
    BY <1>4 DEF Pushed
  <2> QED
    BY <1>2, <2>1, <2>2
<1> QED
  BY <1>3, <1>4

(* Undo and redo move one snapshot: the layout that was on the canvas goes *)
(* on one stack, and the newest of the other becomes the canvas.           *)
LEMMA MovedStacks ==
    ASSUME NEW from \in Seq(SUBSET Mark), from # <<>>, NEW to \in Seq(SUBSET Mark),
           NEW layout \in SUBSET Mark
    PROVE  /\ Last(from) \in SUBSET Mark
           /\ Front(from) \in Seq(SUBSET Mark) /\ Append(to, layout) \in Seq(SUBSET Mark)
           /\ Len(from) \in Nat /\ Len(to) \in Nat
           /\ Len(Front(from)) = Len(from) - 1 /\ Len(Append(to, layout)) = Len(to) + 1
           /\ \A marks : AllIn(from, marks) => AllIn(Front(from), marks) /\ Last(from) \subseteq marks
           /\ \A marks : AllIn(to, marks) /\ layout \subseteq marks
                            => AllIn(Append(to, layout), marks)
<1> DEFINE front == Front(from)
           t == Append(to, layout)
<1>1. /\ Len(from) \in Nat \ {0} /\ DOMAIN from = 1..Len(from)
      /\ \A i \in 1..Len(from) : from[i] \in SUBSET Mark
  BY EmptySeq, LenProperties, ElementOfSeq
<1>2. Last(from) = from[Len(from)] /\ Len(from) \in DOMAIN from
  BY <1>1 DEF Last
<1>3. /\ front \in Seq(SUBSET Mark) /\ Len(front) = Len(from) - 1
      /\ \A i \in 1..(Len(from) - 1) : front[i] = from[i]
  <2>1. 1 \in Int /\ Len(from) - 1 \in Int /\ \A i \in 1..(Len(from) - 1) : from[i] \in SUBSET Mark
    BY <1>1
  <2>2. /\ front \in Seq(SUBSET Mark)
        /\ Len(front) = IF 1 <= Len(from) - 1 THEN Len(from) - 1 - 1 + 1 ELSE 0
        /\ \A i \in 1..(Len(from) - 1 - 1 + 1) : front[i] = from[1 + i - 1]
    BY <2>1, SubSeqProperties DEF Front
  <2>3. Len(from) - 1 - 1 + 1 = Len(from) - 1 /\ \A i \in 1..(Len(from) - 1) : 1 + i - 1 = i
    BY <1>1
  <2> HIDE DEF front
  <2>4. Len(front) = Len(from) - 1
    <3>1. CASE Len(from) = 1
      BY <2>2, <3>1
    <3>2. CASE Len(from) # 1
      <4>1. 1 <= Len(from) - 1
        BY <1>1, <3>2
      <4> QED
        BY <1>1, <2>2, <2>3, <4>1
    <3> QED
      BY <3>1, <3>2
  <2>5. ASSUME NEW i \in 1..(Len(from) - 1)
        PROVE  front[i] = from[i]
    BY <2>2, <2>3
  <2> QED
    BY <2>2, <2>4, <2>5
<1>4. /\ t \in Seq(SUBSET Mark) /\ Len(to) \in Nat
      /\ DOMAIN t = DOMAIN to \cup {Len(to) + 1}
      /\ \A i \in DOMAIN to : t[i] = to[i]
      /\ t[Len(to) + 1] = layout
  BY AppendedPlaces
<1>5. Len(t) = Len(to) + 1
  BY AppendProperties
<1> HIDE DEF front, t
<1>6. \A i \in DOMAIN front : i \in DOMAIN from /\ front[i] = from[i]
  <2>1. DOMAIN front = 1..(Len(from) - 1)
    BY <1>3, LenProperties
  <2> QED
    BY <1>1, <1>3, <2>1
<1>7. \A marks : AllIn(from, marks) => AllIn(front, marks) /\ Last(from) \subseteq marks
  BY <1>2, <1>6 DEF AllIn
<1>8. \A marks : AllIn(to, marks) /\ layout \subseteq marks => AllIn(t, marks)
  BY <1>4 DEF AllIn
<1>9. Last(from) \in SUBSET Mark
  BY <1>1, <1>2
<1> QED
  BY <1>1, <1>3, <1>4, <1>5, <1>7, <1>8, <1>9 DEF front, t

-------------------------------------------------------------------------------
(* What the steps make of the saves.                                       *)

LEMMA EachPut ==
    ASSUME PutsShape
    PROVE  /\ Len(puts) \in Nat /\ DOMAIN puts = 1..Len(puts)
           /\ \A i \in DOMAIN puts :
                 /\ puts[i] \in Put
                 /\ puts[i].scene \in Scenes /\ puts[i].layout \in SUBSET Mark
                 /\ puts[i].newest \in BOOLEAN /\ puts[i].taken \in BOOLEAN
<1>1. \A i \in DOMAIN puts : puts[i] \in Put
  BY DEF PutsShape
<1>2. Len(puts) \in Nat /\ DOMAIN puts = 1..Len(puts)
  BY LenProperties DEF PutsShape
<1> QED
  BY <1>1, <1>2 DEF Put

(* One save of the open scene is behind the others, which carry what they  *)
(* carried.                                                                *)
Queued(layout) ==
    /\ DOMAIN puts' = DOMAIN puts \cup {Len(puts) + 1}
    /\ \A i \in DOMAIN puts :
          /\ i < Len(puts) + 1
          /\ puts'[i].scene = puts[i].scene /\ puts'[i].layout = puts[i].layout
          /\ puts'[i].taken = puts[i].taken
    /\ puts'[Len(puts) + 1].scene = scene
    /\ puts'[Len(puts) + 1].layout = layout
    /\ ~puts'[Len(puts) + 1].taken

LEMMA SentPuts ==
    ASSUME PutsShape, scene \in Scenes, NEW layout \in SUBSET Mark,
           Send(layout) \/ SendPlain(layout)
    PROVE  PutsShape' /\ Queued(layout)
<1>1. /\ Len(puts) \in Nat /\ DOMAIN puts = 1..Len(puts)
      /\ \A i \in DOMAIN puts : puts[i] \in Put
  BY EachPut
<1>2. ASSUME NEW olds \in Seq(Put), DOMAIN olds = DOMAIN puts, NEW isNewest \in BOOLEAN,
             \A i \in DOMAIN puts : /\ olds[i].scene = puts[i].scene
                                    /\ olds[i].layout = puts[i].layout
                                    /\ olds[i].taken = puts[i].taken
                                    /\ olds[i].newest => puts[i].newest /\ ~isNewest,
             puts' = Append(olds, [scene |-> scene, layout |-> layout, newest |-> isNewest,
                                   taken |-> FALSE])
      PROVE  PutsShape' /\ Queued(layout)
  <2> DEFINE e == [scene |-> scene, layout |-> layout, newest |-> isNewest, taken |-> FALSE]
  <2>1. e \in Put /\ e.scene = scene /\ e.layout = layout /\ e.newest = isNewest /\ ~e.taken
    BY DEF Put
  <2> HIDE DEF e
  <2>2. Len(olds) = Len(puts)
    BY <1>1, <1>2, LenProperties
  <2>3. /\ puts' \in Seq(Put) /\ Len(puts') = Len(puts) + 1
        /\ DOMAIN puts' = DOMAIN puts \cup {Len(puts) + 1}
        /\ \A i \in DOMAIN puts : puts'[i] = olds[i]
        /\ puts'[Len(puts) + 1] = e
    <3>1. puts' = Append(olds, e)
      BY <1>2 DEF e
    <3> QED
      BY <1>2, <2>1, <2>2, <3>1, AppendedPlaces, AppendProperties
  <2>4. \A i \in DOMAIN puts : i < Len(puts) + 1
    BY <1>1
  <2>5. Queued(layout)
    BY <1>2, <2>1, <2>3, <2>4 DEF Queued
  <2>6. OneNewest'
    <3> SUFFICES ASSUME NEW i \in DOMAIN puts', NEW j \in DOMAIN puts',
                        puts'[i].newest, puts'[j].newest
                 PROVE  i = j
      BY DEF OneNewest
    <3>1. CASE i \in DOMAIN puts /\ j \in DOMAIN puts
      BY <1>2, <2>3, <3>1 DEF PutsShape, OneNewest
    <3>2. CASE ~(i \in DOMAIN puts /\ j \in DOMAIN puts)
      BY <1>2, <2>1, <2>3, <3>2
    <3> QED
      BY <3>1, <3>2
  <2>7. Len(puts') <= MaxPuts
    <3>1. Len(puts) < MaxPuts
      BY DEF Send, SendPlain
    <3> QED
      BY <1>1, <2>3, <3>1, SceneAssumption
  <2> QED
    BY <2>3, <2>5, <2>6, <2>7 DEF PutsShape
<1>3. CASE Send(layout)
  <2> DEFINE olds == [i \in DOMAIN puts |-> [puts[i] EXCEPT !.newest = FALSE]]
  <2>1. /\ DOMAIN olds = DOMAIN puts
        /\ \A i \in DOMAIN puts : /\ olds[i] \in Put
                                  /\ olds[i].scene = puts[i].scene
                                  /\ olds[i].layout = puts[i].layout
                                  /\ olds[i].taken = puts[i].taken
                                  /\ ~olds[i].newest
    BY <1>1 DEF Put
  <2>2. olds \in Seq(Put)
    <3>1. olds \in [1..Len(puts) -> Put]
      BY <1>1, <2>1
    <3> QED
      BY <1>1, <3>1
  <2>3. puts' = Append(olds, [scene |-> scene, layout |-> layout, newest |-> TRUE, taken |-> FALSE])
    BY <1>3 DEF Send
  <2> HIDE DEF olds
  <2> QED
    BY <1>2, <2>1, <2>2, <2>3
<1>4. CASE SendPlain(layout)
  <2>1. puts' = Append(puts, [scene |-> scene, layout |-> layout, newest |-> FALSE, taken |-> FALSE])
    BY <1>4 DEF SendPlain
  <2>2. puts \in Seq(Put)
    BY DEF PutsShape
  <2> QED
    BY <1>2, <2>1, <2>2
<1> QED
  BY <1>3, <1>4

(* The server takes save i, the first it has not taken. *)
Took(i) ==
    /\ ~puts[i].taken /\ \A j \in DOMAIN puts : puts[j].taken \/ i <= j
    /\ stored' = [stored EXCEPT ![puts[i].scene] = puts[i].layout]
    /\ DOMAIN puts' = DOMAIN puts
    /\ \A j \in DOMAIN puts :
          /\ puts'[j].scene = puts[j].scene /\ puts'[j].layout = puts[j].layout
          /\ puts'[j].taken = (puts[j].taken \/ j = i)

LEMMA TakenPuts ==
    ASSUME PutsShape, ServerTakes
    PROVE  PutsShape' /\ \E i \in DOMAIN puts : Took(i)
<1>1. /\ Len(puts) \in Nat /\ DOMAIN puts = 1..Len(puts)
      /\ \A j \in DOMAIN puts : puts[j] \in Put
  BY EachPut
<1>2. PICK i \in DOMAIN puts : /\ ~puts[i].taken
                               /\ \A j \in 1..(i - 1) : puts[j].taken
                               /\ stored' = [stored EXCEPT ![puts[i].scene] = puts[i].layout]
                               /\ puts' = [puts EXCEPT ![i].taken = TRUE]
  BY DEF ServerTakes
<1>3. /\ DOMAIN puts' = DOMAIN puts
      /\ \A j \in DOMAIN puts :
            /\ puts'[j] \in Put
            /\ puts'[j].scene = puts[j].scene /\ puts'[j].layout = puts[j].layout
            /\ puts'[j].newest = puts[j].newest
            /\ puts'[j].taken = (puts[j].taken \/ j = i)
  BY <1>1, <1>2 DEF Put
<1>4. puts' \in Seq(Put) /\ Len(puts') = Len(puts)
  <2>1. puts' \in [1..Len(puts) -> Put]
    BY <1>1, <1>2, <1>3
  <2> QED
    BY <1>1, <2>1
<1>5. PutsShape'
  BY <1>3, <1>4 DEF PutsShape, OneNewest
<1>6. \A j \in DOMAIN puts : puts[j].taken \/ i <= j
  BY <1>1, <1>2
<1>7. Took(i)
  BY <1>2, <1>3, <1>6 DEF Took
<1> QED
  BY <1>5, <1>7

(* Save p ends: the others are left as they were, in their order. *)
LEMMA EndedPuts ==
    ASSUME PutsShape, NEW p \in DOMAIN puts, PutEnds(p)
    PROVE  PutsShape' /\ \E place : KeptPlaces(puts, p, puts', place)
<1>1. puts' \in Seq(Put) /\ \E place : KeptPlaces(puts, p, puts', place)
  BY RemovedPlaces DEF PutsShape, PutEnds
<1>2. PICK place : KeptPlaces(puts, p, puts', place)
  BY <1>1
<1>3. OneNewest'
  BY <1>2 DEF KeptPlaces, PutsShape, OneNewest
<1>4. Len(puts') <= MaxPuts
  <2>1. /\ DOMAIN puts = 1..Len(puts) /\ Len(puts) \in Nat
        /\ DOMAIN puts' = 1..(Len(puts) - 1)
    BY Removed DEF PutsShape, PutEnds
  <2>2. Len(puts') \in Nat /\ DOMAIN puts' = 1..Len(puts')
    BY <1>1, LenProperties
  <2>3. Len(puts') \notin 1..(Len(puts) - 1) => Len(puts') = 0
    BY <2>1, <2>2
  <2> QED
    BY <2>1, <2>2, <2>3, SceneAssumption DEF PutsShape
<1> QED
  BY <1>1, <1>3, <1>4 DEF PutsShape

LEMMA SamePuts ==
    ASSUME PutsShape, UNCHANGED puts
    PROVE  PutsShape'
BY DEF PutsShape, OneNewest

(* The saves under way are of one generation at most that counts. *)
LEMMA NewestCounted ==
    ASSUME PutsShape
    PROVE  Cardinality({i \in DOMAIN puts : puts[i].newest}) <= 1
<1> DEFINE S == {i \in DOMAIN puts : puts[i].newest}
<1>1. CASE S = {}
  BY <1>1, FS_EmptySet
<1>2. CASE S # {}
  <2>1. PICK i : i \in S
    BY <1>2
  <2>2. S = {i}
    BY <2>1 DEF PutsShape, OneNewest
  <2> QED
    BY <2>2, FS_Singleton
<1> QED
  BY <1>1, <1>2

-------------------------------------------------------------------------------
(* Every step keeps the shape.                                             *)

LEMMA SameStacks ==
    ASSUME StackShape, UNCHANGED undoVars
    PROVE  StackShape'
BY DEF StackShape, undoVars

LEMMA EmptyStacks ==
    ASSUME past' = <<>>, future' = <<>>
    PROVE  StackShape'
BY SceneAssumption DEF StackShape

(* The snapshots go past' and none is left to redo. *)
LEMMA PushedShape ==
    ASSUME StackShape, canvas \in SUBSET Mark, past' = Pushed(past, canvas), future' = <<>>
    PROVE  StackShape'
<1>1. Len(past) \in Nat /\ Len(future) \in Nat
  BY LenProperties DEF StackShape
<1>2. Len(past) <= UndoLimit
  BY <1>1, SceneAssumption DEF StackShape
<1>3. past' \in Seq(SUBSET Mark) /\ Len(past') <= UndoLimit
  BY <1>2, PushedStack DEF StackShape
<1>4. future' \in Seq(SUBSET Mark) /\ Len(future') = 0 /\ Len(past') \in Nat
  BY <1>3, LenProperties
<1> QED
  BY <1>3, <1>4, SceneAssumption DEF StackShape

LEMMA EditShape ==
    ASSUME Shape, Edit
    PROVE  Shape'
<1>1. edits + 1 \in 1..MaxEdits /\ edits' = edits + 1 /\ scene \in Scenes
  BY SceneAssumption DEF Edit, Shape, PageShape
<1>2. [scene |-> scene, n |-> edits'] \in Mark
  BY <1>1, SceneAssumption DEF Mark
<1>3. canvas' \in SUBSET Mark /\ timer' \in Timer
  BY <1>2 DEF Edit, Shape, PageShape, Timer
<1>4. PageShape'
  BY <1>1, <1>3 DEF Edit, Shape, PageShape, netVars
<1>5. StackShape'
  BY PushedShape DEF Edit, Shape, PageShape
<1>6. PutsShape'
  BY SamePuts DEF Edit, Shape
<1> QED
  BY <1>4, <1>5, <1>6 DEF Shape

LEMMA ClearShape ==
    ASSUME Shape, Clear
    PROVE  Shape'
<1>1. PutsShape'
  BY SentPuts DEF Clear, Shape, PageShape
<1>2. StackShape'
  BY PushedShape DEF Clear, Shape, PageShape
<1>3. PageShape'
  BY DEF Clear, Send, Shape, PageShape, Timer, NoTimer, netVars, Mine
<1> QED
  BY <1>1, <1>2, <1>3 DEF Shape

LEMMA MoveCameraShape ==
    ASSUME Shape, MoveCamera
    PROVE  Shape'
<1>1. PageShape'
  BY DEF MoveCamera, Shape, PageShape, Timer, pastVars, netVars
<1> QED
  BY <1>1, SamePuts, SameStacks DEF MoveCamera, Shape

LEMMA RestoreShape ==
    ASSUME Shape, NEW layout \in SUBSET Mark, Restore(layout), StackShape'
    PROVE  Shape'
<1>1. PageShape'
  BY DEF Restore, Shape, PageShape, Timer, netVars, Mine
<1> QED
  BY <1>1, SamePuts DEF Restore, Shape

LEMMA UndoShape ==
    ASSUME Shape, Undo \/ Redo
    PROVE  Shape'
<1>1. canvas \in SUBSET Mark
  BY DEF Shape, PageShape
<1>2. ASSUME NEW from \in Seq(SUBSET Mark), from # <<>>, NEW to \in Seq(SUBSET Mark),
             Len(from) + Len(to) <= UndoLimit
      PROVE  /\ Last(from) \in SUBSET Mark
             /\ Front(from) \in Seq(SUBSET Mark) /\ Append(to, canvas) \in Seq(SUBSET Mark)
             /\ Len(Front(from)) + Len(Append(to, canvas)) <= UndoLimit
             /\ Len(Append(to, canvas)) + Len(Front(from)) <= UndoLimit
  <2>1. /\ Last(from) \in SUBSET Mark
        /\ Front(from) \in Seq(SUBSET Mark) /\ Append(to, canvas) \in Seq(SUBSET Mark)
        /\ Len(from) \in Nat /\ Len(to) \in Nat
        /\ Len(Front(from)) = Len(from) - 1 /\ Len(Append(to, canvas)) = Len(to) + 1
    BY <1>1, <1>2, MovedStacks
  <2>2. Len(from) - 1 + (Len(to) + 1) <= UndoLimit /\ Len(to) + 1 + (Len(from) - 1) <= UndoLimit
    BY <1>2, <2>1, SceneAssumption
  <2> QED
    BY <2>1, <2>2
<1>3. /\ past \in Seq(SUBSET Mark) /\ future \in Seq(SUBSET Mark)
      /\ Len(past) + Len(future) <= UndoLimit /\ Len(future) + Len(past) <= UndoLimit
  <2>1. Len(past) \in Nat /\ Len(future) \in Nat
    BY LenProperties DEF Shape, StackShape
  <2> QED
    BY <2>1 DEF Shape, StackShape
<1>4. CASE Undo
  <2>1. Last(past) \in SUBSET Mark /\ Restore(Last(past)) /\ StackShape'
    BY <1>2, <1>3, <1>4 DEF Undo, StackShape
  <2> QED
    BY <2>1, RestoreShape
<1>5. CASE Redo
  <2>1. Last(future) \in SUBSET Mark /\ Restore(Last(future)) /\ StackShape'
    BY <1>2, <1>3, <1>5 DEF Redo, StackShape
  <2> QED
    BY <2>1, RestoreShape
<1> QED
  BY <1>4, <1>5

LEMMA SendShape ==
    ASSUME Shape, SaveTimer \/ Hide
    PROVE  Shape'
<1>1. timer.layout \in SUBSET Mark /\ canvas \in SUBSET Mark /\ scene \in Scenes
  BY DEF Shape, PageShape, Timer
<1>2. \E layout \in SUBSET Mark : Send(layout) \/ SendPlain(layout)
  BY <1>1 DEF SaveTimer, Hide
<1>3. PutsShape' /\ busy' \in BOOLEAN
  BY <1>1, <1>2, SentPuts DEF Shape, PageShape, Send, SendPlain
<1>4. StackShape'
  BY SameStacks DEF SaveTimer, Hide, Shape
<1>5. NoTimer \in Timer /\ timer' = NoTimer
  BY DEF SaveTimer, Hide, Timer, NoTimer
<1>6. UNCHANGED <<stored, edits, other, gone, failed, stale, scene, canvas, get, opening, pulls>>
  BY DEF SaveTimer, Hide, pastVars, netVars
<1>7. PageShape'
  BY <1>3, <1>5, <1>6 DEF Shape, PageShape
<1> QED
  BY <1>3, <1>4, <1>7 DEF Shape

(* A scene is asked for: an answer under way is shared. *)
LEMMA AskedShape ==
    ASSUME PageShape, NEW s \in Scenes, AskFor(s)
    PROVE  get' \in [Scenes -> {NoGet} \cup SUBSET Mark]
BY DEF AskFor, PageShape

LEMMA AskShape ==
    ASSUME Shape, NoticeArrives \/ \E s \in Scenes : OpenScene(s)
    PROVE  Shape'
<1>1. get' \in [Scenes -> {NoGet} \cup SUBSET Mark]
  BY AskedShape DEF NoticeArrives, OpenScene, Shape, PageShape
<1>2. opening' \in Scenes \cup {NoScene} /\ pulls' \in SUBSET Scenes
  BY DEF NoticeArrives, OpenScene, Shape, PageShape
<1>3. UNCHANGED <<stored, pastVars, scene, canvas, undoVars, timer, busy, puts>>
  BY DEF NoticeArrives, OpenScene
<1>4. PageShape'
  BY <1>1, <1>2, <1>3 DEF Shape, PageShape, pastVars
<1> QED
  BY <1>3, <1>4, SamePuts, SameStacks DEF Shape

(* A change of somebody else is on the server. *)
LEMMA OtherMark ==
    ASSUME PageShape, other < MaxOther, other' = other + 1, NEW s \in Scenes
    PROVE  /\ [scene |-> s, n |-> -other'] \in Mark /\ other' \in 0..MaxOther
           /\ -other' <= 0
<1>1. other + 1 \in 1..MaxOther /\ -(other + 1) \in (-MaxOther)..MaxEdits
  BY SceneAssumption DEF PageShape
<1> QED
  BY <1>1 DEF Mark

LEMMA OtherShape ==
    ASSUME Shape, Rework \/ \E s \in Scenes : OtherSaves(s)
    PROVE  Shape'
<1>1. PICK s \in Scenes : stored' = [stored EXCEPT ![s] = @ \cup {[scene |-> s, n |-> -other']}]
  BY DEF Rework, OtherSaves, Shape, PageShape
<1>2. [scene |-> s, n |-> -other'] \in Mark /\ other' \in 0..MaxOther
  BY OtherMark DEF Rework, OtherSaves, Shape
<1>3. stored' \in [Scenes -> SUBSET Mark]
  BY <1>1, <1>2 DEF Shape, PageShape
<1>4. get' \in [Scenes -> {NoGet} \cup SUBSET Mark] /\ opening' \in Scenes \cup {NoScene}
  <2>1. CASE Rework
    BY <1>3, <2>1 DEF Rework, Shape, PageShape
  <2>2. CASE \E t \in Scenes : OtherSaves(t)
    BY <2>2 DEF OtherSaves, Shape, PageShape
  <2> QED
    BY <2>1, <2>2
<1>5. UNCHANGED <<edits, gone, failed, stale, scene, canvas, undoVars, timer, busy, puts, pulls>>
  BY DEF Rework, OtherSaves
<1>6. PageShape'
  BY <1>2, <1>3, <1>4, <1>5 DEF Shape, PageShape
<1> QED
  BY <1>5, <1>6, SamePuts, SameStacks DEF Shape

LEMMA TakeShape ==
    ASSUME Shape, ServerTakes
    PROVE  Shape'
<1>1. PutsShape'
  BY TakenPuts DEF Shape
<1>2. PICK i \in DOMAIN puts : Took(i)
  BY TakenPuts DEF Shape
<1>3. stored' \in [Scenes -> SUBSET Mark]
  BY <1>2, EachPut DEF Took, Shape, PageShape
<1>4. UNCHANGED <<pastVars, scene, canvas, undoVars, timer, busy, netVars>>
  BY DEF ServerTakes
<1>5. PageShape'
  BY <1>3, <1>4 DEF Shape, PageShape, pastVars, netVars
<1> QED
  BY <1>1, <1>4, <1>5, SameStacks DEF Shape

LEMMA PutEndShape ==
    ASSUME Shape, PutAnswered \/ PutFails
    PROVE  Shape'
<1>1. PICK i \in DOMAIN puts : PutEnds(i) /\ failed' \in {failed, puts[i].layout}
  BY DEF PutAnswered, PutFails
<1>2. PutsShape'
  BY <1>1, EndedPuts DEF Shape
<1>3. failed' \in SUBSET Mark /\ busy' \in BOOLEAN
  BY <1>1, EachPut DEF PutEnds, Shape, PageShape
<1>4. UNCHANGED <<stored, edits, other, gone, stale, scene, canvas, undoVars, timer, netVars>>
  BY <1>1 DEF PutEnds
<1>5. PageShape'
  BY <1>3, <1>4 DEF Shape, PageShape, netVars
<1> QED
  BY <1>2, <1>4, <1>5, SameStacks DEF Shape

LEMMA GetArrivesShape ==
    ASSUME Shape, NEW s \in Scenes, GetArrives(s)
    PROVE  Shape'
<1>1. /\ UNCHANGED <<stored, edits, other, gone, failed, timer, busy, puts>>
      /\ get[s] \in SUBSET Mark
      /\ get' = [get EXCEPT ![s] = NoGet]
      /\ opening' \in {opening, NoScene} /\ pulls' = pulls \ {s}
  BY DEF GetArrives, Shape, PageShape
<1>2. scene' \in Scenes /\ canvas' \in SUBSET Mark /\ stale' \in BOOLEAN
  BY <1>1 DEF GetArrives, ApplySceneDto, Shape, PageShape
<1>3. StackShape'
  <2>1. CASE opening = s
    BY <2>1, EmptyStacks DEF GetArrives, ApplySceneDto
  <2>2. CASE opening # s
    BY <2>2, SameStacks DEF GetArrives, Shape
  <2> QED
    BY <2>1, <2>2
<1>4. PageShape'
  BY <1>1, <1>2 DEF Shape, PageShape
<1> QED
  BY <1>1, <1>3, <1>4, SamePuts DEF Shape

LEMMA GetFailsShape ==
    ASSUME Shape, NEW s \in Scenes, GetFails(s)
    PROVE  Shape'
<1>1. PageShape'
  BY DEF GetFails, Shape, PageShape, pastVars
<1> QED
  BY <1>1, SamePuts, SameStacks DEF GetFails, Shape

LEMMA ShapeStep ==
    ASSUME Shape, [Next]_vars
    PROVE  Shape'
<1>1. CASE UserStep
  BY <1>1, EditShape, ClearShape, MoveCameraShape, UndoShape, SendShape, OtherShape, AskShape
     DEF UserStep
<1>2. CASE ServerStep
  BY <1>2, TakeShape, OtherShape DEF ServerStep
<1>3. CASE TabStep
  BY <1>3, SendShape, AskShape, PutEndShape, GetArrivesShape DEF TabStep
<1>4. CASE Fault
  BY <1>4, PutEndShape, GetFailsShape DEF Fault
<1>5. CASE UNCHANGED vars
  <2> USE <1>5 DEF vars, pastVars, undoVars, netVars, Shape
  <2>1. PageShape' /\ StackShape'
    BY DEF PageShape, StackShape
  <2> QED
    BY <2>1, SamePuts
<1> QED
  BY <1>1, <1>2, <1>3, <1>4, <1>5 DEF Next

LEMMA ShapeInit == Init => Shape
<1> SUFFICES ASSUME Init PROVE Shape
  OBVIOUS
<1>1. scene \in Scenes
  BY SceneAssumption DEF Init
<1>2. PageShape
  <2>1. 0 \in 0..MaxEdits /\ 0 \in 0..MaxOther
    BY SceneAssumption
  <2>2. stored \in [Scenes -> SUBSET Mark] /\ get \in [Scenes -> {NoGet} \cup SUBSET Mark]
    BY DEF Init
  <2>3. timer \in Timer
    BY DEF Init, Timer, NoTimer
  <2> QED
    BY <1>1, <2>1, <2>2, <2>3 DEF Init, PageShape
<1>3. StackShape /\ PutsShape
  BY SceneAssumption DEF Init, StackShape, PutsShape, OneNewest
<1> QED
  BY <1>2, <1>3 DEF Shape

LEMMA ShapeInvariant == Spec => []Shape
BY ShapeInit, ShapeStep, PTL DEF Spec

(* Scenes, canvas, stacks and saves keep their shape: neither stack ever   *)
(* holds more than UndoLimit snapshots, whatever is undone and redone, and *)
(* one save under way at most is of the newest generation.                 *)
THEOREM SceneTypeCorrect == Spec => []TypeOK
<1>1. ASSUME Shape
      PROVE  TypeOK
  <2>1. Len(past) <= UndoLimit /\ Len(future) <= UndoLimit
    <3>1. Len(past) \in Nat /\ Len(future) \in Nat
      BY <1>1, LenProperties DEF Shape, StackShape
    <3> QED
      BY <1>1, <3>1, SceneAssumption DEF Shape, StackShape
  <2>2. Cardinality({i \in DOMAIN puts : puts[i].newest}) <= 1
    BY <1>1, NewestCounted DEF Shape
  <2> QED
    BY <1>1, <2>1, <2>2 DEF Shape, PageShape, StackShape, PutsShape, TypeOK
<1> QED
  BY <1>1, ShapeInvariant, PTL

-------------------------------------------------------------------------------
(* Whose changes are where, when the user lets the saves finish before     *)
(* another scene is opened.                                                *)

OwnStacks == AllIn(past, MarksOf(scene)) /\ AllIn(future, MarksOf(scene))
OwnTimer == timer.layout \subseteq MarksOf(scene)
OwnPuts ==
    \A i \in DOMAIN puts : puts[i].scene = scene /\ puts[i].layout \subseteq MarksOf(scene)
OwnAnswers == \A s \in Scenes : get[s] # NoGet => get[s] \subseteq MarksOf(s)

(* While another scene is on its way, no save is armed or under way. *)
SwitchedSettled == Switching => Settled

OwnInv == OwnScene /\ OwnStacks /\ OwnTimer /\ OwnPuts /\ OwnAnswers /\ SwitchedSettled

(* What a step leaves alone stays as it was. *)
LEMMA SameOwn ==
    ASSUME OwnInv, UNCHANGED scene
    PROVE  /\ UNCHANGED undoVars => OwnStacks'
           /\ UNCHANGED timer => OwnTimer'
           /\ UNCHANGED puts => OwnPuts'
           /\ UNCHANGED get => OwnAnswers'
           /\ UNCHANGED <<timer, puts, opening>> => SwitchedSettled'
           /\ UNCHANGED <<stored, canvas>> => OwnScene'
           /\ timer' = NoTimer => OwnTimer'
BY DEF OwnInv, OwnStacks, OwnTimer, OwnPuts, OwnAnswers, SwitchedSettled, OwnScene, MarksOf,
       AllIn, undoVars, Switching, Settled, NoTimer

LEMMA QueuedOwn ==
    ASSUME OwnInv, NEW layout \in SUBSET MarksOf(scene), Queued(layout), UNCHANGED scene
    PROVE  OwnPuts'
BY DEF OwnInv, OwnPuts, Queued, MarksOf

LEMMA EndedOwn ==
    ASSUME OwnInv, NEW p \in DOMAIN puts, NEW place, KeptPlaces(puts, p, puts', place),
           UNCHANGED scene
    PROVE  OwnPuts'
BY DEF OwnInv, OwnPuts, KeptPlaces, MarksOf

(* An answer is what the server holds. *)
LEMMA AskedOwn ==
    ASSUME OwnInv, NEW s \in Scenes, AskFor(s), PageShape
    PROVE  OwnAnswers'
BY DEF OwnInv, OwnAnswers, OwnScene, AskFor, PageShape

LEMMA EditOwn ==
    ASSUME Patient, Shape, OwnInv, Edit
    PROVE  OwnInv'
<1>1. /\ UNCHANGED <<stored, scene, puts, get, opening>> /\ ~Switching
      /\ past' = Pushed(past, canvas) /\ future' = <<>> /\ timer'.layout = canvas'
      /\ canvas' = canvas \cup {[scene |-> scene, n |-> edits']}
  BY DEF Edit, netVars
<1>2. canvas' \in SUBSET Mark
  BY EditShape DEF Shape, PageShape
<1>3. canvas' \subseteq MarksOf(scene)
  BY <1>1, <1>2 DEF OwnInv, OwnScene, MarksOf
<1>4. OwnStacks'
  <2>1. Len(past) <= UndoLimit /\ past \in Seq(SUBSET Mark) /\ canvas \in SUBSET Mark
    <3>1. Len(past) \in Nat /\ Len(future) \in Nat
      BY LenProperties DEF Shape, StackShape
    <3> QED
      BY <3>1, SceneAssumption DEF Shape, StackShape, PageShape
  <2>2. AllIn(Pushed(past, canvas), MarksOf(scene))
    BY <2>1, PushedStack DEF OwnInv, OwnStacks, OwnScene
  <2> QED
    BY <1>1, <2>2 DEF OwnStacks, AllIn, MarksOf
<1>5. OwnScene' /\ OwnTimer'
  BY <1>1, <1>3 DEF OwnInv, OwnScene, OwnTimer, MarksOf
<1>6. SwitchedSettled'
  BY <1>1 DEF SwitchedSettled, Switching
<1> QED
  BY <1>1, <1>4, <1>5, <1>6, SameOwn DEF OwnInv

LEMMA ClearOwn ==
    ASSUME Patient, Shape, OwnInv, Clear
    PROVE  OwnInv'
<1>1. /\ UNCHANGED <<stored, scene, get, opening>> /\ ~Switching
      /\ past' = Pushed(past, canvas) /\ future' = <<>> /\ canvas' = {} /\ timer' = NoTimer
      /\ Send({})
  BY DEF Clear, netVars
<1>2. OwnStacks'
  <2>1. Len(past) <= UndoLimit /\ past \in Seq(SUBSET Mark) /\ canvas \in SUBSET Mark
    <3>1. Len(past) \in Nat /\ Len(future) \in Nat
      BY LenProperties DEF Shape, StackShape
    <3> QED
      BY <3>1, SceneAssumption DEF Shape, StackShape, PageShape
  <2>2. AllIn(Pushed(past, canvas), MarksOf(scene))
    BY <2>1, PushedStack DEF OwnInv, OwnStacks, OwnScene
  <2> QED
    BY <1>1, <2>2 DEF OwnStacks, AllIn, MarksOf
<1>3. OwnScene'
  BY <1>1 DEF OwnInv, OwnScene, MarksOf
<1>4. OwnPuts'
  BY <1>1, SentPuts, QueuedOwn DEF Shape, PageShape
<1>5. SwitchedSettled'
  BY <1>1 DEF SwitchedSettled, Switching
<1> QED
  BY <1>1, <1>2, <1>3, <1>4, <1>5, SameOwn DEF OwnInv

LEMMA MoveCameraOwn ==
    ASSUME Patient, OwnInv, MoveCamera
    PROVE  OwnInv'
<1>1. /\ UNCHANGED <<stored, scene, canvas, undoVars, puts, get, opening>> /\ ~Switching
      /\ timer'.layout = canvas
  BY DEF MoveCamera, netVars
<1>2. OwnTimer'
  BY <1>1 DEF OwnInv, OwnScene, OwnTimer, MarksOf
<1>3. SwitchedSettled'
  BY <1>1 DEF SwitchedSettled, Switching
<1> QED
  BY <1>1, <1>2, <1>3, SameOwn DEF OwnInv

LEMMA UndoOwn ==
    ASSUME Patient, Shape, OwnInv, Undo \/ Redo
    PROVE  OwnInv'
<1>1. canvas \in SUBSET Mark /\ canvas \subseteq MarksOf(scene)
  BY DEF Shape, PageShape, OwnInv, OwnScene
<1>2. ASSUME NEW layout, layout \subseteq MarksOf(scene), Restore(layout), OwnStacks'
      PROVE  OwnInv'
  <2>1. /\ UNCHANGED <<stored, scene, puts, get, opening>> /\ ~Switching
        /\ canvas' = layout /\ timer'.layout = layout
    BY <1>2 DEF Restore, netVars
  <2>2. OwnScene' /\ OwnTimer'
    BY <1>2, <2>1 DEF OwnInv, OwnScene, OwnTimer, MarksOf
  <2>3. SwitchedSettled'
    BY <2>1 DEF SwitchedSettled, Switching
  <2> QED
    BY <1>2, <2>1, <2>2, <2>3, SameOwn DEF OwnInv
<1>3. ASSUME NEW from \in Seq(SUBSET Mark), from # <<>>, NEW to \in Seq(SUBSET Mark),
             AllIn(from, MarksOf(scene)), AllIn(to, MarksOf(scene))
      PROVE  /\ Last(from) \subseteq MarksOf(scene)
             /\ AllIn(Front(from), MarksOf(scene)) /\ AllIn(Append(to, canvas), MarksOf(scene))
  BY <1>1, <1>3, MovedStacks
<1>4. /\ past \in Seq(SUBSET Mark) /\ future \in Seq(SUBSET Mark)
      /\ AllIn(past, MarksOf(scene)) /\ AllIn(future, MarksOf(scene))
  BY DEF Shape, StackShape, OwnInv, OwnStacks
<1>5. ASSUME UNCHANGED scene, AllIn(past', MarksOf(scene)), AllIn(future', MarksOf(scene))
      PROVE  OwnStacks'
  BY <1>5 DEF OwnStacks, AllIn, MarksOf
<1>6. CASE Undo
  <2>1. Restore(Last(past)) /\ past # <<>> /\ UNCHANGED scene
        /\ past' = Front(past) /\ future' = Append(future, canvas)
    BY <1>6 DEF Undo, Restore
  <2>2. Last(past) \subseteq MarksOf(scene) /\ OwnStacks'
    BY <1>3, <1>4, <1>5, <2>1
  <2> QED
    BY <1>2, <2>1, <2>2
<1>7. CASE Redo
  <2>1. Restore(Last(future)) /\ future # <<>> /\ UNCHANGED scene
        /\ future' = Front(future) /\ past' = Append(past, canvas)
    BY <1>7 DEF Redo, Restore
  <2>2. Last(future) \subseteq MarksOf(scene) /\ OwnStacks'
    BY <1>3, <1>4, <1>5, <2>1
  <2> QED
    BY <1>2, <2>1, <2>2
<1> QED
  BY <1>6, <1>7

LEMMA SendOwn ==
    ASSUME Patient, Shape, OwnInv, SaveTimer \/ Hide
    PROVE  OwnInv'
<1>1. /\ UNCHANGED <<stored, scene, canvas, undoVars, get, opening>> /\ ~Switching
      /\ timer' = NoTimer
  BY DEF SaveTimer, Hide, netVars, OwnInv, SwitchedSettled, Settled
<1>2. \E layout \in SUBSET Mark : /\ layout \subseteq MarksOf(scene)
                                  /\ Send(layout) \/ SendPlain(layout)
  <2>1. timer.layout \in SUBSET Mark /\ canvas \in SUBSET Mark
    BY DEF Shape, PageShape, Timer
  <2> QED
    BY <2>1 DEF SaveTimer, Hide, OwnInv, OwnTimer, OwnScene
<1>3. OwnPuts'
  BY <1>1, <1>2, SentPuts, QueuedOwn DEF Shape, PageShape
<1>4. SwitchedSettled'
  BY <1>1 DEF SwitchedSettled, Switching
<1> QED
  BY <1>1, <1>3, <1>4, SameOwn DEF OwnInv

LEMMA AskOwn ==
    ASSUME Patient, Shape, OwnInv, NoticeArrives \/ \E s \in Scenes : OpenScene(s)
    PROVE  OwnInv'
<1>1. UNCHANGED <<stored, scene, canvas, undoVars, timer, puts>>
  BY DEF NoticeArrives, OpenScene
<1>2. OwnAnswers'
  BY AskedOwn DEF NoticeArrives, OpenScene, Shape, PageShape
<1>3. SwitchedSettled'
  BY DEF NoticeArrives, OpenScene, OwnInv, SwitchedSettled, Switching, Settled
<1> QED
  BY <1>1, <1>2, <1>3, SameOwn DEF OwnInv

LEMMA OtherOwn ==
    ASSUME Patient, Shape, OwnInv, Rework \/ \E s \in Scenes : OtherSaves(s)
    PROVE  OwnInv'
<1>1. UNCHANGED <<scene, canvas, undoVars, timer, puts>>
  BY DEF Rework, OtherSaves
<1>2. PICK s \in Scenes : stored' = [stored EXCEPT ![s] = @ \cup {[scene |-> s, n |-> -other']}]
  BY DEF Rework, OtherSaves, Shape, PageShape
<1>3. [scene |-> s, n |-> -other'] \in MarksOf(s)
  BY OtherMark DEF Rework, OtherSaves, Shape, MarksOf
<1>4. \A t \in Scenes : stored'[t] \subseteq MarksOf(t)
  BY <1>2, <1>3 DEF OwnInv, OwnScene, Shape, PageShape
<1>5. OwnScene'
  BY <1>1, <1>4 DEF OwnInv, OwnScene, MarksOf
<1>6. OwnAnswers' /\ SwitchedSettled'
  <2>1. CASE Rework
    <3>1. OwnAnswers'
      BY <1>4, <2>1 DEF Rework, OwnInv, OwnAnswers, Shape, PageShape
    <3> QED
      BY <2>1, <3>1 DEF Rework, SwitchedSettled, Settled
  <2>2. CASE \E t \in Scenes : OtherSaves(t)
    BY <2>2, <1>1, SameOwn DEF OtherSaves
  <2> QED
    BY <2>1, <2>2
<1> QED
  BY <1>1, <1>5, <1>6, SameOwn DEF OwnInv

LEMMA TakeOwn ==
    ASSUME Patient, Shape, OwnInv, ServerTakes
    PROVE  OwnInv'
<1>1. UNCHANGED <<scene, canvas, undoVars, timer, get, opening>>
  BY DEF ServerTakes, netVars
<1>2. PICK i \in DOMAIN puts : Took(i)
  BY TakenPuts DEF Shape
<1>3. OwnScene'
  BY <1>1, <1>2 DEF Took, OwnInv, OwnScene, OwnPuts, Shape, PageShape, MarksOf
<1>4. OwnPuts'
  BY <1>1, <1>2 DEF Took, OwnInv, OwnPuts, MarksOf
<1>5. SwitchedSettled'
  BY <1>1, <1>2 DEF Took, OwnInv, SwitchedSettled, Switching, Settled
<1> QED
  BY <1>1, <1>3, <1>4, <1>5, SameOwn DEF OwnInv

LEMMA PutEndOwn ==
    ASSUME Patient, Shape, OwnInv, PutAnswered \/ PutFails
    PROVE  OwnInv'
<1>1. PICK i \in DOMAIN puts : PutEnds(i)
  BY DEF PutAnswered, PutFails
<1>2. UNCHANGED <<stored, scene, canvas, undoVars, timer, get, opening>>
  BY <1>1 DEF PutEnds, netVars
<1>3. OwnPuts'
  BY <1>1, <1>2, EndedPuts, EndedOwn DEF Shape
<1>4. SwitchedSettled'
  BY <1>1, <1>2 DEF OwnInv, SwitchedSettled, Switching, Settled
<1> QED
  BY <1>2, <1>3, <1>4, SameOwn DEF OwnInv

LEMMA GetArrivesOwn ==
    ASSUME Patient, Shape, OwnInv, NEW s \in Scenes, GetArrives(s)
    PROVE  OwnInv'
<1>1. /\ UNCHANGED <<stored, timer, puts>>
      /\ get' = [get EXCEPT ![s] = NoGet]
      /\ opening' = IF opening = s THEN NoScene ELSE opening
      /\ get[s] \subseteq MarksOf(s)
  BY DEF GetArrives, OwnInv, OwnAnswers
<1>2. OwnAnswers'
  BY <1>1 DEF OwnInv, OwnAnswers, Shape, PageShape
<1>3. SwitchedSettled'
  BY <1>1 DEF OwnInv, SwitchedSettled, Switching, Settled
<1>4. CASE opening = s
  <2>1. scene' = s /\ canvas' = get[s] /\ past' = <<>> /\ future' = <<>>
    BY <1>4 DEF GetArrives, ApplySceneDto
  <2>2. timer = NoTimer /\ puts = <<>>
    BY <1>4, SceneAssumption DEF OwnInv, SwitchedSettled, Switching, Settled
  <2>3. OwnScene' /\ OwnStacks' /\ OwnTimer' /\ OwnPuts'
    BY <1>1, <2>1, <2>2
       DEF OwnInv, OwnScene, OwnStacks, OwnTimer, OwnPuts, NoTimer, AllIn, MarksOf
  <2> QED
    BY <1>2, <1>3, <2>3 DEF OwnInv
<1>5. CASE opening # s
  <2>1. UNCHANGED <<scene, undoVars>> /\ (canvas' = canvas \/ (canvas' = get[s] /\ scene = s))
    BY <1>5 DEF GetArrives, MayPaint, undoVars
  <2>2. OwnScene'
    BY <1>1, <2>1 DEF OwnInv, OwnScene, MarksOf
  <2> QED
    BY <1>1, <1>2, <1>3, <2>1, <2>2, SameOwn DEF OwnInv
<1> QED
  BY <1>4, <1>5

LEMMA GetFailsOwn ==
    ASSUME Patient, Shape, OwnInv, NEW s \in Scenes, GetFails(s)
    PROVE  OwnInv'
<1>1. UNCHANGED <<stored, scene, canvas, undoVars, timer, puts>>
  BY DEF GetFails
<1>2. OwnAnswers'
  BY DEF GetFails, OwnInv, OwnAnswers, Shape, PageShape
<1>3. SwitchedSettled'
  BY DEF GetFails, OwnInv, SwitchedSettled, Switching, Settled
<1> QED
  BY <1>1, <1>2, <1>3, SameOwn DEF OwnInv

LEMMA OwnStep ==
    ASSUME Patient, Shape, OwnInv, [Next]_vars
    PROVE  OwnInv'
<1>1. CASE UserStep
  BY <1>1, EditOwn, ClearOwn, MoveCameraOwn, UndoOwn, SendOwn, OtherOwn, AskOwn DEF UserStep
<1>2. CASE ServerStep
  BY <1>2, TakeOwn, OtherOwn DEF ServerStep
<1>3. CASE TabStep
  BY <1>3, SendOwn, AskOwn, PutEndOwn, GetArrivesOwn DEF TabStep
<1>4. CASE Fault
  BY <1>4, PutEndOwn, GetFailsOwn DEF Fault
<1>5. CASE UNCHANGED vars
  <2>1. UNCHANGED <<stored, scene, canvas, undoVars, timer, puts, get, opening>>
    BY <1>5 DEF vars, netVars
  <2> QED
    BY <2>1, SameOwn DEF OwnInv
<1> QED
  BY <1>1, <1>2, <1>3, <1>4, <1>5 DEF Next

LEMMA OwnInit == Init => OwnInv
<1> SUFFICES ASSUME Init PROVE OwnInv
  OBVIOUS
<1>1. OwnScene /\ OwnTimer /\ OwnAnswers
  BY DEF Init, OwnScene, OwnTimer, OwnAnswers, NoTimer
<1>2. OwnStacks /\ OwnPuts /\ SwitchedSettled
  BY DEF Init, OwnStacks, OwnPuts, SwitchedSettled, Switching, AllIn
<1> QED
  BY <1>1, <1>2 DEF OwnInv

LEMMA OwnInvariant == Patient => (Spec => []OwnInv)
<1> SUFFICES ASSUME Patient PROVE Spec => []OwnInv
  OBVIOUS
<1> QED
  BY OwnInit, OwnStep, ShapeInvariant, PTL DEF Spec

(* No change is saved into a scene it was not made on, neither by a timer  *)
(* that outlives its scene nor by a remote scene painted after another one *)
(* was opened, as long as the user lets the saves finish.                  *)
THEOREM ChangesStayInTheirScene == Patient => (Spec => []OwnScene)
<1> SUFFICES ASSUME Patient PROVE Spec => []OwnScene
  OBVIOUS
<1>1. OwnInv => OwnScene
  BY DEF OwnInv
<1> QED
  BY <1>1, OwnInvariant, PTL

(* Undo and redo never lead to a state of another scene. *)
THEOREM UndoStaysInTheScene == Patient => (Spec => []UndoOfScene)
<1> SUFFICES ASSUME Patient PROVE Spec => []UndoOfScene
  OBVIOUS
<1>1. OwnInv => UndoOfScene
  BY DEF OwnInv, OwnStacks, AllIn, UndoOfScene, ToSet
<1> QED
  BY <1>1, OwnInvariant, PTL

-------------------------------------------------------------------------------
(* Where the changes of the tab are.                                       *)

(* The canvas has every change of a layout of this scene that was not      *)
(* taken back and was in no failed save.                                   *)
OnCanvas(layout) == Mine(layout) \subseteq canvas \cup gone \cup failed

KnownStored == OnCanvas(stored[scene])
KnownTimer == OnCanvas(timer.layout)
KnownPuts == \A i \in DOMAIN puts : OnCanvas(puts[i].layout)
KnownAnswer == get[scene] # NoGet => OnCanvas(get[scene])

(* An answer for another scene has nothing that the server has not.        *)
KnownElsewhere ==
    \A s \in Scenes \ {scene} :
        get[s] # NoGet => Mine(get[s]) \subseteq stored[s] \cup gone \cup failed

(* And what the server will hold in the end has every change of the        *)
(* canvas: the armed save, or else the last one it has not taken, or else  *)
(* what it holds already.                                                  *)
Covered(layout) == Mine(canvas) \subseteq layout \cup gone \cup failed

CoveredArmed == timer # NoTimer => Covered(timer.layout)
CoveredSent ==
    timer = NoTimer =>
        \A i \in DOMAIN puts :
            ~puts[i].taken /\ (\A j \in DOMAIN puts : i < j => puts[j].taken)
                => Covered(puts[i].layout)
CoveredTaken == timer = NoTimer /\ (\A i \in DOMAIN puts : puts[i].taken) => Covered(stored[scene])

KnownInv == KnownStored /\ KnownTimer /\ KnownPuts /\ KnownAnswer /\ KnownElsewhere
CoveredInv == CoveredArmed /\ CoveredSent /\ CoveredTaken
StoredInv == ~stale => KnownInv /\ CoveredInv

(* What a step leaves alone stays on the canvas and on its way; changes    *)
(* that are lost or taken back stay so.                                    *)
Onward == UNCHANGED <<scene, canvas>> /\ gone \subseteq gone' /\ failed \subseteq failed'

LEMMA SameKnown ==
    ASSUME KnownInv, Onward
    PROVE  /\ UNCHANGED stored => KnownStored'
           /\ UNCHANGED timer => KnownTimer'
           /\ UNCHANGED puts => KnownPuts'
           /\ UNCHANGED get => KnownAnswer'
           /\ UNCHANGED <<get, stored>> => KnownElsewhere'
           /\ timer' = NoTimer => KnownTimer'
BY DEF KnownInv, Onward, KnownStored, KnownTimer, KnownPuts, KnownAnswer, KnownElsewhere, OnCanvas,
       Mine, NoTimer

LEMMA SameCovered ==
    ASSUME CoveredInv, Onward
    PROVE  /\ UNCHANGED timer => CoveredArmed'
           /\ UNCHANGED <<timer, puts>> => CoveredSent'
           /\ UNCHANGED <<timer, puts, stored>> => CoveredTaken'
BY DEF CoveredInv, Onward, CoveredArmed, CoveredSent, CoveredTaken, Covered, Mine

(* An armed timer holds the canvas. *)
LEMMA CanvasArmed ==
    ASSUME timer' # NoTimer, timer'.layout = canvas'
    PROVE  CoveredInv' /\ KnownTimer'
BY DEF CoveredInv, CoveredArmed, CoveredSent, CoveredTaken, Covered, KnownTimer, OnCanvas, Mine

(* The newest save holds what the canvas has. *)
LEMMA CanvasSent ==
    ASSUME PutsShape, NEW layout, Queued(layout), timer' = NoTimer,
           Mine(canvas') \subseteq layout \cup gone' \cup failed'
    PROVE  CoveredInv'
<1>1. Len(puts) + 1 \in DOMAIN puts' /\ ~puts'[Len(puts) + 1].taken
      /\ puts'[Len(puts) + 1].layout = layout
  BY DEF Queued
<1>2. \A i \in DOMAIN puts' : i # Len(puts) + 1 => i < Len(puts) + 1
  BY DEF Queued
<1>3. CoveredSent'
  BY <1>1, <1>2 DEF CoveredSent, Covered
<1>4. CoveredArmed' /\ CoveredTaken'
  BY <1>1 DEF CoveredArmed, CoveredTaken
<1> QED
  BY <1>3, <1>4 DEF CoveredInv

LEMMA QueuedKnown ==
    ASSUME NEW layout, Queued(layout),
           \A i \in DOMAIN puts : Mine(puts[i].layout) \subseteq canvas' \cup gone' \cup failed',
           OnCanvas(layout)'
    PROVE  KnownPuts'
BY DEF Queued, KnownPuts, OnCanvas

LEMMA EditStored ==
    ASSUME Shape, StoredInv, Edit
    PROVE  StoredInv'
<1> SUFFICES ASSUME ~stale PROVE KnownInv' /\ CoveredInv'
  BY DEF StoredInv, Edit
<1>1. KnownInv
  BY DEF StoredInv
<1>2. /\ UNCHANGED <<stored, scene, puts, get, gone, failed>> /\ canvas \subseteq canvas'
      /\ timer'.layout = canvas' /\ timer' # NoTimer
  BY DEF Edit, netVars, NoTimer
<1>3. CoveredInv' /\ KnownTimer'
  BY <1>2, CanvasArmed
<1>4. KnownStored' /\ KnownPuts' /\ KnownAnswer' /\ KnownElsewhere'
  BY <1>1, <1>2 DEF KnownInv, KnownStored, KnownPuts, KnownAnswer, KnownElsewhere, OnCanvas, Mine
<1> QED
  BY <1>3, <1>4 DEF KnownInv

LEMMA MoveCameraStored ==
    ASSUME StoredInv, MoveCamera
    PROVE  StoredInv'
<1> SUFFICES ASSUME ~stale PROVE KnownInv' /\ CoveredInv'
  BY DEF StoredInv, MoveCamera, pastVars
<1>1. KnownInv
  BY DEF StoredInv
<1>2. /\ UNCHANGED <<stored, scene, canvas, puts, get, gone, failed>>
      /\ timer'.layout = canvas' /\ timer' # NoTimer
  BY DEF MoveCamera, netVars, pastVars, NoTimer
<1>3. CoveredInv' /\ KnownTimer'
  BY <1>2, CanvasArmed
<1> QED
  BY <1>1, <1>2, <1>3, SameKnown DEF KnownInv, Onward

(* A layout takes the place of the canvas: what the canvas alone had is    *)
(* taken back.                                                             *)
LEMMA Replaced ==
    ASSUME KnownInv, UNCHANGED <<stored, scene, get, failed>>,
           gone' = gone \cup Mine(canvas \ canvas')
    PROVE  /\ KnownStored' /\ KnownAnswer' /\ KnownElsewhere'
           /\ \A i \in DOMAIN puts : Mine(puts[i].layout) \subseteq canvas' \cup gone' \cup failed'
<1>1. ASSUME NEW layout, OnCanvas(layout)
      PROVE  Mine(layout) \subseteq canvas' \cup gone' \cup failed'
  BY <1>1 DEF OnCanvas, Mine
<1>2. KnownStored' /\ KnownAnswer'
  BY <1>1 DEF KnownInv, KnownStored, KnownAnswer, OnCanvas
<1>3. KnownElsewhere'
  BY DEF KnownInv, KnownElsewhere
<1>4. \A i \in DOMAIN puts : Mine(puts[i].layout) \subseteq canvas' \cup gone' \cup failed'
  BY <1>1 DEF KnownInv, KnownPuts
<1> QED
  BY <1>2, <1>3, <1>4

LEMMA UndoStored ==
    ASSUME StoredInv, Undo \/ Redo
    PROVE  StoredInv'
<1>1. PICK layout : Restore(layout)
  BY DEF Undo, Redo
<1> SUFFICES ASSUME ~stale PROVE KnownInv' /\ CoveredInv'
  BY <1>1 DEF StoredInv, Restore
<1>2. /\ UNCHANGED <<stored, scene, puts, get, failed>> /\ canvas' = layout
      /\ gone' = gone \cup Mine(canvas \ layout)
      /\ timer'.layout = canvas' /\ timer' # NoTimer
  BY <1>1 DEF Restore, netVars, NoTimer
<1>3. CoveredInv' /\ KnownTimer'
  BY <1>2, CanvasArmed
<1>4. /\ KnownStored' /\ KnownAnswer' /\ KnownElsewhere'
      /\ \A i \in DOMAIN puts : Mine(puts[i].layout) \subseteq canvas' \cup gone' \cup failed'
  BY <1>2, Replaced DEF StoredInv
<1>5. KnownPuts'
  BY <1>2, <1>4 DEF KnownPuts, OnCanvas
<1> QED
  BY <1>3, <1>4, <1>5 DEF KnownInv

LEMMA ClearStored ==
    ASSUME Shape, StoredInv, Clear
    PROVE  StoredInv'
<1> SUFFICES ASSUME ~stale PROVE KnownInv' /\ CoveredInv'
  BY DEF StoredInv, Clear
<1>1. /\ UNCHANGED <<stored, scene, get, failed>> /\ canvas' = {} /\ timer' = NoTimer
      /\ gone' = gone \cup Mine(canvas) /\ Send({})
  BY DEF Clear, netVars
<1>2. /\ KnownStored' /\ KnownAnswer' /\ KnownElsewhere'
      /\ \A i \in DOMAIN puts : Mine(puts[i].layout) \subseteq canvas' \cup gone' \cup failed'
  <2>1. canvas \ {} = canvas
    OBVIOUS
  <2> QED
    BY <1>1, <2>1, Replaced DEF StoredInv
<1>3. Queued({})
  BY <1>1, SentPuts DEF Shape, PageShape
<1>4. KnownPuts'
  BY <1>2, <1>3, QueuedKnown DEF OnCanvas, Mine
<1>5. CoveredInv'
  BY <1>1, <1>3, CanvasSent DEF Shape, Mine
<1>6. KnownTimer'
  BY <1>1 DEF KnownTimer, NoTimer, OnCanvas, Mine
<1> QED
  BY <1>2, <1>4, <1>5, <1>6 DEF KnownInv

LEMMA SendStored ==
    ASSUME Shape, StoredInv, SaveTimer \/ Hide
    PROVE  StoredInv'
<1> SUFFICES ASSUME ~stale PROVE KnownInv' /\ CoveredInv'
  BY DEF StoredInv, SaveTimer, Hide, pastVars
<1>1. KnownInv /\ CoveredInv
  BY DEF StoredInv
<1>2. UNCHANGED <<stored, scene, canvas, get, gone, failed>> /\ timer' = NoTimer
  BY DEF SaveTimer, Hide, pastVars, netVars
<1>3. PICK layout \in SUBSET Mark :
          /\ Send(layout) \/ SendPlain(layout)
          /\ layout = canvas \/ (timer # NoTimer /\ layout = timer.layout)
  <2>1. timer.layout \in SUBSET Mark /\ canvas \in SUBSET Mark
    BY DEF Shape, PageShape, Timer
  <2> QED
    BY <2>1 DEF SaveTimer, Hide
<1>4. Queued(layout)
  BY <1>3, SentPuts DEF Shape, PageShape
<1>5. OnCanvas(layout)' /\ Mine(canvas') \subseteq layout \cup gone' \cup failed'
  BY <1>1, <1>2, <1>3 DEF KnownInv, KnownTimer, CoveredInv, CoveredArmed, Covered, OnCanvas, Mine
<1>6. \A i \in DOMAIN puts : Mine(puts[i].layout) \subseteq canvas' \cup gone' \cup failed'
  BY <1>1, <1>2 DEF KnownInv, KnownPuts, OnCanvas
<1>7. KnownPuts' /\ CoveredInv'
  BY <1>2, <1>4, <1>5, <1>6, QueuedKnown, CanvasSent DEF Shape
<1> QED
  BY <1>1, <1>2, <1>7, SameKnown DEF KnownInv, Onward

(* The answer that was asked for is as new as what the server holds. *)
LEMMA AskStored ==
    ASSUME Shape, StoredInv, NoticeArrives \/ \E s \in Scenes : OpenScene(s)
    PROVE  StoredInv'
<1> SUFFICES ASSUME ~stale PROVE KnownInv' /\ CoveredInv'
  BY DEF StoredInv, NoticeArrives, OpenScene, pastVars
<1>1. KnownInv /\ CoveredInv
  BY DEF StoredInv
<1>2. UNCHANGED <<stored, scene, canvas, timer, puts, gone, failed>>
  BY DEF NoticeArrives, OpenScene, pastVars
<1>3. PICK s \in Scenes : AskFor(s)
  BY DEF NoticeArrives, OpenScene, Shape, PageShape
<1>4. \A t \in Scenes : get'[t] = get[t] \/ get'[t] = stored[t]
  BY <1>3 DEF AskFor, Shape, PageShape
<1>5. KnownAnswer' /\ KnownElsewhere'
  BY <1>1, <1>2, <1>4
     DEF KnownInv, KnownStored, KnownAnswer, KnownElsewhere, OnCanvas, Mine, Shape, PageShape
<1> QED
  BY <1>1, <1>2, <1>5, SameKnown, SameCovered DEF KnownInv, CoveredInv, Onward

(* Others take nothing away. *)
LEMMA OtherStored ==
    ASSUME Patient, Shape, OwnInv, StoredInv, Rework \/ \E s \in Scenes : OtherSaves(s)
    PROVE  StoredInv'
<1> SUFFICES ASSUME ~stale PROVE KnownInv' /\ CoveredInv'
  BY DEF StoredInv, Rework, OtherSaves
<1>1. KnownInv /\ CoveredInv
  BY DEF StoredInv
<1>2. UNCHANGED <<scene, canvas, timer, puts, gone, failed>>
  BY DEF Rework, OtherSaves
<1>3. PICK s \in Scenes : stored' = [stored EXCEPT ![s] = @ \cup {[scene |-> s, n |-> -other']}]
  BY DEF Rework, OtherSaves, Shape, PageShape
<1>4. ~(-other' > 0)
  <2>1. other' = other + 1 /\ other \in 0..MaxOther
    BY DEF Rework, OtherSaves, Shape, PageShape
  <2> QED
    BY <2>1, SceneAssumption
<1>5. \A t \in Scenes : stored[t] \subseteq stored'[t] /\ Mine(stored'[t]) = Mine(stored[t])
  BY <1>3, <1>4 DEF Mine, Shape, PageShape
<1>6. scene \in Scenes /\ \A t \in Scenes : get'[t] = get[t] \/ (t = scene /\ get'[t] = stored'[t])
  BY DEF Rework, OtherSaves, Shape, PageShape
<1>7. KnownStored'
  BY <1>1, <1>2, <1>5, <1>6 DEF KnownInv, KnownStored, OnCanvas
<1>8. KnownAnswer' /\ KnownElsewhere'
  BY <1>1, <1>2, <1>5, <1>6, <1>7 DEF KnownInv, KnownStored, KnownAnswer, KnownElsewhere, OnCanvas
<1>9. CoveredTaken'
  BY <1>1, <1>2, <1>5, <1>6 DEF CoveredInv, CoveredTaken, Covered
<1> QED
  BY <1>1, <1>2, <1>7, <1>8, <1>9, SameKnown, SameCovered DEF KnownInv, CoveredInv, Onward

LEMMA TakeStored ==
    ASSUME Shape, OwnInv, StoredInv, ServerTakes
    PROVE  StoredInv'
<1> SUFFICES ASSUME ~stale PROVE KnownInv' /\ CoveredInv'
  BY DEF StoredInv, ServerTakes, pastVars
<1>1. KnownInv /\ CoveredInv
  BY DEF StoredInv
<1>2. UNCHANGED <<scene, canvas, timer, get, gone, failed>>
  BY DEF ServerTakes, pastVars, netVars
<1>3. PICK i \in DOMAIN puts : Took(i)
  BY TakenPuts DEF Shape
<1>4. puts[i].scene = scene /\ scene \in Scenes
  BY DEF OwnInv, OwnPuts, Shape, PageShape
<1>5. stored'[scene] = puts[i].layout /\ \A t \in Scenes \ {scene} : stored'[t] = stored[t]
  BY <1>3, <1>4 DEF Took, Shape, PageShape
<1>6. KnownStored' /\ KnownPuts' /\ KnownElsewhere'
  BY <1>1, <1>2, <1>3, <1>4, <1>5
     DEF Took, KnownInv, KnownStored, KnownPuts, KnownElsewhere, OnCanvas
<1>7. CoveredSent'
  <2> SUFFICES ASSUME timer = NoTimer, NEW k \in DOMAIN puts, ~puts'[k].taken,
                      \A j \in DOMAIN puts : k < j => puts'[j].taken
               PROVE  Mine(canvas) \subseteq puts[k].layout \cup gone \cup failed
    BY <1>2, <1>3 DEF Took, CoveredSent, Covered
  <2>1. ~puts[k].taken /\ k # i
    BY <1>3 DEF Took
  <2>2. i < k
    BY <1>3, <2>1, EachPut DEF Took, Shape
  <2>3. \A j \in DOMAIN puts : k < j => puts[j].taken
    BY <1>3, <2>2, EachPut DEF Took, Shape
  <2> QED
    BY <1>1, <2>1, <2>3 DEF CoveredInv, CoveredSent, Covered
<1>8. CoveredTaken'
  BY <1>1, <1>2, <1>3, <1>5, EachPut DEF Took, CoveredInv, CoveredSent, CoveredTaken, Covered, Shape
<1> QED
  BY <1>1, <1>2, <1>6, <1>7, <1>8, SameKnown, SameCovered DEF KnownInv, CoveredInv, Onward

(* A save ends: either the server has taken it, or what it held counts as  *)
(* failed.                                                                 *)
LEMMA PutEndStored ==
    ASSUME Shape, StoredInv, PutAnswered \/ PutFails
    PROVE  StoredInv'
<1>1. PICK p \in DOMAIN puts : /\ PutEnds(p) /\ failed \subseteq failed'
                               /\ puts[p].taken \/ failed' = puts[p].layout
  <2>1. CASE PutAnswered
    BY <2>1 DEF PutAnswered
  <2>2. CASE PutFails
    BY <2>2 DEF PutFails
  <2> QED
    BY <2>1, <2>2
<1> SUFFICES ASSUME ~stale PROVE KnownInv' /\ CoveredInv'
  BY <1>1 DEF StoredInv, PutEnds
<1>2. KnownInv /\ CoveredInv
  BY DEF StoredInv
<1>3. UNCHANGED <<stored, scene, canvas, timer, get, gone>>
  BY <1>1 DEF PutEnds, netVars
<1>4. PICK place : KeptPlaces(puts, p, puts', place)
  BY <1>1, EndedPuts DEF Shape
<1>5. KnownPuts'
  <2>1. \A i \in DOMAIN puts' : puts'[i].layout = puts[place[i]].layout /\ place[i] \in DOMAIN puts
    BY <1>4 DEF KeptPlaces
  <2> QED
    BY <1>1, <1>2, <1>3, <2>1 DEF KnownInv, KnownPuts, OnCanvas
(* When the save was on its way, everything it held has failed; when the   *)
(* server had taken it, the saves that are still on their way are the same. *)
<1>6. CASE timer = NoTimer /\ ~puts[p].taken /\ Mine(canvas) \subseteq puts[p].layout \cup gone \cup failed
  <2>1. \A layout : Mine(canvas') \subseteq layout \cup gone' \cup failed'
    BY <1>1, <1>3, <1>6
  <2>2. CoveredInv'
    BY <1>3, <1>6, <2>1 DEF CoveredInv, CoveredArmed, CoveredSent, CoveredTaken, Covered
  <2> QED
    BY <1>1, <1>2, <1>3, <1>5, <2>2, SameKnown DEF KnownInv, Onward
<1>7. CASE ~(timer = NoTimer /\ ~puts[p].taken /\ Mine(canvas) \subseteq puts[p].layout \cup gone \cup failed)
  <2>1. ASSUME timer = NoTimer, NEW i \in DOMAIN puts', ~puts'[i].taken,
               \A j \in DOMAIN puts' : i < j => puts'[j].taken
        PROVE  Mine(canvas) \subseteq puts'[i].layout \cup gone \cup failed
    <3>1. place[i] \in DOMAIN puts \ {p} /\ puts'[i] = puts[place[i]]
      BY <1>4 DEF KeptPlaces
    <3>2. \A j \in DOMAIN puts \ {p} : place[i] < j => puts[j].taken
      BY <1>4, <2>1 DEF KeptPlaces
    <3>3. CASE puts[p].taken \/ ~(place[i] < p)
      <4>1. \A j \in DOMAIN puts : place[i] < j => puts[j].taken
        BY <3>2, <3>3
      <4> QED
        BY <1>2, <2>1, <3>1, <4>1 DEF CoveredInv, CoveredSent, Covered
    <3>4. CASE ~puts[p].taken /\ place[i] < p
      <4>1. \A j \in DOMAIN puts : p < j => puts[j].taken
        BY <3>1, <3>2, <3>4, EachPut DEF Shape
      <4> QED
        BY <1>2, <1>7, <2>1, <3>4, <4>1 DEF CoveredInv, CoveredSent, Covered
    <3> QED
      BY <3>3, <3>4
  <2>2. CoveredSent'
    BY <1>1, <1>3, <2>1 DEF CoveredSent, Covered
  <2>3. ASSUME timer = NoTimer, \A i \in DOMAIN puts' : puts'[i].taken
        PROVE  Mine(canvas) \subseteq stored[scene] \cup gone \cup failed
    <3>1. \A j \in DOMAIN puts \ {p} : puts[j].taken
      BY <1>4, <2>3 DEF KeptPlaces
    <3>2. CASE puts[p].taken
      BY <1>2, <2>3, <3>1, <3>2 DEF CoveredInv, CoveredTaken, Covered
    <3>3. CASE ~puts[p].taken
      <4>1. \A j \in DOMAIN puts : p < j => puts[j].taken
        BY <3>1, EachPut DEF Shape
      <4> QED
        BY <1>2, <1>7, <2>3, <3>3, <4>1 DEF CoveredInv, CoveredSent, Covered
    <3> QED
      BY <3>2, <3>3
  <2>4. CoveredTaken'
    BY <1>1, <1>3, <2>3 DEF CoveredTaken, Covered
  <2> QED
    BY <1>1, <1>2, <1>3, <1>5, <2>2, <2>4, SameKnown, SameCovered DEF KnownInv, CoveredInv, Onward
<1> QED
  BY <1>6, <1>7

(* An answer is painted: nothing that the canvas or the server had is      *)
(* missing from it, or the tab is stale from then on.                      *)
LEMMA GetArrivesStored ==
    ASSUME Patient, Shape, OwnInv, StoredInv, NEW s \in Scenes, GetArrives(s)
    PROVE  StoredInv'
<1> SUFFICES ASSUME ~stale' PROVE KnownInv' /\ CoveredInv'
  BY DEF StoredInv
<1>1. ~stale
  <2>1. stale \in BOOLEAN
    BY DEF Shape, PageShape
  <2> QED
    BY <2>1 DEF GetArrives
<1>2. KnownInv /\ CoveredInv
  BY <1>1 DEF StoredInv
<1>3. /\ UNCHANGED <<stored, timer, puts, gone, failed>>
      /\ get[s] # NoGet /\ get[s] \in SUBSET Mark
      /\ get' = [get EXCEPT ![s] = NoGet]
      /\ get'[s] = NoGet /\ \A t \in Scenes \ {s} : get'[t] = get[t]
      /\ scene \in Scenes
  BY DEF GetArrives, Shape, PageShape
<1>4. CASE opening = s
  <2>1. scene' = s /\ canvas' = get[s] /\ Mine(stored[s]) \subseteq get[s]
    BY <1>4 DEF GetArrives, ApplySceneDto
  <2>2. timer = NoTimer /\ puts = <<>>
    BY <1>4, SceneAssumption DEF OwnInv, SwitchedSettled, Switching, Settled
  <2>3. Mine(canvas) \subseteq stored[scene] \cup gone \cup failed
    BY <1>2, <2>2 DEF CoveredInv, CoveredTaken, Covered
  <2>4. Mine(get[s]) \subseteq stored[s] \cup gone \cup failed
    <3>1. CASE s = scene
      BY <1>2, <1>3, <2>3, <3>1 DEF KnownInv, KnownAnswer, OnCanvas, Mine
    <3>2. CASE s # scene
      BY <1>2, <1>3, <3>2 DEF KnownInv, KnownElsewhere
    <3> QED
      BY <3>1, <3>2
  <2>5. KnownStored' /\ KnownTimer' /\ KnownPuts' /\ KnownAnswer'
    BY <1>3, <2>1, <2>2 DEF KnownStored, KnownTimer, KnownPuts, KnownAnswer, OnCanvas, Mine, NoTimer
  <2>6. KnownElsewhere'
    <3> SUFFICES ASSUME NEW t \in Scenes, t # s, get[t] # NoGet
                 PROVE  Mine(get[t]) \subseteq stored[t] \cup gone \cup failed
      BY <1>3, <2>1 DEF KnownElsewhere
    <3>1. CASE t = scene
      BY <1>2, <2>3, <3>1 DEF KnownInv, KnownAnswer, OnCanvas, Mine
    <3>2. CASE t # scene
      BY <1>2, <3>2 DEF KnownInv, KnownElsewhere
    <3> QED
      BY <3>1, <3>2
  <2>7. CoveredInv'
    BY <1>3, <2>1, <2>2, <2>4
       DEF CoveredInv, CoveredArmed, CoveredSent, CoveredTaken, Covered
  <2> QED
    BY <2>5, <2>6, <2>7 DEF KnownInv
<1>5. CASE opening # s /\ s \in pulls /\ MayPaint(s)
  <2>1. /\ scene = s /\ UNCHANGED scene /\ canvas' = get[s]
        /\ Mine(canvas \cup stored[s]) \subseteq get[s]
    BY <1>5 DEF GetArrives, MayPaint
  <2>2. Mine(canvas) \subseteq canvas' /\ Mine(canvas') \subseteq canvas \cup gone \cup failed
    BY <1>2, <1>3, <2>1 DEF KnownInv, KnownAnswer, OnCanvas, Mine
  <2>3. ASSUME NEW layout, OnCanvas(layout)
        PROVE  Mine(layout) \subseteq canvas' \cup gone \cup failed
    BY <2>2, <2>3 DEF OnCanvas, Mine
  <2>4. KnownStored' /\ KnownTimer' /\ KnownPuts'
    BY <1>2, <1>3, <2>1, <2>3 DEF KnownInv, KnownStored, KnownTimer, KnownPuts, OnCanvas
  <2>5. KnownAnswer' /\ KnownElsewhere'
    BY <1>2, <1>3, <2>1 DEF KnownInv, KnownAnswer, KnownElsewhere
  <2>6. ASSUME NEW layout, Covered(layout)
        PROVE  Mine(canvas') \subseteq layout \cup gone \cup failed
    BY <2>2, <2>6 DEF Covered, Mine
  <2>7. CoveredInv'
    BY <1>2, <1>3, <2>1, <2>6 DEF CoveredInv, CoveredArmed, CoveredSent, CoveredTaken, Covered
  <2> QED
    BY <2>4, <2>5, <2>7 DEF KnownInv
<1>6. CASE opening # s /\ ~(s \in pulls /\ MayPaint(s))
  <2>1. UNCHANGED <<scene, canvas>>
    BY <1>6 DEF GetArrives
  <2>2. KnownAnswer' /\ KnownElsewhere'
    BY <1>2, <1>3, <2>1 DEF KnownInv, KnownAnswer, KnownElsewhere, OnCanvas
  <2> QED
    BY <1>2, <1>3, <2>1, <2>2, SameKnown, SameCovered DEF KnownInv, CoveredInv, Onward
<1> QED
  BY <1>4, <1>5, <1>6

LEMMA GetFailsStored ==
    ASSUME Shape, StoredInv, NEW s \in Scenes, GetFails(s)
    PROVE  StoredInv'
<1> SUFFICES ASSUME ~stale PROVE KnownInv' /\ CoveredInv'
  BY DEF StoredInv, GetFails, pastVars
<1>1. KnownInv /\ CoveredInv
  BY DEF StoredInv
<1>2. UNCHANGED <<stored, scene, canvas, timer, puts, gone, failed>>
  BY DEF GetFails, pastVars
<1>3. KnownAnswer' /\ KnownElsewhere'
  BY <1>1, <1>2 DEF GetFails, KnownInv, KnownAnswer, KnownElsewhere, OnCanvas, Shape, PageShape
<1> QED
  BY <1>1, <1>2, <1>3, SameKnown, SameCovered DEF KnownInv, CoveredInv, Onward

LEMMA StoredStep ==
    ASSUME Patient, Shape, OwnInv, StoredInv, [Next]_vars
    PROVE  StoredInv'
<1>1. CASE UserStep
  BY <1>1, EditStored, ClearStored, MoveCameraStored, UndoStored, SendStored, OtherStored, AskStored
     DEF UserStep
<1>2. CASE ServerStep
  BY <1>2, TakeStored, OtherStored DEF ServerStep
<1>3. CASE TabStep
  BY <1>3, SendStored, AskStored, PutEndStored, GetArrivesStored DEF TabStep
<1>4. CASE Fault
  BY <1>4, PutEndStored, GetFailsStored DEF Fault
<1>5. CASE UNCHANGED vars
  <2>1. UNCHANGED <<stored, scene, canvas, timer, puts, get, gone, failed, stale>>
    BY <1>5 DEF vars, netVars, pastVars
  <2> QED
    BY <2>1, SameKnown, SameCovered DEF StoredInv, KnownInv, CoveredInv, Onward
<1> QED
  BY <1>1, <1>2, <1>3, <1>4, <1>5 DEF Next

LEMMA StoredInit == Init => StoredInv
<1> SUFFICES ASSUME Init PROVE StoredInv
  OBVIOUS
<1>1. scene \in Scenes /\ canvas = {} /\ timer = NoTimer /\ puts = <<>> /\ stored[scene] = {}
      /\ \A s \in Scenes : get[s] = NoGet
  BY SceneAssumption DEF Init
<1>2. KnownInv
  BY <1>1 DEF KnownInv, KnownStored, KnownTimer, KnownPuts, KnownAnswer, KnownElsewhere, OnCanvas,
              Mine, NoTimer
<1>3. CoveredInv
  BY <1>1 DEF CoveredInv, CoveredArmed, CoveredSent, CoveredTaken, Covered, Mine
<1> QED
  BY <1>2, <1>3 DEF StoredInv

(* No save is dropped, replaced by an older canvas or overtaken by one:    *)
(* once none is armed or under way, every change on the canvas is on the   *)
(* server, unless it failed or was taken back, as long as no remote layout *)
(* was painted over changes of the tab.                                    *)
THEOREM SettledSavesAreStored == Patient => (Spec => []SettledIsStored)
<1> SUFFICES ASSUME Patient PROVE Spec => []SettledIsStored
  OBVIOUS
<1>1. StoredInv => SettledIsStored
  BY DEF StoredInv, CoveredInv, CoveredTaken, Covered, SettledIsStored, Settled
<1> QED
  BY <1>1, StoredInit, StoredStep, OwnInvariant, ShapeInvariant, PTL DEF Spec

=================================================================================
