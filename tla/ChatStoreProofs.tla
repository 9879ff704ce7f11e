---------------------------- MODULE ChatStoreProofs ----------------------------
(***************************************************************************)
(* Proofs about ChatStore, for any number of chats, questions and pieces   *)
(* of answers.                                                             *)
(***************************************************************************)
EXTENDS ChatStore, CommonLemmas

-------------------------------------------------------------------------------
(* The shape of the store, the jobs, the page and the past.  The page has  *)
(* chats while it is open, and a job answers a question that was asked.    *)
StoreShape ==
    /\ stored \in Snapshot
    /\ live \in Snapshot \cup {None} /\ liveRaw \in Snapshot \cup {None}
    /\ dirty \in BOOLEAN /\ flush \in BOOLEAN
    /\ dirty => live # None
JobShape ==
    /\ job \in [Questions -> Job]
    /\ asked \in 0..MaxAsked
    /\ \A q \in Questions : job[q].at # "none" => q <= asked /\ job[q].chat \in Chats
PageShape ==
    /\ mounted \in BOOLEAN
    /\ sessions \in Snapshot \cup {None} /\ painted \in Snapshot \cup {None}
    /\ effect \in Snapshot \cup {None}
    /\ mounted => sessions # None /\ painted # None
    /\ effect # None => mounted
PastShape ==
    /\ event \in BOOLEAN
    /\ dropped \in SUBSET Questions
    /\ clean \in BOOLEAN /\ refused \in BOOLEAN
Shape == StoreShape /\ JobShape /\ PageShape /\ PastShape

(* The stream of question q goes on, or its answer is complete. *)
Active(q) == job[q].at \in {"streaming", "done"}

(* The chats that count are a list of chats. *)
LEMMA ChattedType ==
    ASSUME Shape
    PROVE  Chatted \in Snapshot
BY DEF Shape, StoreShape, Chatted, LiveCounts

(* The chats once the last answer of chat c has changed. *)
WithAnswer(c, answer) == [Chatted EXCEPT ![c] = LastAnswer(c, answer)]

LEMMA WithAnswerIs ==
    ASSUME Shape, NEW c \in Chats, NEW answer \in Answer
    PROVE  LET chats == WithAnswer(c, answer) IN
           /\ chats \in Snapshot
           /\ \A d \in Chats \ {c} : chats[d] = Chatted[d]
           /\ chats[c] = Closed <=> Chatted[c] = Closed
           /\ Chatted[c] # Closed =>
                /\ Len(chats[c]) = Len(Chatted[c])
                /\ DOMAIN chats[c] = DOMAIN Chatted[c]
                /\ \A i \in DOMAIN chats[c] :
                     /\ chats[c][i].question = Chatted[c][i].question
                     /\ chats[c][i].answer
                          = IF i = Len(Chatted[c]) THEN answer ELSE Chatted[c][i].answer
<1> DEFINE old == Chatted[c]
           chats == WithAnswer(c, answer)
<1>1. Chatted \in Snapshot /\ old \in Seq(Turn) \cup {Closed}
  BY ChattedType DEF Snapshot
<1>2. chats = [Chatted EXCEPT ![c] = LastAnswer(c, answer)]
  BY DEF WithAnswer
<1>3. CASE old \in {Closed, <<>>}
  <2>1. LastAnswer(c, answer) = old
    BY <1>3 DEF LastAnswer
  <2>2. chats = Chatted
    BY <1>1, <1>2, <2>1 DEF Snapshot
  <2>3. old # Closed => old = <<>> /\ DOMAIN old = {}
    BY <1>3
  <2> QED
    BY <1>1, <2>2, <2>3
<1>4. CASE old \notin {Closed, <<>>}
  <2> DEFINE turn == [question |-> old[Len(old)].question, answer |-> answer]
             new == [old EXCEPT ![Len(old)] = turn]
  <2>1. LastAnswer(c, answer) = new
    BY <1>4 DEF LastAnswer
  <2>2. old \in Seq(Turn) /\ Len(old) \in DOMAIN old /\ old[Len(old)] \in Turn
    BY <1>1, <1>4
  <2>3. turn \in Turn
    BY <2>2 DEF Turn
  <2>4. new \in Seq(Turn) /\ Len(new) = Len(old) /\ DOMAIN new = DOMAIN old
    BY <2>2, <2>3
  <2>5. \A i \in DOMAIN new : new[i] = IF i = Len(old) THEN turn ELSE old[i]
    BY <2>2
  <2>6. new # Closed
    BY <2>4, NullAssumption
  <2>7. chats \in Snapshot /\ chats[c] = new /\ \A d \in Chats \ {c} : chats[d] = Chatted[d]
    BY <1>1, <1>2, <2>1, <2>4 DEF Snapshot
  <2>8. turn.question = old[Len(old)].question /\ turn.answer = answer
    OBVIOUS
  <2> HIDE DEF new, turn, chats
  <2> QED
    BY <1>4, <2>4, <2>5, <2>6, <2>7, <2>8 DEF chats
<1> QED
  BY <1>3, <1>4

(* patchSession on the last answer leaves these chats. *)
LEMMA PatchedIs ==
    ASSUME Shape, NEW c \in Chats, NEW answer \in Answer,
           Patched(c, LastAnswer(c, answer))
    PROVE  /\ live' = WithAnswer(c, answer)
           /\ dirty' = TRUE /\ flush' = TRUE /\ stored' = stored
           /\ liveRaw' \in {liveRaw, stored}
           /\ sessions' = IF mounted THEN WithAnswer(c, answer) ELSE sessions
<1>1. live' = WithAnswer(c, answer)
  <2>1. CASE Chatted[c] = Closed
    <3>1. LastAnswer(c, answer) = Chatted[c]
      BY <2>1 DEF LastAnswer
    <3>2. WithAnswer(c, answer) = Chatted
      BY <3>1, ChattedType DEF WithAnswer, Snapshot
    <3> QED
      BY <2>1, <3>2 DEF Patched
  <2>2. CASE Chatted[c] # Closed
    BY <2>2 DEF Patched, WithAnswer
  <2> QED
    BY <2>1, <2>2
<1> QED
  BY <1>1 DEF Patched, Hydrated

(* saveWikiRagChats stores the chats unless the storage refuses. *)
LEMMA SavedIs ==
    ASSUME Shape, NEW chats \in Snapshot, Saved(chats)
    PROVE  /\ live' = chats /\ dirty' = FALSE /\ flush' = FALSE
           /\ stored' \in {stored, chats} /\ liveRaw' \in {liveRaw, chats}
           /\ refused' \in BOOLEAN /\ refused => refused'
           /\ ~refused' => stored' = chats /\ Chatted' = chats
<1>1. chats # None
  BY NullAssumption
<1> QED
  BY <1>1 DEF Saved, Shape, PastShape, Chatted, LiveCounts

LEMMA LoadedIs ==
    ASSUME Shape, Loaded
    PROVE  /\ live' = Chatted /\ live' \in Snapshot
           /\ liveRaw' \in {liveRaw, stored}
           /\ UNCHANGED <<stored, dirty, flush>>
           /\ Chatted' = Chatted
BY ChattedType, NullAssumption DEF Loaded, Shape, StoreShape, Chatted, LiveCounts

-------------------------------------------------------------------------------
(* Every step keeps the shape. *)
LEMMA TypeFromShape ==
    ASSUME Shape
    PROVE  TypeOK
BY DEF Shape, StoreShape, JobShape, PageShape, PastShape, TypeOK

LEMMA ShapeInit == Init => Shape
<1> SUFFICES ASSUME Init
             PROVE  Shape
  OBVIOUS
<1>1. PICK c \in Chats : stored = [d \in Chats |-> IF d = c THEN <<>> ELSE Closed]
  BY DEF Init
<1>2. <<>> \in Seq(Turn)
  OBVIOUS
<1>3. stored \in Snapshot
  BY <1>1, <1>2 DEF Snapshot
<1>4. StoreShape /\ PageShape /\ PastShape
  BY <1>3 DEF Init, StoreShape, PageShape, PastShape
<1>5. JobShape
  BY ChatAssumption DEF Init, JobShape, NoJob, Job
<1> QED
  BY <1>4, <1>5 DEF Shape

(* A change or a write of the store, and a page that is told of it. *)
LEMMA PatchedShape ==
    ASSUME Shape, NEW c \in Chats, NEW answer \in Answer,
           Patched(c, LastAnswer(c, answer))
    PROVE  /\ WithAnswer(c, answer) \in Snapshot
           /\ StoreShape' /\ Hydrated(WithAnswer(c, answer))
<1>1. WithAnswer(c, answer) \in Snapshot
  BY WithAnswerIs
<1>2. /\ live' = WithAnswer(c, answer)
      /\ dirty' = TRUE /\ flush' = TRUE /\ stored' = stored
      /\ liveRaw' \in {liveRaw, stored}
  BY PatchedIs
<1>3. StoreShape'
  BY <1>1, <1>2, NullAssumption DEF Shape, StoreShape
<1> QED
  BY <1>1, <1>3, PatchedIs DEF Hydrated

LEMMA SavedShape ==
    ASSUME Shape, NEW chats \in Snapshot, Saved(chats)
    PROVE  StoreShape' /\ refused' \in BOOLEAN
<1>1. /\ live' = chats /\ dirty' = FALSE /\ flush' = FALSE
      /\ stored' \in {stored, chats} /\ liveRaw' \in {liveRaw, chats}
  BY SavedIs
<1>2. refused' \in BOOLEAN
  BY DEF Saved, Shape, PastShape
<1> QED
  BY <1>1, <1>2 DEF Shape, StoreShape

LEMMA LoadedShape ==
    ASSUME Shape, Loaded
    PROVE  StoreShape'
BY LoadedIs, NullAssumption DEF Shape, StoreShape

LEMMA HydratedShape ==
    ASSUME Shape, NEW chats \in Snapshot, Hydrated(chats), UNCHANGED <<mounted, painted, effect>>
    PROVE  PageShape'
BY NullAssumption DEF Shape, PageShape, Hydrated

(* The answers a stream leaves are answers. *)
LEMMA StreamedAnswer ==
    ASSUME Shape, NEW q \in Questions, NEW c \in Chats
    PROVE  /\ [at |-> "done", pieces |-> 0, of |-> q] \in Answer
           /\ [at |-> "error", pieces |-> 0, of |-> q] \in Answer
           /\ PiecesIn(c) < MaxDeltas =>
                [at |-> "open", pieces |-> PiecesIn(c) + 1, of |-> q] \in Answer
<1>1. PiecesIn(c) \in 0..MaxDeltas
  <2>1. Chatted[c] \in Seq(Turn) \cup {Closed}
    BY ChattedType DEF Snapshot
  <2>2. CASE Chatted[c] \in {Closed, <<>>}
    BY <2>2, ChatAssumption DEF PiecesIn
  <2>3. CASE Chatted[c] \notin {Closed, <<>>}
    <3>1. Chatted[c] \in Seq(Turn) /\ Len(Chatted[c]) \in DOMAIN Chatted[c]
      BY <2>1, <2>3
    <3>2. Chatted[c][Len(Chatted[c])] \in Turn
      BY <3>1
    <3> QED
      BY <2>3, <3>2 DEF PiecesIn, Last, Turn, Answer
  <2> QED
    BY <2>2, <2>3
<1> QED
  BY <1>1, ChatAssumption DEF Answer

LEMMA ShapeOnDelta ==
    ASSUME Shape, NEW q \in Questions, OnDelta(q)
    PROVE  Shape'
<1>1. job[q].chat \in Chats /\ job[q] \in Job /\ job[q].at = "streaming"
  BY DEF OnDelta, Shape, JobShape
<1> DEFINE answer == [at |-> "open", pieces |-> PiecesIn(job[q].chat) + 1, of |-> q]
<1>2. answer \in Answer /\ Patched(job[q].chat, LastAnswer(job[q].chat, answer))
  BY <1>1, StreamedAnswer DEF OnDelta
<1> HIDE DEF answer
<1>3. StoreShape' /\ Hydrated(WithAnswer(job[q].chat, answer))
         /\ WithAnswer(job[q].chat, answer) \in Snapshot
  BY <1>1, <1>2, PatchedShape
<1>4. PageShape' /\ PastShape'
  BY <1>3, HydratedShape DEF OnDelta, Shape, PastShape, pastVars
<1>5. JobShape'
  <2>1. job' = [job EXCEPT ![q].pieces = job[q].pieces + 1] /\ asked' = asked
    BY DEF OnDelta, pastVars
  <2>2. [job[q] EXCEPT !.pieces = job[q].pieces + 1] \in Job
    BY <1>1, ChatAssumption DEF OnDelta, Job
  <2> QED
    BY <1>1, <2>1, <2>2 DEF Shape, JobShape
<1> QED
  BY <1>3, <1>4, <1>5 DEF Shape

LEMMA ShapeOnDone ==
    ASSUME Shape, NEW q \in Questions, OnDone(q)
    PROVE  Shape'
<1>1. job[q].chat \in Chats /\ job[q] \in Job /\ job[q].at = "streaming"
  BY DEF OnDone, Shape, JobShape
<1> DEFINE answer == [at |-> "done", pieces |-> 0, of |-> q]
<1>2. answer \in Answer /\ Patched(job[q].chat, LastAnswer(job[q].chat, answer))
  BY <1>1, StreamedAnswer DEF OnDone
<1> HIDE DEF answer
<1>3. StoreShape' /\ Hydrated(WithAnswer(job[q].chat, answer))
         /\ WithAnswer(job[q].chat, answer) \in Snapshot
  BY <1>1, <1>2, PatchedShape
<1>4. PageShape' /\ PastShape'
  BY <1>3, HydratedShape DEF OnDone, Shape, PastShape, pastVars
<1>5. JobShape'
  <2>1. job' = [job EXCEPT ![q].at = "done"] /\ asked' = asked
    BY DEF OnDone, pastVars
  <2>2. [job[q] EXCEPT !.at = "done"] \in Job
    BY <1>1 DEF Job
  <2> QED
    BY <1>1, <2>1, <2>2 DEF Shape, JobShape
<1> QED
  BY <1>3, <1>4, <1>5 DEF Shape

(* The end of a job leaves the chats it was given, written or given up. *)
LEMMA EndsIs ==
    ASSUME Shape, NEW q \in Questions, Active(q), NEW chats \in Snapshot, Ends(q, chats)
    PROVE  /\ Shape'
           /\ live' = chats /\ dirty' = FALSE
           /\ sessions' = IF mounted THEN chats ELSE sessions
           /\ stored' \in {stored, chats}
           /\ ~refused' => ~refused /\ Chatted' = chats
           /\ \/ ~refused' => stored' = chats
              \/ ~dirty /\ chats = Chatted /\ stored' = stored
           /\ job'[q].at = "ended" /\ job'[q].chat = job[q].chat
           /\ \A p \in Questions \ {q} : job'[p] = job[p]
           /\ asked' = asked /\ dropped' = dropped /\ clean' = clean /\ event' = event
           /\ painted' = painted /\ effect' = effect /\ mounted' = mounted
<1>1. /\ job[q] \in Job /\ job[q].chat \in Chats /\ q <= asked
      /\ job' = [job EXCEPT ![q] = [at |-> "ended", chat |-> job[q].chat, pieces |-> 0]]
      /\ UNCHANGED <<mounted, painted, effect, event, asked, dropped, clean>>
  BY DEF Ends, Shape, JobShape, Active
<1>2. JobShape'
  BY <1>1, ChatAssumption DEF Shape, JobShape, Job
<1>3. CASE dirty \/ chats # Chatted
  <2>1. Saved(chats) /\ Hydrated(chats)
    BY <1>3 DEF Ends, Flushed
  <2>2. PageShape' /\ StoreShape' /\ PastShape'
    BY <1>1, <2>1, HydratedShape, SavedShape DEF Shape, PastShape
  <2> QED
    BY <1>1, <1>2, <2>1, <2>2, SavedIs DEF Shape, JobShape, PastShape, Hydrated
<1>4. CASE ~(dirty \/ chats # Chatted)
  <2>1. Loaded /\ Hydrated(chats) /\ refused' = refused
    BY <1>4 DEF Ends, Flushed
  <2>2. PageShape' /\ StoreShape' /\ PastShape'
    BY <1>1, <2>1, HydratedShape, LoadedShape DEF Shape, PastShape
  <2> QED
    BY <1>1, <1>2, <1>4, <2>1, <2>2, LoadedIs DEF Shape, StoreShape, JobShape, Hydrated
<1> QED
  BY <1>3, <1>4

LEMMA ShapeJobEnds ==
    ASSUME Shape, NEW q \in Questions, JobEnds(q)
    PROVE  Active(q) /\ Ends(q, Chatted) /\ Shape'
<1>1. Active(q) /\ Ends(q, Chatted)
  BY DEF JobEnds, Active
<1> QED
  BY <1>1, ChattedType, EndsIs

LEMMA ShapeJobFails ==
    ASSUME Shape, NEW q \in Questions, JobFails(q)
    PROVE  LET c == job[q].chat
               answer == [at |-> "error", pieces |-> 0, of |-> q]
           IN  /\ Active(q) /\ c \in Chats /\ answer \in Answer
               /\ WithAnswer(c, answer) \in Snapshot
               /\ Ends(q, WithAnswer(c, answer))
               /\ Shape'
<1> DEFINE c == job[q].chat
           answer == [at |-> "error", pieces |-> 0, of |-> q]
<1>1. Active(q) /\ Ends(q, WithAnswer(c, answer))
  BY DEF JobFails, Active, WithAnswer
<1>2. c \in Chats
  BY <1>1 DEF Active, Shape, JobShape
<1>3. answer \in Answer
  BY <1>2, StreamedAnswer
<1> HIDE DEF answer
<1>4. WithAnswer(c, answer) \in Snapshot
  BY <1>2, <1>3, WithAnswerIs
<1>5. Shape'
  BY <1>1, <1>4, EndsIs
<1> QED
  BY <1>1, <1>2, <1>3, <1>4, <1>5 DEF answer

(* The timer writes what is unwritten. *)
LEMMA FlushTimerIs ==
    ASSUME Shape, FlushTimer
    PROVE  /\ Shape'
           /\ UNCHANGED <<job, mounted, painted, effect, event, asked, dropped, clean>>
           /\ \/ /\ dirty /\ live \in Snapshot /\ Chatted = live
                 /\ Saved(live) /\ Hydrated(live)
              \/ UNCHANGED <<stored, live, liveRaw, dirty, sessions, refused>>
<1>1. UNCHANGED <<job, mounted, painted, effect, event, asked, dropped, clean>>
  BY DEF FlushTimer
<1>2. JobShape'
  BY <1>1 DEF Shape, JobShape
<1>3. CASE dirty
  <2>1. live \in Snapshot /\ Saved(live) /\ Hydrated(live)
    BY <1>3 DEF FlushTimer, Shape, StoreShape
  <2>2. Chatted = live
    BY <1>3 DEF Chatted, LiveCounts, Shape, StoreShape
  <2>3. StoreShape' /\ PageShape' /\ PastShape'
    BY <1>1, <2>1, SavedShape, HydratedShape DEF Shape, PastShape
  <2> QED
    BY <1>1, <1>2, <1>3, <2>1, <2>2, <2>3 DEF Shape
<1>4. CASE ~dirty
  <2>1. UNCHANGED <<stored, live, liveRaw, dirty, sessions, refused>> /\ flush' = FALSE
    BY <1>4 DEF FlushTimer
  <2>2. StoreShape' /\ PageShape' /\ PastShape'
    BY <1>1, <2>1 DEF Shape, StoreShape, PageShape, PastShape
  <2> QED
    BY <1>1, <1>2, <2>1, <2>2 DEF Shape
<1> QED
  BY <1>3, <1>4

LEMMA ShapePaint ==
    ASSUME Shape, Paint
    PROVE  Shape'
<1>1. StoreShape' /\ JobShape' /\ PastShape'
  BY DEF Paint, Shape, StoreShape, JobShape, PastShape, storeVars, pastVars
<1>2. PageShape'
  BY DEF Paint, Shape, PageShape
<1> QED
  BY <1>1, <1>2 DEF Shape

(* The effect of a paint writes what was painted. *)
LEMMA EffectIs ==
    ASSUME Shape, Effect
    PROVE  /\ Shape' /\ mounted
           /\ effect \in Snapshot /\ effect' = None /\ Saved(effect)
           /\ sessions' = IF stored' # stored THEN effect ELSE sessions
           /\ UNCHANGED <<job, mounted, painted, event, asked, dropped, clean>>
<1>1. /\ effect \in Snapshot /\ effect' = None /\ Saved(effect) /\ mounted
      /\ UNCHANGED <<job, mounted, painted, event, asked, dropped, clean>>
      /\ sessions' = IF stored' # stored THEN effect ELSE sessions
  BY DEF Effect, Shape, PageShape, Hydrated
<1>2. StoreShape' /\ PastShape'
  BY <1>1, SavedShape DEF Shape, PastShape
<1>3. PageShape'
  BY <1>1, NullAssumption DEF Shape, PageShape
<1>4. JobShape'
  BY <1>1 DEF Shape, JobShape
<1> QED
  BY <1>1, <1>2, <1>3, <1>4 DEF Shape

(* The page takes over chats that it writes itself. *)
LEMMA TakenOver ==
    ASSUME Shape, NEW chats \in Snapshot, mounted, Painted, Saved(chats),
           sessions' = chats, painted' = chats, UNCHANGED <<mounted, effect>>
    PROVE  StoreShape' /\ PageShape' /\ refused' \in BOOLEAN
<1>1. StoreShape' /\ refused' \in BOOLEAN
  BY SavedShape
<1>2. PageShape'
  BY NullAssumption DEF Shape, PageShape
<1> QED
  BY <1>1, <1>2

(* A new question is put behind the others of its chat. *)
Asking == [question |-> asked + 1,
           answer |-> [at |-> "open", pieces |-> 0, of |-> asked + 1]]
WithQuestion(c) == [Chatted EXCEPT ![c] = Append(Chatted[c], Asking)]

LEMMA WithQuestionIs ==
    ASSUME Shape, NEW c \in Chats, Chatted[c] # Closed, asked < MaxAsked
    PROVE  LET chats == WithQuestion(c) IN
           /\ asked + 1 \in Questions
           /\ chats \in Snapshot
           /\ \A d \in Chats \ {c} : chats[d] = Chatted[d]
           /\ chats[c] # Closed
           /\ Len(Chatted[c]) \in Nat /\ Len(Chatted[c]) + 1 \notin DOMAIN Chatted[c]
           /\ DOMAIN chats[c] = DOMAIN Chatted[c] \cup {Len(Chatted[c]) + 1}
           /\ Len(chats[c]) = Len(Chatted[c]) + 1
           /\ \A i \in DOMAIN Chatted[c] : chats[c][i] = Chatted[c][i]
           /\ chats[c][Len(Chatted[c]) + 1].question = asked + 1
           /\ chats[c][Len(Chatted[c]) + 1].answer.of = asked + 1
<1> DEFINE old == Chatted[c]
           new == Append(old, Asking)
<1>1. asked + 1 \in Questions
  BY ChatAssumption DEF Shape, JobShape, Questions
<1>2. Asking \in Turn
  BY <1>1, ChatAssumption DEF Asking, Turn, Answer
<1>3. Chatted \in Snapshot /\ old \in Seq(Turn)
  BY ChattedType DEF Snapshot
<1>4. /\ new \in Seq(Turn)
      /\ Len(old) \in Nat /\ Len(old) + 1 \notin DOMAIN old
      /\ DOMAIN new = DOMAIN old \cup {Len(old) + 1}
      /\ \A i \in DOMAIN old : new[i] = old[i]
      /\ new[Len(old) + 1] = Asking
  BY <1>2, <1>3, AppendedPlaces
<1>5. Len(new) = Len(old) + 1
  BY <1>2, <1>3
<1> HIDE DEF new
<1>6. WithQuestion(c) = [Chatted EXCEPT ![c] = new]
  BY DEF WithQuestion, new
<1>7. /\ WithQuestion(c) \in Snapshot
      /\ WithQuestion(c)[c] = new
      /\ \A d \in Chats \ {c} : WithQuestion(c)[d] = Chatted[d]
  BY <1>3, <1>4, <1>6 DEF Snapshot
<1>8. new # Closed
  BY <1>4, NullAssumption
<1>9. Asking.question = asked + 1 /\ Asking.answer.of = asked + 1
  BY DEF Asking
<1> QED
  BY <1>1, <1>4, <1>5, <1>7, <1>8, <1>9

LEMMA SendIs ==
    ASSUME Shape, NEW c \in Chats, SendTo(c)
    PROVE  /\ Shape'
           /\ mounted /\ Painted
           /\ Chatted[c] # Closed /\ asked < MaxAsked
           /\ WithQuestion(c) \in Snapshot /\ Saved(WithQuestion(c))
           /\ sessions' = WithQuestion(c) /\ painted' = WithQuestion(c)
           /\ job'[asked + 1].at = "streaming" /\ job'[asked + 1].chat = c
           /\ \A q \in Questions \ {asked + 1} : job'[q] = job[q]
           /\ asked' = asked + 1
           /\ UNCHANGED <<mounted, effect, event, dropped, clean>>
<1>1. /\ mounted /\ Painted /\ asked < MaxAsked /\ Chatted[c] # Closed
      /\ asked' = asked + 1
      /\ job' = [job EXCEPT ![asked'] = [at |-> "streaming", chat |-> c, pieces |-> 0]]
      /\ UNCHANGED <<mounted, effect, event, dropped, clean>>
  BY DEF SendTo
<1>2. /\ Saved(WithQuestion(c))
      /\ sessions' = WithQuestion(c) /\ painted' = WithQuestion(c)
  BY <1>1 DEF SendTo, WithQuestion, Asking
<1>3. asked + 1 \in Questions /\ WithQuestion(c) \in Snapshot
  BY <1>1, WithQuestionIs
<1>4. /\ job'[asked + 1].at = "streaming" /\ job'[asked + 1].chat = c
      /\ \A q \in Questions \ {asked + 1} : job'[q] = job[q]
      /\ job' \in [Questions -> Job]
  BY <1>1, <1>3, ChatAssumption DEF Shape, JobShape, Job
<1>5. asked \in Nat /\ asked' \in 0..MaxAsked
  BY <1>1, ChatAssumption DEF Shape, JobShape
<1>6. \A q \in Questions : job'[q].at # "none" => q <= asked' /\ job'[q].chat \in Chats
  <2> SUFFICES ASSUME NEW q \in Questions, job'[q].at # "none"
               PROVE  q <= asked' /\ job'[q].chat \in Chats
    OBVIOUS
  <2>1. CASE q = asked + 1
    BY <1>1, <1>4, <1>5, <2>1
  <2>2. CASE q # asked + 1
    <3>1. q <= asked /\ job[q].chat \in Chats /\ job'[q] = job[q]
      BY <1>4, <2>2 DEF Shape, JobShape
    <3> QED
      BY <1>1, <1>5, <3>1 DEF Questions
  <2> QED
    BY <2>1, <2>2
<1>7. StoreShape' /\ PageShape' /\ PastShape'
  BY <1>1, <1>2, <1>3, TakenOver DEF Shape, PastShape
<1> QED
  BY <1>1, <1>2, <1>3, <1>4, <1>5, <1>6, <1>7 DEF Shape, JobShape

(* A click adds, clears or closes chat c, whose question is answered.      *)
WithChat(c, turns) == [painted EXCEPT ![c] = turns]
LEMMA PersistIs ==
    ASSUME Shape, NEW c \in Chats, AddSession(c) \/ ClearActive(c) \/ CloseSession(c), mounted
    PROVE  \E turns \in {<<>>, Closed} :
             LET chats == WithChat(c, turns) IN
             /\ Shape'
             /\ mounted /\ Painted /\ ~Pending(c) /\ painted \in Snapshot
             /\ chats \in Snapshot /\ Saved(chats)
             /\ chats[c] = turns /\ \A d \in Chats \ {c} : chats[d] = painted[d]
             /\ sessions' = chats /\ painted' = chats
             /\ dropped' = dropped \cup
                   UNION {AskedIn(painted[d]) \ AskedIn(chats[d]) : d \in Chats}
             /\ UNCHANGED <<job, mounted, effect, event, asked, clean>>
<1>1. PICK turns \in {<<>>, Closed} : Persist(WithChat(c, turns)) /\ ~Pending(c)
  BY DEF AddSession, ClearActive, CloseSession, WithChat
<1> DEFINE chats == WithChat(c, turns)
<1>2. painted \in Snapshot
  BY DEF Shape, PageShape
<1>3. chats \in Snapshot /\ chats[c] = turns /\ \A d \in Chats \ {c} : chats[d] = painted[d]
  <2>1. turns \in Seq(Turn) \cup {Closed}
    <3>1. <<>> \in Seq(Turn)
      OBVIOUS
    <3> QED
      BY <3>1
  <2> QED
    BY <1>2, <2>1 DEF Snapshot, WithChat
<1> HIDE DEF chats
<1>4. /\ mounted /\ Painted /\ Saved(chats) /\ sessions' = chats /\ painted' = chats
      /\ dropped' = dropped \cup UNION {AskedIn(painted[d]) \ AskedIn(chats[d]) : d \in Chats}
      /\ UNCHANGED <<job, mounted, effect, event, asked, clean>>
  BY <1>1 DEF Persist, chats
<1>5. StoreShape' /\ PageShape' /\ refused' \in BOOLEAN
  BY <1>3, <1>4, TakenOver
<1>6. \A d \in Chats : AskedIn(painted[d]) \subseteq Questions
  <2> SUFFICES ASSUME NEW d \in Chats, painted[d] # Closed
               PROVE  \A i \in DOMAIN painted[d] : painted[d][i].question \in Questions
    BY DEF AskedIn
  <2>1. painted[d] \in Seq(Turn)
    BY <1>2 DEF Snapshot
  <2>2. \A i \in DOMAIN painted[d] : painted[d][i] \in Turn
    BY <2>1
  <2> QED
    BY <2>2 DEF Turn
<1>7. PastShape' /\ JobShape'
  BY <1>4, <1>5, <1>6 DEF Shape, PastShape, JobShape
<1> QED
  BY <1>1, <1>2, <1>3, <1>4, <1>5, <1>7 DEF Shape, chats

LEMMA ShapeMount ==
    ASSUME Shape, Mount
    PROVE  Shape'
<1>1. StoreShape'
  BY LoadedShape DEF Mount
<1>2. PageShape'
  BY ChattedType, NullAssumption DEF Mount, PageShape
<1>3. JobShape' /\ PastShape'
  BY DEF Mount, Shape, JobShape, PastShape, pastVars
<1> QED
  BY <1>1, <1>2, <1>3 DEF Shape

LEMMA ShapeUnmount ==
    ASSUME Shape, Unmount
    PROVE  Shape'
<1>1. StoreShape' /\ JobShape' /\ PastShape'
  BY DEF Unmount, Shape, StoreShape, JobShape, PastShape, storeVars, pastVars
<1>2. PageShape'
  BY DEF Unmount, Painted, Shape, PageShape
<1> QED
  BY <1>1, <1>2 DEF Shape

LEMMA ShapeReload ==
    ASSUME Shape, Reload
    PROVE  Shape'
<1>1. StoreShape' /\ PageShape' /\ PastShape'
  BY DEF Reload, Shape, StoreShape, PageShape, PastShape, pastVars
<1>2. JobShape'
  <2>1. NoJob \in Job
    BY ChatAssumption DEF NoJob, Job
  <2>2. job' = [q \in Questions |-> IF job[q].at = "ended" THEN job[q] ELSE NoJob]
    BY DEF Reload
  <2>3. \A q \in Questions : job'[q] = IF job[q].at = "ended" THEN job[q] ELSE NoJob
    BY <2>2
  <2>4. NoJob.at = "none"
    BY DEF NoJob
  <2>5. job' \in [Questions -> Job] /\ asked' = asked
    BY <2>1, <2>2 DEF Reload, pastVars, Shape, JobShape
  <2> QED
    BY <2>3, <2>4, <2>5 DEF Shape, JobShape
<1> QED
  BY <1>1, <1>2 DEF Shape

LEMMA ShapeOtherTab ==
    ASSUME Shape, OtherTab
    PROVE  Shape'
<1>1. stored' \in Snapshot
  <2>1. PICK c \in Chats : stored' = [stored EXCEPT ![c] = <<>>]
    BY DEF OtherTab
  <2>2. stored \in Snapshot /\ <<>> \in Seq(Turn)
    BY DEF Shape, StoreShape
  <2> QED
    BY <2>1, <2>2 DEF Snapshot
<1>2. StoreShape'
  BY <1>1 DEF OtherTab, Shape, StoreShape
<1>3. JobShape' /\ PageShape' /\ PastShape'
  BY DEF OtherTab, Shape, JobShape, PageShape, PastShape, pageVars
<1> QED
  BY <1>2, <1>3 DEF Shape

LEMMA ShapeStorageEvent ==
    ASSUME Shape, StorageEvent
    PROVE  Shape'
<1>1. StoreShape'
  BY NullAssumption DEF StorageEvent, Reread, Shape, StoreShape
<1>2. PageShape'
  BY NullAssumption DEF StorageEvent, Reread, Hydrated, Shape, StoreShape, PageShape
<1>3. JobShape' /\ PastShape'
  BY DEF StorageEvent, Shape, JobShape, PastShape, pastVars
<1> QED
  BY <1>1, <1>2, <1>3 DEF Shape

LEMMA ShapeStep ==
    ASSUME Shape, [Next]_vars
    PROVE  Shape'
<1>1. CASE UNCHANGED vars
  BY <1>1 DEF vars, storeVars, pageVars, pastVars, Shape, StoreShape, JobShape, PageShape, PastShape
<1>2. ASSUME NEW c \in Chats, Send(c)
      PROVE  Shape'
  BY <1>2, SendIs DEF Send
<1>3. ASSUME NEW q \in Questions, Stream(q)
      PROVE  Shape'
  BY <1>3, ShapeOnDelta, ShapeOnDone, ShapeJobEnds, ShapeJobFails DEF Stream
<1>4. CASE PageClick
  BY <1>4, PersistIs DEF PageClick
<1> QED
  BY <1>1, <1>2, <1>3, <1>4, FlushTimerIs, ShapePaint, EffectIs, ShapeMount, ShapeUnmount,
     ShapeReload, ShapeOtherTab, ShapeStorageEvent DEF Next

LEMMA ShapeInvariant == Spec => []Shape
BY ShapeInit, ShapeStep, PTL DEF Spec

(* The store, the jobs of the streams and the three stages of the page's   *)
(* state keep their shape, and what is unwritten is always there to write. *)
THEOREM ChatTypeCorrect == Spec => []TypeOK
<1>1. Shape => TypeOK
  BY TypeFromShape
<1> QED
  BY <1>1, ShapeInvariant, PTL

-------------------------------------------------------------------------------
(* Lists of chats that differ at most in how far the answers are, and the  *)
(* lists that somebody may go on with: whoever holds one may write it.     *)
Alike(a, b) ==
    \A c \in Chats :
        /\ a[c] = Closed <=> b[c] = Closed
        /\ a[c] # Closed =>
              /\ Len(a[c]) = Len(b[c]) /\ DOMAIN a[c] = DOMAIN b[c]
              /\ \A i \in DOMAIN a[c] : a[c][i].question = b[c][i].question
OwnAnswers(a) ==
    \A c \in Chats : a[c] # Closed =>
        \A i \in DOMAIN a[c] : a[c][i].answer.of = a[c][i].question
Distinct(a, last) ==
    \A c \in Chats : a[c] # Closed =>
        \A i, j \in DOMAIN a[c] :
            /\ a[c][i].question <= last
            /\ a[c][i].question = a[c][j].question => i = j
Held == {live, sessions, painted, effect} \ {None}

(* All of them hold the same questions, and the question of a stream is    *)
(* the last of its chat.                                                   *)
AskedInv ==
    clean /\ ~refused =>
        /\ ~event
        /\ \A chats \in Held \cup {stored} : Alike(chats, stored) /\ OwnAnswers(chats)
        /\ Distinct(stored, asked)
        /\ \A q \in Questions : Active(q) =>
              LET turns == stored[job[q].chat]
              IN  /\ turns # Closed /\ Len(turns) \in DOMAIN turns
                  /\ turns[Len(turns)].question = q

LEMMA AlikeBoth ==
    ASSUME NEW a, NEW b, NEW c, Alike(a, c), Alike(b, c)
    PROVE  Alike(a, b)
BY DEF Alike

LEMMA ChattedIsHeld ==
    ASSUME Shape
    PROVE  Chatted \in Held \cup {stored}
BY DEF Chatted, LiveCounts, Held

(* An answer written by its own stream leaves the questions alone. *)
LEMMA StreamFits ==
    ASSUME Shape, AskedInv, clean, ~refused, NEW q \in Questions, Active(q),
           NEW answer \in Answer, answer.of = q
    PROVE  LET c == job[q].chat
               chats == WithAnswer(c, answer)
           IN  /\ Alike(chats, stored) /\ OwnAnswers(chats)
               /\ chats[c] # Closed /\ Len(chats[c]) \in DOMAIN chats[c]
               /\ chats[c][Len(chats[c])].question = q
<1> DEFINE c == job[q].chat
           chats == WithAnswer(c, answer)
<1>1. c \in Chats
  BY DEF Active, Shape, JobShape
<1>2. Alike(Chatted, stored) /\ OwnAnswers(Chatted)
  BY ChattedIsHeld DEF AskedInv
<1>3. /\ stored[c] # Closed /\ Len(stored[c]) \in DOMAIN stored[c]
      /\ stored[c][Len(stored[c])].question = q
  BY DEF AskedInv
<1>4. /\ \A d \in Chats \ {c} : chats[d] = Chatted[d]
      /\ chats[c] = Closed <=> Chatted[c] = Closed
      /\ Chatted[c] # Closed =>
           /\ Len(chats[c]) = Len(Chatted[c])
           /\ DOMAIN chats[c] = DOMAIN Chatted[c]
           /\ \A i \in DOMAIN chats[c] :
                /\ chats[c][i].question = Chatted[c][i].question
                /\ chats[c][i].answer
                     = IF i = Len(Chatted[c]) THEN answer ELSE Chatted[c][i].answer
  BY <1>1, WithAnswerIs
<1> HIDE DEF chats
<1>5. Alike(chats, stored)
  BY <1>1, <1>2, <1>4 DEF Alike
<1>6. /\ chats[c] # Closed /\ Len(chats[c]) \in DOMAIN chats[c]
      /\ chats[c][Len(chats[c])].question = q
  BY <1>1, <1>3, <1>5 DEF Alike
<1>7. OwnAnswers(chats)
  BY <1>1, <1>2, <1>4, <1>6 DEF OwnAnswers
<1> QED
  BY <1>5, <1>6, <1>7 DEF chats

(* A step that asks nothing and whose lists all come from the ones before. *)
LEMMA AskedKept ==
    ASSUME Shape, AskedInv, clean, ~refused, ~event', asked' = asked,
           \A q \in Questions : Active(q)' => Active(q) /\ job'[q].chat = job[q].chat,
           Alike(stored', stored), OwnAnswers(stored'),
           \A chats \in {live', sessions', painted', effect'} \ {None} :
              Alike(chats, stored) /\ OwnAnswers(chats)
    PROVE  AskedInv'
<1>1. \A chats \in Held' \cup {stored'} : Alike(chats, stored) /\ OwnAnswers(chats)
  BY DEF Held
<1>2. \A chats \in Held' \cup {stored'} : Alike(chats, stored')
  BY <1>1, AlikeBoth
<1>3. Distinct(stored', asked)
  BY DEF AskedInv, Distinct, Alike
<1>4. ASSUME NEW q \in Questions, Active(q)'
      PROVE  LET turns == stored'[job'[q].chat]
             IN  /\ turns # Closed /\ Len(turns) \in DOMAIN turns
                 /\ turns[Len(turns)].question = q
  <2>1. Active(q) /\ job'[q].chat = job[q].chat /\ job[q].chat \in Chats
    BY <1>4 DEF Active, Shape, JobShape
  <2> QED
    BY <2>1 DEF AskedInv, Alike
<1> QED
  BY <1>1, <1>2, <1>3, <1>4 DEF AskedInv

(* The same for a write of one of the lists. *)
LEMMA AskedSaved ==
    ASSUME Shape, AskedInv, clean, ~refused, ~event', ~refused', asked' = asked,
           \A q \in Questions : Active(q)' => Active(q) /\ job'[q].chat = job[q].chat,
           NEW chats \in Snapshot, Saved(chats), Alike(chats, stored), OwnAnswers(chats),
           {sessions', painted', effect'} \subseteq Held \cup {chats, stored, None}
    PROVE  AskedInv'
<1>1. stored' = chats /\ live' = chats
  BY SavedIs
<1>2. \A x \in {live', sessions', painted', effect'} \ {None} :
        Alike(x, stored) /\ OwnAnswers(x)
  BY <1>1 DEF AskedInv
<1> QED
  BY <1>1, <1>2, AskedKept

LEMMA AskedPatched ==
    ASSUME Shape, AskedInv, clean, ~refused, NEW q \in Questions, Active(q),
           NEW answer \in Answer, answer.of = q, Patched(job[q].chat, LastAnswer(job[q].chat, answer)),
           \A p \in Questions : Active(p)' => Active(p) /\ job'[p].chat = job[p].chat,
           UNCHANGED <<mounted, painted, effect, event, pastVars>>
    PROVE  AskedInv'
<1> DEFINE chats == WithAnswer(job[q].chat, answer)
<1>1. /\ stored' = stored /\ live' = chats
      /\ sessions' = IF mounted THEN chats ELSE sessions
  BY PatchedIs DEF Active, Shape, JobShape
<1>2. Alike(chats, stored) /\ OwnAnswers(chats)
  BY StreamFits
<1> HIDE DEF chats
<1>3. \A x \in {live', sessions', painted', effect'} \ {None} :
        Alike(x, stored) /\ OwnAnswers(x)
  BY <1>1, <1>2 DEF AskedInv, Held
<1>4. Alike(stored', stored) /\ OwnAnswers(stored')
  BY <1>1 DEF AskedInv
<1> QED
  BY <1>3, <1>4, AskedKept DEF AskedInv, pastVars

(* The end of a job. *)
LEMMA AskedEnds ==
    ASSUME Shape, AskedInv, clean, ~refused, ~refused', NEW q \in Questions, Active(q),
           NEW chats \in Snapshot, Alike(chats, stored), OwnAnswers(chats), Ends(q, chats)
    PROVE  AskedInv'
<1>1. /\ live' = chats
      /\ sessions' = IF mounted THEN chats ELSE sessions
      /\ stored' \in {stored, chats}
      /\ asked' = asked /\ event' = event /\ painted' = painted /\ effect' = effect
      /\ job'[q].at = "ended"
      /\ \A p \in Questions \ {q} : job'[p] = job[p]
  BY EndsIs
<1>2. \A p \in Questions : Active(p)' => Active(p) /\ job'[p].chat = job[p].chat
  BY <1>1 DEF Active
<1>3. \A x \in {live', sessions', painted', effect'} \ {None} :
        Alike(x, stored) /\ OwnAnswers(x)
  BY <1>1 DEF AskedInv, Held
<1>4. Alike(stored', stored) /\ OwnAnswers(stored') /\ ~event'
  BY <1>1 DEF AskedInv
<1> QED
  BY <1>1, <1>2, <1>3, <1>4, AskedKept

(* A step after which everybody holds the same list. *)
LEMMA AskedAnew ==
    ASSUME NEW chats, ~event', stored' = chats,
           {live', sessions', painted', effect'} \subseteq {chats, None},
           OwnAnswers(chats), Distinct(chats, asked'),
           \A q \in Questions : Active(q)' =>
              /\ chats[job'[q].chat] # Closed
              /\ Len(chats[job'[q].chat]) \in DOMAIN chats[job'[q].chat]
              /\ chats[job'[q].chat][Len(chats[job'[q].chat])].question = q
    PROVE  AskedInv'
<1>1. \A x \in Held' \cup {stored'} : Alike(x, stored') /\ OwnAnswers(x)
  BY DEF Held, Alike
<1> QED
  BY <1>1 DEF AskedInv

LEMMA AskedSend ==
    ASSUME Shape, AskedInv, clean, ~refused, ~refused', NEW c \in Chats, Send(c)
    PROVE  AskedInv'
<1> DEFINE chats == WithQuestion(c)
           n == Len(Chatted[c]) + 1
<1>1. /\ ~Pending(c) /\ Painted /\ effect' = effect /\ event' = event
      /\ Chatted[c] # Closed /\ asked < MaxAsked /\ asked' = asked + 1
      /\ chats \in Snapshot /\ Saved(chats) /\ sessions' = chats /\ painted' = chats
      /\ job'[asked + 1].chat = c
      /\ \A q \in Questions \ {asked + 1} : job'[q] = job[q]
  BY SendIs DEF Send
<1>2. /\ \A d \in Chats \ {c} : chats[d] = Chatted[d]
      /\ chats[c] # Closed
      /\ Len(Chatted[c]) \in Nat /\ n \notin DOMAIN Chatted[c]
      /\ DOMAIN chats[c] = DOMAIN Chatted[c] \cup {n}
      /\ Len(chats[c]) = n
      /\ \A i \in DOMAIN Chatted[c] : chats[c][i] = Chatted[c][i]
      /\ chats[c][n].question = asked + 1
      /\ chats[c][n].answer.of = asked + 1
  BY <1>1, WithQuestionIs
<1> HIDE DEF chats, n
<1>3. stored' = chats /\ live' = chats /\ effect' = None /\ ~event'
  BY <1>1, SavedIs DEF Painted, AskedInv
<1>4. Alike(Chatted, stored) /\ OwnAnswers(Chatted)
  BY ChattedIsHeld DEF AskedInv
<1>5. OwnAnswers(chats)
  <2> SUFFICES ASSUME NEW d \in Chats, chats[d] # Closed, NEW i \in DOMAIN chats[d]
               PROVE  chats[d][i].answer.of = chats[d][i].question
    BY DEF OwnAnswers
  <2>1. CASE d # c
    BY <1>2, <1>4, <2>1 DEF OwnAnswers
  <2>2. CASE d = c /\ i # n
    <3>1. i \in DOMAIN Chatted[c] /\ chats[c][i] = Chatted[c][i]
      BY <1>2, <2>2
    <3> QED
      BY <1>1, <1>4, <2>2, <3>1 DEF OwnAnswers
  <2>3. CASE d = c /\ i = n
    BY <1>2, <2>3
  <2> QED
    BY <2>1, <2>2, <2>3
<1>6. asked \in Nat /\ Distinct(Chatted, asked)
  BY <1>4, ChatAssumption DEF AskedInv, Distinct, Alike, Shape, JobShape
<1>7. Distinct(chats, asked + 1)
  <2> SUFFICES ASSUME NEW d \in Chats, chats[d] # Closed,
                      NEW i \in DOMAIN chats[d], NEW j \in DOMAIN chats[d]
               PROVE  /\ chats[d][i].question <= asked + 1
                      /\ chats[d][i].question = chats[d][j].question => i = j
    BY DEF Distinct
  <2>0. \A k \in DOMAIN Chatted[d] : Chatted[d] # Closed => Chatted[d][k].question \in Nat
    <3>1. Chatted[d] # Closed => Chatted[d] \in Seq(Turn)
      BY ChattedType DEF Snapshot
    <3>2. Chatted[d] # Closed => \A k \in DOMAIN Chatted[d] : Chatted[d][k] \in Turn
      BY <3>1
    <3> QED
      BY <3>2 DEF Turn, Questions
  <2>1. CASE d # c
    <3>1. chats[d] = Chatted[d]
      BY <1>2, <2>1
    <3> QED
      BY <1>6, <2>0, <3>1 DEF Distinct
  <2>2. CASE d = c
    <3>1. \A k \in DOMAIN Chatted[c] : chats[c][k].question \in Nat /\ chats[c][k].question <= asked
      BY <1>1, <1>2, <1>6, <2>0, <2>2 DEF Distinct
    <3>2. \A k, l \in DOMAIN Chatted[c] : chats[c][k].question = chats[c][l].question => k = l
      BY <1>1, <1>2, <1>6 DEF Distinct
    <3> QED
      BY <1>2, <1>6, <2>2, <3>1, <3>2
  <2> QED
    BY <2>1, <2>2
<1>8. ASSUME NEW q \in Questions, Active(q)'
      PROVE  /\ chats[job'[q].chat] # Closed
             /\ Len(chats[job'[q].chat]) \in DOMAIN chats[job'[q].chat]
             /\ chats[job'[q].chat][Len(chats[job'[q].chat])].question = q
  <2>1. CASE q = asked + 1
    BY <1>1, <1>2, <2>1
  <2>2. CASE q # asked + 1
    <3>1. Active(q) /\ job'[q] = job[q] /\ job[q].chat \in Chats
      BY <1>1, <1>8, <2>2 DEF Active, Shape, JobShape
    <3>2. job[q].chat # c
      BY <1>1, <3>1 DEF Pending, Active
    <3>3. /\ Chatted[job[q].chat] # Closed
          /\ Len(Chatted[job[q].chat]) \in DOMAIN Chatted[job[q].chat]
          /\ Chatted[job[q].chat][Len(Chatted[job[q].chat])].question = q
      BY <1>4, <3>1 DEF AskedInv, Alike
    <3> QED
      BY <1>2, <3>1, <3>2, <3>3
  <2> QED
    BY <2>1, <2>2
<1> QED
  BY <1>1, <1>3, <1>5, <1>7, <1>8, AskedAnew

LEMMA AskedPersist ==
    ASSUME Shape, AskedInv, clean, ~refused, ~refused', mounted, NEW c \in Chats,
           AddSession(c) \/ ClearActive(c) \/ CloseSession(c)
    PROVE  AskedInv'
<1>1. PICK turns \in {<<>>, Closed} :
        LET chats == WithChat(c, turns) IN
        /\ Painted /\ ~Pending(c) /\ painted \in Snapshot
        /\ chats \in Snapshot /\ Saved(chats)
        /\ chats[c] = turns /\ \A d \in Chats \ {c} : chats[d] = painted[d]
        /\ sessions' = chats /\ painted' = chats
        /\ UNCHANGED <<job, effect, event, asked>>
  BY PersistIs
<1> DEFINE chats == WithChat(c, turns)
<1>2. /\ chats \in Snapshot /\ Saved(chats) /\ chats[c] = turns
      /\ \A d \in Chats \ {c} : chats[d] = painted[d]
      /\ sessions' = chats /\ painted' = chats
  BY <1>1
<1> HIDE DEF chats
<1>3. stored' = chats /\ live' = chats /\ effect' = None /\ ~event'
  BY <1>1, <1>2, SavedIs DEF Painted, AskedInv
<1>4. Alike(painted, stored) /\ OwnAnswers(painted)
  BY <1>1, NullAssumption DEF AskedInv, Held
<1>5. turns # Closed => DOMAIN turns = {}
  BY <1>1
<1>6. OwnAnswers(chats)
  BY <1>2, <1>4, <1>5 DEF OwnAnswers
<1>7. Distinct(chats, asked')
  BY <1>1, <1>2, <1>4, <1>5 DEF AskedInv, Distinct, Alike
<1>8. ASSUME NEW q \in Questions, Active(q)'
      PROVE  /\ chats[job'[q].chat] # Closed
             /\ Len(chats[job'[q].chat]) \in DOMAIN chats[job'[q].chat]
             /\ chats[job'[q].chat][Len(chats[job'[q].chat])].question = q
  <2>1. Active(q) /\ job'[q] = job[q] /\ job[q].chat \in Chats \ {c}
    BY <1>1, <1>8 DEF Active, Shape, JobShape, Pending
  <2>2. chats[job[q].chat] = painted[job[q].chat]
    BY <1>2, <2>1
  <2> QED
    BY <1>4, <2>1, <2>2 DEF AskedInv, Alike
<1> QED
  BY <1>2, <1>3, <1>6, <1>7, <1>8, AskedAnew

LEMMA AskedStream ==
    ASSUME Shape, AskedInv, clean, ~refused, ~refused', NEW q \in Questions, Stream(q)
    PROVE  AskedInv'
<1>1. CASE OnDelta(q)
  <2>1. Active(q) /\ job[q].chat \in Chats
    BY <1>1 DEF OnDelta, Active, Shape, JobShape
  <2> DEFINE answer == [at |-> "open", pieces |-> PiecesIn(job[q].chat) + 1, of |-> q]
  <2>2. answer \in Answer /\ answer.of = q
    BY <1>1, <2>1, StreamedAnswer DEF OnDelta
  <2>3. Patched(job[q].chat, LastAnswer(job[q].chat, answer))
    BY <1>1 DEF OnDelta
  <2> HIDE DEF answer
  <2>4. \A p \in Questions : Active(p)' => Active(p) /\ job'[p].chat = job[p].chat
    <3>1. job' = [job EXCEPT ![q].pieces = job[q].pieces + 1]
      BY <1>1 DEF OnDelta
    <3> QED
      BY <3>1 DEF Active, Shape, JobShape, Job
  <2> QED
    BY <1>1, <2>1, <2>2, <2>3, <2>4, AskedPatched DEF OnDelta
<1>2. CASE OnDone(q)
  <2>1. Active(q) /\ job[q].chat \in Chats
    BY <1>2 DEF OnDone, Active, Shape, JobShape
  <2> DEFINE answer == [at |-> "done", pieces |-> 0, of |-> q]
  <2>2. answer \in Answer /\ answer.of = q
    BY <2>1, StreamedAnswer
  <2>3. Patched(job[q].chat, LastAnswer(job[q].chat, answer))
    BY <1>2 DEF OnDone
  <2> HIDE DEF answer
  <2>4. \A p \in Questions : Active(p)' => Active(p) /\ job'[p].chat = job[p].chat
    <3>1. job' = [job EXCEPT ![q].at = "done"]
      BY <1>2 DEF OnDone
    <3> QED
      BY <2>1, <3>1 DEF Active, Shape, JobShape, Job
  <2> QED
    BY <1>2, <2>1, <2>2, <2>3, <2>4, AskedPatched DEF OnDone
<1>3. CASE JobEnds(q)
  <2>1. Alike(Chatted, stored) /\ OwnAnswers(Chatted)
    BY ChattedIsHeld DEF AskedInv
  <2> QED
    BY <1>3, <2>1, ShapeJobEnds, ChattedType, AskedEnds
<1>4. CASE JobFails(q)
  <2> DEFINE answer == [at |-> "error", pieces |-> 0, of |-> q]
  <2>1. /\ Active(q) /\ answer \in Answer /\ answer.of = q
        /\ WithAnswer(job[q].chat, answer) \in Snapshot
        /\ Ends(q, WithAnswer(job[q].chat, answer))
    BY <1>4, ShapeJobFails
  <2> HIDE DEF answer
  <2>2. /\ Alike(WithAnswer(job[q].chat, answer), stored)
        /\ OwnAnswers(WithAnswer(job[q].chat, answer))
    BY <2>1, StreamFits
  <2> QED
    BY <2>1, <2>2, AskedEnds
<1> QED
  BY <1>1, <1>2, <1>3, <1>4 DEF Stream

(* Timers, React, the page that opens and is left, a reload. *)
LEMMA AskedOther ==
    ASSUME Shape, AskedInv, clean, ~refused, ~refused',
           FlushTimer \/ Paint \/ Effect \/ Mount \/ Unmount \/ Reload
    PROVE  AskedInv'
<1>0. ~event /\ \A x \in Held \cup {stored} : Alike(x, stored) /\ OwnAnswers(x)
  BY DEF AskedInv
<1>j. (job' = job) => \A q \in Questions : Active(q)' => Active(q) /\ job'[q].chat = job[q].chat
  BY DEF Active
<1>1. CASE FlushTimer
  <2>1. /\ UNCHANGED <<job, mounted, painted, effect, event, asked>>
        /\ \/ live \in Snapshot /\ Saved(live) /\ Hydrated(live)
           \/ UNCHANGED <<stored, live, sessions>>
    BY <1>1, FlushTimerIs
  <2>2. CASE live \in Snapshot /\ Saved(live) /\ Hydrated(live)
    <3>1. live \in Held
      BY <2>2, NullAssumption DEF Held
    <3>2. {sessions', painted', effect'} \subseteq Held \cup {live, stored, None}
      BY <2>1, <2>2 DEF Hydrated, Held
    <3> QED
      BY <1>0, <1>j, <2>1, <2>2, <3>1, <3>2, AskedSaved
  <2>3. CASE UNCHANGED <<stored, live, sessions>>
    <3>1. \A x \in {live', sessions', painted', effect'} \ {None} : x \in Held
      BY <2>1, <2>3 DEF Held
    <3> QED
      BY <1>0, <1>j, <2>1, <2>3, <3>1, AskedKept
  <2> QED
    BY <2>1, <2>2, <2>3
<1>2. CASE Effect
  <2>1. /\ effect \in Snapshot /\ Saved(effect) /\ effect' = None
        /\ sessions' \in {effect, sessions}
        /\ UNCHANGED <<job, painted, event, asked>>
    BY <1>2, EffectIs
  <2>2. effect \in Held
    BY <2>1, NullAssumption DEF Held
  <2>3. {sessions', painted', effect'} \subseteq Held \cup {effect, stored, None}
    BY <2>1 DEF Held
  <2> QED
    BY <1>0, <1>j, <2>1, <2>2, <2>3, AskedSaved
<1>3. CASE Paint \/ Mount \/ Unmount \/ Reload
  <2>1. Mount => live' = Chatted
    BY LoadedIs DEF Mount
  <2>2. \A x \in {live', sessions', painted', effect'} \ {None} : x \in Held \cup {stored}
    BY <1>3, <2>1, ChattedIsHeld DEF Paint, Mount, Unmount, Reload, Held, storeVars
  <2>3. UNCHANGED <<stored, asked>> /\ ~event'
    <3>1. UNCHANGED <<stored, asked>>
      BY <1>3 DEF Paint, Mount, Loaded, Unmount, Reload, storeVars, pastVars
    <3>2. event' => event
      BY <1>3 DEF Paint, Mount, Unmount, Reload
    <3> QED
      BY <1>0, <3>1, <3>2
  <2>4. \A q \in Questions : Active(q)' => Active(q) /\ job'[q].chat = job[q].chat
    <3>1. Reload => \A q \in Questions : job'[q] = IF job[q].at = "ended" THEN job[q] ELSE NoJob
      BY DEF Reload
    <3> QED
      BY <1>3, <1>j, <3>1 DEF Paint, Mount, Unmount, Active, NoJob
  <2> QED
    BY <1>0, <2>2, <2>3, <2>4, AskedKept
<1> QED
  BY <1>1, <1>2, <1>3

(* Another tab and a refusal are for ever. *)
LEMMA SavedPast ==
    ASSUME NEW chats, Saved(chats)
    PROVE  refused => refused'
BY DEF Saved

LEMMA EndsPast ==
    ASSUME NEW q, NEW chats, Ends(q, chats)
    PROVE  (clean' => clean) /\ (refused => refused')
<1>1. refused => refused'
  BY SavedPast DEF Ends, Flushed
<1> QED
  BY <1>1 DEF Ends

LEMMA PastStays ==
    ASSUME Next
    PROVE  /\ clean' => clean /\ ~OtherTab
           /\ refused => refused'
<1>1. ASSUME NEW q \in Questions, Stream(q)
      PROVE  (clean' => clean) /\ (refused => refused')
  <2>1. JobEnds(q) \/ JobFails(q) => (clean' => clean) /\ (refused => refused')
    BY EndsPast DEF JobEnds, JobFails
  <2>2. OnDelta(q) \/ OnDone(q) => (clean' => clean) /\ (refused => refused')
    BY DEF OnDelta, OnDone, pastVars
  <2> QED
    BY <1>1, <2>1, <2>2 DEF Stream
<1>2. ASSUME NEW c \in Chats, Send(c)
      PROVE  (clean' => clean) /\ (refused => refused')
  <2>1. refused => refused'
    BY <1>2, SavedPast DEF Send, SendTo
  <2> QED
    BY <1>2, <2>1 DEF Send, SendTo
<1>3. ASSUME NEW chats, Persist(chats)
      PROVE  (clean' => clean) /\ (refused => refused')
  <2>1. refused => refused'
    BY <1>3, SavedPast DEF Persist
  <2> QED
    BY <1>3, <2>1 DEF Persist
<1>4. PageClick => (clean' => clean) /\ (refused => refused')
  BY <1>3 DEF PageClick, AddSession, ClearActive, CloseSession
<1>5. FlushTimer => (clean' => clean) /\ (refused => refused')
  <2>1. FlushTimer => (refused => refused')
    BY SavedPast DEF FlushTimer
  <2> QED
    BY <2>1 DEF FlushTimer
<1>6. Effect => (clean' => clean) /\ (refused => refused')
  <2>1. Effect => (refused => refused')
    BY SavedPast DEF Effect
  <2> QED
    BY <2>1 DEF Effect
<1>7. Paint \/ Mount \/ Unmount \/ Reload \/ StorageEvent
        => (clean' => clean) /\ (refused => refused')
  BY DEF Paint, Mount, Unmount, Reload, StorageEvent, pastVars
<1>8. OtherTab => ~clean' /\ (refused => refused')
  BY DEF OtherTab
<1> QED
  BY <1>1, <1>2, <1>4, <1>5, <1>6, <1>7, <1>8 DEF Next

LEMMA AskedStep ==
    ASSUME Shape, AskedInv, [Next]_vars
    PROVE  AskedInv'
<1>1. CASE UNCHANGED vars
  BY <1>1 DEF vars, storeVars, pageVars, pastVars, AskedInv, Held, Active
<1>2. CASE Next
  <2> SUFFICES ASSUME clean', ~refused'
               PROVE  AskedInv'
    BY DEF AskedInv
  <2>1. clean /\ ~refused /\ ~OtherTab
    BY <1>2, PastStays
  <2>2. ~StorageEvent
    BY <2>1 DEF StorageEvent, AskedInv
  <2> QED
    BY <1>2, <2>1, <2>2, AskedSend, AskedStream, AskedOther, AskedPersist DEF Next, PageClick
<1> QED
  BY <1>1, <1>2

LEMMA AskedInit == Init => AskedInv
<1> SUFFICES ASSUME Init
             PROVE  AskedInv
  OBVIOUS
<1>1. Held = {} /\ ~event /\ \A q \in Questions : ~Active(q)
  BY DEF Init, Held, Active, NoJob
<1>2. \A c \in Chats : stored[c] # Closed => DOMAIN stored[c] = {}
  <2>1. PICK c \in Chats : stored = [d \in Chats |-> IF d = c THEN <<>> ELSE Closed]
    BY DEF Init
  <2>2. \A d \in Chats : stored[d] # Closed => stored[d] = <<>>
    BY <2>1
  <2> QED
    BY <2>2
<1> QED
  BY <1>1, <1>2 DEF AskedInv, Alike, OwnAnswers, Distinct

LEMMA AskedInvariant == Spec => [](Shape /\ AskedInv)
<1>1. Init => Shape /\ AskedInv
  BY ShapeInit, AskedInit
<1>2. Shape /\ AskedInv /\ [Next]_vars => (Shape /\ AskedInv)'
  BY ShapeStep, AskedStep
<1> QED
  BY <1>1, <1>2, PTL DEF Spec

(* No stream writes into the answer of another question, and no question   *)
(* stands in a chat twice, in whichever order streams, timers, paints and  *)
(* clicks come, and whether the page is open or not.                       *)
THEOREM AnswersStayWithQuestions == Spec => []AnswersMatch
<1>1. Shape /\ AskedInv => AnswersMatch
  <2> SUFFICES ASSUME Shape, AskedInv, clean, ~refused
               PROVE  AnswersMatch
    BY DEF AnswersMatch
  <2>1. Alike(Chatted, stored) /\ OwnAnswers(Chatted)
    BY ChattedIsHeld DEF AskedInv
  <2>2. Distinct(Chatted, asked)
    BY <2>1 DEF AskedInv, Distinct, Alike
  <2> QED
    BY <2>1, <2>2 DEF AnswersMatch, OpenIn, OwnAnswers, Distinct
<1> QED
  BY <1>1, AskedInvariant, PTL

-------------------------------------------------------------------------------
(* When React runs the effects of a paint before the next stream event, a  *)
(* list whose effect has not run is what the page shows, or is stored and  *)
(* so not written again; the page shows the chats that count.              *)
PageInv ==
    Prompt /\ ~event /\ ~refused =>
        /\ mounted => sessions = Chatted
        /\ effect # None => sessions \in {effect, stored}

(* A step after which the page, if open, shows the chats that count. *)
LEMMA PageCaughtUp ==
    ASSUME NEW chats, effect' = None, Chatted' = chats, mounted' => sessions' = chats
    PROVE  PageInv'
BY DEF PageInv

LEMMA PatchedCounts ==
    ASSUME Shape, NEW c \in Chats, NEW answer \in Answer, Patched(c, LastAnswer(c, answer))
    PROVE  Chatted' = WithAnswer(c, answer)
<1>1. live' = WithAnswer(c, answer) /\ dirty'
  BY PatchedIs
<1>2. live' # None
  BY <1>1, WithAnswerIs, NullAssumption
<1> QED
  BY <1>1, <1>2 DEF Chatted, LiveCounts

LEMMA PageStream ==
    ASSUME Shape, Prompt, ~refused', NEW q \in Questions, Stream(q)
    PROVE  PageInv'
<1>1. CASE OnDelta(q)
  <2>1. job[q].chat \in Chats /\ effect' = None /\ mounted' = mounted
    BY <1>1 DEF OnDelta, MayRun, Painted, Shape, JobShape
  <2> DEFINE answer == [at |-> "open", pieces |-> PiecesIn(job[q].chat) + 1, of |-> q]
  <2>2. answer \in Answer
    BY <1>1, <2>1, StreamedAnswer DEF OnDelta
  <2>3. Patched(job[q].chat, LastAnswer(job[q].chat, answer))
    BY <1>1 DEF OnDelta
  <2> HIDE DEF answer
  <2>4. /\ Chatted' = WithAnswer(job[q].chat, answer)
        /\ sessions' = IF mounted THEN WithAnswer(job[q].chat, answer) ELSE sessions
    BY <2>1, <2>2, <2>3, PatchedCounts, PatchedIs
  <2> QED
    BY <2>1, <2>4, PageCaughtUp
<1>2. CASE OnDone(q)
  <2>1. job[q].chat \in Chats /\ effect' = None /\ mounted' = mounted
    BY <1>2 DEF OnDone, MayRun, Painted, Shape, JobShape
  <2> DEFINE answer == [at |-> "done", pieces |-> 0, of |-> q]
  <2>2. answer \in Answer
    BY <2>1, StreamedAnswer
  <2>3. Patched(job[q].chat, LastAnswer(job[q].chat, answer))
    BY <1>2 DEF OnDone
  <2> HIDE DEF answer
  <2>4. /\ Chatted' = WithAnswer(job[q].chat, answer)
        /\ sessions' = IF mounted THEN WithAnswer(job[q].chat, answer) ELSE sessions
    BY <2>1, <2>2, <2>3, PatchedCounts, PatchedIs
  <2> QED
    BY <2>1, <2>4, PageCaughtUp
<1>3. CASE JobEnds(q) \/ JobFails(q)
  <2>1. effect = None
    BY <1>3 DEF JobEnds, JobFails, MayRun, Painted
  <2>2. PICK chats \in Snapshot : Active(q) /\ Ends(q, chats)
    BY <1>3, ChattedType, ShapeJobEnds, ShapeJobFails
  <2>3. /\ Chatted' = chats /\ effect' = effect /\ mounted' = mounted
        /\ sessions' = IF mounted THEN chats ELSE sessions
    BY <2>2, EndsIs
  <2> QED
    BY <2>1, <2>3, PageCaughtUp
<1> QED
  BY <1>1, <1>2, <1>3 DEF Stream

LEMMA PageClicked ==
    ASSUME Shape, ~refused', NEW c \in Chats,
           \/ Send(c)
           \/ mounted /\ (AddSession(c) \/ ClearActive(c) \/ CloseSession(c))
    PROVE  PageInv'
<1>1. PICK chats \in Snapshot :
        Painted /\ Saved(chats) /\ sessions' = chats /\ effect' = effect
  <2>1. CASE Send(c)
    BY <2>1, SendIs DEF Send
  <2>2. CASE mounted /\ (AddSession(c) \/ ClearActive(c) \/ CloseSession(c))
    BY <2>2, PersistIs
  <2> QED
    BY <2>1, <2>2
<1>2. Chatted' = chats /\ effect' = None
  BY <1>1, SavedIs DEF Painted
<1> QED
  BY <1>1, <1>2, PageCaughtUp

LEMMA PageStorageEvent ==
    ASSUME Shape, StorageEvent
    PROVE  PageInv'
<1>1. UNCHANGED <<stored, mounted, effect>>
  BY DEF StorageEvent
<1>2. CASE mounted
  <2>1. live' = stored /\ liveRaw' = stored /\ sessions' = stored
    BY <1>2 DEF StorageEvent, Reread, Hydrated
  <2>2. stored # None
    BY NullAssumption DEF Shape, StoreShape
  <2>3. Chatted' = stored
    BY <1>1, <2>1, <2>2 DEF Chatted, LiveCounts
  <2> QED
    BY <1>1, <2>1, <2>3 DEF PageInv
<1>3. CASE ~mounted
  BY <1>1, <1>3 DEF PageInv, Shape, PageShape
<1> QED
  BY <1>2, <1>3

LEMMA PageStep ==
    ASSUME Shape, PageInv, [Next]_vars
    PROVE  PageInv'
<1>1. CASE UNCHANGED vars
  BY <1>1 DEF vars, storeVars, pageVars, pastVars, PageInv, Chatted, LiveCounts
<1>2. CASE Next
  <2> SUFFICES ASSUME Prompt, ~event', ~refused'
               PROVE  PageInv'
    BY DEF PageInv
  <2>1. ~refused
    BY <1>2, PastStays
  <2>2. CASE FlushTimer
    <3>1. effect' = None /\ ~event /\ mounted' = mounted
      BY <2>2 DEF FlushTimer, MayRun, Painted
    <3>2. CASE live \in Snapshot /\ Saved(live) /\ Hydrated(live)
      <4>1. Chatted' = live
        BY <3>2, SavedIs
      <4> QED
        BY <3>1, <3>2, <4>1, PageCaughtUp DEF Hydrated
    <3>3. CASE UNCHANGED <<stored, live, liveRaw, dirty, sessions, refused>>
      <4>1. Chatted' = Chatted
        BY <3>3 DEF Chatted, LiveCounts
      <4> QED
        BY <2>1, <3>1, <3>3, <4>1 DEF PageInv
    <3> QED
      BY <2>2, <3>2, <3>3, FlushTimerIs
  <2>3. CASE Paint
    <3>1. Chatted' = Chatted
      BY <2>3 DEF Paint, storeVars, Chatted, LiveCounts
    <3> QED
      BY <2>1, <2>3, <3>1 DEF Paint, PageInv, storeVars
  <2>4. CASE Effect
    <3>1. /\ effect \in Snapshot /\ effect' = None /\ Saved(effect)
          /\ sessions' = IF stored' # stored THEN effect ELSE sessions
          /\ event' = event
      BY <2>4, EffectIs
    <3>2. stored' = effect /\ Chatted' = effect
      BY <3>1, SavedIs
    <3>3. sessions \in {effect, stored}
      BY <2>1, <3>1, NullAssumption DEF PageInv
    <3> QED
      BY <3>1, <3>2, <3>3, PageCaughtUp
  <2>5. CASE Mount
    <3>1. Chatted' = Chatted
      BY <2>5, LoadedIs DEF Mount
    <3> QED
      BY <2>5, <3>1 DEF Mount, PageInv
  <2>6. CASE Unmount \/ Reload
    BY <2>6 DEF Unmount, Reload, Painted, PageInv
  <2>7. ~OtherTab
    BY DEF OtherTab
  <2> QED
    BY <1>2, <2>2, <2>3, <2>4, <2>5, <2>6, <2>7, PageStream, PageClicked, PageStorageEvent
       DEF Next, PageClick
<1> QED
  BY <1>1, <1>2

LEMMA PageInvariant == Spec => [](Shape /\ PageInv)
<1>1. Init => Shape /\ PageInv
  BY ShapeInit DEF Init, PageInv
<1>2. Shape /\ PageInv /\ [Next]_vars => (Shape /\ PageInv)'
  BY ShapeStep, PageStep
<1> QED
  BY <1>1, <1>2, PTL DEF Spec

(* A page that has painted everything shows the chats of the store, also   *)
(* the answers that came while it was closed, if React runs the effects of *)
(* a paint before the next stream event or timer.                          *)
THEOREM PageStaysCurrent == Prompt => (Spec => []PageIsCurrent)
<1> SUFFICES ASSUME Prompt
             PROVE  Spec => []PageIsCurrent
  OBVIOUS
<1>1. Shape /\ PageInv => PageIsCurrent
  BY DEF PageInv, PageIsCurrent, Painted
<1> QED
  BY <1>1, PageInvariant, PTL

-------------------------------------------------------------------------------
(* What has become of a question in the turns of its chat. *)
AnsweredIn(turns, q) ==
    turns # Closed =>
        \A i \in DOMAIN turns : turns[i].question = q => turns[i].answer.at # "open"
StandsIn(turns, q) ==
    turns # Closed /\ \E i \in DOMAIN turns : turns[i].question = q

(* The store writes all that it counts before it forgets that it has not   *)
(* written it: the answer of a stream that is done is in the chats that    *)
(* count, and that of a job that has ended is written.                     *)
EndedInv ==
    Prompt /\ clean /\ ~refused =>
        /\ effect # None => effect = sessions
        /\ ~dirty => Chatted = stored
        /\ \A q \in Questions : job[q].at \in {"done", "ended"} =>
              AnsweredIn(Chatted[job[q].chat], q)
        /\ \A q \in Questions : job[q].at = "ended" =>
              /\ AnsweredIn(stored[job[q].chat], q)
              /\ q \notin dropped => StandsIn(stored[job[q].chat], q)

(* What the proofs of the steps start from. *)
Settled == Shape /\ AskedInv /\ PageInv /\ EndedInv /\ Prompt /\ clean /\ ~refused

LEMMA StandsAlike ==
    ASSUME NEW a, NEW b, Alike(a, b), NEW c \in Chats, NEW q, StandsIn(b[c], q)
    PROVE  StandsIn(a[c], q)
BY DEF StandsIn, Alike

(* An answer of question q answers no other question. *)
LEMMA AnsweredWith ==
    ASSUME Settled, NEW q \in Questions, Active(q), NEW answer \in Answer, answer.of = q
    PROVE  LET chats == WithAnswer(job[q].chat, answer) IN
           /\ \A p \in Questions \ {q} : job[p].at \in {"done", "ended"} =>
                AnsweredIn(chats[job[p].chat], p)
           /\ answer.at # "open" => AnsweredIn(chats[job[q].chat], q)
<1> DEFINE c == job[q].chat
           chats == WithAnswer(c, answer)
<1>1. c \in Chats
  BY DEF Settled, Active, Shape, JobShape
<1>2. /\ Alike(chats, stored) /\ chats[c] # Closed
      /\ Len(chats[c]) \in DOMAIN chats[c]
      /\ chats[c][Len(chats[c])].question = q
  BY StreamFits DEF Settled
<1>3. /\ \A d \in Chats \ {c} : chats[d] = Chatted[d]
      /\ chats[c] = Closed <=> Chatted[c] = Closed
      /\ Chatted[c] # Closed =>
           /\ Len(chats[c]) = Len(Chatted[c])
           /\ DOMAIN chats[c] = DOMAIN Chatted[c]
           /\ \A i \in DOMAIN chats[c] :
                /\ chats[c][i].question = Chatted[c][i].question
                /\ chats[c][i].answer
                     = IF i = Len(Chatted[c]) THEN answer ELSE Chatted[c][i].answer
  BY <1>1, WithAnswerIs DEF Settled
<1> HIDE DEF chats
<1>4. \A i, j \in DOMAIN chats[c] : chats[c][i].question = chats[c][j].question => i = j
  <2>1. Distinct(stored, asked)
    BY DEF Settled, AskedInv
  <2> QED
    BY <1>1, <1>2, <2>1 DEF Distinct, Alike
<1>5. ASSUME NEW p \in Questions \ {q}, job[p].at \in {"done", "ended"}
      PROVE  AnsweredIn(chats[job[p].chat], p)
  <2>1. AnsweredIn(Chatted[job[p].chat], p) /\ job[p].chat \in Chats
    BY <1>5 DEF Settled, EndedInv, Shape, JobShape
  <2>2. CASE job[p].chat # c
    BY <1>3, <2>1, <2>2
  <2>3. CASE job[p].chat = c
    <3> SUFFICES ASSUME NEW i \in DOMAIN chats[c], chats[c][i].question = p
                 PROVE  chats[c][i].answer.at # "open"
      BY <2>3 DEF AnsweredIn
    <3>1. i # Len(Chatted[c])
      BY <1>2, <1>3
    <3> QED
      BY <1>2, <1>3, <2>1, <2>3, <3>1 DEF AnsweredIn
  <2> QED
    BY <2>2, <2>3
<1>6. ASSUME answer.at # "open"
      PROVE  AnsweredIn(chats[c], q)
  <2> SUFFICES ASSUME NEW i \in DOMAIN chats[c], chats[c][i].question = q
               PROVE  chats[c][i].answer.at # "open"
    BY DEF AnsweredIn
  <2>1. i = Len(chats[c])
    BY <1>2, <1>4
  <2> QED
    BY <1>2, <1>3, <1>6, <2>1
<1> QED
  BY <1>5, <1>6 DEF chats

(* A step that changes the chats in memory only. *)
LEMMA EndedPatched ==
    ASSUME Settled, NEW q \in Questions, Active(q), NEW answer \in Answer, answer.of = q,
           Patched(job[q].chat, LastAnswer(job[q].chat, answer)), effect' = None,
           job'[q].chat = job[q].chat, job'[q].at \in {"streaming", "done"},
           job'[q].at = "done" => answer.at # "open",
           \A p \in Questions \ {q} : job'[p] = job[p],
           dropped' = dropped
    PROVE  EndedInv'
<1> DEFINE chats == WithAnswer(job[q].chat, answer)
<1>1. /\ dirty' = TRUE /\ stored' = stored /\ Chatted' = chats
  BY PatchedIs, PatchedCounts DEF Settled, Active, Shape, JobShape
<1>2. /\ \A p \in Questions \ {q} : job[p].at \in {"done", "ended"} =>
           AnsweredIn(chats[job[p].chat], p)
      /\ answer.at # "open" => AnsweredIn(chats[job[q].chat], q)
  BY AnsweredWith
<1> HIDE DEF chats
<1>3. \A p \in Questions : job'[p].at \in {"done", "ended"} =>
        AnsweredIn(Chatted'[job'[p].chat], p)
  BY <1>1, <1>2
<1>4. ASSUME NEW p \in Questions, job'[p].at = "ended"
      PROVE  /\ AnsweredIn(stored'[job'[p].chat], p)
             /\ p \notin dropped' => StandsIn(stored'[job'[p].chat], p)
  <2>1. job'[p] = job[p] /\ job[p].at = "ended"
    BY <1>4
  <2> QED
    BY <1>1, <2>1 DEF Settled, EndedInv
<1> QED
  BY <1>1, <1>3, <1>4 DEF EndedInv

(* A step after which all that counts is written. *)
LEMMA EndedWritten ==
    ASSUME NEW chats, stored' = chats, Chatted' = chats, effect' = None,
           \A q \in Questions : job'[q].at \in {"done", "ended"} =>
              AnsweredIn(chats[job'[q].chat], q),
           \A q \in Questions : job'[q].at = "ended" /\ q \notin dropped' =>
              StandsIn(chats[job'[q].chat], q)
    PROVE  EndedInv'
BY DEF EndedInv

LEMMA EndedEnds ==
    ASSUME Settled, ~refused', NEW q \in Questions, Active(q), NEW chats \in Snapshot,
           Alike(chats, stored), Ends(q, chats), effect = None,
           \A p \in Questions \ {q} : job[p].at \in {"done", "ended"} =>
              AnsweredIn(chats[job[p].chat], p),
           AnsweredIn(chats[job[q].chat], q)
    PROVE  EndedInv'
<1>1. /\ Chatted' = chats /\ effect' = None /\ dropped' = dropped
      /\ \/ ~refused' => stored' = chats
         \/ ~dirty /\ chats = Chatted /\ stored' = stored
      /\ job'[q].at = "ended" /\ job'[q].chat = job[q].chat
      /\ \A p \in Questions \ {q} : job'[p] = job[p]
  BY EndsIs DEF Settled
<1>2. stored' = chats
  <2>1. ~dirty => Chatted = stored
    BY DEF Settled, EndedInv
  <2> QED
    BY <1>1, <2>1
<1>3. \A p \in Questions : job'[p].at \in {"done", "ended"} => AnsweredIn(chats[job'[p].chat], p)
  BY <1>1
<1>4. ASSUME NEW p \in Questions, job'[p].at = "ended", p \notin dropped'
      PROVE  StandsIn(chats[job'[p].chat], p)
  <2>1. CASE p = q
    <3>1. LET turns == stored[job[q].chat]
          IN  /\ turns # Closed /\ Len(turns) \in DOMAIN turns
              /\ turns[Len(turns)].question = q
      BY DEF Settled, AskedInv
    <3>2. StandsIn(stored[job[q].chat], q) /\ job[q].chat \in Chats
      BY <3>1 DEF StandsIn, Settled, Active, Shape, JobShape
    <3> QED
      BY <1>1, <2>1, <3>2, StandsAlike
  <2>2. CASE p # q
    <3>1. StandsIn(stored[job[p].chat], p) /\ job[p].chat \in Chats /\ job'[p] = job[p]
      BY <1>1, <1>4, <2>2 DEF Settled, EndedInv, Shape, JobShape
    <3> QED
      BY <3>1, StandsAlike
  <2> QED
    BY <2>1, <2>2
<1> QED
  BY <1>1, <1>2, <1>3, <1>4, EndedWritten

LEMMA EndedStream ==
    ASSUME Settled, ~refused', NEW q \in Questions, Stream(q)
    PROVE  EndedInv'
<1>1. effect = None /\ (effect' = effect)
  BY DEF Settled, Stream, OnDelta, OnDone, JobEnds, JobFails, Ends, MayRun, Painted
<1>2. CASE OnDelta(q)
  <2>1. Active(q) /\ job[q].chat \in Chats
    BY <1>2 DEF OnDelta, Active, Settled, Shape, JobShape
  <2> DEFINE answer == [at |-> "open", pieces |-> PiecesIn(job[q].chat) + 1, of |-> q]
  <2>2. answer \in Answer /\ answer.of = q
    BY <1>2, <2>1, StreamedAnswer DEF OnDelta, Settled
  <2>3. Patched(job[q].chat, LastAnswer(job[q].chat, answer)) /\ dropped' = dropped
    BY <1>2 DEF OnDelta, pastVars
  <2> HIDE DEF answer
  <2>4. /\ job'[q].chat = job[q].chat /\ job'[q].at = "streaming"
        /\ \A p \in Questions \ {q} : job'[p] = job[p]
    <3>1. job' = [job EXCEPT ![q].pieces = job[q].pieces + 1] /\ job[q].at = "streaming"
      BY <1>2 DEF OnDelta
    <3> QED
      BY <3>1 DEF Settled, Shape, JobShape, Job
  <2> QED
    BY <1>1, <2>1, <2>2, <2>3, <2>4, EndedPatched
<1>3. CASE OnDone(q)
  <2>1. Active(q) /\ job[q].chat \in Chats
    BY <1>3 DEF OnDone, Active, Settled, Shape, JobShape
  <2> DEFINE answer == [at |-> "done", pieces |-> 0, of |-> q]
  <2>2. answer \in Answer /\ answer.of = q /\ answer.at # "open"
    BY <2>1, StreamedAnswer DEF Settled
  <2>3. Patched(job[q].chat, LastAnswer(job[q].chat, answer)) /\ dropped' = dropped
    BY <1>3 DEF OnDone, pastVars
  <2> HIDE DEF answer
  <2>4. /\ job'[q].chat = job[q].chat /\ job'[q].at = "done"
        /\ \A p \in Questions \ {q} : job'[p] = job[p]
    <3>1. job' = [job EXCEPT ![q].at = "done"]
      BY <1>3 DEF OnDone
    <3> QED
      BY <3>1 DEF Settled, Shape, JobShape, Job
  <2> QED
    BY <1>1, <2>1, <2>2, <2>3, <2>4, EndedPatched
<1>4. CASE JobEnds(q)
  <2>1. Active(q) /\ Ends(q, Chatted) /\ Chatted \in Snapshot /\ job[q].at = "done"
    BY <1>4, ShapeJobEnds, ChattedType DEF Settled, JobEnds
  <2>2. Alike(Chatted, stored)
    BY ChattedIsHeld DEF Settled, AskedInv
  <2>3. \A p \in Questions : job[p].at \in {"done", "ended"} => AnsweredIn(Chatted[job[p].chat], p)
    BY DEF Settled, EndedInv
  <2> QED
    BY <1>1, <2>1, <2>2, <2>3, EndedEnds
<1>5. CASE JobFails(q)
  <2> DEFINE answer == [at |-> "error", pieces |-> 0, of |-> q]
             chats == WithAnswer(job[q].chat, answer)
  <2>1. /\ Active(q) /\ answer \in Answer /\ answer.of = q /\ answer.at # "open"
        /\ chats \in Snapshot /\ Ends(q, chats)
    BY <1>5, ShapeJobFails DEF Settled
  <2> HIDE DEF answer
  <2>2. Alike(chats, stored)
    BY <2>1, StreamFits DEF Settled
  <2>3. /\ \A p \in Questions \ {q} : job[p].at \in {"done", "ended"} =>
             AnsweredIn(chats[job[p].chat], p)
        /\ AnsweredIn(chats[job[q].chat], q)
    BY <2>1, AnsweredWith
  <2> HIDE DEF chats
  <2> QED
    BY <1>1, <2>1, <2>2, <2>3, EndedEnds
<1> QED
  BY <1>2, <1>3, <1>4, <1>5 DEF Stream

(* The chats that count are written as they are. *)
LEMMA EndedFlushed ==
    ASSUME Settled, stored' = Chatted, Chatted' = Chatted, effect' = None,
           UNCHANGED <<job, dropped>>
    PROVE  EndedInv'
<1>1. Alike(Chatted, stored)
  BY ChattedIsHeld DEF Settled, AskedInv
<1>2. ASSUME NEW q \in Questions, job[q].at = "ended", q \notin dropped
      PROVE  StandsIn(Chatted[job[q].chat], q)
  <2>1. StandsIn(stored[job[q].chat], q) /\ job[q].chat \in Chats
    BY <1>2 DEF Settled, EndedInv, Shape, JobShape
  <2> QED
    BY <1>1, <2>1, StandsAlike
<1>3. \A q \in Questions : job[q].at \in {"done", "ended"} => AnsweredIn(Chatted[job[q].chat], q)
  BY DEF Settled, EndedInv
<1> QED
  BY <1>2, <1>3, EndedWritten

LEMMA EndedSend ==
    ASSUME Settled, ~refused', NEW c \in Chats, Send(c)
    PROVE  EndedInv'
<1> DEFINE chats == WithQuestion(c)
           n == Len(Chatted[c]) + 1
<1>1. /\ Painted /\ effect' = effect /\ dropped' = dropped
      /\ Chatted[c] # Closed /\ asked < MaxAsked
      /\ chats \in Snapshot /\ Saved(chats)
      /\ job'[asked + 1].at = "streaming"
      /\ \A q \in Questions \ {asked + 1} : job'[q] = job[q]
  BY SendIs DEF Send, Settled
<1>2. /\ \A d \in Chats \ {c} : chats[d] = Chatted[d]
      /\ chats[c] # Closed
      /\ DOMAIN chats[c] = DOMAIN Chatted[c] \cup {n}
      /\ \A i \in DOMAIN Chatted[c] : chats[c][i] = Chatted[c][i]
      /\ chats[c][n].question = asked + 1
  BY <1>1, WithQuestionIs DEF Settled
<1> HIDE DEF chats, n
<1>3. stored' = chats /\ Chatted' = chats /\ effect' = None
  BY <1>1, SavedIs DEF Settled, Painted
<1>4. Alike(Chatted, stored)
  BY ChattedIsHeld DEF Settled, AskedInv
<1>5. ASSUME NEW q \in Questions, job'[q].at \in {"done", "ended"}
      PROVE  AnsweredIn(chats[job'[q].chat], q)
  <2>1. q # asked + 1 /\ job'[q] = job[q] /\ job[q].chat \in Chats
    BY <1>1, <1>5 DEF Settled, Shape, JobShape
  <2>2. AnsweredIn(Chatted[job[q].chat], q)
    BY <1>5, <2>1 DEF Settled, EndedInv
  <2> QED
    BY <1>1, <1>2, <2>1, <2>2 DEF AnsweredIn
<1>6. ASSUME NEW q \in Questions, job'[q].at = "ended", q \notin dropped'
      PROVE  StandsIn(chats[job'[q].chat], q)
  <2>1. job'[q] = job[q] /\ job[q].chat \in Chats
    BY <1>1, <1>6 DEF Settled, Shape, JobShape
  <2>2. StandsIn(Chatted[job[q].chat], q)
    BY <1>1, <1>4, <1>6, <2>1, StandsAlike DEF Settled, EndedInv
  <2> QED
    BY <1>2, <2>1, <2>2 DEF StandsIn
<1> QED
  BY <1>3, <1>5, <1>6, EndedWritten

(* What a click takes off the page is dropped by the user. *)
LEMMA EndedPersist ==
    ASSUME Settled, ~refused', mounted, NEW c \in Chats,
           AddSession(c) \/ ClearActive(c) \/ CloseSession(c)
    PROVE  EndedInv'
<1>1. PICK turns \in {<<>>, Closed} :
        LET chats == WithChat(c, turns) IN
        /\ Painted /\ painted \in Snapshot
        /\ chats \in Snapshot /\ Saved(chats)
        /\ chats[c] = turns /\ \A d \in Chats \ {c} : chats[d] = painted[d]
        /\ dropped' = dropped \cup
              UNION {AskedIn(painted[d]) \ AskedIn(chats[d]) : d \in Chats}
        /\ UNCHANGED <<job, effect>>
  BY PersistIs DEF Settled
<1> DEFINE chats == WithChat(c, turns)
<1>2. /\ chats \in Snapshot /\ Saved(chats) /\ chats[c] = turns
      /\ \A d \in Chats \ {c} : chats[d] = painted[d]
      /\ dropped' = dropped \cup
            UNION {AskedIn(painted[d]) \ AskedIn(chats[d]) : d \in Chats}
  BY <1>1
<1> HIDE DEF chats
<1>3. stored' = chats /\ Chatted' = chats /\ effect' = None
  BY <1>1, <1>2, SavedIs DEF Settled, Painted
<1>4. painted = Chatted
  BY <1>1 DEF Settled, PageInv, AskedInv, Painted
<1>5. Alike(painted, stored)
  BY <1>4, ChattedIsHeld DEF Settled, AskedInv
<1>6. turns # Closed => DOMAIN turns = {}
  BY <1>1
<1>7. AskedIn(chats[c]) = {}
  BY <1>2, <1>6 DEF AskedIn
<1>8. ASSUME NEW q \in Questions, job'[q].at \in {"done", "ended"}
      PROVE  AnsweredIn(chats[job'[q].chat], q)
  <2>1. AnsweredIn(painted[job[q].chat], q) /\ job[q].chat \in Chats /\ job'[q] = job[q]
    BY <1>1, <1>4, <1>8 DEF Settled, EndedInv, Shape, JobShape
  <2> QED
    BY <1>2, <1>6, <2>1 DEF AnsweredIn
<1>9. ASSUME NEW q \in Questions, job'[q].at = "ended", q \notin dropped'
      PROVE  StandsIn(chats[job'[q].chat], q)
  <2>1. job'[q] = job[q] /\ job[q].chat \in Chats /\ q \notin dropped
    BY <1>1, <1>2, <1>9 DEF Settled, Shape, JobShape
  <2>2. StandsIn(painted[job[q].chat], q)
    BY <1>5, <1>9, <2>1, StandsAlike DEF Settled, EndedInv
  <2>3. q \in AskedIn(painted[job[q].chat])
    BY <2>2 DEF StandsIn, AskedIn
  <2>4. job[q].chat # c
    BY <1>2, <1>7, <1>9, <2>1, <2>3
  <2> QED
    BY <1>2, <2>1, <2>2, <2>4
<1> QED
  BY <1>3, <1>8, <1>9, EndedWritten

(* Steps that leave the chats alone. *)
LEMMA EndedKept ==
    ASSUME Settled, UNCHANGED <<stored, dropped>>, Chatted' \in {Chatted, stored},
           dirty' => dirty, ~dirty' => Chatted' = stored,
           effect' # None => effect' = sessions',
           \A q \in Questions : job'[q].at \in {"done", "ended"} =>
              job'[q] = job[q] /\ (job'[q].at = "done" => Chatted' = Chatted)
    PROVE  EndedInv'
BY DEF Settled, EndedInv

LEMMA EndedOther ==
    ASSUME Settled, ~refused', FlushTimer \/ Paint \/ Effect \/ Mount \/ Unmount \/ Reload
    PROVE  EndedInv'
<1>1. CASE FlushTimer
  <2>1. effect' = None /\ UNCHANGED <<job, dropped>>
    BY <1>1 DEF FlushTimer, MayRun, Painted, Settled
  <2>2. CASE live \in Snapshot /\ Chatted = live /\ Saved(live)
    <3>1. stored' = Chatted /\ Chatted' = Chatted
      BY <2>2, SavedIs DEF Settled
    <3> QED
      BY <2>1, <3>1, EndedFlushed
  <2>3. CASE UNCHANGED <<stored, live, liveRaw, dirty, sessions, refused>>
    <3>1. Chatted' = Chatted
      BY <2>3 DEF Chatted, LiveCounts
    <3>2. ~dirty => Chatted = stored
      BY DEF Settled, EndedInv
    <3> QED
      BY <2>1, <2>3, <3>1, <3>2, EndedKept
  <2> QED
    BY <1>1, <2>2, <2>3, FlushTimerIs DEF Settled
<1>2. CASE Effect
  <2>1. /\ effect \in Snapshot /\ effect' = None /\ Saved(effect) /\ mounted
        /\ UNCHANGED <<job, dropped>>
    BY <1>2, EffectIs DEF Settled
  <2>2. effect = Chatted
    BY <2>1, NullAssumption DEF Settled, EndedInv, PageInv, AskedInv
  <2>3. stored' = Chatted /\ Chatted' = Chatted
    BY <2>1, <2>2, SavedIs DEF Settled
  <2> QED
    BY <2>1, <2>3, EndedFlushed
<1>3. CASE Paint \/ Mount \/ Unmount
  <2>1. UNCHANGED <<stored, dirty, job, dropped>>
    BY <1>3 DEF Paint, Mount, Loaded, Unmount, storeVars, pastVars
  <2>2. Chatted' = Chatted
    <3>1. Mount => Chatted' = Chatted
      BY LoadedIs DEF Mount, Settled
    <3>2. Paint \/ Unmount => Chatted' = Chatted
      BY DEF Paint, Unmount, storeVars, Chatted, LiveCounts
    <3> QED
      BY <1>3, <3>1, <3>2
  <2>3. effect' # None => effect' = sessions'
    BY <1>3 DEF Paint, Mount, Unmount, Painted
  <2>4. ~dirty => Chatted = stored
    BY DEF Settled, EndedInv
  <2> QED
    BY <2>1, <2>2, <2>3, <2>4, EndedKept
<1>4. CASE Reload
  <2>1. /\ UNCHANGED <<stored, dropped>> /\ live' = None /\ ~dirty' /\ effect' = None
        /\ \A q \in Questions : job'[q] = IF job[q].at = "ended" THEN job[q] ELSE NoJob
    BY <1>4 DEF Reload, pastVars
  <2>2. Chatted' = stored
    BY <2>1 DEF Chatted, LiveCounts
  <2>3. \A q \in Questions : job'[q].at \in {"done", "ended"} =>
          job'[q] = job[q] /\ job'[q].at = "ended"
    BY <2>1 DEF NoJob
  <2> QED
    BY <2>1, <2>2, <2>3, EndedKept
<1> QED
  BY <1>1, <1>2, <1>3, <1>4

LEMMA EndedStep ==
    ASSUME Shape, AskedInv, PageInv, EndedInv, [Next]_vars
    PROVE  EndedInv'
<1>1. CASE UNCHANGED vars
  BY <1>1 DEF vars, storeVars, pageVars, pastVars, EndedInv, Chatted, LiveCounts
<1>2. CASE Next
  <2> SUFFICES ASSUME Prompt, clean', ~refused'
               PROVE  EndedInv'
    BY DEF EndedInv
  <2>1. clean /\ ~refused /\ ~OtherTab
    BY <1>2, PastStays
  <2>2. ~StorageEvent
    BY <2>1 DEF StorageEvent, AskedInv
  <2>3. Settled
    BY <2>1 DEF Settled
  <2> QED
    BY <1>2, <2>1, <2>2, <2>3, EndedSend, EndedStream, EndedOther, EndedPersist
       DEF Next, PageClick
<1> QED
  BY <1>1, <1>2

LEMMA EndedInit == Init => EndedInv
BY DEF Init, EndedInv, Chatted, LiveCounts, NoJob

LEMMA EndedInvariant == Spec => [](Shape /\ EndedInv)
<1>1. Init => EndedInv
  BY EndedInit
<1>2. Shape /\ AskedInv /\ PageInv /\ EndedInv /\ [Next]_vars => EndedInv'
  BY EndedStep
<1> QED
  BY <1>1, <1>2, AskedInvariant, PageInvariant, PTL DEF Spec

(* The answer of every question whose job has ended is in localStorage,    *)
(* whether the page was open or had been left meanwhile, unless the user   *)
(* has cleared the chat, if React runs the effects of a paint before the   *)
(* next stream event or timer.                                             *)
THEOREM ResultsAreWritten == Prompt => (Spec => []ResultIsWritten)
<1> SUFFICES ASSUME Prompt
             PROVE  Spec => []ResultIsWritten
  OBVIOUS
<1>1. Shape /\ EndedInv => ResultIsWritten
  <2> SUFFICES ASSUME Shape, EndedInv, clean, ~refused,
                      NEW q \in Questions \ dropped, job[q].at = "ended"
               PROVE  \E c \in OpenIn(stored) : \E i \in DOMAIN stored[c] :
                         stored[c][i].question = q /\ stored[c][i].answer.at # "open"
    BY DEF ResultIsWritten
  <2>1. job[q].chat \in Chats
    BY DEF Shape, JobShape
  <2>2. AnsweredIn(stored[job[q].chat], q) /\ StandsIn(stored[job[q].chat], q)
    BY DEF EndedInv
  <2> QED
    BY <2>1, <2>2 DEF AnsweredIn, StandsIn, OpenIn
<1> QED
  BY <1>1, EndedInvariant, PTL
=================================================================================
