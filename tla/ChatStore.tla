------------------------------- MODULE ChatStore -------------------------------
(***************************************************************************)
(* The chats of the WikiRAG page in one browser tab (wikiragChatStore.ts): *)
(* module state that outlives the page, the copy in localStorage that      *)
(* other tabs share, and the page's own copy in React (WikiRagChat.tsx).   *)
(* A question is answered by a stream (api.ts) that goes on while the page *)
(* is left.  wikiragResearchStore.ts has the same shape.                   *)
(*                                                                         *)
(* A step is one turn of the tab's event loop.  A chat is the list of its  *)
(* questions, each with how far its answer has come.  The selected chat,   *)
(* titles and texts are left out.                                          *)
(***************************************************************************)
EXTENDS Naturals, Sequences, FiniteSets, SequencesExt

CONSTANTS
    Chats,      \* the sessions that may be open
    MaxAsked,   \* bound on the questions
    MaxDeltas,  \* bound on the pieces an answer is streamed in
    Prompt,     \* React runs the effects of a paint before the next stream event
    Closed,     \* this session is not open
    None        \* null

ASSUME ChatAssumption ==
    /\ MaxAsked \in Nat /\ MaxDeltas \in Nat
    /\ Prompt \in BOOLEAN

VARIABLES
    stored,    \* what localStorage holds
    live,      \* live
    liveRaw,   \* liveRaw, told by the chats it stands for
    dirty,     \* liveDirty
    flush,     \* flushTimer is armed
    job,       \* job[q]: the job that answers question q, in pending till it ends
    mounted,   \* the page is open
    sessions,  \* the page's state, as last set
    painted,   \* the page's state, as last painted
    effect,    \* the painted state whose effect has not run
    event,     \* a storage event is on its way
    asked,     \* history: questions so far
    dropped,   \* history: the questions the user has cleared or closed
    clean,     \* history: no other tab has written
    refused    \* history: the storage has refused a write

storeVars == <<stored, live, liveRaw, dirty, flush>>
pageVars == <<mounted, sessions, painted, effect>>
pastVars == <<asked, dropped, clean, refused>>
vars == <<storeVars, job, pageVars, event, pastVars>>

-------------------------------------------------------------------------------
Questions == 1..MaxAsked

(* An answer grows with every piece and ends as "done" or "error".  "of"   *)
(* is the question whose stream has written to it.                         *)
Answer == [at : {"open", "done", "error"}, pieces : 0..MaxDeltas, of : Questions]
Turn == [question : Questions, answer : Answer]
Snapshot == [Chats -> Seq(Turn) \cup {Closed}]
(* null is no list of chats, and a session that is not open has no turns. *)
ASSUME NullAssumption == None \notin Snapshot /\ Closed \notin Seq(Turn)

OpenIn(chats) == {c \in Chats : chats[c] # Closed}
AskedIn(turns) == IF turns = Closed THEN {} ELSE {turns[i].question : i \in DOMAIN turns}

Job == [at : {"none", "streaming", "done", "ended"}, chat : Chats \cup {None},
        pieces : 0..MaxDeltas]
NoJob == [at |-> "none", chat |-> None, pieces |-> 0]
Pending(c) == \E q \in Questions : job[q].at \in {"streaming", "done"} /\ job[q].chat = c

TypeOK ==
    /\ stored \in Snapshot
    /\ live \in Snapshot \cup {None} /\ liveRaw \in Snapshot \cup {None}
    /\ dirty \in BOOLEAN /\ flush \in BOOLEAN
    /\ job \in [Questions -> Job]
    /\ mounted \in BOOLEAN
    /\ sessions \in Snapshot \cup {None} /\ painted \in Snapshot \cup {None}
    /\ effect \in Snapshot \cup {None}
    /\ event \in BOOLEAN
    /\ asked \in 0..MaxAsked
    /\ dropped \in SUBSET Questions
    /\ clean \in BOOLEAN /\ refused \in BOOLEAN
    /\ dirty => live # None

(* The site is open on another page, with one empty chat from before. *)
Init ==
    /\ \E c \in Chats : stored = [d \in Chats |-> IF d = c THEN <<>> ELSE Closed]
    /\ live = None /\ liveRaw = None
    /\ dirty = FALSE /\ flush = FALSE
    /\ job = [q \in Questions |-> NoJob]
    /\ mounted = FALSE
    /\ sessions = None /\ painted = None /\ effect = None
    /\ event = FALSE
    /\ asked = 0 /\ dropped = {} /\ clean = TRUE /\ refused = FALSE

-------------------------------------------------------------------------------
(* loadWikiRagChats: the live chats while they hold something unwritten or *)
(* nobody else has written, else what is stored.                           *)
LiveCounts == live # None /\ (dirty \/ stored = liveRaw)
Chatted == IF LiveCounts THEN live ELSE stored
Loaded ==
    /\ live' = Chatted
    /\ liveRaw' = IF LiveCounts THEN liveRaw ELSE stored
    /\ UNCHANGED <<stored, dirty, flush>>

(* hydrate, on the change event of the store or on a storage event. *)
Hydrated(chats) == sessions' = IF mounted THEN chats ELSE sessions

(* Mutated form of Patched: the page is not told. *)
PatchedQuietly(c, turns) ==
    /\ live' = IF Chatted[c] = Closed THEN Chatted ELSE [Chatted EXCEPT ![c] = turns]
    /\ liveRaw' = IF LiveCounts THEN liveRaw ELSE stored
    /\ dirty' = TRUE
    /\ flush' = TRUE
    /\ UNCHANGED <<stored, sessions>>

(* patchSession *)
Patched(c, turns) ==
    /\ live' = IF Chatted[c] = Closed THEN Chatted ELSE [Chatted EXCEPT ![c] = turns]
    /\ liveRaw' = IF LiveCounts THEN liveRaw ELSE stored
    /\ dirty' = TRUE
    /\ flush' = TRUE
    /\ Hydrated(live')
    /\ UNCHANGED stored

(* saveWikiRagChats: written unless it is there already, or the storage    *)
(* refuses.                                                                *)
Saved(chats) ==
    /\ live' = chats
    /\ dirty' = FALSE
    /\ flush' = FALSE
    /\ \/ stored' = chats /\ liveRaw' = chats /\ UNCHANGED refused
       \/ stored # chats /\ refused' = TRUE /\ UNCHANGED <<stored, liveRaw>>

(* onMeta, onDelta and onDone change the last answer of the chat. *)
LastAnswer(c, answer) ==
    IF Chatted[c] \in {Closed, <<>>} THEN Chatted[c]
    ELSE [Chatted[c] EXCEPT ![Len(Chatted[c])] = [question |-> @.question, answer |-> answer]]
PiecesIn(c) ==
    IF Chatted[c] \in {Closed, <<>>} THEN 0 ELSE Last(Chatted[c]).answer.pieces

(* With Prompt, a stream event or a timer finds the page painted. *)
Painted == effect = None /\ painted = sessions
MayRun == Prompt => Painted

-------------------------------------------------------------------------------
(* sendWikiRagChatMessage, from the page.  React paints what a click has   *)
(* changed at once and runs its effects, so the question is saved, too.    *)
SendTo(c) ==
    /\ mounted /\ Painted
    /\ asked < MaxAsked
    /\ c \in OpenIn(painted)
    /\ Chatted[c] # Closed
    /\ asked' = asked + 1
    /\ LET turn == [question |-> asked',
                    answer |-> [at |-> "open", pieces |-> 0, of |-> asked']]
           chats == [Chatted EXCEPT ![c] = Append(@, turn)]
       IN  /\ Saved(chats)
           /\ sessions' = chats /\ painted' = chats
    /\ job' = [job EXCEPT ![asked'] = [at |-> "streaming", chat |-> c, pieces |-> 0]]
    /\ UNCHANGED <<mounted, effect, event, dropped, clean>>

(* Mutated form of Send: pending is not looked at. *)
SendAnyway(c) == SendTo(c)

Send(c) == ~Pending(c) /\ SendTo(c)

(* The stream of question q writes to the last answer of its chat. *)
OnDelta(q) ==
    /\ MayRun
    /\ job[q].at = "streaming"
    /\ job[q].pieces < MaxDeltas
    /\ job' = [job EXCEPT ![q].pieces = @ + 1]
    /\ LET c == job[q].chat
       IN  /\ PiecesIn(c) < MaxDeltas
           /\ Patched(c, LastAnswer(c, [at |-> "open", pieces |-> PiecesIn(c) + 1, of |-> q]))
    /\ UNCHANGED <<mounted, painted, effect, event, pastVars>>

OnDone(q) ==
    /\ MayRun
    /\ job[q].at = "streaming"
    /\ job' = [job EXCEPT ![q].at = "done"]
    /\ Patched(job[q].chat, LastAnswer(job[q].chat, [at |-> "done", pieces |-> 0, of |-> q]))
    /\ UNCHANGED <<mounted, painted, effect, event, pastVars>>

(* Mutated form of Flushed: the job leaves the write to the timer. *)
FlushedLater(chats) ==
    /\ live' = chats
    /\ liveRaw' = IF LiveCounts THEN liveRaw ELSE stored
    /\ Hydrated(chats)
    /\ UNCHANGED <<stored, dirty, flush, refused>>

(* flushLiveChats, once the store holds these chats. *)
Flushed(chats) ==
    IF dirty \/ chats # Chatted
    THEN Saved(chats) /\ Hydrated(chats)
    ELSE Loaded /\ Hydrated(Chatted) /\ UNCHANGED refused

(* The job of question q ends, with an error turn in the place of the      *)
(* answer when the stream broke off or ended without "done".  (In a chat   *)
(* that another tab has cleared the error turn stands alone; left out.)    *)
Ends(q, chats) ==
    /\ job' = [job EXCEPT ![q] = [at |-> "ended", chat |-> job[q].chat, pieces |-> 0]]
    /\ Flushed(chats)
    /\ UNCHANGED <<mounted, painted, effect, event, asked, dropped, clean>>

JobEnds(q) ==
    /\ MayRun
    /\ job[q].at = "done"
    /\ Ends(q, Chatted)

JobFails(q) ==
    /\ MayRun
    /\ job[q].at \in {"streaming", "done"}
    /\ LET c == job[q].chat
       IN  Ends(q, [Chatted EXCEPT
                      ![c] = LastAnswer(c, [at |-> "error", pieces |-> 0, of |-> q])])

(* Mutated form of FlushTimer: the timer only clears itself. *)
FlushTimerOnly ==
    /\ MayRun
    /\ flush
    /\ flush' = FALSE
    /\ UNCHANGED <<stored, live, liveRaw, dirty, job, pageVars, event, pastVars>>

FlushTimer ==
    /\ MayRun
    /\ flush
    /\ IF dirty THEN Saved(live) /\ Hydrated(live)
       ELSE flush' = FALSE /\ UNCHANGED <<stored, live, liveRaw, dirty, sessions, refused>>
    /\ UNCHANGED <<job, mounted, painted, effect, event, asked, dropped, clean>>

-------------------------------------------------------------------------------
(* React paints the newest state; the effect of the paint saves it. *)
Paint ==
    /\ mounted
    /\ painted # sessions
    /\ effect = None
    /\ painted' = sessions
    /\ effect' = sessions
    /\ UNCHANGED <<storeVars, job, mounted, sessions, event, pastVars>>

Effect ==
    /\ effect # None
    /\ effect' = None
    /\ Saved(effect)
    /\ IF stored' # stored THEN Hydrated(effect) ELSE UNCHANGED sessions
    /\ UNCHANGED <<job, mounted, painted, event, asked, dropped, clean>>

(* persist of the page, from a click: what it saves is made of the state   *)
(* it has painted.                                                         *)
Persist(chats) ==
    /\ mounted /\ Painted
    /\ Saved(chats)
    /\ sessions' = chats /\ painted' = chats
    /\ dropped' = dropped \cup
          UNION {AskedIn(painted[c]) \ AskedIn(chats[c]) : c \in Chats}
    /\ UNCHANGED <<job, mounted, effect, event, asked, clean>>

AddSession(c) == c \notin OpenIn(painted) /\ ~Pending(c) /\ Persist([painted EXCEPT ![c] = <<>>])
ClearActive(c) == c \in OpenIn(painted) /\ ~Pending(c) /\ Persist([painted EXCEPT ![c] = <<>>])
CloseSession(c) ==
    /\ c \in OpenIn(painted) /\ OpenIn(painted) # {c}
    /\ ~Pending(c)
    /\ Persist([painted EXCEPT ![c] = Closed])

PageClick == mounted /\ \E c \in Chats : AddSession(c) \/ ClearActive(c) \/ CloseSession(c)

(* The page opens on the store's chats, and its first effect saves them. *)
Mount ==
    /\ ~mounted
    /\ mounted' = TRUE
    /\ Loaded
    /\ sessions' = Chatted /\ painted' = Chatted /\ effect' = Chatted
    /\ UNCHANGED <<job, event, pastVars>>

(* The user goes to another page of the site; the requests go on. *)
Unmount ==
    /\ mounted /\ Painted
    /\ mounted' = FALSE
    /\ sessions' = None /\ painted' = None
    /\ UNCHANGED <<storeVars, job, effect, event, pastVars>>

(* A full page reload: the module's state and its requests are gone. *)
Reload ==
    /\ live' = None /\ liveRaw' = None /\ dirty' = FALSE /\ flush' = FALSE
    /\ job' = [q \in Questions |-> IF job[q].at = "ended" THEN job[q] ELSE NoJob]
    /\ mounted' = FALSE
    /\ sessions' = None /\ painted' = None /\ effect' = None
    /\ event' = FALSE
    /\ UNCHANGED <<stored, pastVars>>

(* Another tab clears or adds a chat, from what it has seen stored. *)
OtherTab ==
    /\ \E c \in Chats : stored[c] # <<>> /\ stored' = [stored EXCEPT ![c] = <<>>]
    /\ event' = TRUE
    /\ clean' = FALSE
    /\ UNCHANGED <<live, liveRaw, dirty, flush, job, pageVars, asked, dropped,
                   refused>>

(* Mutated form of Reread: what was dropped still counts as unwritten. *)
RereadDirty == live' = None /\ liveRaw' = None /\ Hydrated(stored) /\ UNCHANGED dirty

(* Only the page listens to storage events: live is dropped and loaded     *)
(* anew.                                                                   *)
Reread == live' = stored /\ liveRaw' = stored /\ dirty' = FALSE /\ Hydrated(stored)

StorageEvent ==
    /\ event
    /\ event' = FALSE
    /\ IF mounted THEN Reread ELSE UNCHANGED <<live, liveRaw, dirty, sessions>>
    /\ UNCHANGED <<stored, flush, job, mounted, painted, effect, pastVars>>

-------------------------------------------------------------------------------
Stream(q) == OnDelta(q) \/ OnDone(q) \/ JobEnds(q) \/ JobFails(q)

Next ==
    \/ \E c \in Chats : Send(c)
    \/ \E q \in Questions : Stream(q)
    \/ FlushTimer \/ Paint \/ Effect
    \/ PageClick \/ Mount \/ Unmount \/ Reload
    \/ OtherTab \/ StorageEvent

Spec == Init /\ [][Next]_vars
FairSpec ==
    /\ Spec
    /\ WF_vars(FlushTimer) /\ WF_vars(Paint) /\ WF_vars(Effect)

-------------------------------------------------------------------------------
(* The answer of every question whose job has ended is in localStorage,    *)
(* whether the page was open or had been left meanwhile, unless the user   *)
(* has cleared the chat; other tabs and a full storage are out of it.      *)
ResultIsWritten ==
    clean /\ ~refused => \A q \in Questions \ dropped : job[q].at = "ended" => \E c \in OpenIn(stored) :
                \E i \in DOMAIN stored[c] :
                    stored[c][i].question = q /\ stored[c][i].answer.at # "open"

(* No stream writes into the answer of another question, and no question   *)
(* stands in the chats twice.                                              *)
AnswersMatch ==
    clean /\ ~refused => \A c \in OpenIn(Chatted) : \A i, j \in DOMAIN Chatted[c] :
                /\ Chatted[c][i].answer.of = Chatted[c][i].question
                /\ Chatted[c][i].question = Chatted[c][j].question => i = j

(* A page that has painted everything shows the chats of the store: it     *)
(* catches up with the answers that came while it was closed.              *)
PageIsCurrent ==
    mounted /\ Painted /\ ~event /\ ~refused => painted = Chatted

(* What the store has not written yet, it writes or gives up.              *)
DirtyIsFlushed == dirty ~> ~dirty
===============================================================================
