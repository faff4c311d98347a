------------------------------ MODULE Publisher ------------------------------
(***************************************************************************)
(* flazr's RtmpPublisher: a file sent over a channel, message after        *)
(* message.  The completion of a write, or a timer some time after it,     *)
(* fires an event that makes the next write; events carry the number of    *)
(* the conversation they belong to, and a start, a pause and the end each  *)
(* begin a new one, so that the events of the old one die out.             *)
(*                                                                         *)
(* Two threads handle events, the I/O thread of the channel and the timer. *)
(* Only write is synchronized: what the number is compared with may change *)
(* before the write.                                                       *)
(*                                                                         *)
(* Two handlers drive publishers.  The server (ServerHandler) plays files  *)
(* for a client that plays, pauses and seeks, and makes a publisher for    *)
(* each file it is asked for.  The client (ClientHandler) publishes one    *)
(* file, starts when the server says so, and writes on every message.      *)
(*                                                                         *)
(* The file has frames 0..LastFrame, one per unit of time.  The reader goes *)
(* forward by aggregates of frames while the client's buffer is full, and   *)
(* back by one frame, also when it seeks.                                   *)
(***************************************************************************)
EXTENDS Integers, FiniteSets

CONSTANTS
    LastFrame,
    KeyFrames,      \* of a video file
    AudioFiles,     \* the publishers whose file has no video
    Lengths,        \* play lengths asked for, beside -1 for the whole file
    Publishers,     \* bound: 1 and more, in the order they are made
    MaxCommands     \* bound: messages from the peer

ASSUME PublisherAssumption ==
    /\ LastFrame \in Nat
    /\ KeyFrames \subseteq 0..LastFrame
    /\ AudioFiles \subseteq Publishers
    /\ Lengths \subseteq Nat
    /\ Publishers \subseteq Nat \ {0}
    /\ MaxCommands \in Nat

Threads == {"io", "timer"}
None == 0
NoSeek == -1
PlayLengths == Lengths \cup {-1}

VARIABLES
    side,           \* whose publishers these are: "server" or "client"
    open,           \* is the channel open?
    publisher,      \* the handler's publisher, None before the first
    currentConversationId, paused, playLength, seekTime, timePosition,
    position,       \* of the reader: the next frame
    aggregating,    \* is the reader's aggregateDuration positive?
    closed,         \* is the reader closed?
    events,         \* fired or to be fired: conversation and number of the message
    pc, writer,     \* per thread: where it is, and in which publisher
    seekTo,         \* the seek the I/O thread is about to do
    nWritten, nCommands,
    \* history
    silent,         \* the current conversation is that of a pause or of an end
    expected,       \* the frame the conversation goes on with
    overtaken,      \* a conversation began while the other thread was about to write
    inherited,      \* a conversation began whose number an older publisher's event has
    unkeyed,        \* a seek by aggregates with no key frame before the time asked for
    prompted        \* the client wrote because of a message

fileVars == <<playLength, seekTime, timePosition, position, aggregating, closed>>
threadVars == <<pc, writer, seekTo>>
publisherVars == <<side, open, publisher, currentConversationId, paused, fileVars, events,
                   threadVars, nWritten, nCommands, silent, expected, overtaken, inherited,
                   unkeyed, prompted>>

Event(id, n) == [id |-> id, n |-> n]

PublisherInit ==
    /\ side \in {"server", "client"}
    /\ open = TRUE /\ publisher = None
    /\ currentConversationId = [p \in Publishers |-> 0]
    /\ paused = [p \in Publishers |-> FALSE]
    /\ playLength = [p \in Publishers |-> -1]
    /\ seekTime = [p \in Publishers |-> 0]
    /\ timePosition = [p \in Publishers |-> 0]
    /\ position = [p \in Publishers |-> 0]
    /\ aggregating = [p \in Publishers |-> FALSE]
    /\ closed = [p \in Publishers |-> FALSE]
    /\ events = {}
    /\ pc = [t \in Threads |-> "idle"]
    /\ writer = [t \in Threads |-> None]
    /\ seekTo = NoSeek
    /\ nWritten = 0 /\ nCommands = 0
    /\ silent = [p \in Publishers |-> TRUE]
    /\ expected = [p \in Publishers |-> NoSeek]
    /\ overtaken = FALSE /\ inherited = FALSE /\ unkeyed = FALSE /\ prompted = FALSE

-----------------------------------------------------------------------------
(* The reader                                                              *)

HasNext(p) == position[p] <= LastFrame

\* Where FlvReader.seek may have come to before it looks for a key frame: behind the frame
\* of that time, except that it stays if that frame is the next one; by aggregates it may
\* have gone on from there.
Checkpoints(p, t) ==
    LET c == IF position[p] = t /\ HasNext(p) THEN t
             ELSE IF t < LastFrame THEN t + 1 ELSE LastFrame + 1
    IN  IF aggregating[p] THEN c..(LastFrame + 1) ELSE {c}

SyncBefore(p, c) == IF p \in AudioFiles THEN {} ELSE {k \in KeyFrames : k < c}

\* Mutant: the time of the next frame, also where there is none.
TimeOfNext(c) == c

\* FlvReader.getTimePosition: the time of the next frame, at the end of the last one.
TimeAt(c) == IF c <= LastFrame THEN c ELSE LastFrame

\* It reads on and goes back one frame, so that an aggregate moves the reader.
AfterTime(p, c) == IF aggregating[p] /\ c <= LastFrame THEN c..LastFrame ELSE {c}

\* The closest key frame before c; without one, c and its time.
FoundFrom(p, c) ==
    LET before == SyncBefore(p, c)
    IN  IF before = {} THEN {[position |-> q, time |-> TimeAt(c)] : q \in AfterTime(p, c)}
        ELSE {[position |-> k, time |-> k] : k \in {j \in before : \A i \in before : i <= j}}

\* Where a seek may lead; time 0 needs no key frame.
Seeks(p, t) ==
    IF t = 0 THEN {[position |-> 0, time |-> 0]}
    ELSE UNION {FoundFrom(p, c) : c \in Checkpoints(p, t)}

-----------------------------------------------------------------------------
(* Conversations                                                           *)

\* Mutant: the number stays the same.
SameConversation(t, p) == UNCHANGED <<currentConversationId, overtaken, inherited>>

\* Thread t begins a new conversation of p.
NextConversation(t, p) ==
    /\ currentConversationId' = [currentConversationId EXCEPT ![p] = @ + 1]
    /\ overtaken' = (overtaken \/ \E u \in Threads \ {t} : pc[u] # "idle")
    /\ inherited' = (inherited \/ \E e \in events : e.id = currentConversationId[p] + 1)

\* RtmpPublisher.start, in the I/O thread: its first statements; the reader is sought next.
Start(p, t) ==
    /\ paused' = [paused EXCEPT ![p] = FALSE]
    /\ NextConversation("io", p)
    /\ silent' = [silent EXCEPT ![p] = FALSE]
    /\ expected' = [expected EXCEPT ![p] = NoSeek]
    /\ pc' = [pc EXCEPT !["io"] = "seek"]
    /\ writer' = [writer EXCEPT !["io"] = p]
    /\ seekTo' = t

\* start goes on: the reader's seek, if one is asked for.
StartSeek ==
    /\ pc["io"] = "seek"
    /\ LET p == writer["io"] IN
       /\ \E s \in IF seekTo >= 0 THEN Seeks(p, seekTo)
                   ELSE {[position |-> position[p], time |-> 0]} :
             /\ position' = [position EXCEPT ![p] = s.position]
             /\ seekTime' = [seekTime EXCEPT ![p] = s.time]
             /\ timePosition' = [timePosition EXCEPT ![p] = s.time]
             /\ expected' = [expected EXCEPT ![p] =
                   IF @ # NoSeek THEN @    \* a frame was sent since the start
                   ELSE IF seekTo < 0 \/ s.position > LastFrame THEN s.position
                   ELSE s.time]
       /\ unkeyed' = (unkeyed \/ (seekTo > 0 /\ aggregating[p] /\ SyncBefore(p, seekTo) = {}))
    /\ pc' = [pc EXCEPT !["io"] = "write"]
    /\ seekTo' = NoSeek
    /\ UNCHANGED <<side, open, publisher, currentConversationId, paused, playLength, aggregating,
                   closed, events, writer, nWritten, nCommands, silent, overtaken,
                   inherited, prompted>>

\* Mutant: only events from later conversations count.
NotLater(e) == e.id <= currentConversationId[publisher]

Obsolete(e) == e.id # currentConversationId[publisher]

\* A thread takes an event to the handler; RtmpPublisher.handle compares the conversations.
Handle(t) ==
    /\ pc[t] = "idle"
    /\ \E e \in events :
          /\ events' = events \ {e}
          /\ IF Obsolete(e)
             THEN UNCHANGED <<pc, writer>>
             ELSE /\ pc' = [pc EXCEPT ![t] = "write"]
                  /\ writer' = [writer EXCEPT ![t] = publisher]
    /\ UNCHANGED <<side, open, publisher, currentConversationId, paused, fileVars, seekTo,
                   nWritten, nCommands, silent, expected, overtaken, inherited, unkeyed,
                   prompted>>

AtEnd(p) ==
    ~HasNext(p) \/ (playLength[p] >= 0 /\ timePosition[p] > seekTime[p] + playLength[p])

\* write: the next message and its event; the server may set an aggregate duration, and
\* the message holds several frames.
WriteMessage(p) ==
    /\ \E aggregate \in (IF side = "server" THEN BOOLEAN ELSE {FALSE}) :
          /\ aggregating' = [aggregating EXCEPT ![p] = aggregate]
          /\ \E n \in 1..(LastFrame + 1 - position[p]) :
                /\ aggregate \/ n = 1
                /\ position' = [position EXCEPT ![p] = @ + n]
                /\ expected' = [expected EXCEPT ![p] = position[p] + n]
    /\ timePosition' = [timePosition EXCEPT ![p] = position[p]]
    /\ nWritten' = nWritten + 1
    /\ events' = events \cup {Event(currentConversationId[p], nWritten + 1)}
    /\ UNCHANGED <<currentConversationId, silent, overtaken, inherited>>

\* stop: the stop messages.
WriteStop(t, p) ==
    /\ NextConversation(t, p)
    /\ silent' = [silent EXCEPT ![p] = TRUE]
    /\ UNCHANGED <<position, expected, timePosition, aggregating, nWritten, events>>

\* RtmpPublisher.write; on a closed reader it throws.
Write(t) ==
    /\ pc[t] = "write"
    /\ LET p == writer[t] IN
          \/ /\ ~closed[p] /\ ~AtEnd(p) /\ WriteMessage(p)
          \/ /\ ~closed[p] /\ AtEnd(p) /\ WriteStop(t, p)
          \/ /\ closed[p]
             /\ UNCHANGED <<currentConversationId, silent, overtaken, inherited, position,
                            expected, timePosition, aggregating, nWritten, events>>
    /\ pc' = [pc EXCEPT ![t] = "idle"]
    /\ writer' = [writer EXCEPT ![t] = None]
    /\ UNCHANGED <<side, open, publisher, paused, playLength, seekTime, closed, seekTo,
                   nCommands, unkeyed, prompted>>

-----------------------------------------------------------------------------
(* The handlers: a message from the peer, in the I/O thread                *)

Message ==
    /\ open /\ pc["io"] = "idle"
    /\ nCommands < MaxCommands
    /\ nCommands' = nCommands + 1
    /\ UNCHANGED <<side, open, position, seekTime, timePosition, aggregating, closed, events,
                   nWritten, unkeyed>>

\* Those of a message: none, or up to behind the end of the file.
SeekTimes == {NoSeek} \cup (0..(LastFrame + 1))

\* ServerHandler.playResponse, for a file that is not the current one.
PlayOther ==
    /\ side = "server"
    /\ Message
    /\ publisher + 1 \in Publishers
    /\ publisher' = publisher + 1
    /\ \E l \in PlayLengths : playLength' = [playLength EXCEPT ![publisher + 1] = l]
    /\ \E t \in SeekTimes : Start(publisher + 1, t)
    /\ UNCHANGED prompted

\* ServerHandler.playResponse, for the current file again.
PlayAgain ==
    /\ side = "server" /\ publisher # None
    /\ Message
    /\ \E l \in PlayLengths : playLength' = [playLength EXCEPT ![publisher] = l]
    /\ \E t \in SeekTimes : Start(publisher, t)
    /\ UNCHANGED <<publisher, prompted>>

\* ServerHandler.pauseResponse: RtmpPublisher.pause.
Pause ==
    /\ side = "server" /\ publisher # None
    /\ Message
    /\ paused' = [paused EXCEPT ![publisher] = TRUE]
    /\ NextConversation("io", publisher)
    /\ silent' = [silent EXCEPT ![publisher] = TRUE]
    /\ UNCHANGED <<publisher, playLength, threadVars, expected, prompted>>

\* ServerHandler.pauseResponse: unpause.
Unpause ==
    /\ side = "server" /\ publisher # None
    /\ Message
    /\ \E t \in SeekTimes \ {NoSeek} : Start(publisher, t)
    /\ UNCHANGED <<publisher, playLength, prompted>>

\* ServerHandler.seekResponse; ignored when paused.
Seek ==
    /\ side = "server" /\ publisher # None
    /\ ~paused[publisher]
    /\ Message
    /\ \E t \in SeekTimes \ {NoSeek} : Start(publisher, t)
    /\ UNCHANGED <<publisher, playLength, prompted>>

\* ClientHandler: the stream is created, and its publisher.
Create ==
    /\ side = "client" /\ publisher = None /\ 1 \in Publishers
    /\ Message
    /\ publisher' = 1
    /\ UNCHANGED <<currentConversationId, paused, playLength, threadVars, silent, expected,
                   overtaken, inherited, prompted>>

\* ClientHandler: stream begin, and the status of a publish that has started.
Begin ==
    /\ side = "client" /\ publisher # None
    /\ Message
    /\ \E l \in PlayLengths : playLength' = [playLength EXCEPT ![publisher] = l]
    /\ \E t \in SeekTimes : Start(publisher, t)
    /\ UNCHANGED <<publisher, prompted>>

\* ClientHandler: any other message makes a started publisher write.
Prompt ==
    /\ side = "client" /\ publisher # None
    /\ Message
    /\ currentConversationId[publisher] > 0
    /\ pc' = [pc EXCEPT !["io"] = "write"]
    /\ writer' = [writer EXCEPT !["io"] = publisher]
    /\ prompted' = TRUE
    /\ UNCHANGED <<publisher, currentConversationId, paused, playLength, seekTo, silent,
                   expected, overtaken, inherited>>

\* channelClosed: RtmpPublisher.close.  What waits to be handled is dropped: a write for it
\* would throw.
Close ==
    /\ open /\ pc["io"] = "idle"
    /\ open' = FALSE
    /\ closed' = [p \in Publishers |-> closed[p] \/ p = publisher]
    /\ events' = {}
    /\ UNCHANGED <<side, publisher, currentConversationId, paused, playLength, seekTime,
                   timePosition, position, aggregating, threadVars, nWritten, nCommands, silent,
                   expected, overtaken, inherited, unkeyed, prompted>>

-----------------------------------------------------------------------------

Peer ==
    \/ PlayOther \/ PlayAgain \/ Pause \/ Unpause \/ Seek
    \/ Create \/ Begin \/ Prompt
    \/ Close

Working == StartSeek \/ \E t \in Threads : Handle(t) \/ Write(t)

PublisherNext == Peer \/ Working

\* Writes complete, the timer fires, and what they fire is handled.
PublisherSpec == PublisherInit /\ [][PublisherNext]_publisherVars /\ WF_publisherVars(Working)

-----------------------------------------------------------------------------

PublisherTypeOK ==
    /\ side \in {"server", "client"} /\ open \in BOOLEAN
    /\ publisher \in Publishers \cup {None}
    /\ currentConversationId \in [Publishers -> Nat]
    /\ paused \in [Publishers -> BOOLEAN] /\ closed \in [Publishers -> BOOLEAN]
    /\ aggregating \in [Publishers -> BOOLEAN]
    /\ playLength \in [Publishers -> PlayLengths]
    /\ seekTime \in [Publishers -> 0..LastFrame]
    /\ timePosition \in [Publishers -> 0..LastFrame]
    /\ position \in [Publishers -> 0..(LastFrame + 1)]
    /\ events \subseteq [id : Nat, n : 1..nWritten]
    /\ pc \in [Threads -> {"idle", "seek", "write"}] /\ pc["timer"] # "seek"
    /\ writer \in [Threads -> Publishers \cup {None}]
    /\ \A t \in Threads : pc[t] # "idle" => writer[t] # None
    /\ seekTo \in SeekTimes
    /\ nWritten \in Nat /\ nCommands \in 0..MaxCommands
    /\ silent \in [Publishers -> BOOLEAN]
    /\ expected \in [Publishers -> {NoSeek} \cup 0..(LastFrame + 1)]
    /\ overtaken \in BOOLEAN /\ inherited \in BOOLEAN /\ prompted \in BOOLEAN
    /\ unkeyed \in BOOLEAN

\* What will make the next write: the threads about to write, and the events that count.
Writing == {t \in Threads : pc[t] # "idle"}
Current == {e \in events : e.id = currentConversationId[publisher]}

\* A publisher makes one write after another, and none when it is paused or at the end:
\* as long as no conversation began while the other thread was between the comparison and
\* the write, no event of an older publisher has a number that comes again, and no other
\* message made the client write.
OneChain ==
    publisher # None /\ ~overtaken /\ ~inherited /\ ~prompted =>
        /\ \A t, u \in Writing : t = u
        /\ \A e, f \in Current : e = f
        /\ Writing = {} \/ Current = {}
        /\ silent[publisher] => Writing = {} /\ Current = {}

\* A conversation that was started and neither paused nor ended always has a write to come,
\* whatever numbers were mixed up.
ChainAlive ==
    publisher # None /\ ~silent[publisher] /\ ~closed[publisher] =>
        Current # {} \/ \E t \in Writing : writer[t] = publisher

\* A conversation sends the frames in their order, from the one whose time its seek has
\* reported: no frame of the old position gets in before the seek, and no seek or aggregate
\* moves the reader under its feet; with the first two of these exceptions, and unless a
\* seek by aggregates found no key frame.
InOrder ==
    overtaken \/ inherited \/ unkeyed
    \/ \A p \in Publishers : expected[p] \in {NoSeek, position[p]}

=============================================================================
