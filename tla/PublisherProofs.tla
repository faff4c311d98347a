---------------------------- MODULE PublisherProofs ----------------------------
(***************************************************************************)
(* RtmpPublisher for any file, any number of publishers and any sequence   *)
(* of messages.  The argument counts what will make the next write: a      *)
(* thread between the comparison and the write, or an event with the       *)
(* number of the conversation.  At most one of the two exists as long as   *)
(* the numbers tell the conversations apart.                               *)
(***************************************************************************)
EXTENDS Publisher, TLAPS

\* The numbers tell the conversations apart.
Apart == ~overtaken /\ ~inherited

\* Before the first publisher there is nothing to handle.
Unused ==
    publisher = None =>
        /\ events = {} /\ Writing = {}
        /\ \A p \in Publishers : silent[p]

\* Who is about to write writes for the handler's publisher.
WritesForCurrent ==
    publisher # None /\ Apart /\ ~prompted => \A t \in Writing : writer[t] = publisher

\* Between the start of a conversation and its seek nobody else writes.
Seeking ==
    Apart /\ pc["io"] = "seek" =>
        /\ pc["timer"] = "idle" /\ Current = {}
        /\ writer["io"] = publisher /\ expected[publisher] = NoSeek

PublisherInv ==
    /\ PublisherTypeOK
    /\ Unused
    /\ WritesForCurrent
    /\ Seeking
    /\ OneChain
    /\ ChainAlive
    /\ InOrder

USE PublisherAssumption DEF PublisherAssumption, None, NoSeek, Threads

-----------------------------------------------------------------------------
(* Data.                                                                   *)

\* A function changed at one place.
LEMMA FunctionUpdate ==
  ASSUME NEW A, NEW B, NEW f \in [A -> B], NEW a, NEW b \in B
  PROVE  /\ [f EXCEPT ![a] = b] \in [A -> B]
         /\ \A x \in A : [f EXCEPT ![a] = b][x] = IF x = a THEN b ELSE f[x]
  BY ONLY f \in [A -> B], b \in B

\* A seek looks for a key frame from the time asked for or later.
LEMMA CheckpointsTyped ==
  ASSUME PublisherTypeOK, NEW p \in Publishers, NEW t \in 0..(LastFrame + 1),
         NEW c \in Checkpoints(p, t)
  PROVE  c \in 0..(LastFrame + 1) /\ t <= c
<1> DEFINE first == IF position[p] = t /\ HasNext(p) THEN t
                    ELSE IF t < LastFrame THEN t + 1 ELSE LastFrame + 1
<1>1. c \in IF aggregating[p] THEN first..(LastFrame + 1) ELSE {first}
  BY DEF Checkpoints
<1>2. first \in 0..(LastFrame + 1) /\ t <= first
  OBVIOUS
<1> HIDE DEF first
<1>3. c \in first..(LastFrame + 1)
  BY <1>1, <1>2
<1>4. QED  BY <1>2, <1>3

\* A seek leads into the file, or behind its last frame, and reports the time of a frame.
LEMMA SeeksTyped ==
  ASSUME PublisherTypeOK, NEW p \in Publishers, NEW t \in 0..(LastFrame + 1),
         NEW s \in Seeks(p, t)
  PROVE  s.position \in 0..(LastFrame + 1) /\ s.time \in 0..LastFrame
<1>1. CASE t = 0
  <2>1. s = [position |-> 0, time |-> 0]  BY <1>1 DEF Seeks
  <2>2. QED  BY <2>1
<1>2. CASE t # 0
  <2>1. PICK c \in Checkpoints(p, t) : s \in FoundFrom(p, c)
    BY <1>2 DEF Seeks
  <2>2. c \in 0..(LastFrame + 1)  BY CheckpointsTyped
  <2>3. CASE SyncBefore(p, c) = {}
    <3>1. PICK q \in AfterTime(p, c) : s = [position |-> q, time |-> TimeAt(c)]
      BY <2>1, <2>3 DEF FoundFrom
    <3>2. q \in 0..(LastFrame + 1)  BY <2>2 DEF AfterTime
    <3>3. TimeAt(c) \in 0..LastFrame  BY <2>2 DEF TimeAt
    <3>4. QED  BY <3>1, <3>2, <3>3
  <2>4. CASE SyncBefore(p, c) # {}
    <3>1. PICK k \in SyncBefore(p, c) : s = [position |-> k, time |-> k]
      BY <2>1, <2>4 DEF FoundFrom
    <3>2. k \in 0..LastFrame  BY DEF SyncBefore
    <3>3. k \in 0..(LastFrame + 1)  BY <3>2
    <3>4. QED  BY <3>1, <3>2, <3>3
  <2>5. QED  BY <2>3, <2>4
<1>3. QED  BY <1>1, <1>2

\* The frame a seek reports is the one it leads to, or it leads behind the last one; by
\* aggregates only where there is a key frame to go back to.
LEMMA SeekReports ==
  ASSUME PublisherTypeOK, NEW p \in Publishers, NEW t \in 0..(LastFrame + 1),
         t = 0 \/ ~aggregating[p] \/ SyncBefore(p, t) # {},
         NEW s \in Seeks(p, t)
  PROVE  s.position > LastFrame \/ s.time = s.position
<1>1. CASE t = 0
  <2>1. s = [position |-> 0, time |-> 0]  BY <1>1 DEF Seeks
  <2>2. QED  BY <2>1
<1>2. CASE t # 0
  <2>1. PICK c \in Checkpoints(p, t) : s \in FoundFrom(p, c)
    BY <1>2 DEF Seeks
  <2>2. c \in 0..(LastFrame + 1) /\ t <= c  BY CheckpointsTyped
  <2>3. CASE SyncBefore(p, c) = {}
    <3>1. SyncBefore(p, t) \subseteq SyncBefore(p, c)
      <4>1. \A k \in 0..LastFrame : k < t => k < c  BY <2>2
      <4>2. QED  BY <4>1 DEF SyncBefore
    <3>2. ~aggregating[p]  BY <1>2, <2>3, <3>1
    <3>3. s = [position |-> c, time |-> TimeAt(c)]
      BY <2>1, <2>3, <3>2 DEF FoundFrom, AfterTime
    <3>4. c > LastFrame \/ TimeAt(c) = c  BY <2>2 DEF TimeAt
    <3>5. QED  BY <3>3, <3>4
  <2>4. CASE SyncBefore(p, c) # {}
    <3>1. PICK k \in SyncBefore(p, c) : s = [position |-> k, time |-> k]
      BY <2>1, <2>4 DEF FoundFrom
    <3>2. QED  BY <3>1
  <2>5. QED  BY <2>3, <2>4
<1>3. QED  BY <1>1, <1>2

\* A new conversation of p, begun by thread t.
LEMMA NextFacts ==
  ASSUME PublisherTypeOK, NEW t \in Threads, NEW p \in Publishers, NextConversation(t, p)
  PROVE  /\ currentConversationId' \in [Publishers -> Nat]
         /\ currentConversationId'[p] = currentConversationId[p] + 1
         /\ \A q \in Publishers : q # p => currentConversationId'[q] = currentConversationId[q]
         /\ overtaken' \in BOOLEAN /\ inherited' \in BOOLEAN
         /\ ~overtaken' => ~overtaken /\ \A u \in Threads : u # t => pc[u] = "idle"
         /\ ~inherited' => ~inherited /\ \A e \in events : e.id # currentConversationId'[p]
<1> USE DEF NextConversation
<1>1. currentConversationId \in [Publishers -> Nat]  BY DEF PublisherTypeOK
<1>2. currentConversationId[p] + 1 \in Nat  BY <1>1
<1>3. currentConversationId' = [currentConversationId EXCEPT ![p] = currentConversationId[p] + 1]
  OBVIOUS
<1>4. /\ currentConversationId' \in [Publishers -> Nat]
      /\ \A q \in Publishers : currentConversationId'[q] =
             IF q = p THEN currentConversationId[p] + 1 ELSE currentConversationId[q]
  BY <1>1, <1>2, <1>3, FunctionUpdate
<1>5. overtaken' \in BOOLEAN /\ inherited' \in BOOLEAN  BY Zenon
<1>6. ~overtaken' => ~overtaken /\ \A u \in Threads : u # t => pc[u] = "idle"  BY Zenon
<1>7. ~inherited' => ~inherited /\ \A e \in events : e.id # currentConversationId[p] + 1  BY Zenon
<1>8. QED  BY <1>4, <1>5, <1>6, <1>7

-----------------------------------------------------------------------------
(* The steps.                                                              *)

\* Nothing has happened.
LEMMA PublisherInitInv == PublisherInit => PublisherInv
<1> SUFFICES ASSUME PublisherInit  PROVE PublisherInv  OBVIOUS
<1> USE DEF PublisherInit
<1>1. PublisherTypeOK
  <2>1. side \in {"server", "client"} /\ open \in BOOLEAN /\ publisher \in Publishers \cup {None}
        /\ overtaken \in BOOLEAN /\ inherited \in BOOLEAN /\ prompted \in BOOLEAN
        /\ unkeyed \in BOOLEAN
    OBVIOUS
  <2>2. /\ nWritten \in Nat /\ nCommands \in 0..MaxCommands /\ seekTo \in SeekTimes
        /\ events \subseteq [id : Nat, n : 1..nWritten]
    BY DEF SeekTimes
  <2>3. currentConversationId \in [Publishers -> Nat]  OBVIOUS
  <2>4. paused \in [Publishers -> BOOLEAN] /\ closed \in [Publishers -> BOOLEAN]
        /\ silent \in [Publishers -> BOOLEAN] /\ aggregating \in [Publishers -> BOOLEAN]
    OBVIOUS
  <2>5. playLength \in [Publishers -> PlayLengths]  BY DEF PlayLengths
  <2>6. 0 \in 0..LastFrame /\ 0 \in 0..(LastFrame + 1)  OBVIOUS
  <2>7. seekTime \in [Publishers -> 0..LastFrame] /\ timePosition \in [Publishers -> 0..LastFrame]
    BY <2>6
  <2>8. position \in [Publishers -> 0..(LastFrame + 1)]  BY <2>6
  <2>9. expected \in [Publishers -> {NoSeek} \cup 0..(LastFrame + 1)]  OBVIOUS
  <2>10. pc \in [Threads -> {"idle", "seek", "write"}]  OBVIOUS
  <2>11. writer \in [Threads -> Publishers \cup {None}]  OBVIOUS
  <2>12. pc["timer"] # "seek" /\ \A t \in Threads : pc[t] # "idle" => writer[t] # None  OBVIOUS
  <2>13. QED
    BY <2>1, <2>2, <2>3, <2>4, <2>5, <2>7, <2>8, <2>9, <2>10, <2>11, <2>12 DEF PublisherTypeOK
<1>2. Unused  BY DEF Unused, Writing
<1>3. WritesForCurrent /\ OneChain /\ ChainAlive
  BY DEF WritesForCurrent, OneChain, ChainAlive
<1>4. Seeking  BY DEF Seeking
<1>5. InOrder  BY DEF InOrder
<1>6. QED  BY <1>1, <1>2, <1>3, <1>4, <1>5 DEF PublisherInv

\* A start, by whichever message: a fresh conversation about to seek, and nobody else.
LEMMA StartInv ==
  ASSUME PublisherInv, NEW p \in Publishers, NEW t \in SeekTimes, Start(p, t),
         publisher' = p, Message,
         playLength' \in [Publishers -> PlayLengths],
         UNCHANGED prompted
  PROVE  PublisherInv'
<1> USE DEF PublisherInv
<1>1. /\ paused' = [paused EXCEPT ![p] = FALSE] /\ NextConversation("io", p)
      /\ silent' = [silent EXCEPT ![p] = FALSE] /\ expected' = [expected EXCEPT ![p] = NoSeek]
      /\ pc' = [pc EXCEPT !["io"] = "seek"] /\ writer' = [writer EXCEPT !["io"] = p]
      /\ seekTo' = t
  BY DEF Start
<1>2. /\ pc["io"] = "idle" /\ nCommands < MaxCommands /\ nCommands' = nCommands + 1
      /\ UNCHANGED <<side, open, position, seekTime, timePosition, aggregating, closed, events,
                     nWritten, unkeyed>>
  BY DEF Message
<1>3. /\ currentConversationId' \in [Publishers -> Nat]
      /\ overtaken' \in BOOLEAN /\ inherited' \in BOOLEAN
      /\ ~overtaken' => ~overtaken /\ \A u \in Threads : u # "io" => pc[u] = "idle"
      /\ ~inherited' => ~inherited /\ \A e \in events : e.id # currentConversationId'[p]
  BY <1>1, NextFacts
<1>4. /\ pc' \in [Threads -> {"idle", "seek", "write"}]
      /\ pc'["io"] = "seek" /\ pc'["timer"] = pc["timer"]
  BY <1>1 DEF PublisherTypeOK
<1>5. /\ writer' \in [Threads -> Publishers \cup {None}]
      /\ writer'["io"] = p /\ writer'["timer"] = writer["timer"] /\ p # None
  BY <1>1 DEF PublisherTypeOK
<1>6. /\ silent' \in [Publishers -> BOOLEAN] /\ ~silent'[p]
  BY <1>1 DEF PublisherTypeOK
<1>7. /\ expected' \in [Publishers -> {NoSeek} \cup 0..(LastFrame + 1)]
      /\ \A q \in Publishers : expected'[q] = IF q = p THEN NoSeek ELSE expected[q]
  <2>1. expected \in [Publishers -> {NoSeek} \cup 0..(LastFrame + 1)]
        /\ NoSeek \in {NoSeek} \cup 0..(LastFrame + 1)
    BY DEF PublisherTypeOK
  <2>2. QED  BY <1>1, <2>1, FunctionUpdate
<1>8. paused' \in [Publishers -> BOOLEAN]  BY <1>1 DEF PublisherTypeOK
<1>9. nCommands' \in 0..MaxCommands  BY <1>2 DEF PublisherTypeOK
<1>10. PublisherTypeOK'
  <2>1. \A u \in Threads : pc'[u] # "idle" => writer'[u] # None
    BY <1>4, <1>5 DEF PublisherTypeOK
  <2>2. pc'["timer"] # "seek"  BY <1>4 DEF PublisherTypeOK
  <2>3. /\ publisher' \in Publishers \cup {None} /\ prompted' \in BOOLEAN
        /\ side' \in {"server", "client"}
        /\ open' \in BOOLEAN /\ seekTo' \in SeekTimes /\ nWritten' \in Nat
        /\ unkeyed' \in BOOLEAN /\ aggregating' \in [Publishers -> BOOLEAN]
    BY <1>1, <1>2 DEF PublisherTypeOK
  <2>4. /\ position' \in [Publishers -> 0..(LastFrame + 1)] /\ closed' \in [Publishers -> BOOLEAN]
        /\ seekTime' \in [Publishers -> 0..LastFrame]
        /\ timePosition' \in [Publishers -> 0..LastFrame]
        /\ events' \subseteq [id : Nat, n : 1..nWritten']
    BY <1>2 DEF PublisherTypeOK
  <2>5. QED
    BY <1>3, <1>4, <1>5, <1>6, <1>7, <1>8, <1>9, <2>1, <2>2, <2>3, <2>4 DEF PublisherTypeOK
<1>11. Unused'  BY <1>5 DEF Unused
\* The new conversation has no event, and the timer is idle, while numbers tell them apart.
<1>12. Apart' => /\ Apart /\ pc'["timer"] = "idle" /\ Current' = {}
                 /\ \A u \in Threads : u \in Writing' <=> u = "io"
  <2> HAVE Apart'
  <2>1. ~overtaken' /\ ~inherited'  BY DEF Apart
  <2>2. Apart /\ pc["timer"] = "idle"  BY <1>3, <2>1 DEF Apart
  <2>3. Current' = {}  BY <1>2, <1>3, <2>1 DEF Current
  <2>4. QED  BY <1>4, <2>2, <2>3 DEF Writing
<1>13. WritesForCurrent'  BY <1>5, <1>12 DEF WritesForCurrent, Writing
<1>14. Seeking'  BY <1>5, <1>7, <1>12 DEF Seeking
<1>15. OneChain'
  <2>1. (~overtaken' /\ ~inherited') <=> Apart'  BY DEF Apart
  <2>2. Writing' \subseteq Threads  BY DEF Writing
  <2>3. QED  BY <1>6, <1>12, <2>1, <2>2 DEF OneChain
<1>16. ChainAlive'
  <2>1. "io" \in Writing' /\ writer'["io"] = publisher'  BY <1>4, <1>5 DEF Writing
  <2>2. QED  BY <2>1 DEF ChainAlive
<1>17. InOrder'  BY <1>2, <1>3, <1>7 DEF InOrder
<1>18. QED  BY <1>10, <1>11, <1>13, <1>14, <1>15, <1>16, <1>17

\* The messages that start.
LEMMA StartsInv ==
  ASSUME PublisherInv, PlayOther \/ PlayAgain \/ Unpause \/ Seek \/ Begin
  PROVE  PublisherInv'
<1>0. playLength \in [Publishers -> PlayLengths]
      /\ publisher \in Publishers \cup {None}
  BY DEF PublisherInv, PublisherTypeOK, SeekTimes
<1>1. CASE PlayOther
  <2>1. PICK l \in PlayLengths : playLength' = [playLength EXCEPT ![publisher + 1] = l]
    BY <1>1 DEF PlayOther
  <2>2. PICK t \in SeekTimes : Start(publisher + 1, t)  BY <1>1 DEF PlayOther
  <2>3. playLength' \in [Publishers -> PlayLengths]  BY <1>0, <2>1, FunctionUpdate
  <2>4. Message /\ publisher + 1 \in Publishers /\ publisher' = publisher + 1
        /\ UNCHANGED prompted
    BY <1>1 DEF PlayOther
  <2>5. QED  BY <2>2, <2>3, <2>4, StartInv
<1>2. CASE PlayAgain
  <2>1. PICK l \in PlayLengths : playLength' = [playLength EXCEPT ![publisher] = l]
    BY <1>2 DEF PlayAgain
  <2>2. PICK t \in SeekTimes : Start(publisher, t)  BY <1>2 DEF PlayAgain
  <2>3. playLength' \in [Publishers -> PlayLengths]  BY <1>0, <2>1, FunctionUpdate
  <2>4. Message /\ publisher \in Publishers /\ publisher' = publisher /\ UNCHANGED prompted
    BY <1>0, <1>2 DEF PlayAgain
  <2>5. QED  BY <2>2, <2>3, <2>4, StartInv
<1>3. CASE Unpause
  <2>1. PICK t \in SeekTimes : Start(publisher, t)  BY <1>3 DEF Unpause
  <2>2. Message /\ publisher \in Publishers /\ UNCHANGED <<publisher, playLength, prompted>>
    BY <1>0, <1>3 DEF Unpause
  <2>3. QED  BY <1>0, <2>1, <2>2, StartInv
<1>4. CASE Seek
  <2>1. PICK t \in SeekTimes : Start(publisher, t)  BY <1>4 DEF Seek
  <2>2. Message /\ publisher \in Publishers /\ UNCHANGED <<publisher, playLength, prompted>>
    BY <1>0, <1>4 DEF Seek
  <2>3. QED  BY <1>0, <2>1, <2>2, StartInv
<1>5. CASE Begin
  <2>1. PICK l \in PlayLengths : playLength' = [playLength EXCEPT ![publisher] = l]
    BY <1>5 DEF Begin
  <2>2. PICK t \in SeekTimes : Start(publisher, t)  BY <1>5 DEF Begin
  <2>3. playLength' \in [Publishers -> PlayLengths]  BY <1>0, <2>1, FunctionUpdate
  <2>4. Message /\ publisher \in Publishers /\ publisher' = publisher /\ UNCHANGED prompted
    BY <1>0, <1>5 DEF Begin
  <2>5. QED  BY <2>2, <2>3, <2>4, StartInv
<1>6. QED  BY <1>1, <1>2, <1>3, <1>4, <1>5

\* A pause: the conversation it begins has nothing to write.
LEMMA PauseInv ==
  ASSUME PublisherInv, Pause
  PROVE  PublisherInv'
<1> USE DEF PublisherInv
<1>1. /\ publisher # None /\ pc["io"] = "idle"
      /\ nCommands < MaxCommands /\ nCommands' = nCommands + 1
      /\ paused' = [paused EXCEPT ![publisher] = TRUE] /\ NextConversation("io", publisher)
      /\ silent' = [silent EXCEPT ![publisher] = TRUE]
      /\ UNCHANGED <<side, open, publisher, playLength, seekTime, timePosition, position,
                     aggregating, closed, events, pc, writer, seekTo, nWritten, expected,
                     unkeyed, prompted>>
  BY DEF Pause, Message, threadVars
<1>2. publisher \in Publishers  BY <1>1 DEF PublisherTypeOK
<1>3. /\ currentConversationId' \in [Publishers -> Nat]
      /\ overtaken' \in BOOLEAN /\ inherited' \in BOOLEAN
      /\ ~overtaken' => ~overtaken /\ \A u \in Threads : u # "io" => pc[u] = "idle"
      /\ ~inherited' => ~inherited /\ \A e \in events : e.id # currentConversationId'[publisher]
  BY <1>1, <1>2, NextFacts
<1>4. /\ paused' \in [Publishers -> BOOLEAN] /\ silent' \in [Publishers -> BOOLEAN]
      /\ silent'[publisher] /\ nCommands' \in 0..MaxCommands
  BY <1>1, <1>2 DEF PublisherTypeOK
<1>5. PublisherTypeOK'  BY <1>1, <1>3, <1>4 DEF PublisherTypeOK
<1>6. Unused'  BY <1>1 DEF Unused
<1>7. ~overtaken' /\ ~inherited' => Writing' = {} /\ Current' = {}
  BY <1>1, <1>3 DEF Writing, Current
<1>8. WritesForCurrent'  BY <1>7 DEF WritesForCurrent, Apart
<1>9. Seeking'  BY <1>1 DEF Seeking
<1>10. OneChain'  BY <1>7 DEF OneChain
<1>11. ChainAlive'  BY <1>1, <1>4 DEF ChainAlive
<1>12. InOrder'  BY <1>1, <1>3 DEF InOrder
<1>13. QED  BY <1>5, <1>6, <1>8, <1>9, <1>10, <1>11, <1>12

\* The client's publisher is made, and does nothing yet.
LEMMA CreateInv ==
  ASSUME PublisherInv, Create
  PROVE  PublisherInv'
<1> USE DEF PublisherInv
<1>1. /\ publisher = None /\ publisher' = 1 /\ 1 \in Publishers /\ pc["io"] = "idle"
      /\ nCommands < MaxCommands /\ nCommands' = nCommands + 1
      /\ UNCHANGED <<side, open, currentConversationId, paused, playLength, seekTime,
                     timePosition, position, aggregating, closed, events, pc, writer, seekTo,
                     nWritten, silent, expected, overtaken, inherited, unkeyed, prompted>>
  BY DEF Create, Message, threadVars
<1>2. events = {} /\ Writing = {} /\ silent[1]  BY <1>1 DEF Unused
<1>3. Writing' = {} /\ Current' = {}  BY <1>1, <1>2 DEF Writing, Current
<1>4. PublisherTypeOK'
  <2>1. nCommands' \in 0..MaxCommands  BY <1>1 DEF PublisherTypeOK
  <2>2. QED  BY <1>1, <2>1 DEF PublisherTypeOK
<1>5. Unused'  BY <1>1 DEF Unused
<1>6. WritesForCurrent'  BY <1>3 DEF WritesForCurrent
<1>7. Seeking'  BY <1>1 DEF Seeking
<1>8. OneChain'  BY <1>3 DEF OneChain
<1>9. ChainAlive'  BY <1>1, <1>2 DEF ChainAlive
<1>10. InOrder'  BY <1>1 DEF InOrder
<1>11. QED  BY <1>4, <1>5, <1>6, <1>7, <1>8, <1>9, <1>10

\* A message makes the client write: the history remembers it.
LEMMA PromptInv ==
  ASSUME PublisherInv, Prompt
  PROVE  PublisherInv'
<1> USE DEF PublisherInv
<1>1. /\ publisher # None /\ pc["io"] = "idle" /\ prompted' = TRUE
      /\ nCommands < MaxCommands /\ nCommands' = nCommands + 1
      /\ pc' = [pc EXCEPT !["io"] = "write"] /\ writer' = [writer EXCEPT !["io"] = publisher]
      /\ UNCHANGED <<side, open, publisher, currentConversationId, paused, playLength, seekTime,
                     timePosition, position, aggregating, closed, events, seekTo, nWritten,
                     silent, expected, overtaken, inherited, unkeyed>>
  BY DEF Prompt, Message
<1>2. publisher \in Publishers  BY <1>1 DEF PublisherTypeOK
<1>3. /\ pc' \in [Threads -> {"idle", "seek", "write"}]
      /\ pc'["io"] = "write" /\ pc'["timer"] = pc["timer"]
      /\ writer' \in [Threads -> Publishers \cup {None}]
      /\ writer'["io"] = publisher /\ writer'["timer"] = writer["timer"]
  BY <1>1, <1>2 DEF PublisherTypeOK
<1>4. PublisherTypeOK'
  <2>1. nCommands' \in 0..MaxCommands  BY <1>1 DEF PublisherTypeOK
  <2>2. pc'["timer"] # "seek" /\ \A u \in Threads : pc'[u] # "idle" => writer'[u] # None
    BY <1>1, <1>3 DEF PublisherTypeOK
  <2>3. prompted' \in BOOLEAN  BY <1>1
  <2>4. QED  BY <1>1, <1>3, <2>1, <2>2, <2>3 DEF PublisherTypeOK
<1>5. Unused'  BY <1>1 DEF Unused
<1>6. WritesForCurrent' /\ OneChain'  BY <1>1 DEF WritesForCurrent, OneChain
<1>7. Seeking'  BY <1>3 DEF Seeking
<1>8. ChainAlive'
  <2>1. "io" \in Writing'  BY <1>3 DEF Writing
  <2>2. QED  BY <1>1, <1>3, <2>1 DEF ChainAlive
<1>9. InOrder'  BY <1>1 DEF InOrder
<1>10. QED  BY <1>4, <1>5, <1>6, <1>7, <1>8, <1>9

\* The channel is closed, and with it the handler's publisher.
LEMMA CloseInv ==
  ASSUME PublisherInv, Close
  PROVE  PublisherInv'
<1> USE DEF PublisherInv
<1>1. /\ pc["io"] = "idle" /\ open' = FALSE /\ events' = {}
      /\ closed' = [p \in Publishers |-> closed[p] \/ p = publisher]
      /\ UNCHANGED <<side, publisher, currentConversationId, paused, playLength, seekTime,
                     timePosition, position, aggregating, pc, writer, seekTo, nWritten,
                     nCommands, silent, expected, overtaken, inherited, unkeyed, prompted>>
  BY DEF Close, threadVars
<1>2. closed' \in [Publishers -> BOOLEAN]
  <2>1. \A p \in Publishers : (closed[p] \/ p = publisher) \in BOOLEAN  BY Zenon
  <2>2. QED  BY <1>1, <2>1
<1>3. PublisherTypeOK'  BY <1>1, <1>2 DEF PublisherTypeOK
<1>4. Unused'  BY <1>1 DEF Unused, Writing
<1>5. Writing' = Writing /\ Current' = {}  BY <1>1 DEF Writing, Current
<1>6. WritesForCurrent'  BY <1>1, <1>5 DEF WritesForCurrent, Apart
<1>7. Seeking'  BY <1>1 DEF Seeking
<1>8. OneChain'  BY <1>1, <1>5 DEF OneChain
<1>9. ChainAlive'
  <2>1. publisher # None => publisher \in Publishers  BY DEF PublisherTypeOK
  <2>2. publisher # None => closed'[publisher]  BY <1>1, <2>1
  <2>3. QED  BY <1>1, <2>2 DEF ChainAlive
<1>10. InOrder'  BY <1>1 DEF InOrder
<1>11. QED  BY <1>3, <1>4, <1>6, <1>7, <1>8, <1>9, <1>10

\* The seek of a start.
LEMMA StartSeekInv ==
  ASSUME PublisherInv, StartSeek
  PROVE  PublisherInv'
<1> DEFINE p == writer["io"]
<1> USE DEF PublisherInv
<1>1. /\ pc["io"] = "seek" /\ pc' = [pc EXCEPT !["io"] = "write"] /\ seekTo' = NoSeek
      /\ UNCHANGED <<side, open, publisher, currentConversationId, paused, playLength,
                     aggregating, closed, events, writer, nWritten, nCommands, silent,
                     overtaken, inherited, prompted>>
  BY DEF StartSeek
<1>2. PICK s \in IF seekTo >= 0 THEN Seeks(p, seekTo)
                 ELSE {[position |-> position[p], time |-> 0]} :
        /\ position' = [position EXCEPT ![p] = s.position]
        /\ seekTime' = [seekTime EXCEPT ![p] = s.time]
        /\ timePosition' = [timePosition EXCEPT ![p] = s.time]
        /\ expected' = [expected EXCEPT ![p] =
              IF expected[p] # NoSeek THEN expected[p]
              ELSE IF seekTo < 0 \/ s.position > LastFrame THEN s.position
              ELSE s.time]
  BY DEF StartSeek
<1>3. unkeyed' = (unkeyed \/ (seekTo > 0 /\ aggregating[p] /\ SyncBefore(p, seekTo) = {}))
  BY DEF StartSeek
<1>4. p \in Publishers
  BY <1>1 DEF PublisherTypeOK
<1>5. seekTo >= 0 => seekTo \in 0..(LastFrame + 1)
  BY DEF PublisherTypeOK, SeekTimes
<1>6. Apart => expected[p] = NoSeek
  BY <1>1 DEF Seeking
<1> HIDE DEF p
<1>7. s.position \in 0..(LastFrame + 1) /\ s.time \in 0..LastFrame
  <2>1. CASE seekTo >= 0
    <3>1. s \in Seeks(p, seekTo)  BY <1>2, <2>1
    <3>2. QED  BY <1>4, <1>5, <2>1, <3>1, SeeksTyped
  <2>2. CASE ~(seekTo >= 0)
    <3>1. s = [position |-> position[p], time |-> 0]  BY <1>2, <2>2
    <3>2. position[p] \in 0..(LastFrame + 1)  BY <1>4 DEF PublisherTypeOK
    <3>3. QED  BY <3>1, <3>2
  <2>3. QED  BY <2>1, <2>2
<1>8. /\ position' \in [Publishers -> 0..(LastFrame + 1)]
      /\ \A q \in Publishers : position'[q] = IF q = p THEN s.position ELSE position[q]
  <2>1. position \in [Publishers -> 0..(LastFrame + 1)]  BY DEF PublisherTypeOK
  <2>2. QED  BY <1>2, <1>7, <2>1, FunctionUpdate
<1>9. /\ seekTime' \in [Publishers -> 0..LastFrame]
      /\ timePosition' \in [Publishers -> 0..LastFrame]
  BY <1>2, <1>7 DEF PublisherTypeOK
\* What the conversation goes on with.
<1> DEFINE next == IF expected[p] # NoSeek THEN expected[p]
                   ELSE IF seekTo < 0 \/ s.position > LastFrame THEN s.position
                   ELSE s.time
<1>10. /\ expected' \in [Publishers -> {NoSeek} \cup 0..(LastFrame + 1)]
       /\ \A q \in Publishers : expected'[q] = IF q = p THEN next ELSE expected[q]
  <2>1. expected \in [Publishers -> {NoSeek} \cup 0..(LastFrame + 1)]  BY DEF PublisherTypeOK
  <2>2. next \in {NoSeek} \cup 0..(LastFrame + 1)  BY <1>4, <1>7, <2>1
  <2>3. expected' = [expected EXCEPT ![p] = next]  BY <1>2
  <2> HIDE DEF next
  <2>4. QED  BY <2>1, <2>2, <2>3, FunctionUpdate
<1>11. /\ pc' \in [Threads -> {"idle", "seek", "write"}]
       /\ pc'["io"] = "write" /\ pc'["timer"] = pc["timer"]
  BY <1>1 DEF PublisherTypeOK
<1>12. Writing' = Writing /\ Current' = Current
  <2>1. \A u \in Threads : pc'[u] # "idle" <=> pc[u] # "idle"  BY <1>1, <1>11
  <2>2. QED  BY <1>1, <2>1 DEF Writing, Current
<1> HIDE DEF next
<1>13. PublisherTypeOK'
  <2>1. pc'["timer"] # "seek" /\ \A u \in Threads : pc'[u] # "idle" => writer'[u] # None
    BY <1>1, <1>11 DEF PublisherTypeOK
  <2>2. unkeyed' \in BOOLEAN  BY <1>3, Zenon
  <2>3. seekTo' \in SeekTimes  BY <1>1 DEF SeekTimes
  <2>4. QED  BY <1>1, <1>8, <1>9, <1>10, <1>11, <2>1, <2>2, <2>3 DEF PublisherTypeOK
<1>14. Unused'  BY <1>1, <1>12 DEF Unused
<1>15. WritesForCurrent'  BY <1>1, <1>12 DEF WritesForCurrent, Apart
<1>16. Seeking'  BY <1>11 DEF Seeking
<1>17. OneChain'  BY <1>1, <1>12 DEF OneChain
<1>18. ChainAlive'  BY <1>1, <1>12 DEF ChainAlive
<1>19. InOrder'
  <2> SUFFICES ASSUME ~overtaken, ~inherited, ~unkeyed'
               PROVE  \A q \in Publishers : expected'[q] \in {NoSeek, position'[q]}
    BY <1>1 DEF InOrder
  <2>1. ~unkeyed /\ ~(seekTo > 0 /\ aggregating[p] /\ SyncBefore(p, seekTo) = {})
    BY <1>3, Zenon
  <2>2. expected[p] = NoSeek  BY <1>6 DEF Apart
  <2>3. next = s.position
    <3>1. CASE seekTo >= 0
      <4>1. s \in Seeks(p, seekTo)  BY <1>2, <3>1
      <4>2. seekTo = 0 \/ ~aggregating[p] \/ SyncBefore(p, seekTo) # {}
        BY <1>5, <2>1, <3>1
      <4>3. s.position > LastFrame \/ s.time = s.position
        BY <1>4, <1>5, <3>1, <4>1, <4>2, SeekReports
      <4>4. QED  BY <2>2, <4>3 DEF next
    <3>2. CASE ~(seekTo >= 0)
      <4>1. seekTo < 0  BY <3>2 DEF PublisherTypeOK, SeekTimes
      <4>2. QED  BY <2>2, <4>1 DEF next
    <3>3. QED  BY <3>1, <3>2
  <2>4. \A q \in Publishers : expected[q] \in {NoSeek, position[q]}
    BY <2>1 DEF InOrder
  <2>5. QED  BY <1>8, <1>10, <2>3, <2>4
<1>20. QED  BY <1>13, <1>14, <1>15, <1>16, <1>17, <1>18, <1>19

\* An event that counts becomes a write; one that does not is gone.
LEMMA HandleInv ==
  ASSUME PublisherInv, NEW t \in Threads, Handle(t)
  PROVE  PublisherInv'
<1> USE DEF PublisherInv
<1>1. PICK e \in events :
        /\ events' = events \ {e}
        /\ IF Obsolete(e)
           THEN UNCHANGED <<pc, writer>>
           ELSE /\ pc' = [pc EXCEPT ![t] = "write"]
                /\ writer' = [writer EXCEPT ![t] = publisher]
  BY DEF Handle
<1>2. /\ pc[t] = "idle"
      /\ UNCHANGED <<side, open, publisher, currentConversationId, paused, playLength, seekTime,
                     timePosition, position, aggregating, closed, seekTo, nWritten, nCommands,
                     silent, expected, overtaken, inherited, unkeyed, prompted>>
  BY DEF Handle, fileVars
<1>3. publisher # None /\ publisher \in Publishers
  BY <1>1 DEF Unused, PublisherTypeOK
<1>4. Unused' /\ InOrder'  BY <1>2, <1>3 DEF Unused, InOrder
<1>5. CASE Obsolete(e)
  <2>1. UNCHANGED <<pc, writer>> /\ events' = events \ {e}  BY <1>1, <1>5
  <2>2. Current' = Current /\ Writing' = Writing
    BY <1>2, <1>5, <2>1 DEF Current, Writing, Obsolete
  <2>3. PublisherTypeOK'  BY <1>2, <2>1 DEF PublisherTypeOK
  <2>4. WritesForCurrent'  BY <1>2, <2>1, <2>2 DEF WritesForCurrent, Apart
  <2>5. Seeking'  BY <1>2, <2>1, <2>2 DEF Seeking, Apart
  <2>6. OneChain'  BY <1>2, <2>2 DEF OneChain
  <2>7. ChainAlive'  BY <1>2, <2>1, <2>2 DEF ChainAlive
  <2>8. QED  BY <1>4, <2>3, <2>4, <2>5, <2>6, <2>7
<1>6. CASE ~Obsolete(e)
  <2>1. /\ pc' = [pc EXCEPT ![t] = "write"] /\ writer' = [writer EXCEPT ![t] = publisher]
        /\ events' = events \ {e}
    BY <1>1, <1>6
  <2>2. e \in Current  BY <1>6 DEF Obsolete, Current
  <2>3. Current' = Current \ {e}  BY <1>2, <2>1 DEF Current
  <2>4. /\ pc' \in [Threads -> {"idle", "seek", "write"}]
        /\ \A u \in Threads : pc'[u] = IF u = t THEN "write" ELSE pc[u]
    <3>1. pc \in [Threads -> {"idle", "seek", "write"}]  BY DEF PublisherTypeOK
    <3>2. "write" \in {"idle", "seek", "write"}  OBVIOUS
    <3>3. QED  BY <2>1, <3>1, <3>2, FunctionUpdate
  <2>5. /\ writer' \in [Threads -> Publishers \cup {None}]
        /\ \A u \in Threads : writer'[u] = IF u = t THEN publisher ELSE writer[u]
    <3>1. writer \in [Threads -> Publishers \cup {None}]  BY DEF PublisherTypeOK
    <3>2. publisher \in Publishers \cup {None}  BY <1>3
    <3>3. QED  BY <2>1, <3>1, <3>2, FunctionUpdate
  <2>6. Writing' = Writing \cup {t}  BY <2>4 DEF Writing
  <2>7. PublisherTypeOK'
    <3>1. pc'["timer"] # "seek" /\ \A u \in Threads : pc'[u] # "idle" => writer'[u] # None
      BY <1>3, <2>4, <2>5 DEF PublisherTypeOK
    <3>2. events' \subseteq [id : Nat, n : 1..nWritten']  BY <1>2, <2>1 DEF PublisherTypeOK
    <3>3. QED  BY <1>2, <2>4, <2>5, <3>1, <3>2 DEF PublisherTypeOK
  <2>8. ~overtaken /\ ~inherited /\ ~prompted =>
          /\ Writing = {} /\ ~silent[publisher] /\ Current' = {} /\ Writing' = {t}
    BY <1>3, <2>2, <2>3, <2>6 DEF OneChain
  <2>9. WritesForCurrent'  BY <1>2, <2>5, <2>8 DEF WritesForCurrent, Apart
  <2>10. Seeking'
    <3>1. Apart => pc["io"] # "seek"  BY <2>2 DEF Seeking
    <3>2. Apart' <=> Apart  BY <1>2 DEF Apart
    <3>3. pc'["io"] = "seek" => pc["io"] = "seek"  BY <2>4
    <3>4. QED  BY <3>1, <3>2, <3>3 DEF Seeking
  <2>11. OneChain'  BY <1>2, <2>8 DEF OneChain
  <2>12. ChainAlive'  BY <1>2, <2>5, <2>6 DEF ChainAlive
  <2>13. QED  BY <1>4, <2>7, <2>9, <2>10, <2>11, <2>12
<1>7. QED  BY <1>5, <1>6

\* What the three outcomes of a write have in common: its thread is idle again.
LEMMA WriteCommon ==
  ASSUME PublisherInv, NEW t \in Threads, Write(t)
  PROVE  /\ publisher # None /\ publisher \in Publishers /\ writer[t] \in Publishers
         /\ pc[t] = "write" /\ t \in Writing
         /\ pc' \in [Threads -> {"idle", "seek", "write"}]
         /\ \A u \in Threads : pc'[u] = IF u = t THEN "idle" ELSE pc[u]
         /\ writer' \in [Threads -> Publishers \cup {None}]
         /\ \A u \in Threads : writer'[u] = IF u = t THEN None ELSE writer[u]
         /\ Writing' = Writing \ {t}
         /\ UNCHANGED <<side, open, publisher, paused, playLength, seekTime, closed, seekTo,
                        nCommands, unkeyed, prompted>>
         /\ pc'["timer"] # "seek" /\ \A u \in Threads : pc'[u] # "idle" => writer'[u] # None
         /\ Apart => ~(t = "timer" /\ pc["io"] = "seek")
<1> USE DEF PublisherInv
<1>1. /\ pc[t] = "write" /\ pc' = [pc EXCEPT ![t] = "idle"]
      /\ writer' = [writer EXCEPT ![t] = None]
      /\ UNCHANGED <<side, open, publisher, paused, playLength, seekTime, closed, seekTo,
                     nCommands, unkeyed, prompted>>
  BY DEF Write
<1>2. t \in Writing  BY <1>1 DEF Writing
<1>3. publisher # None /\ publisher \in Publishers
  BY <1>2 DEF Unused, PublisherTypeOK
<1>4. writer[t] \in Publishers  BY <1>1 DEF PublisherTypeOK
<1>5. /\ pc' \in [Threads -> {"idle", "seek", "write"}]
      /\ \A u \in Threads : pc'[u] = IF u = t THEN "idle" ELSE pc[u]
  <2>1. pc \in [Threads -> {"idle", "seek", "write"}] /\ "idle" \in {"idle", "seek", "write"}
    BY DEF PublisherTypeOK
  <2>2. QED  BY <1>1, <2>1, FunctionUpdate
<1>6. Writing' = Writing \ {t}  BY <1>5 DEF Writing
<1>7. /\ writer' \in [Threads -> Publishers \cup {None}]
      /\ \A u \in Threads : writer'[u] = IF u = t THEN None ELSE writer[u]
  <2>1. writer \in [Threads -> Publishers \cup {None}] /\ None \in Publishers \cup {None}
    BY DEF PublisherTypeOK
  <2>2. QED  BY <1>1, <2>1, FunctionUpdate
<1>8. pc'["timer"] # "seek" /\ \A u \in Threads : pc'[u] # "idle" => writer'[u] # None
  BY <1>1, <1>5, <1>7 DEF PublisherTypeOK
<1>9. Apart => ~(t = "timer" /\ pc["io"] = "seek")  BY <1>1 DEF Seeking
<1>10. QED  BY <1>1, <1>2, <1>3, <1>4, <1>5, <1>6, <1>7, <1>8, <1>9

\* The next message, and its event.
LEMMA WriteMessageInv ==
  ASSUME PublisherInv, NEW t \in Threads, Write(t),
         ~closed[writer[t]], ~AtEnd(writer[t]), WriteMessage(writer[t])
  PROVE  PublisherInv'
<1> DEFINE p == writer[t]
           e == Event(currentConversationId[p], nWritten + 1)
<1> USE DEF PublisherInv
<1>1. /\ publisher # None /\ publisher \in Publishers /\ p \in Publishers
      /\ pc[t] = "write" /\ t \in Writing
      /\ pc' \in [Threads -> {"idle", "seek", "write"}]
      /\ \A u \in Threads : pc'[u] = IF u = t THEN "idle" ELSE pc[u]
      /\ writer' \in [Threads -> Publishers \cup {None}]
      /\ \A u \in Threads : writer'[u] = IF u = t THEN None ELSE writer[u]
      /\ Writing' = Writing \ {t}
      /\ UNCHANGED <<side, open, publisher, paused, playLength, seekTime, closed, seekTo,
                     nCommands, unkeyed, prompted>>
      /\ pc'["timer"] # "seek" /\ \A u \in Threads : pc'[u] # "idle" => writer'[u] # None
      /\ Apart => ~(t = "timer" /\ pc["io"] = "seek")
  BY WriteCommon
<1>0. PICK aggregate \in BOOLEAN :
        /\ aggregating' = [aggregating EXCEPT ![p] = aggregate]
        /\ \E n \in 1..(LastFrame + 1 - position[p]) :
              /\ position' = [position EXCEPT ![p] = position[p] + n]
              /\ expected' = [expected EXCEPT ![p] = position[p] + n]
  BY DEF WriteMessage
<1>2. PICK n \in 1..(LastFrame + 1 - position[p]) :
        /\ position' = [position EXCEPT ![p] = position[p] + n]
        /\ expected' = [expected EXCEPT ![p] = position[p] + n]
  BY <1>0
<1>3. /\ timePosition' = [timePosition EXCEPT ![p] = position[p]]
      /\ nWritten' = nWritten + 1 /\ events' = events \cup {e}
      /\ UNCHANGED <<currentConversationId, silent, overtaken, inherited>>
  BY DEF WriteMessage
<1> HIDE DEF p
<1>4. /\ position \in [Publishers -> 0..(LastFrame + 1)]
      /\ timePosition \in [Publishers -> 0..LastFrame]
      /\ expected \in [Publishers -> {NoSeek} \cup 0..(LastFrame + 1)]
      /\ currentConversationId \in [Publishers -> Nat] /\ nWritten \in Nat
      /\ events \subseteq [id : Nat, n : 1..nWritten]
  BY DEF PublisherTypeOK
<1>5. position[p] \in 0..LastFrame /\ position[p] + n \in 1..(LastFrame + 1)
      /\ position[p] + n \in 0..(LastFrame + 1)
      /\ position[p] + n \in {NoSeek} \cup 0..(LastFrame + 1)
  <2>1. position[p] \in 0..(LastFrame + 1)  BY <1>1, <1>4
  <2>2. QED  BY <2>1, <1>2
<1>6. /\ position' \in [Publishers -> 0..(LastFrame + 1)]
      /\ \A q \in Publishers : position'[q] = IF q = p THEN position[p] + n ELSE position[q]
  BY <1>2, <1>4, <1>5, FunctionUpdate
<1>7. /\ expected' \in [Publishers -> {NoSeek} \cup 0..(LastFrame + 1)]
      /\ \A q \in Publishers : expected'[q] = IF q = p THEN position[p] + n ELSE expected[q]
  BY <1>2, <1>4, <1>5, FunctionUpdate
<1>8. timePosition' \in [Publishers -> 0..LastFrame]
  BY <1>3, <1>4, <1>5, FunctionUpdate
<1>9. events' \subseteq [id : Nat, n : 1..nWritten'] /\ nWritten' \in Nat
  <2>1. e \in [id : Nat, n : 1..nWritten']
    <3>1. currentConversationId[p] \in Nat  BY <1>1, <1>4
    <3>2. nWritten + 1 \in 1..nWritten'  BY <1>3, <1>4
    <3>3. QED  BY <3>1, <3>2 DEF Event
  <2>2. 1..nWritten \subseteq 1..nWritten'  BY <1>3, <1>4
  <2>3. [id : Nat, n : 1..nWritten] \subseteq [id : Nat, n : 1..nWritten']  BY <2>2
  <2> HIDE DEF e
  <2>4. QED  BY <1>3, <1>4, <2>1, <2>3
<1>10. PublisherTypeOK'
  <2>1. aggregating' \in [Publishers -> BOOLEAN]
    BY <1>0 DEF PublisherTypeOK
  <2>2. QED  BY <1>1, <1>3, <1>6, <1>7, <1>8, <1>9, <2>1 DEF PublisherTypeOK
<1>11. /\ Current \subseteq Current'
       /\ p = publisher => Current' = Current \cup {e} /\ e \in Current'
  BY <1>1, <1>3 DEF Current, Event
<1> HIDE DEF e
<1>12. Unused'  BY <1>1 DEF Unused
<1>13. ~overtaken /\ ~inherited /\ ~prompted =>
         /\ p = publisher /\ Writing = {t} /\ Current = {} /\ ~silent[publisher]
  BY <1>1 DEF OneChain, WritesForCurrent, Apart, p
<1>14. ~overtaken /\ ~inherited /\ ~prompted => Writing' = {} /\ Current' = {e}
  BY <1>1, <1>11, <1>13
<1>15. WritesForCurrent'  BY <1>1, <1>3, <1>14 DEF WritesForCurrent, Apart
<1>16. OneChain'  BY <1>1, <1>3, <1>13, <1>14 DEF OneChain
<1>17. Seeking'
  <2>1. Apart => pc'["io"] # "seek"  BY <1>1
  <2>2. Apart' <=> Apart  BY <1>3 DEF Apart
  <2>3. QED  BY <2>1, <2>2 DEF Seeking
<1>18. ChainAlive'
  <2>1. CASE p = publisher  BY <1>1, <1>11, <2>1 DEF ChainAlive
  <2>2. CASE p # publisher
    <3>1. \A u \in Writing : writer[u] = publisher => u \in Writing' /\ writer'[u] = publisher
      BY <1>1, <2>2 DEF p, Writing
    <3>2. QED  BY <1>1, <1>3, <1>11, <3>1 DEF ChainAlive
  <2>3. QED  BY <2>1, <2>2
<1>19. InOrder'  BY <1>1, <1>3, <1>6, <1>7 DEF InOrder
<1>20. QED  BY <1>10, <1>12, <1>15, <1>16, <1>17, <1>18, <1>19

\* The end: the conversation it begins has nothing to write.
LEMMA WriteStopInv ==
  ASSUME PublisherInv, NEW t \in Threads, Write(t), WriteStop(t, writer[t])
  PROVE  PublisherInv'
<1> DEFINE p == writer[t]
<1> USE DEF PublisherInv
<1>1. /\ publisher # None /\ publisher \in Publishers /\ p \in Publishers
      /\ pc[t] = "write" /\ t \in Writing
      /\ pc' \in [Threads -> {"idle", "seek", "write"}]
      /\ \A u \in Threads : pc'[u] = IF u = t THEN "idle" ELSE pc[u]
      /\ writer' \in [Threads -> Publishers \cup {None}]
      /\ \A u \in Threads : writer'[u] = IF u = t THEN None ELSE writer[u]
      /\ Writing' = Writing \ {t}
      /\ UNCHANGED <<side, open, publisher, paused, playLength, seekTime, closed, seekTo,
                     nCommands, unkeyed, prompted>>
      /\ pc'["timer"] # "seek" /\ \A u \in Threads : pc'[u] # "idle" => writer'[u] # None
      /\ Apart => ~(t = "timer" /\ pc["io"] = "seek")
  BY WriteCommon
<1>2. /\ NextConversation(t, p) /\ silent' = [silent EXCEPT ![p] = TRUE]
      /\ UNCHANGED <<position, expected, timePosition, aggregating, nWritten, events>>
  BY DEF WriteStop
<1>3. /\ currentConversationId' \in [Publishers -> Nat]
      /\ \A q \in Publishers : q # p => currentConversationId'[q] = currentConversationId[q]
      /\ overtaken' \in BOOLEAN /\ inherited' \in BOOLEAN
      /\ ~overtaken' => ~overtaken /\ \A u \in Threads : u # t => pc[u] = "idle"
      /\ ~inherited' => ~inherited /\ \A e \in events : e.id # currentConversationId'[p]
  <2> HIDE DEF p
  <2>1. QED  BY <1>1, <1>2, NextFacts
<1> HIDE DEF p
<1>4. /\ silent' \in [Publishers -> BOOLEAN]
      /\ silent'[p] /\ \A q \in Publishers : q # p => silent'[q] = silent[q]
  BY <1>1, <1>2 DEF PublisherTypeOK
<1>5. PublisherTypeOK'  BY <1>1, <1>2, <1>3, <1>4 DEF PublisherTypeOK
<1>6. Unused'  BY <1>1 DEF Unused
<1>7. ~overtaken' => Writing' = {}  BY <1>1, <1>3 DEF Writing
<1>8. ~overtaken' /\ ~inherited' /\ ~prompted' => p = publisher /\ Current' = {}
  <2>1. ~overtaken' /\ ~inherited' /\ ~prompted' => p = publisher
    BY <1>1, <1>3 DEF WritesForCurrent, Apart, p
  <2>2. QED  BY <1>1, <1>2, <1>3, <2>1 DEF Current
<1>9. WritesForCurrent'  BY <1>7 DEF WritesForCurrent, Apart
<1>10. OneChain'  BY <1>7, <1>8 DEF OneChain
<1>11. Seeking'
  <2>1. Apart' => pc'["io"] # "seek"  BY <1>7 DEF Apart, Writing
  <2>2. QED  BY <2>1 DEF Seeking
<1>12. ChainAlive'
  <2>1. CASE p = publisher  BY <1>1, <1>4, <2>1 DEF ChainAlive
  <2>2. CASE p # publisher
    <3>1. \A u \in Writing : writer[u] = publisher => u \in Writing' /\ writer'[u] = publisher
      BY <1>1, <2>2 DEF p, Writing
    <3>2. Current' = Current  BY <1>1, <1>2, <1>3, <2>2 DEF Current
    <3>3. QED  BY <1>1, <1>4, <2>2, <3>1, <3>2 DEF ChainAlive
  <2>3. QED  BY <2>1, <2>2
<1>13. InOrder'  BY <1>1, <1>2, <1>3 DEF InOrder
<1>14. QED  BY <1>5, <1>6, <1>9, <1>10, <1>11, <1>12, <1>13

\* A write on a closed reader.
LEMMA WriteClosedInv ==
  ASSUME PublisherInv, NEW t \in Threads, Write(t), closed[writer[t]],
         UNCHANGED <<currentConversationId, silent, overtaken, inherited, position, expected,
                     timePosition, aggregating, nWritten, events>>
  PROVE  PublisherInv'
<1> DEFINE p == writer[t]
<1> USE DEF PublisherInv
<1>1. /\ publisher # None /\ publisher \in Publishers /\ p \in Publishers
      /\ pc[t] = "write" /\ t \in Writing
      /\ pc' \in [Threads -> {"idle", "seek", "write"}]
      /\ \A u \in Threads : pc'[u] = IF u = t THEN "idle" ELSE pc[u]
      /\ writer' \in [Threads -> Publishers \cup {None}]
      /\ \A u \in Threads : writer'[u] = IF u = t THEN None ELSE writer[u]
      /\ Writing' = Writing \ {t}
      /\ UNCHANGED <<side, open, publisher, paused, playLength, seekTime, closed, seekTo,
                     nCommands, unkeyed, prompted>>
      /\ pc'["timer"] # "seek" /\ \A u \in Threads : pc'[u] # "idle" => writer'[u] # None
      /\ Apart => ~(t = "timer" /\ pc["io"] = "seek")
  BY WriteCommon
<1>2. PublisherTypeOK'  BY <1>1 DEF PublisherTypeOK
<1>3. Current' = Current  BY <1>1 DEF Current
<1>4. Unused'  BY <1>1 DEF Unused
<1>5. WritesForCurrent'
  <2>1. \A u \in Writing' : u \in Writing /\ writer'[u] = writer[u]
    BY <1>1 DEF Writing
  <2>2. QED  BY <1>1, <2>1 DEF WritesForCurrent, Apart
<1>6. Seeking'
  <2>1. Apart => pc'["io"] # "seek"  BY <1>1
  <2>2. Apart' <=> Apart  BY DEF Apart
  <2>3. QED  BY <2>1, <2>2 DEF Seeking
<1>7. OneChain'  BY <1>1, <1>3 DEF OneChain
<1>8. ChainAlive'
  <2>1. \A u \in Writing : writer[u] = publisher /\ ~closed[publisher] =>
                           u \in Writing' /\ writer'[u] = publisher
    BY <1>1 DEF Writing
  <2>2. QED  BY <1>1, <1>3, <2>1 DEF ChainAlive
<1>9. InOrder'  BY <1>1 DEF InOrder
<1>10. QED  BY <1>2, <1>4, <1>5, <1>6, <1>7, <1>8, <1>9

-----------------------------------------------------------------------------
(* The theorems.                                                           *)

\* Every step keeps the invariant.
LEMMA PublisherStepInv == PublisherInv /\ [PublisherNext]_publisherVars => PublisherInv'
<1> SUFFICES ASSUME PublisherInv, [PublisherNext]_publisherVars  PROVE PublisherInv'
  OBVIOUS
<1>1. CASE PlayOther \/ PlayAgain \/ Unpause \/ Seek \/ Begin  BY <1>1, StartsInv
<1>2. CASE Pause  BY <1>2, PauseInv
<1>3. CASE Create  BY <1>3, CreateInv
<1>4. CASE Prompt  BY <1>4, PromptInv
<1>5. CASE Close  BY <1>5, CloseInv
<1>6. CASE StartSeek  BY <1>6, StartSeekInv
<1>7. ASSUME NEW t \in Threads, Handle(t)  PROVE PublisherInv'  BY <1>7, HandleInv
<1>8. ASSUME NEW t \in Threads, Write(t)  PROVE PublisherInv'
  BY <1>8, WriteMessageInv, WriteStopInv, WriteClosedInv DEF Write
<1>9. CASE UNCHANGED publisherVars
  BY <1>9 DEF publisherVars, fileVars, threadVars, PublisherInv, PublisherTypeOK, Unused,
              WritesForCurrent, Seeking, OneChain, ChainAlive, InOrder, Apart, Writing, Current
<1>10. QED
  BY <1>1, <1>2, <1>3, <1>4, <1>5, <1>6, <1>7, <1>8, <1>9 DEF PublisherNext, Peer, Working

\* The invariant holds of every run.
THEOREM PublisherInvariant == PublisherSpec => []PublisherInv
<1>1. PublisherInit => PublisherInv  BY PublisherInitInv
<1>2. PublisherInv /\ [PublisherNext]_publisherVars => PublisherInv'  BY PublisherStepInv
<1>3. QED  BY <1>1, <1>2, PTL DEF PublisherSpec

\* The types of the publishers' state; with them, that a seek, whether the reader goes by
\* frames or by aggregates, ends in the file or at its end and reports a time of the file.
THEOREM PublisherTypes == PublisherSpec => []PublisherTypeOK
<1>1. PublisherInv => PublisherTypeOK  BY DEF PublisherInv
<1>2. QED  BY <1>1, PublisherInvariant, PTL

\* Conversation numbers keep to one write after another, for as long as they tell
\* conversations apart and nobody else writes.
THEOREM OneChainHolds == PublisherSpec => []OneChain
<1>1. PublisherInv => OneChain  BY DEF PublisherInv
<1>2. QED  BY <1>1, PublisherInvariant, PTL

\* Obsolete events are dropped, but never the last one that counts.
THEOREM ChainAliveHolds == PublisherSpec => []ChainAlive
<1>1. PublisherInv => ChainAlive  BY DEF PublisherInv
<1>2. QED  BY <1>1, PublisherInvariant, PTL

\* A conversation goes on with the frame its seek reported, and then with the frame after
\* each message, with the exceptions InOrder names.
THEOREM InOrderHolds == PublisherSpec => []InOrder
<1>1. PublisherInv => InOrder  BY DEF PublisherInv
<1>2. QED  BY <1>1, PublisherInvariant, PTL
================================================================================
