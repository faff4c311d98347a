-------------------------- MODULE ServerStreamsProofs --------------------------
(***************************************************************************)
(* Live streams of flazr's server for any clients, any number of stream    *)
(* objects and any number of configuration messages: what the runs check   *)
(* of ServerStreams holds however the workers interleave.                  *)
(***************************************************************************)
EXTENDS ServerStreams, TLAPS

Publishing == {"publish-new", "publish", "set"}
Playing == {"play-new", "play", "join"}
Sending == {"add", "broadcast"}

\* Where a handler is fits the part its client plays, and the stream it has looked up exists.
PlaceFits ==
    \A c \in Clients :
        /\ pc[c] # "idle" => connection[c] = "open"
        /\ pc[c] \in Publishing => role[c] = "asked"
        /\ pc[c] \in Playing => role[c] = "playing"
        /\ pc[c] \in Sending => role[c] = "publishing"
        /\ role[c] = "publishing" => subscriberStream[c] # NoStream

\* A stream's publisher was let in on that stream.
PublisherOnStream ==
    \A o \in Objects : publisher[o] # NoClient =>
        /\ role[publisher[o]] \in {"publishing", "unpublished"}
        /\ subscriberStream[publisher[o]] = o

\* A subscriber is a player whose play has been handled.
SubscriberPlays ==
    \A o \in Objects : \A c \in subscribers[o] : role[c] = "playing" /\ pc[c] = "idle"

\* A channel that is closed stays so.
GoneClosed ==
    \A c \in Clients : \A d \in gone[c] : connection[d] = "closed"

ServerInv ==
    /\ ServerTypeOK
    /\ PlaceFits
    /\ PublisherOnStream
    /\ SubscriberPlays
    /\ GoneClosed

USE ServerAssumption DEF NoStream, Objects, Publishing, Playing, Sending

\* A function with one value replaced keeps its type.
LEMMA FunctionUpdate ==
  ASSUME NEW A, NEW B, NEW f \in [A -> B], NEW a, NEW v \in B
  PROVE  [f EXCEPT ![a] = v] \in [A -> B]
  OBVIOUS

\* The initial state satisfies the invariant.
LEMMA ServerInitInv == ServerInit => ServerInv
  BY DEF ServerInit, ServerInv, ServerTypeOK, NullSafe, PlaceFits, PublisherOnStream, SubscriberPlays,
            GoneClosed

\* Every step of a client's handler keeps it.
LEMMA ServerStepInv ==
  ASSUME ServerInv, [ServerNext]_serverVars
  PROVE  ServerInv'
<1> USE DEF ServerInv, ServerTypeOK, PlaceFits, PublisherOnStream, SubscriberPlays,
            GoneClosed, streamVars, handlerVars, clientVars
<1>1. CASE UNCHANGED serverVars  BY <1>1 DEF serverVars, NullSafe
<1>2. ASSUME NEW c \in Clients, Publish(c)  PROVE ServerInv'
  <2>1. NullSafe'  BY <1>2 DEF Publish, Message, Goto, NullSafe
  <2>2. ServerTypeOK'  BY <1>2, <2>1 DEF Publish, Message, Goto
  <2>3. PlaceFits' /\ PublisherOnStream'  BY <1>2 DEF Publish, Message, Goto, NullSafe
  <2>4. SubscriberPlays' /\ GoneClosed'  BY <1>2 DEF Publish, Message, Goto
  <2>5. QED  BY <2>2, <2>3, <2>4
<1>3. ASSUME NEW c \in Clients, Play(c)  PROVE ServerInv'
  <2>1. NullSafe'  BY <1>3 DEF Play, Message, Goto, NullSafe
  <2>2. ServerTypeOK'  BY <1>3, <2>1 DEF Play, Message, Goto
  <2>3. PlaceFits' /\ PublisherOnStream'  BY <1>3 DEF Play, Message, Goto, NullSafe
  <2>4. SubscriberPlays' /\ GoneClosed'  BY <1>3 DEF Play, Message, Goto
  <2>5. QED  BY <2>2, <2>3, <2>4
<1>4. ASSUME NEW c \in Clients, Unpublish(c)  PROVE ServerInv'
  <2>1. NullSafe'  BY <1>4 DEF Unpublish, UnpublishIfLive, Message, NullSafe
  <2>2. ServerTypeOK'  BY <1>4, <2>1 DEF Unpublish, UnpublishIfLive, Message
  <2>3. PlaceFits' /\ PublisherOnStream'  BY <1>4 DEF Unpublish, UnpublishIfLive, Message, NullSafe
  <2>4. SubscriberPlays' /\ GoneClosed'  BY <1>4 DEF Unpublish, UnpublishIfLive, Message
  <2>5. QED  BY <2>2, <2>3, <2>4
<1>5. ASSUME NEW c \in Clients, Media(c)  PROVE ServerInv'
  <2>1. NullSafe'  BY <1>5 DEF Media, Message, Goto, NullSafe
  <2>2. ServerTypeOK'  BY <1>5, <2>1 DEF Media, Message, Goto
  <2>3. PlaceFits' /\ PublisherOnStream'  BY <1>5 DEF Media, Message, Goto, NullSafe
  <2>4. SubscriberPlays' /\ GoneClosed'  BY <1>5 DEF Media, Message, Goto
  <2>5. QED  BY <2>2, <2>3, <2>4
<1>6. ASSUME NEW c \in Clients, Closed(c)  PROVE ServerInv'
  <2>n. NullSafe'  BY <1>6 DEF Closed, NullSafe
  <2>1. ServerTypeOK'  BY <1>6, <2>n DEF Closed, UnpublishIfLive
  <2>2. PlaceFits'  BY <1>6 DEF Closed, UnpublishIfLive
  <2>3. PublisherOnStream'  BY <1>6 DEF Closed, UnpublishIfLive
  <2>4. SubscriberPlays' /\ GoneClosed'  BY <1>6 DEF Closed, UnpublishIfLive
  <2>5. QED  BY <2>1, <2>2, <2>3, <2>4
<1>7. ASSUME NEW c \in Clients, PutStream(c)  PROVE ServerInv'
  <2>a. /\ nObjects' = nObjects + 1 /\ nObjects + 1 \in Objects
        /\ 0..nObjects \subseteq 0..(nObjects + 1)
        /\ nObjects + 1 \in 0..(nObjects + 1)
    BY <1>7 DEF PutStream
  <2>b. found' \in [Clients -> 0..nObjects'] /\ subscriberStream' \in [Clients -> 0..nObjects']
    BY <1>7, <2>a DEF PutStream
  <2>n. NullSafe'  BY <1>7, <2>a DEF PutStream, Goto, NullSafe
  <2>1. ServerTypeOK'  BY <1>7, <2>a, <2>b, <2>n DEF PutStream, Goto
  <2>2. PlaceFits'  BY <1>7 DEF PutStream, Goto
  <2>3. PublisherOnStream'  BY <1>7, <2>a DEF PutStream
  <2>4. SubscriberPlays' /\ GoneClosed'  BY <1>7 DEF PutStream, Goto
  <2>5. QED  BY <2>1, <2>2, <2>3, <2>4
<1>8. ASSUME NEW c \in Clients, Check(c)  PROVE ServerInv'
  <2>1. CASE publisher[found[c]] # NoClient
    <3>a. /\ subscriberStream' \in [Clients -> 0..nObjects']
          /\ UNCHANGED <<streamVars, adding, found, known, missed, gone>>
      BY <1>8 DEF Check
    <3>b. pc' = [pc EXCEPT ![c] = "idle"] /\ connection' = [connection EXCEPT ![c] = "closing"]
          /\ role' = [role EXCEPT ![c] = "refused"]
      BY <1>8, <2>1 DEF Check, Throw, Goto
    <3>n. NullSafe'  BY <1>8, <2>1 DEF Check, Throw, Goto, NullSafe
    <3>1. ServerTypeOK'  BY <3>a, <3>b, <3>n
    <3>2. PlaceFits'  BY <1>8, <2>1 DEF Check, Throw, Goto
    <3>3. PublisherOnStream'
      <4> SUFFICES ASSUME NEW o \in Objects, publisher[o] # NoClient
                   PROVE  /\ role'[publisher[o]] \in {"publishing", "unpublished"}
                          /\ subscriberStream'[publisher[o]] = o
        BY <3>a
      <4>1. role[c] = "asked" /\ publisher[o] # c  BY <1>8 DEF Check
      <4>2. QED  BY <1>8, <2>1, <4>1 DEF Check
    <3>4. SubscriberPlays' /\ GoneClosed'
      <4>1. connection[c] = "open"  BY <1>8 DEF Check
      <4>2. SubscriberPlays'  BY <1>8, <3>a, <3>b DEF Check
      <4>3. GoneClosed'  BY <3>a, <3>b, <4>1
      <4>4. QED  BY <4>2, <4>3
    <3>5. QED  BY <3>1, <3>2, <3>3, <3>4
  <2>2. CASE publisher[found[c]] = NoClient
    <3>a. /\ subscriberStream' \in [Clients -> 0..nObjects']
          /\ UNCHANGED <<streamVars, adding, found, known, missed, gone>>
      BY <1>8 DEF Check
    <3>b. pc' = [pc EXCEPT ![c] = "set"] /\ UNCHANGED <<connection, role>>
      BY <1>8, <2>2 DEF Check, Goto
    <3>n. NullSafe'  BY <1>8, <2>2 DEF Check, Goto, NullSafe
    <3>1. ServerTypeOK'  BY <3>a, <3>b, <3>n
    <3>2. PlaceFits'  BY <1>8, <2>2 DEF Check, Goto
    <3>3. PublisherOnStream'  BY <1>8, <2>2 DEF Check
    <3>4. SubscriberPlays' /\ GoneClosed'  BY <1>8, <2>2 DEF Check, Goto
    <3>5. QED  BY <3>1, <3>2, <3>3, <3>4
  <2>3. QED  BY <2>1, <2>2
<1>9. ASSUME NEW c \in Clients, SetPublisher(c)  PROVE ServerInv'
  <2>a. /\ publisher' \in [Objects -> Clients \cup {NoClient}]
        /\ role' \in [Clients -> {"new", "asked", "publishing", "unpublished", "refused",
                                  "playing"}]
        /\ UNCHANGED <<stream, nObjects, publishType, subscribers, configMessages, adding, found,
                       subscriberStream, known, missed>>
        /\ gone' \in [Clients -> SUBSET Clients]
    BY <1>9 DEF SetPublisher
  <2>b. /\ pc' = [pc EXCEPT ![c] = "idle"]
        /\ connection' = connection \/ connection' = [connection EXCEPT ![c] = "closing"]
    BY <1>9 DEF SetPublisher, Throw, Goto
  <2>c. connection' \in [Clients -> {"open", "closing", "closed"}]
    <3>1. connection \in [Clients -> {"open", "closing", "closed"}]  OBVIOUS
    <3>2. CASE connection' = connection  BY <3>1, <3>2
    <3>3. CASE connection' = [connection EXCEPT ![c] = "closing"]
      BY ONLY <3>1, <3>3, FunctionUpdate
    <3>4. QED  BY <2>b, <3>2, <3>3
  <2>d. pc' \in [Clients -> {"idle", "publish-new", "publish", "set", "play-new", "play", "join",
                             "add", "broadcast"}]
    BY <2>b
  <2>n. NullSafe'  BY <1>9, <2>a, <2>b DEF NullSafe
  <2>1. ServerTypeOK'  BY <2>a, <2>c, <2>d, <2>n
  <2>2. PlaceFits'  BY <1>9 DEF SetPublisher, Throw, Goto, NullSafe
  <2>3. PublisherOnStream'  BY <1>9 DEF SetPublisher
  <2>4. SubscriberPlays'  BY <1>9 DEF SetPublisher, Throw, Goto
  <2>5. GoneClosed'
    <3>1. connection[c] = "open"  BY <1>9 DEF SetPublisher
    <3>2. \A d \in Clients : connection[d] = "closed" => connection'[d] = "closed"
      BY <2>b, <3>1
    <3>3. gone' = [gone EXCEPT ![c] = {d \in Clients : connection[d] = "closed"}]
      BY <1>9 DEF SetPublisher
    <3>4. QED  BY <3>2, <3>3
  <2>6. QED  BY <2>1, <2>2, <2>3, <2>4, <2>5
<1>10. ASSUME NEW c \in Clients, StartPlay(c)  PROVE ServerInv'
  <2>a. UNCHANGED <<streamVars, adding, found, subscriberStream, role, missed, gone>>
    BY <1>10 DEF StartPlay
  <2>b. known' \in [Clients -> SUBSET Nat]
    <3>1. 1..configMessages[found[c]] \in SUBSET Nat  OBVIOUS
    <3>2. known' = known \/ known' = [known EXCEPT ![c] = 1..configMessages[found[c]]]
      BY <1>10 DEF StartPlay
    <3>3. CASE known' = known  BY <3>3
    <3>4. CASE known' = [known EXCEPT ![c] = 1..configMessages[found[c]]]
      <4>1. known \in [Clients -> SUBSET Nat]  OBVIOUS
      <4>2. QED  BY ONLY <3>1, <3>4, <4>1, FunctionUpdate
    <3>5. QED  BY <3>2, <3>3, <3>4
  <2>c. /\ pc' = [pc EXCEPT ![c] = "join"] \/ pc' = [pc EXCEPT ![c] = "idle"]
        /\ connection' = connection \/ connection' = [connection EXCEPT ![c] = "closing"]
    BY <1>10 DEF StartPlay, Throw, Goto
  <2>d. connection' \in [Clients -> {"open", "closing", "closed"}]
    <3>1. connection \in [Clients -> {"open", "closing", "closed"}]  OBVIOUS
    <3>2. CASE connection' = connection  BY <3>1, <3>2
    <3>3. CASE connection' = [connection EXCEPT ![c] = "closing"]
      BY ONLY <3>1, <3>3, FunctionUpdate
    <3>4. QED  BY <2>c, <3>2, <3>3
  <2>e. pc' \in [Clients -> {"idle", "publish-new", "publish", "set", "play-new", "play", "join",
                             "add", "broadcast"}]
    <3> DEFINE Places == {"idle", "publish-new", "publish", "set", "play-new", "play", "join",
                          "add", "broadcast"}
    <3>1. pc \in [Clients -> Places]  OBVIOUS
    <3>2. CASE pc' = [pc EXCEPT ![c] = "join"]
      <4>1. "join" \in Places  OBVIOUS
      <4>2. QED  BY ONLY <3>1, <3>2, <4>1, FunctionUpdate
    <3>3. CASE pc' = [pc EXCEPT ![c] = "idle"]
      <4>1. "idle" \in Places  OBVIOUS
      <4>2. QED  BY ONLY <3>1, <3>3, <4>1, FunctionUpdate
    <3>4. QED  BY <2>c, <3>2, <3>3
  <2>n. NullSafe'  BY <1>10, <2>a, <2>c DEF StartPlay, NullSafe
  <2>1. ServerTypeOK'  BY <2>a, <2>b, <2>d, <2>e, <2>n
  <2>2. PlaceFits'  BY <1>10 DEF StartPlay, Throw, Goto
  <2>3. PublisherOnStream'  BY <1>10 DEF StartPlay
  <2>4. SubscriberPlays' /\ GoneClosed'
    <3>1. connection[c] = "open" /\ role[c] = "playing"  BY <1>10 DEF StartPlay
    <3>2. SubscriberPlays'  BY <1>10, <2>a, <2>c DEF StartPlay
    <3>3. GoneClosed'  BY <2>a, <2>c, <3>1
    <3>4. QED  BY <3>2, <3>3
  <2>5. QED  BY <2>1, <2>2, <2>3, <2>4
<1>11. ASSUME NEW c \in Clients, Join(c)  PROVE ServerInv'
  <2>1. NullSafe'  BY <1>11 DEF Join, Goto, NullSafe
  <2>a. subscribers' \in [Objects -> SUBSET Clients]
    <3> DEFINE more == subscribers[found[c]] \cup {c}
    <3>1. found[c] \in Objects  BY <1>11 DEF Join, NullSafe
    <3>2. more \in SUBSET Clients  BY <3>1
    <3>3. subscribers' = [subscribers EXCEPT ![found[c]] = more]  BY <1>11 DEF Join
    <3>4. subscribers \in [Objects -> SUBSET Clients]  OBVIOUS
    <3> HIDE DEF more
    <3>5. QED  BY ONLY <3>2, <3>3, <3>4, FunctionUpdate
  <2>b. pc' \in [Clients -> {"idle", "publish-new", "publish", "set", "play-new", "play", "join",
                             "add", "broadcast"}]
    BY <1>11 DEF Join, Goto
  <2>2. ServerTypeOK'  BY <1>11, <2>1, <2>a, <2>b DEF Join
  <2>3. PlaceFits' /\ PublisherOnStream'  BY <1>11 DEF Join, Goto, NullSafe
  <2>4. SubscriberPlays' /\ GoneClosed'  BY <1>11 DEF Join, Goto
  <2>5. QED  BY <2>2, <2>3, <2>4
<1>12. ASSUME NEW c \in Clients, AddConfigMessage(c)  PROVE ServerInv'
  <2>1. NullSafe'  BY <1>12 DEF AddConfigMessage, Goto, NullSafe
  <2>2. ServerTypeOK'  BY <1>12, <2>1 DEF AddConfigMessage, Goto
  <2>3. PlaceFits' /\ PublisherOnStream'  BY <1>12 DEF AddConfigMessage, Goto, NullSafe
  <2>4. SubscriberPlays' /\ GoneClosed'  BY <1>12 DEF AddConfigMessage, Goto
  <2>5. QED  BY <2>2, <2>3, <2>4
<1>13. ASSUME NEW c \in Clients, Broadcast(c)  PROVE ServerInv'
  <2>1. NullSafe'  BY <1>13 DEF Broadcast, Goto, NullSafe
  <2>2. ServerTypeOK'  BY <1>13, <2>1 DEF Broadcast, Goto
  <2>3. PlaceFits' /\ PublisherOnStream'  BY <1>13 DEF Broadcast, Goto, NullSafe
  <2>4. SubscriberPlays' /\ GoneClosed'  BY <1>13 DEF Broadcast, Goto
  <2>5. QED  BY <2>2, <2>3, <2>4
<1>14. ASSUME NEW c \in Clients, ParseFails(c)  PROVE ServerInv'
  <2>a. /\ pc' = [pc EXCEPT ![c] = "idle"] /\ connection' = [connection EXCEPT ![c] = "closing"]
        /\ UNCHANGED <<streamVars, adding, found, subscriberStream, clientVars>>
        /\ connection[c] = "open"
    BY <1>14 DEF ParseFails, Throw, Goto
  <2>n. NullSafe'  BY <2>a DEF NullSafe
  <2>1. ServerTypeOK'  BY <2>a, <2>n
  <2>2. PlaceFits' /\ PublisherOnStream'  BY <2>a
  <2>3. SubscriberPlays' /\ GoneClosed'  BY <2>a
  <2>4. QED  BY <2>1, <2>2, <2>3
<1>15. QED
  BY <1>1, <1>2, <1>3, <1>4, <1>5, <1>6, <1>7, <1>8, <1>9, <1>10, <1>11, <1>12, <1>13, <1>14
  DEF ServerNext, Handler

\* Type correctness of the server's streams.
THEOREM ServerTypes == ServerSpec => []ServerTypeOK
<1>1. ServerInit => ServerInv  BY ServerInitInv
<1>2. ServerInv /\ [ServerNext]_serverVars => ServerInv'  BY ServerStepInv
<1>3. ServerInv => ServerTypeOK  BY DEF ServerInv
<1>4. QED  BY <1>1, <1>2, <1>3, PTL DEF ServerSpec

\* A stream that can have subscribers never keeps a publisher whose channel is closed.
THEOREM NoDeadPublisherHolds == ServerSpec => []NoDeadPublisher
<1>1. ServerInit => NoDeadPublisher  BY DEF ServerInit, NoDeadPublisher
<1>2. ServerInv /\ NoDeadPublisher /\ [ServerNext]_serverVars => NoDeadPublisher'
  <2> SUFFICES ASSUME ServerInv, NoDeadPublisher, [ServerNext]_serverVars
               PROVE  NoDeadPublisher'
    OBVIOUS
  <2> USE DEF ServerInv, ServerTypeOK, PublisherOnStream, NoDeadPublisher, streamVars,
              handlerVars, clientVars
  <2>1. CASE UNCHANGED serverVars  BY <2>1 DEF serverVars
  <2>2. ASSUME NEW c \in Clients, Publish(c) \/ Play(c) \/ Media(c)
        PROVE  NoDeadPublisher'
    BY <2>2 DEF Publish, Play, Media
  <2>3. ASSUME NEW c \in Clients, Unpublish(c)  PROVE NoDeadPublisher'
    BY <2>3 DEF Unpublish, UnpublishIfLive
  <2>4. ASSUME NEW c \in Clients, Closed(c)  PROVE NoDeadPublisher'
    BY <2>4 DEF Closed, UnpublishIfLive
  <2>5. ASSUME NEW c \in Clients, PutStream(c)  PROVE NoDeadPublisher'
    <3>1. publisher[nObjects + 1] = NoClient  BY <2>5 DEF PutStream
    <3>2. QED  BY <2>5, <3>1 DEF PutStream
  <2>6. ASSUME NEW c \in Clients, Check(c)  PROVE NoDeadPublisher'
    <3>1. connection' = connection \/ connection' = [connection EXCEPT ![c] = "closing"]
      BY <2>6 DEF Check, Throw
    <3>2. QED  BY <2>6, <3>1 DEF Check
  <2>7. ASSUME NEW c \in Clients, SetPublisher(c)  PROVE NoDeadPublisher'
    <3>1. connection[c] = "open"  BY <2>7 DEF SetPublisher, PlaceFits
    <3>2. connection' = connection \/ connection' = [connection EXCEPT ![c] = "closing"]
      BY <2>7 DEF SetPublisher, Throw
    <3>3. connection'[c] # "closed"  BY <3>1, <3>2
    <3>4. ASSUME NEW o \in Objects, publishType'[o] # "null", publisher'[o] # NoClient
          PROVE  connection'[publisher'[o]] # "closed"
      BY <2>7, <3>2, <3>3, <3>4 DEF SetPublisher
    <3>5. QED  BY <3>4
  <2>8. ASSUME NEW c \in Clients, StartPlay(c)  PROVE NoDeadPublisher'
    BY <2>8 DEF StartPlay, Throw
  <2>9. ASSUME NEW c \in Clients, Join(c) \/ AddConfigMessage(c) \/ Broadcast(c)
        PROVE  NoDeadPublisher'
    BY <2>9 DEF Join, AddConfigMessage, Broadcast
  <2>10. ASSUME NEW c \in Clients, ParseFails(c)  PROVE NoDeadPublisher'
    BY <2>10 DEF ParseFails, Throw
  <2>11. QED
    BY <2>1, <2>2, <2>3, <2>4, <2>5, <2>6, <2>7, <2>8, <2>9, <2>10 DEF ServerNext, Handler
<1>3. ServerInit => ServerInv  BY ServerInitInv
<1>4. ServerInv /\ [ServerNext]_serverVars => ServerInv'  BY ServerStepInv
<1>5. QED  BY <1>1, <1>2, <1>3, <1>4, PTL DEF ServerSpec

\* A client that has no claim on its stream any more, or has one in spite of another client.
Ended(d) == role[d] = "unpublished" \/ connection[d] = "closed"
Excused(e) ==
    \/ publisher[subscriberStream[e]] = e
    \/ \E d \in Clients \ {e} :
          /\ subscriberStream[d] = subscriberStream[e]
          /\ publisher[subscriberStream[e]] = d \/ (Ended(d) /\ d \notin gone[e])

\* A client that ended stays so, and only one that asks to publish changes its stream.
LEMMA EndedStays ==
  ASSUME ServerInv, [ServerNext]_serverVars, NEW d \in Clients, Ended(d)
  PROVE  /\ Ended(d)' /\ subscriberStream'[d] = subscriberStream[d]
         /\ connection[d] = "closed" => connection'[d] = "closed"
<1> USE DEF ServerInv, ServerTypeOK, PlaceFits, Ended, streamVars, handlerVars, clientVars
<1> DEFINE Kept == /\ Ended(d)' /\ subscriberStream'[d] = subscriberStream[d]
                   /\ connection[d] = "closed" => connection'[d] = "closed"
<1>1. CASE UNCHANGED serverVars  BY <1>1 DEF serverVars
<1>2. ASSUME NEW c \in Clients, Publish(c) \/ Play(c)
      PROVE  Kept
  BY <1>2 DEF Publish, Play, Message
<1>3. ASSUME NEW c \in Clients, Media(c) \/ PutStream(c) \/ Join(c) \/ AddConfigMessage(c)
                                  \/ Broadcast(c)
      PROVE  Kept
  BY <1>3 DEF Media, PutStream, Join, AddConfigMessage, Broadcast
<1>4. ASSUME NEW c \in Clients, Unpublish(c) \/ Closed(c)
      PROVE  Kept
  BY <1>4 DEF Unpublish, Closed
<1>5. ASSUME NEW c \in Clients, Check(c)
      PROVE  Kept
  <2>1. d # c  BY <1>5 DEF Check
  <2>2. CASE Throw(c) /\ role' = [role EXCEPT ![c] = "refused"]
    BY <1>5, <2>1, <2>2 DEF Check, Throw
  <2>3. CASE UNCHANGED <<connection, role>>  BY <1>5, <2>1, <2>3 DEF Check
  <2>4. QED  BY <1>5, <2>2, <2>3 DEF Check
<1>6. ASSUME NEW c \in Clients, SetPublisher(c)
      PROVE  Kept
  <2>1. d # c  BY <1>6 DEF SetPublisher
  <2>2. QED  BY <1>6, <2>1 DEF SetPublisher, Throw
<1>7. ASSUME NEW c \in Clients, StartPlay(c)
      PROVE  Kept
  <2>1. connection[c] = "open"  BY <1>7 DEF StartPlay
  <2>2. QED  BY <1>7, <2>1 DEF StartPlay, Throw
<1>8. ASSUME NEW c \in Clients, ParseFails(c)
      PROVE  Kept
  <2>1. connection[c] = "open"  BY <1>8 DEF ParseFails
  <2>2. QED  BY <1>8, <2>1 DEF ParseFails, Throw
<1>9. QED
  BY <1>1, <1>2, <1>3, <1>4, <1>5, <1>6, <1>7, <1>8 DEF ServerNext, Handler

\* What a step may do to a client e that publishes: its stream keeps its publisher, gets
\* another one, or is taken from whoever has it by a client that ends.
LEMMA ExcusedStays ==
  ASSUME ServerInv, [ServerNext]_serverVars, NEW e \in Clients, Excused(e),
         role[e] = "publishing", connection[e] # "closed",
         role'[e] = "publishing", connection'[e] # "closed"
  PROVE  Excused(e)'
<1> USE DEF ServerInv, ServerTypeOK, PlaceFits, PublisherOnStream, Excused
<1> DEFINE o == subscriberStream[e]
<1>o. o \in Objects  OBVIOUS
<1>0. ASSUME NEW d \in Clients, role[d] # "asked"  PROVE subscriberStream'[d] = subscriberStream[d]
  <2> USE <1>0 DEF streamVars, handlerVars, clientVars
  <2>1. CASE UNCHANGED serverVars  BY <2>1 DEF serverVars
  <2>2. ASSUME NEW c \in Clients, Check(c)
        PROVE  subscriberStream'[d] = subscriberStream[d]
    <3>1. c # d  BY <2>2 DEF Check
    <3>2. QED  BY <2>2, <3>1 DEF Check
  <2>3. ASSUME NEW c \in Clients,
               \/ Publish(c) \/ Play(c) \/ Unpublish(c) \/ Media(c) \/ Closed(c) \/ PutStream(c)
               \/ SetPublisher(c) \/ StartPlay(c) \/ Join(c) \/ AddConfigMessage(c)
               \/ Broadcast(c) \/ ParseFails(c)
        PROVE  subscriberStream' = subscriberStream
    BY <2>3 DEF ParseFails, Publish, Play, Unpublish, Media, Closed, PutStream, SetPublisher, StartPlay, Join,
                AddConfigMessage, Broadcast
  <2>4. QED  BY <2>1, <2>2, <2>3 DEF ServerNext, Handler
<1>1. subscriberStream'[e] = o  BY <1>0
<1>g. gone'[e] = gone[e]
  <2> USE DEF streamVars, handlerVars, clientVars
  <2>1. CASE UNCHANGED serverVars  BY <2>1 DEF serverVars
  <2>2. ASSUME NEW c \in Clients, SetPublisher(c)  PROVE gone'[e] = gone[e]
    <3>1. c # e  BY <2>2 DEF SetPublisher
    <3>2. QED  BY <2>2, <3>1 DEF SetPublisher
  <2>3. ASSUME NEW c \in Clients,
               \/ Publish(c) \/ Play(c) \/ Unpublish(c) \/ Media(c) \/ Closed(c) \/ PutStream(c)
               \/ Check(c) \/ StartPlay(c) \/ Join(c) \/ AddConfigMessage(c)
               \/ Broadcast(c) \/ ParseFails(c)
        PROVE  gone' = gone
    BY <2>3 DEF ParseFails, Publish, Play, Unpublish, Media, Closed, PutStream, Check, StartPlay,
                Join, AddConfigMessage, Broadcast
  <2>4. QED  BY <2>1, <2>2, <2>3 DEF ServerNext, Handler
<1>2. \A d \in Clients : Ended(d) => Ended(d)' /\ subscriberStream'[d] = subscriberStream[d]
  BY EndedStays
<1>3. CASE publisher'[o] = publisher[o]
  <2>1. CASE publisher[o] = e  BY <1>1, <1>3, <2>1
  <2>2. ASSUME NEW d \in Clients \ {e}, subscriberStream[d] = o, publisher[o] = d
        PROVE  Excused(e)'
    <3>1. role[d] # "asked"
      <4>1. publisher[o] # NoClient  BY <2>2
      <4>2. role[publisher[o]] \in {"publishing", "unpublished"}  BY <1>o, <4>1
      <4>3. QED  BY <2>2, <4>2
    <3>2. subscriberStream'[d] = o  BY <1>0, <2>2, <3>1
    <3>3. QED  BY <1>1, <1>3, <2>2, <3>2
  <2>3. ASSUME NEW d \in Clients \ {e}, subscriberStream[d] = o, Ended(d), d \notin gone[e]
        PROVE  Excused(e)'
    <3>1. Ended(d)' /\ subscriberStream'[d] = o  BY <1>2, <2>3
    <3>2. d \notin gone'[e]  BY <1>g, <2>3
    <3>3. QED  BY <1>1, <3>1, <3>2
  <2>4. QED  BY <2>1, <2>2, <2>3
<1>4. CASE \E c \in Clients : publisher'[o] = c /\ subscriberStream'[c] = o
  BY <1>1, <1>4
<1>5. CASE \E c \in Clients \ {e} : subscriberStream'[c] = o /\ Ended(c)' /\ c \notin gone'[e]
  BY <1>1, <1>5
<1>6. QED
  <2> USE DEF streamVars, handlerVars, clientVars
  <2>1. CASE UNCHANGED serverVars  BY <1>3, <2>1 DEF serverVars
  <2>2. ASSUME NEW c \in Clients,
               \/ Publish(c) \/ Play(c) \/ Media(c) \/ PutStream(c) \/ Check(c)
               \/ StartPlay(c) \/ Join(c) \/ AddConfigMessage(c) \/ Broadcast(c)
               \/ ParseFails(c)
        PROVE  publisher' = publisher
    BY <2>2 DEF ParseFails, Publish, Play, Media, PutStream, Join, AddConfigMessage, Broadcast, Check,
                StartPlay
  <2>3. ASSUME NEW c \in Clients, SetPublisher(c)  PROVE Excused(e)'
    <3>1. subscriberStream' = subscriberStream
          /\ publisher' = [publisher EXCEPT ![subscriberStream[c]] = c]
      BY <2>3 DEF SetPublisher
    <3>2. CASE subscriberStream[c] = o  BY <1>4, <1>o, <3>1, <3>2
    <3>3. CASE subscriberStream[c] # o  BY <1>3, <1>o, <3>1, <3>3
    <3>4. QED  BY <3>2, <3>3
  <2>4. ASSUME NEW c \in Clients, Unpublish(c) \/ Closed(c)  PROVE Excused(e)'
    <3>1. UnpublishIfLive(c) /\ subscriberStream' = subscriberStream
      BY <2>4 DEF Unpublish, Closed
    <3>2. Ended(c)'  BY <2>4 DEF Unpublish, Closed, Ended
    <3>3. c # e  BY <3>2 DEF Ended
    <3>c. c \notin gone'[e]
      <4>1. connection[c] # "closed"  BY <2>4 DEF Unpublish, Closed, Message
      <4>2. QED  BY <1>g, <4>1 DEF GoneClosed
    <3>4. CASE subscriberStream[c] = o  BY <1>5, <3>1, <3>2, <3>3, <3>4, <3>c
    <3>5. CASE subscriberStream[c] # o  BY <1>3, <1>o, <3>1, <3>5 DEF UnpublishIfLive
    <3>6. QED  BY <3>4, <3>5
  <2>5. QED  BY <1>3, <2>1, <2>2, <2>3, <2>4 DEF ServerNext, Handler

\* A publisher loses its stream only to a client that was given the same one: one refused for
\* it, or let in at the same moment, or one that unpublished it and then closes.
THEOREM StaysPublishedHolds == ServerSpec => []StaysPublished
<1>1. ServerInit => StaysPublished  BY DEF ServerInit, StaysPublished
<1>2. ServerInv /\ StaysPublished /\ [ServerNext]_serverVars => StaysPublished'
  <2> SUFFICES ASSUME ServerInv, StaysPublished, [ServerNext]_serverVars,
                      NEW e \in Clients, role'[e] = "publishing", connection'[e] # "closed"
               PROVE  Excused(e)'
    BY DEF StaysPublished, Excused, Ended
  <2>1. CASE role[e] = "publishing" /\ connection[e] # "closed"
    <3>1. Excused(e)  BY <2>1 DEF StaysPublished, Excused, Ended
    <3>2. QED  BY <2>1, <3>1, ExcusedStays
  <2>2. CASE connection[e] = "closed"
    BY <2>2, EndedStays DEF Ended
  <2>3. CASE role[e] # "publishing" /\ connection[e] # "closed"
    <3>1. SetPublisher(e)
      BY <2>3 DEF ServerInv, ServerTypeOK, PlaceFits, ServerNext, Handler, serverVars, streamVars,
        handlerVars, clientVars, Publish, Play, Media, PutStream, Join, AddConfigMessage,
        Broadcast, Unpublish, Closed, Check, SetPublisher, StartPlay, ParseFails
    <3>2. QED
      BY <2>3, <3>1 DEF ServerInv, ServerTypeOK, NullSafe, SetPublisher, Excused
  <2>4. QED  BY <2>1, <2>2, <2>3
<1>3. ServerInit => ServerInv  BY ServerInitInv
<1>4. ServerInv /\ [ServerNext]_serverVars => ServerInv'  BY ServerStepInv
<1>5. QED  BY <1>1, <1>2, <1>3, <1>4, PTL DEF ServerSpec

\* A client that was given the list and is not added yet lacks no configuration but what was
\* broadcast since.
JoiningComplete ==
    \A c \in Clients : pc[c] = "join" =>
        1..configMessages[found[c]] \subseteq known[c] \cup missed[c] \cup Coming(found[c])

\* A client c that plays stream o has what it should of the configuration.
Complete(c, o) ==
    1..configMessages[o] \subseteq known[c] \cup missed[c] \cup Coming(o)

\* Every step keeps what a client has that is subscribed or about to be; only a new message
\* and a broadcast change it.
LEMMA CompleteStays ==
  ASSUME ServerInv, [ServerNext]_serverVars, NEW s \in Clients, NEW o \in Objects, Complete(s, o),
         \/ s \in subscribers[o]
         \/ pc[s] = "join" /\ found[s] = o
  PROVE  Complete(s, o)'
<1> USE DEF ServerInv, ServerTypeOK, PlaceFits, SubscriberPlays
<1> DEFINE Due(d, m) == pc[d] = "broadcast" /\ subscriberStream[d] = o /\ adding[d] = m
           Has(m) == m \in known[s] \/ m \in missed[s] \/ \E d \in Clients : Due(d, m)
<1>a. ASSUME NEW m \in 1..configMessages[o]  PROVE Has(m)
  <2>1. m \in known[s] \cup missed[s] \cup Coming(o)  BY <1>a DEF Complete
  <2>2. QED  BY <2>1 DEF Coming
<1>b. SUFFICES ASSUME NEW m \in 1..configMessages'[o]  PROVE Has(m)'
  <2>1. SUFFICES ASSUME NEW m \in 1..configMessages'[o]
                 PROVE  m \in known'[s] \cup missed'[s] \cup Coming(o)'
    BY DEF Complete
  <2>2. Has(m)'  OBVIOUS
  <2>3. QED  BY <2>2 DEF Coming
<1> USE DEF streamVars, handlerVars, clientVars
<1>1. CASE UNCHANGED serverVars  BY <1>1, <1>a DEF serverVars
<1>2. ASSUME NEW c \in Clients, Publish(c) \/ Play(c)  PROVE Has(m)'
  BY <1>2, <1>a DEF Publish, Play, Message, Goto
<1>3. ASSUME NEW c \in Clients, Unpublish(c) \/ Media(c)  PROVE Has(m)'
  BY <1>3, <1>a DEF Unpublish, Media, Message, Goto
<1>4. ASSUME NEW c \in Clients, Closed(c)  PROVE Has(m)'
  BY <1>4, <1>a DEF Closed
<1>5. ASSUME NEW c \in Clients, PutStream(c)  PROVE Has(m)'
  BY <1>5, <1>a DEF PutStream, Goto
<1>6. ASSUME NEW c \in Clients, Check(c)  PROVE Has(m)'
  <2>1. ASSUME NEW d \in Clients, Due(d, m)  PROVE Due(d, m)'
    <3>1. d # c  BY <1>6, <2>1 DEF Check
    <3>2. pc'[d] = pc[d]  BY <1>6, <3>1 DEF Check, Throw, Goto
    <3>3. QED  BY <1>6, <2>1, <3>1, <3>2 DEF Check
  <2>2. QED  BY <1>6, <1>a, <2>1 DEF Check
<1>7. ASSUME NEW c \in Clients, SetPublisher(c)  PROVE Has(m)'
  BY <1>7, <1>a DEF SetPublisher, Throw, Goto
<1>8. ASSUME NEW c \in Clients, StartPlay(c)  PROVE Has(m)'
  <2>1. s # c  BY <1>8 DEF StartPlay
  <2>2. known'[s] = known[s]  BY <1>8, <2>1 DEF StartPlay
  <2>3. ASSUME NEW d \in Clients, Due(d, m)  PROVE Due(d, m)'
    BY <1>8, <2>3 DEF StartPlay, Throw, Goto
  <2>4. QED  BY <1>8, <1>a, <2>2, <2>3 DEF StartPlay
<1>9. ASSUME NEW c \in Clients, Join(c)  PROVE Has(m)'
  BY <1>9, <1>a DEF Join, Goto
<1>10. ASSUME NEW c \in Clients, AddConfigMessage(c)  PROVE Has(m)'
  <2>1. CASE m \in 1..configMessages[o]
    <3>1. ASSUME NEW d \in Clients, Due(d, m)  PROVE Due(d, m)'
      BY <1>10, <3>1 DEF AddConfigMessage, Goto
    <3>2. QED  BY <1>10, <1>a, <2>1, <3>1 DEF AddConfigMessage
  <2>2. CASE m \notin 1..configMessages[o]
    <3>1. subscriberStream[c] = o /\ m = configMessages[o] + 1
      BY <1>10, <2>2 DEF AddConfigMessage
    <3>2. QED  BY <1>10, <3>1 DEF AddConfigMessage, Goto
  <2>3. QED  BY <2>1, <2>2
<1>11. ASSUME NEW c \in Clients, Broadcast(c)  PROVE Has(m)'
  <2>1. m \in 1..configMessages[o]  BY <1>11 DEF Broadcast
  <2>2. known[s] \subseteq known'[s] /\ missed[s] \subseteq missed'[s]
    BY <1>11 DEF Broadcast
  <2>3. CASE Due(c, m)
    <3>1. CASE s \in subscribers[o]  BY <1>11, <2>3, <3>1 DEF Broadcast
    <3>2. CASE pc[s] = "join" /\ found[s] = o  BY <1>11, <2>3, <3>2 DEF Broadcast
    <3>3. QED  BY <3>1, <3>2
  <2>4. CASE ~Due(c, m)
    <3>1. ASSUME NEW d \in Clients, Due(d, m)  PROVE Due(d, m)'
      BY <1>11, <2>4, <3>1 DEF Broadcast, Goto
    <3>2. QED  BY <1>a, <2>1, <2>2, <3>1
  <2>5. QED  BY <2>3, <2>4
<1>12. ASSUME NEW c \in Clients, ParseFails(c)  PROVE Has(m)'
  <2>1. ASSUME NEW d \in Clients, Due(d, m)  PROVE Due(d, m)'
    BY <1>12, <2>1 DEF ParseFails, Throw, Goto
  <2>2. QED  BY <1>12, <1>a, <2>1 DEF ParseFails
<1>13. QED
  BY <1>1, <1>2, <1>3, <1>4, <1>5, <1>6, <1>7, <1>8, <1>9, <1>10, <1>11, <1>12
  DEF ServerNext, Handler

\* A client comes to the point before the subscription only by being given the whole list,
\* and to the subscription only from there.
LEMMA CompleteBegins ==
  ASSUME ServerInv, [ServerNext]_serverVars, NEW s \in Clients
  PROVE  /\ pc'[s] = "join" =>
               \/ pc[s] = "join" /\ found'[s] = found[s]
               \/ Complete(s, found[s])' /\ found'[s] = found[s]
         /\ \A o \in Objects : s \in subscribers'[o] =>
               \/ s \in subscribers[o]
               \/ pc[s] = "join" /\ found[s] = o
<1> USE DEF ServerInv, ServerTypeOK, PlaceFits, SubscriberPlays, streamVars, handlerVars,
            clientVars
<1> DEFINE Joins == pc'[s] = "join" => pc[s] = "join" /\ found'[s] = found[s]
           Stays == \A o \in Objects : s \in subscribers'[o] => s \in subscribers[o]
<1>1. CASE UNCHANGED serverVars  BY <1>1 DEF serverVars
<1>2. ASSUME NEW c \in Clients, Publish(c) \/ Play(c) \/ Media(c) \/ PutStream(c)
      PROVE  Joins /\ Stays
  BY <1>2 DEF Publish, Play, Media, PutStream, Goto
<1>3. ASSUME NEW c \in Clients, Unpublish(c) \/ Closed(c) \/ AddConfigMessage(c) \/ Broadcast(c)
      PROVE  Joins /\ Stays
  BY <1>3 DEF Unpublish, Closed, AddConfigMessage, Broadcast, Goto
<1>4. ASSUME NEW c \in Clients, Check(c) \/ SetPublisher(c) \/ ParseFails(c)
      PROVE  Joins /\ Stays
  BY <1>4 DEF Check, SetPublisher, ParseFails, Throw, Goto
<1>5. ASSUME NEW c \in Clients, Join(c)
      PROVE  Joins /\ \A o \in Objects : s \in subscribers'[o] =>
               \/ s \in subscribers[o]
               \/ pc[s] = "join" /\ found[s] = o
  BY <1>5 DEF Join, Goto
<1>6. ASSUME NEW c \in Clients, StartPlay(c)
      PROVE  Stays /\ (pc'[s] = "join" =>
               \/ pc[s] = "join" /\ found'[s] = found[s]
               \/ Complete(s, found[s])' /\ found'[s] = found[s])
  <2>1. Stays  BY <1>6 DEF StartPlay
  <2>2. found' = found /\ configMessages' = configMessages  BY <1>6 DEF StartPlay
  <2>3. CASE s # c  BY <1>6, <2>1, <2>2, <2>3 DEF StartPlay, Throw, Goto
  <2>4. CASE s = c /\ pc'[s] = "join"
    <3>1. known'[s] = 1..configMessages[found[s]]  BY <1>6, <2>4 DEF StartPlay, Throw, Goto
    <3>2. QED  BY <2>1, <2>2, <3>1 DEF Complete
  <2>5. QED  BY <2>1, <2>3, <2>4
<1>7. QED  BY <1>1, <1>2, <1>3, <1>4, <1>5, <1>6 DEF ServerNext, Handler

\* A subscriber lacks no configuration but what was broadcast between the copying of the list
\* to it and its addition to the subscribers.
THEOREM ConfigCompleteHolds == ServerSpec => []ConfigComplete
<1> DEFINE Inv == ServerInv /\ ConfigComplete /\ JoiningComplete
<1>1. ServerInit => Inv
  BY ServerInitInv DEF ServerInit, ConfigComplete, JoiningComplete
<1>2. Inv /\ [ServerNext]_serverVars => Inv'
  <2> SUFFICES ASSUME Inv, [ServerNext]_serverVars
               PROVE  Inv'
    OBVIOUS
  <2>1. ServerInv'  BY ServerStepInv
  <2>2. \A s \in Clients : pc[s] = "join" => found[s] \in Objects /\ Complete(s, found[s])
    BY DEF JoiningComplete, Complete, ServerInv, ServerTypeOK, NullSafe
  <2>3. ConfigComplete'
    <3> SUFFICES ASSUME NEW o \in Objects, NEW s \in subscribers'[o]
                 PROVE  Complete(s, o)'
      BY DEF ConfigComplete, Complete
    <3>1. s \in Clients  BY <2>1 DEF ServerInv, ServerTypeOK
    <3>2. \/ s \in subscribers[o]
          \/ pc[s] = "join" /\ found[s] = o
      BY <3>1, CompleteBegins
    <3>3. Complete(s, o)  BY <2>2, <3>1, <3>2 DEF ConfigComplete, Complete
    <3>4. QED  BY <3>1, <3>2, <3>3, CompleteStays
  <2>4. JoiningComplete'
    <3> SUFFICES ASSUME NEW s \in Clients, pc'[s] = "join"
                 PROVE  Complete(s, found[s])' 
      BY DEF JoiningComplete, Complete
    <3>1. CASE pc[s] = "join" /\ found'[s] = found[s]
      <4>1. found[s] \in Objects /\ Complete(s, found[s])  BY <2>2, <3>1
      <4>2. QED  BY <3>1, <4>1, CompleteStays DEF Complete, Coming
    <3>2. QED  BY <3>1, CompleteBegins
  <2>5. QED  BY <2>1, <2>3, <2>4
<1>3. QED  BY <1>1, <1>2, PTL DEF ServerSpec
=============================================================================
