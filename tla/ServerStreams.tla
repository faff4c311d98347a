----------------------------- MODULE ServerStreams -----------------------------
(***************************************************************************)
(* Live streams in flazr's server: ServerHandler, ServerApplication and    *)
(* ServerStream, with clients that publish and clients that play.  Each    *)
(* client's messages are handled one after the other by the worker of its  *)
(* channel; the workers of different channels share the streams, and only  *)
(* the map of streams is a concurrent one.                                 *)
(*                                                                         *)
(* There is one name of a stream: what happens under different names has   *)
(* nothing in common.  Objects of ServerStream are numbered as they are    *)
(* made.  Files that are played are in Publisher.                          *)
(*                                                                         *)
(* The clients are external, and behave as this repository's ClientHandler *)
(* does: one publish on a connection, media only after the server has said *)
(* that the publish has started, then unpublish, closeStream and close;    *)
(* they may also close, or break down, at any time.                        *)
(***************************************************************************)
EXTENDS Integers, FiniteSets, Sequences

CONSTANTS
    Clients,
    NoClient,
    MaxObjects,    \* bound: objects made
    MaxConfig      \* bound: configuration messages of a stream

ASSUME ServerAssumption ==
    NoClient \notin Clients /\ MaxObjects \in Nat /\ MaxConfig \in Nat

Objects == 1..MaxObjects
NoStream == 0

VARIABLES
    \* ServerApplication
    stream,            \* what the map has under the name
    nObjects,
    \* ServerStream
    publishType,       \* "live", "record" (append as well), or "null" when a play made it
    publisher, subscribers,
    configMessages,    \* how many there are
    \* ServerHandler, per client
    pc,                \* in the handler of its last message
    adding,            \* the configuration message it is about to broadcast
    found,             \* the stream that getStream gave
    subscriberStream,
    connection,        \* "open", "closing" (the handler has asked for it), "closed"
    \* the clients
    role,              \* "new", "asked", "publishing", "unpublished", "refused", "playing"
    known,             \* a player's configuration messages
    \* history
    missed,            \* those broadcast after it was given the list and before it was added
    gone               \* those whose channel was closed when it was let in as a publisher

streamVars == <<stream, nObjects, publishType, publisher, subscribers, configMessages>>
handlerVars == <<pc, adding, found, subscriberStream, connection>>
clientVars == <<role, known, missed, gone>>
serverVars == <<streamVars, handlerVars, clientVars>>

ServerInit ==
    /\ stream = NoStream /\ nObjects = 0
    /\ publishType = [o \in Objects |-> "null"]
    /\ publisher = [o \in Objects |-> NoClient]
    /\ subscribers = [o \in Objects |-> {}]
    /\ configMessages = [o \in Objects |-> 0]
    /\ pc = [c \in Clients |-> "idle"]
    /\ adding = [c \in Clients |-> 0]
    /\ found = [c \in Clients |-> NoStream]
    /\ subscriberStream = [c \in Clients |-> NoStream]
    /\ connection = [c \in Clients |-> "open"]
    /\ role = [c \in Clients |-> "new"]
    /\ known = [c \in Clients |-> {}] /\ missed = [c \in Clients |-> {}]
    /\ gone = [c \in Clients |-> {}]

\* A message of client c is handled.
Message(c) == pc[c] = "idle" /\ connection[c] = "open"

Goto(c, place) == pc' = [pc EXCEPT ![c] = place]

\* An exception in a handler: exceptionCaught closes the channel.
Throw(c) ==
    /\ Goto(c, "idle")
    /\ connection' = [connection EXCEPT ![c] = "closing"]

-----------------------------------------------------------------------------
(* ServerApplication.getStream: a look, and for a new name an object.      *)

\* publish
Publish(c) ==
    /\ Message(c) /\ role[c] = "new"
    /\ role' = [role EXCEPT ![c] = "asked"]
    /\ found' = [found EXCEPT ![c] = stream]
    /\ Goto(c, IF stream = NoStream THEN "publish-new" ELSE "publish")
    /\ UNCHANGED <<streamVars, adding, subscriberStream, connection, known, missed, gone>>

\* play
Play(c) ==
    /\ Message(c) /\ role[c] = "new"
    /\ role' = [role EXCEPT ![c] = "playing"]
    /\ found' = [found EXCEPT ![c] = stream]
    /\ Goto(c, IF stream = NoStream THEN "play-new" ELSE "play")
    /\ UNCHANGED <<streamVars, adding, subscriberStream, connection, known, missed, gone>>

\* The constructor parses the type first, and throws for one it does not know.
ParseFails(c) ==
    /\ pc[c] = "publish-new"
    /\ Throw(c)
    /\ UNCHANGED <<streamVars, adding, found, subscriberStream, clientVars>>

\* The object is put into the map, over one that another client has put there meanwhile.
\* Without a type it has neither subscribers nor configuration.
PutStream(c) ==
    /\ pc[c] \in {"publish-new", "play-new"}
    /\ nObjects < MaxObjects
    /\ nObjects' = nObjects + 1
    /\ stream' = nObjects + 1
    /\ found' = [found EXCEPT ![c] = nObjects + 1]
    /\ \E type \in IF pc[c] = "publish-new" THEN {"live", "record"} ELSE {"null"} :
          publishType' = [publishType EXCEPT ![nObjects + 1] = type]
    /\ Goto(c, IF pc[c] = "publish-new" THEN "publish" ELSE "play")
    /\ UNCHANGED <<publisher, subscribers, configMessages, adding, subscriberStream, connection,
                   clientVars>>

-----------------------------------------------------------------------------
(* publishResponse, unpublishIfLive                                        *)

\* Mutant: the stream is kept in a local variable of the method.
CheckLocally(c) ==
    /\ pc[c] = "publish"
    /\ IF publisher[found[c]] # NoClient
       THEN /\ Throw(c)
            /\ role' = [role EXCEPT ![c] = "refused"]
       ELSE /\ Goto(c, "set")
            /\ UNCHANGED <<connection, role>>
    /\ UNCHANGED <<streamVars, adding, found, subscriberStream, known, missed, gone>>

\* Is there a publisher?  Then the client is refused and its channel closed once it knows.
Check(c) ==
    /\ pc[c] = "publish"
    /\ subscriberStream' = [subscriberStream EXCEPT ![c] = found[c]]
    /\ IF publisher[found[c]] # NoClient
       THEN /\ Throw(c)
            /\ role' = [role EXCEPT ![c] = "refused"]
       ELSE /\ Goto(c, "set")
            /\ UNCHANGED <<connection, role>>
    /\ UNCHANGED <<streamVars, adding, found, known, missed, gone>>

\* The publisher is set and told; a stream that a play made has no group of subscribers.
SetPublisher(c) ==
    /\ pc[c] = "set"
    /\ publisher' = [publisher EXCEPT ![subscriberStream[c]] = c]
    /\ role' = [role EXCEPT ![c] = "publishing"]
    /\ gone' = [gone EXCEPT ![c] = {d \in Clients : connection[d] = "closed"}]
    /\ IF publishType[subscriberStream[c]] # "null"
       THEN Goto(c, "idle") /\ UNCHANGED connection
       ELSE Throw(c)
    /\ UNCHANGED <<stream, nObjects, publishType, subscribers, configMessages, adding, found,
                   subscriberStream, known, missed>>

\* Mutant: the publisher is reset only when the client unpublishes.
UnpublishNothing(c) == UNCHANGED publisher

\* Mutant: whatever the client had looked up is unpublished, although it only played it.
UnpublishFound(c) ==
    publisher' = [o \in Objects |-> IF o = found[c] THEN NoClient ELSE publisher[o]]

\* It resets the publisher of the stream, whoever that is; without a group it throws first.
UnpublishIfLive(c) ==
    publisher' = [o \in Objects |->
                     IF o = subscriberStream[c] /\ publishType[o] # "null" THEN NoClient
                     ELSE publisher[o]]

\* The client ends its publish, and later its stream.
Unpublish(c) ==
    /\ Message(c) /\ role[c] \in {"publishing", "unpublished"}
    /\ role' = [role EXCEPT ![c] = "unpublished"]
    /\ UnpublishIfLive(c)
    /\ UNCHANGED <<stream, nObjects, publishType, subscribers, configMessages, handlerVars,
                   known, missed, gone>>

\* channelClosed.  A closed channel is in no group.
Closed(c) ==
    /\ pc[c] = "idle" /\ connection[c] # "closed"
    /\ connection' = [connection EXCEPT ![c] = "closed"]
    /\ UnpublishIfLive(c)
    /\ subscribers' = [o \in Objects |-> subscribers[o] \ {c}]
    /\ UNCHANGED <<stream, nObjects, publishType, configMessages, pc, adding, found,
                   subscriberStream, clientVars>>

-----------------------------------------------------------------------------
(* playResponse                                                            *)

\* Mutant: the start messages are written and the configuration is not.
StartPlayBare(c) ==
    /\ pc[c] = "play"
    /\ Goto(c, IF publishType[found[c]] = "live" THEN "join" ELSE "idle")
    /\ UNCHANGED <<streamVars, adding, found, subscriberStream, connection, clientVars>>

\* A live stream's configuration is written to the client; to iterate over it while
\* another worker adds to it may throw.  Anything else is a file.
StartPlay(c) ==
    /\ pc[c] = "play"
    /\ \/ /\ publishType[found[c]] = "live"
          /\ known' = [known EXCEPT ![c] = 1..configMessages[found[c]]]
          /\ Goto(c, "join")
          /\ UNCHANGED connection
       \/ /\ publishType[found[c]] = "live"
          /\ \E d \in Clients : pc[d] = "add" /\ subscriberStream[d] = found[c]
          /\ Throw(c)
          /\ UNCHANGED known
       \/ /\ publishType[found[c]] # "live"
          /\ Goto(c, "idle")
          /\ UNCHANGED <<connection, known>>
    /\ UNCHANGED <<streamVars, adding, found, subscriberStream, role, missed, gone>>

\* The client is added to the subscribers.
Join(c) ==
    /\ pc[c] = "join"
    /\ subscribers' = [subscribers EXCEPT ![found[c]] = @ \cup {c}]
    /\ Goto(c, "idle")
    /\ UNCHANGED <<stream, nObjects, publishType, publisher, configMessages, adding, found,
                   subscriberStream, connection, clientVars>>

-----------------------------------------------------------------------------
(* Media: configuration messages are kept and broadcast.  Other media is   *)
(* only broadcast, and its publisher has sent the configuration before.    *)

Media(c) ==
    /\ Message(c) /\ role[c] = "publishing"
    /\ configMessages[subscriberStream[c]] < MaxConfig
    /\ Goto(c, "add")
    /\ UNCHANGED <<streamVars, adding, found, subscriberStream, connection, clientVars>>

AddConfigMessage(c) ==
    /\ pc[c] = "add"
    /\ configMessages' = [configMessages EXCEPT ![subscriberStream[c]] = @ + 1]
    /\ adding' = [adding EXCEPT ![c] = configMessages[subscriberStream[c]] + 1]
    /\ Goto(c, "broadcast")
    /\ UNCHANGED <<stream, nObjects, publishType, publisher, subscribers, found,
                   subscriberStream, connection, clientVars>>

\* Only those who are in the group by now get it.
Broadcast(c) ==
    /\ pc[c] = "broadcast"
    /\ known' = [d \in Clients |->
                    IF d \in subscribers[subscriberStream[c]]
                    THEN known[d] \cup {adding[c]} ELSE known[d]]
    /\ missed' = [d \in Clients |->
                     IF pc[d] = "join" /\ found[d] = subscriberStream[c]
                     THEN missed[d] \cup {adding[c]} ELSE missed[d]]
    /\ Goto(c, "idle")
    /\ UNCHANGED <<streamVars, adding, found, subscriberStream, connection, role, gone>>

-----------------------------------------------------------------------------

Handler(c) ==
    \/ PutStream(c) \/ ParseFails(c) \/ Check(c) \/ SetPublisher(c)
    \/ StartPlay(c) \/ Join(c)
    \/ AddConfigMessage(c) \/ Broadcast(c)

ServerNext ==
    \E c \in Clients :
        \/ Publish(c) \/ Play(c) \/ Unpublish(c) \/ Media(c) \/ Closed(c)
        \/ Handler(c)

ServerSpec == ServerInit /\ [][ServerNext]_serverVars

-----------------------------------------------------------------------------

\* No handler follows a reference that is null.
NullSafe ==
    \A c \in Clients :
        /\ pc[c] \in {"publish", "play", "join"} => found[c] # NoStream
        /\ pc[c] \in {"set", "add", "broadcast"} => subscriberStream[c] # NoStream

\* Types; and the streams that the handlers use are there.
ServerTypeOK ==
    /\ nObjects \in 0..MaxObjects /\ stream \in 0..nObjects
    /\ publishType \in [Objects -> {"live", "record", "null"}]
    /\ publisher \in [Objects -> Clients \cup {NoClient}]
    /\ subscribers \in [Objects -> SUBSET Clients]
    /\ configMessages \in [Objects -> Nat]
    /\ pc \in [Clients -> {"idle", "publish-new", "publish", "set", "play-new", "play", "join",
                           "add", "broadcast"}]
    /\ adding \in [Clients -> Nat]
    /\ found \in [Clients -> 0..nObjects]
    /\ subscriberStream \in [Clients -> 0..nObjects]
    /\ connection \in [Clients -> {"open", "closing", "closed"}]
    /\ role \in [Clients -> {"new", "asked", "publishing", "unpublished", "refused", "playing"}]
    /\ known \in [Clients -> SUBSET Nat] /\ missed \in [Clients -> SUBSET Nat]
    /\ gone \in [Clients -> SUBSET Clients]
    /\ NullSafe

\* A client that publishes stays the publisher of its stream, whoever plays, closes and
\* comes, unless another client was given the same stream: one that was refused for it, or
\* was let in at the same moment, or has unpublished it before, and that ends after this one
\* was let in.
StaysPublished ==
    \A c \in Clients :
        role[c] = "publishing" /\ connection[c] # "closed" =>
            \/ publisher[subscriberStream[c]] = c
            \/ \E d \in Clients \ {c} :
                  /\ subscriberStream[d] = subscriberStream[c]
                  /\ \/ publisher[subscriberStream[c]] = d
                     \/ /\ role[d] = "unpublished" \/ connection[d] = "closed"
                        /\ d \notin gone[c]

\* A stream never keeps a publisher whose channel is closed, which would have every later one
\* refused; unless it was made by a play that came before any publish.
NoDeadPublisher ==
    \A o \in Objects :
        publishType[o] # "null" /\ publisher[o] # NoClient => connection[publisher[o]] # "closed"

\* The configuration messages of stream o that still will be broadcast.
Coming(o) == {adding[d] : d \in {e \in Clients : pc[e] = "broadcast" /\ subscriberStream[e] = o}}

\* A subscriber has every configuration message of its stream, or will get it with a
\* broadcast under way, except those that were broadcast after the list was copied to it and
\* before it was added.
ConfigComplete ==
    \A o \in Objects : \A c \in subscribers[o] :
        1..configMessages[o] \subseteq known[c] \cup missed[c] \cup Coming(o)
=============================================================================
