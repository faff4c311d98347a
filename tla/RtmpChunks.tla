------------------------------ MODULE RtmpChunks ------------------------------
(***************************************************************************)
(* The chunk protocol of com.flazr.rtmp on one connection: RtmpEncoder     *)
(* compresses the header of a message against the previous message of its  *)
(* channel and cuts the payload into chunks; RtmpDecoder reads headers and *)
(* payloads off the wire and puts the messages together again, for several *)
(* channels at a time, since other programs interleave their chunks.       *)
(*                                                                         *)
(* A payload is the identity of its message and a number of bytes.  The    *)
(* wire is a sequence of headers and pieces of payload; a decoder that     *)
(* takes another number of bytes than the piece has, or that needs a       *)
(* header it never got, is broken for good.  Control messages travel on    *)
(* channel 2 with stream 0, always with a full header and in one chunk.    *)
(***************************************************************************)
EXTENDS Integers, Sequences, FiniteSetsExt

CONSTANTS
    Channels,     \* the channels of messages that belong to a stream
    Kinds,        \* their message types
    Sizes,        \* payload sizes
    Times,        \* timestamps
    InitialChunk, \* the chunk size both sides start with
    ChunkSizes,   \* the sizes a ChunkSize message announces
    Interleave,   \* may the sender interleave channels, as other programs do?
    MaxSent,      \* bound: messages
    None          \* Java's null

Control == 2
All == Channels \cup {Control}

ASSUME ChunksAssumption ==
    /\ Channels \subseteq Nat \ {Control}
    /\ "CHUNK_SIZE" \notin Kinds
    /\ Sizes \subseteq Nat /\ Times \subseteq Nat
    /\ ChunkSizes \subseteq Nat \ {0} /\ InitialChunk \in Nat \ {0}
    /\ Interleave \in BOOLEAN /\ MaxSent \in Nat

(* What the two sides keep of a channel.                                   *)

HeaderTypes == {"LARGE", "MEDIUM", "SMALL", "TINY"}
AllKinds == Kinds \cup {"CHUNK_SIZE", "CONTROL", ""}

WireHeaders == [part : {"header"}, chan : All, type : HeaderTypes, time : Nat, size : Nat,
                kind : AllKinds]

\* The last message, for the encoder, and the one that is being cut.
Previous == [size : Nat, time : Nat]
Outgoing == [header : WireHeaders, id : Nat, left : Nat]

\* The last header, for the decoder, and the payload that is being put together.
Decoded == [type : HeaderTypes, time : Nat, delta : Nat, size : Nat, kind : AllKinds]
Incoming == [size : Nat, read : Nat, ids : SUBSET Nat]

\* null is no number and no object.
ASSUME NoneAssumption == None \notin Nat \cup Previous \cup Outgoing \cup Decoded \cup Incoming

VARIABLES
    \* RtmpEncoder
    encChunk,    \* chunkSize
    prevHeader,  \* channelPrevHeaders: size and time of the last message
    outbox,      \* the message of a channel that is being cut into chunks
    wire,
    \* RtmpDecoder
    state, header, channelId, decChunk,
    incompleteHeaders, incompletePayloads, completedTimes,
    broken,
    \* history
    nSent, sent, received,
    skew         \* the encoder's last time on a channel is not its receiver's

encVars == <<encChunk, prevHeader, outbox>>
decVars == <<state, header, channelId, decChunk, incompleteHeaders,
             incompletePayloads, completedTimes, broken>>
chunkVars == <<encVars, wire, decVars, nSent, sent, received, skew>>

\* A header on the wire; its time is the delta unless the type is LARGE.
Header(c, type, time, size, kind) ==
    [part |-> "header", chan |-> c, type |-> type, time |-> time, size |-> size,
     kind |-> kind]

\* A piece of payload; the value is what a control message says.
Piece(id, size, value) ==
    [part |-> "payload", id |-> id, size |-> size, value |-> value]

ChunksInit ==
    /\ encChunk = InitialChunk
    /\ prevHeader = [c \in Channels |-> None]
    /\ outbox = [c \in Channels |-> None]
    /\ wire = <<>>
    /\ state = "GET_HEADER" /\ header = None /\ channelId = Control
    /\ decChunk = InitialChunk
    /\ incompleteHeaders = [c \in All |-> None]
    /\ incompletePayloads = [c \in All |-> None]
    /\ completedTimes = [c \in All |-> None]
    /\ broken = FALSE
    /\ nSent = 0
    /\ sent = [c \in Channels |-> <<>>]
    /\ received = [c \in Channels |-> <<>>]
    /\ skew = [c \in Channels |-> FALSE]

-----------------------------------------------------------------------------
(* RtmpEncoder.encode                                                      *)

\* encode writes a whole message; another program may have one under way on
\* each channel.
MayEncode(busy) ==
    /\ nSent < MaxSent
    /\ \A d \in IF Interleave THEN busy ELSE Channels : outbox[d] = None

\* Mutant: the time goes out where the difference belongs.
CompressAbsolute(c, time, size) ==
    IF prevHeader[c] # None /\ time > 0
    THEN [type |-> IF size = prevHeader[c].size THEN "SMALL" ELSE "MEDIUM",
          time |-> time]
    ELSE [type |-> "LARGE", time |-> time]

\* The type and the time field of the header of a new message, which is large
\* by default.
Compress(c, time, size) ==
    LET prev == prevHeader[c] IN
    IF prev # None /\ time > 0
    THEN [type |-> IF size = prev.size THEN "SMALL" ELSE "MEDIUM",
          time |-> IF time < prev.time THEN 0 ELSE time - prev.time]
    ELSE [type |-> "LARGE", time |-> time]

\* Audio.empty and Video.empty are sent only behind another message of their
\* channel.
Encode(c, kind, size, time) ==
    LET h == Compress(c, time, size) IN
    /\ MayEncode({c})
    /\ size = 0 => prevHeader[c] # None
    /\ nSent' = nSent + 1
    /\ prevHeader' = [prevHeader EXCEPT ![c] = [size |-> size, time |-> time]]
    /\ IF size = 0
       THEN /\ skew' = [skew EXCEPT ![c] = @ \/ time # prevHeader[c].time]
            /\ UNCHANGED <<outbox, sent>>
       ELSE /\ outbox' = [outbox EXCEPT ![c] =
                  [header |-> Header(c, h.type, h.time, size, kind),
                   id |-> nSent, left |-> size]]
            /\ skew' = [skew EXCEPT ![c] =
                  /\ h.type # "LARGE"
                  /\ @ \/ time < prevHeader[c].time]
            /\ sent' = [sent EXCEPT ![c] = Append(@,
                  [id |-> nSent, size |-> size, time |-> time, kind |-> kind, skew |-> skew'[c]])]
    /\ UNCHANGED <<encChunk, wire, decVars, received>>

EncodeMessage ==
    \E c \in Channels, kind \in Kinds, size \in Sizes, time \in Times :
        Encode(c, kind, size, time)

ControlChunk(kind, value) ==
    <<Header(Control, "LARGE", 0, 1, kind), Piece(nSent, 1, value)>>

EncodeChunkSize ==
    /\ MayEncode({})
    /\ \E n \in ChunkSizes :
          /\ encChunk' = n
          /\ wire' = wire \o ControlChunk("CHUNK_SIZE", n)
    /\ nSent' = nSent + 1
    /\ UNCHANGED <<prevHeader, outbox, decVars, sent, received, skew>>

\* STREAM_BEGIN clears the previous headers.
EncodeStreamBegin ==
    /\ MayEncode({})
    /\ prevHeader' = [c \in Channels |-> None]
    /\ wire' = wire \o ControlChunk("CONTROL", 0)
    /\ nSent' = nSent + 1
    /\ UNCHANGED <<encChunk, outbox, decVars, sent, received, skew>>

\* Mutant: only the first chunk is written.
WriteChunkOnce(c) ==
    /\ outbox[c] # None
    /\ LET o == outbox[c]
           size == Min({encChunk, o.left})
       IN wire' = wire \o <<o.header, Piece(o.id, size, 0)>>
    /\ outbox' = [outbox EXCEPT ![c] = None]
    /\ UNCHANGED <<encChunk, prevHeader, decVars, nSent, sent, received, skew>>

\* Mutant: the loop goes on when nothing is left.
WriteChunkBeyond(c) ==
    /\ outbox[c] # None
    /\ LET o == outbox[c]
           size == Min({encChunk, o.left})
       IN /\ wire' = wire \o
                <<IF o.left = o.header.size THEN o.header ELSE Header(c, "TINY", 0, 0, ""),
                  Piece(o.id, size, 0)>>
          /\ outbox' = [outbox EXCEPT ![c] = IF size = 0 THEN None
                                             ELSE [o EXCEPT !.left = @ - size]]
    /\ UNCHANGED <<encChunk, prevHeader, decVars, nSent, sent, received, skew>>

\* One round of the loop: the header or a tiny one, and a chunk.
WriteChunk(c) ==
    /\ outbox[c] # None
    /\ LET o == outbox[c]
           size == Min({encChunk, o.left})
           first == o.left = o.header.size
       IN /\ wire' = wire \o
                <<IF first THEN o.header ELSE Header(c, "TINY", 0, 0, ""),
                  Piece(o.id, size, 0)>>
          /\ outbox' = [outbox EXCEPT ![c] =
                IF o.left = size THEN None ELSE [o EXCEPT !.left = @ - size]]
    /\ UNCHANGED <<encChunk, prevHeader, decVars, nSent, sent, received, skew>>

-----------------------------------------------------------------------------
(* RtmpDecoder.decode, woken up with as much as has arrived.               *)

Arrived(part) == wire # <<>> /\ Head(wire).part = part

\* new RtmpHeader(in, incompleteHeaders)
ReadHeader(u, prev) ==
    CASE u.type = "LARGE"  -> [type |-> "LARGE", time |-> u.time, delta |-> 0,
                               size |-> u.size, kind |-> u.kind]
      [] u.type = "MEDIUM" -> [type |-> "MEDIUM", time |-> 0, delta |-> u.time,
                               size |-> u.size, kind |-> u.kind]
      [] u.type = "SMALL"  -> [prev EXCEPT !.type = "SMALL", !.time = 0,
                                           !.delta = u.time]
      [] u.type = "TINY"   -> prev

\* Mutant: a message that has begun is expected to go on.
GetHeaderKeepingChannel ==
    /\ ~broken /\ state = "GET_HEADER" /\ Arrived("header")
    /\ LET u == Head(wire)
           c == u.chan
           h == ReadHeader(u, incompleteHeaders[c])
       IN /\ u.type = "LARGE" \/ incompleteHeaders[c] # None
          /\ header' = h
          /\ channelId' = IF incompletePayloads[channelId] = None THEN c ELSE channelId
          /\ IF incompletePayloads[c] = None
             THEN /\ incompleteHeaders' = [incompleteHeaders EXCEPT ![c] = h]
                  /\ incompletePayloads' = [incompletePayloads EXCEPT ![c] =
                        [size |-> h.size, read |-> 0, ids |-> {}]]
             ELSE UNCHANGED <<incompleteHeaders, incompletePayloads>>
    /\ state' = "GET_PAYLOAD"
    /\ wire' = Tail(wire)
    /\ UNCHANGED <<broken, encVars, decChunk, completedTimes, nSent, sent, received, skew>>

GetHeader ==
    /\ ~broken /\ state = "GET_HEADER" /\ Arrived("header")
    /\ LET u == Head(wire)
           c == u.chan
           h == ReadHeader(u, incompleteHeaders[c])
       IN IF u.type # "LARGE" /\ incompleteHeaders[c] = None
          THEN /\ broken' = TRUE
               /\ UNCHANGED <<wire, state, header, channelId, incompleteHeaders,
                              incompletePayloads>>
          ELSE /\ header' = h
               /\ channelId' = c
               /\ IF incompletePayloads[c] = None
                  THEN /\ incompleteHeaders' = [incompleteHeaders EXCEPT ![c] = h]
                       /\ incompletePayloads' = [incompletePayloads EXCEPT ![c] =
                             [size |-> h.size, read |-> 0, ids |-> {}]]
                  ELSE UNCHANGED <<incompleteHeaders, incompletePayloads>>
               /\ state' = "GET_PAYLOAD"
               /\ wire' = Tail(wire)
               /\ UNCHANGED broken
    /\ UNCHANGED <<encVars, decChunk, completedTimes, nSent, sent, received, skew>>

\* The time of a completed message; a difference needs a message before it.
CompletedTime(c) ==
    CASE header.type = "LARGE"     -> header.time
      [] header.type # "LARGE" /\ completedTimes[c] # None ->
                                      completedTimes[c] + header.delta
      [] OTHER                     -> None

\* Mutant: the decoder's chunk size stays what it was.
CompleteKeepingChunk(c, p, u) ==
    LET time == CompletedTime(c) IN
    /\ incompletePayloads' = [incompletePayloads EXCEPT ![c] = None]
    /\ broken' = (time = None)
    /\ completedTimes' = [completedTimes EXCEPT ![c] = time]
    /\ decChunk' = decChunk
    /\ received' = IF c = Control \/ time = None THEN received
                   ELSE [received EXCEPT ![c] = Append(@,
                       [ids |-> p.ids, size |-> p.size, time |-> time,
                        kind |-> header.kind])]

\* The last chunk of a message: its time, and its effect on the decoder.
Complete(c, p, u) ==
    LET time == CompletedTime(c) IN
    /\ incompletePayloads' = [incompletePayloads EXCEPT ![c] = None]
    /\ broken' = (time = None)
    /\ completedTimes' = [completedTimes EXCEPT ![c] = time]
    /\ decChunk' = IF header.kind = "CHUNK_SIZE" THEN u.value ELSE decChunk
    /\ received' = IF c = Control \/ time = None THEN received
                   ELSE [received EXCEPT ![c] = Append(@,
                       [ids |-> p.ids, size |-> p.size, time |-> time,
                        kind |-> header.kind])]

GetPayload ==
    /\ ~broken /\ state = "GET_PAYLOAD" /\ Arrived("payload")
    /\ LET u == Head(wire)
           c == channelId
           old == incompletePayloads[c]
           size == Min({old.size - old.read, decChunk})
           new == [old EXCEPT !.read = @ + size, !.ids = @ \cup {u.id}]
       IN IF u.size # size
          THEN /\ broken' = TRUE
               /\ UNCHANGED <<wire, state, incompletePayloads, completedTimes,
                              decChunk, received>>
          ELSE /\ state' = "GET_HEADER"
               /\ wire' = Tail(wire)
               /\ IF new.read < new.size
                  THEN /\ incompletePayloads' = [incompletePayloads EXCEPT ![c] = new]
                       /\ UNCHANGED <<broken, completedTimes, decChunk, received>>
                  ELSE Complete(c, new, u)
    /\ UNCHANGED <<encVars, header, channelId, incompleteHeaders, nSent, sent, skew>>

-----------------------------------------------------------------------------

Encoder == EncodeMessage \/ EncodeChunkSize \/ EncodeStreamBegin

Decoder == GetHeader \/ GetPayload

ChunksNext == Encoder \/ (\E c \in Channels : WriteChunk(c)) \/ Decoder

\* A message that is being written gets written, and the bytes arrive.
ChunksSpec ==
    /\ ChunksInit /\ [][ChunksNext]_chunkVars
    /\ \A c \in Channels : WF_chunkVars(WriteChunk(c))
    /\ WF_chunkVars(Decoder)

-----------------------------------------------------------------------------

ChunksTypeOK ==
    /\ encChunk \in Nat \ {0} /\ decChunk \in Nat \ {0}
    /\ state \in {"GET_HEADER", "GET_PAYLOAD"}
    /\ channelId \in All
    /\ \A c \in Channels : outbox[c] # None => outbox[c].left \in 1..outbox[c].header.size
    /\ \A c \in All : incompletePayloads[c] # None =>
          incompletePayloads[c].read \in 0..(incompletePayloads[c].size - 1)
    /\ \A c \in Channels : Len(received[c]) <= Len(sent[c])
    /\ nSent \in 0..MaxSent

\* The decoder never takes bytes of a payload for a header or the reverse and
\* never misses the header a compressed one refers to, although the chunk size
\* changes while messages are under way and STREAM_BEGIN clears the encoder's
\* headers but not the decoder's.
InStep == ~broken

\* Each channel delivers the messages it was sent, in order and whole, however
\* their chunks are interleaved with those of other channels.
DeliveredWhole ==
    \A c \in Channels : \A k \in 1..Len(received[c]) :
        /\ received[c][k].ids = {sent[c][k].id}
        /\ received[c][k].size = sent[c][k].size

\* A message arrives with the time it was sent with, although only differences
\* travel, as long as since the last full header no time went backwards and no
\* empty message, which is never written, moved the encoder's clock.
TimesKept ==
    \A c \in Channels : \A k \in 1..Len(received[c]) :
        received[c][k].time = sent[c][k].time \/ sent[c][k].skew

\* Every message with a payload is delivered.
AllDelivered ==
    \A c \in Channels, k \in 1..MaxSent :
        Len(sent[c]) >= k ~> Len(received[c]) >= k

\* A message arrives as the type of message it was sent as.
KindKept ==
    \A c \in Channels : \A k \in 1..Len(received[c]) :
        received[c][k].kind = sent[c][k].kind
=============================================================================
