--------------------------- MODULE RtmpChunksProofs ---------------------------
(***************************************************************************)
(* The chunk protocol for any channels, sizes, times and chunk sizes, and  *)
(* any interleaving.  The argument is a simulation: there is a run of the  *)
(* decoder over what is on the wire, that starts in the state the decoder  *)
(* is in and ends in one that fits the encoder.  An encoder's step makes   *)
(* the run longer, a decoder's step takes its first state away.            *)
(***************************************************************************)
EXTENDS RtmpChunks, TLAPS

Pieces == [part : {"payload"}, id : Nat, size : Nat, value : Nat]
Sent == [id : Nat, size : Nat, time : Nat, kind : Kinds, skew : BOOLEAN]
Received == [ids : SUBSET Nat, size : Nat, time : Nat, kind : AllKinds]

(* A decoder's state d, which is one of a run.                             *)

Present(d) ==
    /\ d.state = state /\ d.header = header /\ d.channel = channelId /\ d.chunk = decChunk
    /\ d.headers = incompleteHeaders /\ d.payloads = incompletePayloads
    /\ d.times = completedTimes /\ d.received = received

\* The time of a message with header h behind one of time t.
TimeOf(h, t) ==
    IF h.type = "LARGE" THEN h.time ELSE IF t # None THEN t + h.delta ELSE None

\* GetHeader leads from d to e.
ReadsHeader(d, u, e) ==
    LET c == u.chan IN
    /\ d.state = "GET_HEADER"
    /\ u.type = "LARGE" \/ d.headers[c] # None
    /\ e.state = "GET_PAYLOAD" /\ e.channel = c
    /\ e.header = ReadHeader(u, d.headers[c])
    /\ e.chunk = d.chunk /\ e.times = d.times /\ e.received = d.received
    /\ IF d.payloads[c] = None
       THEN /\ e.headers = [d.headers EXCEPT ![c] = e.header]
            /\ e.payloads = [d.payloads EXCEPT ![c] =
                                [size |-> e.header.size, read |-> 0, ids |-> {}]]
       ELSE e.headers = d.headers /\ e.payloads = d.payloads

\* The payload p with the piece u.
Filled(p, u) == [p EXCEPT !.read = @ + u.size, !.ids = @ \cup {u.id}]

\* GetPayload leads from d to e, and the message is not complete.
ReadsPart(d, u, e) ==
    LET p == Filled(d.payloads[d.channel], u) IN
    /\ p.read < p.size
    /\ e.payloads = [d.payloads EXCEPT ![d.channel] = p]
    /\ e.chunk = d.chunk /\ e.times = d.times /\ e.received = d.received

\* GetPayload leads from d to e, and completes the message.
ReadsLast(d, u, e) ==
    LET c == d.channel
        p == Filled(d.payloads[c], u)
        time == TimeOf(d.header, d.times[c])
    IN /\ ~(p.read < p.size)
       /\ time # None
       /\ e.payloads = [d.payloads EXCEPT ![c] = None]
       /\ e.times = [d.times EXCEPT ![c] = time]
       /\ e.chunk = IF d.header.kind = "CHUNK_SIZE" THEN u.value ELSE d.chunk
       /\ e.received = IF c = Control THEN d.received
                       ELSE [d.received EXCEPT ![c] = Append(@,
                           [ids |-> p.ids, size |-> p.size, time |-> time,
                            kind |-> d.header.kind])]

ReadsPayload(d, u, e) ==
    LET p == d.payloads[d.channel] IN
    /\ d.state = "GET_PAYLOAD"
    /\ p \in Incoming
    /\ u.size = Min({p.size - p.read, d.chunk})
    /\ e.state = "GET_HEADER"
    /\ e.header = d.header /\ e.channel = d.channel /\ e.headers = d.headers
    /\ ReadsPart(d, u, e) \/ ReadsLast(d, u, e)

Reads(d, u, e) ==
    \/ u \in WireHeaders /\ ReadsHeader(d, u, e)
    \/ u \in Pieces /\ ReadsPayload(d, u, e)

\* What was received is what was sent.
Faithful(r, m) == r.ids = {m.id} /\ r.size = m.size /\ (r.time = m.time \/ m.skew)

\* The state d is typed, and what it has received is part of what was sent, st.
Sound(d, st) ==
    /\ d.state \in {"GET_HEADER", "GET_PAYLOAD"} /\ d.channel \in All
    /\ d.chunk \in Nat \ {0}
    /\ d.headers \in [All -> Decoded \cup {None}]
    /\ d.payloads \in [All -> Incoming \cup {None}]
    /\ d.times \in [All -> Nat \cup {None}]
    /\ d.received \in [Channels -> Seq(Received)]
    /\ \A c \in Channels : d.headers[c] # None => d.headers[c].kind # "CHUNK_SIZE"
    /\ \A c \in All : d.payloads[c] # None =>
          d.payloads[c].read \in 0..(d.payloads[c].size - 1)
    /\ \A c \in Channels :
          /\ Len(d.received[c]) <= Len(st[c])
          /\ \A k \in 1..Len(d.received[c]) : Faithful(d.received[c][k], st[c][k])

(* The encoder's state: the last headers ph, what is being cut ob, the      *)
(* messages sent st and the skews sk.                                      *)

\* Channel c has nothing under way, and a next header can refer to the last.
AtRest(d, c, ph, st, sk) ==
    /\ d.payloads[c] = None
    /\ Len(d.received[c]) = Len(st[c])
    /\ ph[c] # None =>
          /\ d.headers[c] # None /\ d.times[c] # None
          /\ ph[c].size > 0 => d.headers[c].size = ph[c].size
          /\ sk[c] \/ d.times[c] = ph[c].time

\* Message m is in the outbox as o, and its header is still to be sent.
Unsent(d, c, o, m) ==
    /\ d.payloads[c] = None
    /\ o.left = m.size
    /\ IF o.header.type = "LARGE" THEN o.header.time = m.time \/ m.skew
       ELSE /\ d.headers[c] # None /\ d.times[c] # None
            /\ d.times[c] + o.header.time = m.time \/ m.skew
    /\ o.header.type = "SMALL" => d.headers[c].size = m.size

\* Some of it has been sent.
Begun(d, c, o, m) ==
    /\ d.payloads[c] = [size |-> m.size, read |-> m.size - o.left, ids |-> {m.id}]
    /\ d.headers[c] # None /\ d.headers[c].size = m.size
    /\ o.left < m.size
    /\ TimeOf(d.headers[c], d.times[c]) # None
    /\ TimeOf(d.headers[c], d.times[c]) = m.time \/ m.skew

UnderWay(d, c, o, ph, st, sk) ==
    LET m == st[c][Len(st[c])] IN
    /\ Len(st[c]) = Len(d.received[c]) + 1
    /\ o.id = m.id /\ o.header.size = m.size /\ sk[c] = m.skew
    /\ ph[c] # None => ph[c].size = m.size /\ ph[c].time = m.time
    /\ Unsent(d, c, o, m) \/ Begun(d, c, o, m)

\* The state d is where the decoder will be when it has read all that was written.
Fits(d, ec, ph, ob, st, sk) ==
    /\ d.state = "GET_HEADER" /\ d.chunk = ec
    /\ d.payloads[Control] = None
    /\ \A c \in Channels :
          IF ob[c] = None THEN AtRest(d, c, ph, st, sk) ELSE UnderWay(d, c, ob[c], ph, st, sk)

\* D is a run over w.
Run(D, w, st) ==
    /\ \A k \in 0..Len(w) : Sound(D[k], st)
    /\ \A k \in 1..Len(w) : Reads(D[k - 1], w[k], D[k])

EncoderInv ==
    /\ encChunk \in Nat \ {0}
    /\ prevHeader \in [Channels -> Previous \cup {None}]
    /\ outbox \in [Channels -> Outgoing \cup {None}]
    /\ \A c \in Channels : outbox[c] # None =>
          /\ outbox[c].left \in 1..outbox[c].header.size
          /\ outbox[c].header.chan = c /\ outbox[c].header.kind \in Kinds
          /\ outbox[c].header.type # "TINY"
    /\ wire \in Seq(WireHeaders \cup Pieces)
    /\ sent \in [Channels -> Seq(Sent)] /\ skew \in [Channels -> BOOLEAN]
    /\ nSent \in 0..MaxSent

RunInv ==
    \E D : /\ Present(D[0])
           /\ Run(D, wire, sent)
           /\ Fits(D[Len(wire)], encChunk, prevHeader, outbox, sent, skew)

ChunksInv == EncoderInv /\ ~broken /\ RunInv

USE ChunksAssumption, NoneAssumption DEF All, Control

-----------------------------------------------------------------------------
(* Data.                                                                   *)

\* The lesser of two numbers.
LEMMA MinOfTwo ==
  ASSUME NEW a \in Nat, NEW b \in Nat
  PROVE  Min({a, b}) = IF a <= b THEN a ELSE b
<1> DEFINE m == IF a <= b THEN a ELSE b
<1>1. m \in {a, b} /\ \A y \in {a, b} : m <= y  OBVIOUS
<1>2. \A x \in {a, b} : (\A y \in {a, b} : x <= y) => x = m  OBVIOUS
<1> HIDE DEF m
<1>3. (CHOOSE x \in {a, b} : \A y \in {a, b} : x <= y) = m  BY <1>1, <1>2
<1>4. QED  BY <1>3 DEF Min, m

\* A function changed at one place.
LEMMA Update ==
  ASSUME NEW A, NEW B, NEW f \in [A -> B], NEW a \in A, NEW b \in B
  PROVE  /\ [f EXCEPT ![a] = b] \in [A -> B]
         /\ [f EXCEPT ![a] = b][a] = b
         /\ \A x \in A \ {a} : [f EXCEPT ![a] = b][x] = f[x]
  OBVIOUS

\* null is nothing else.
LEMMA NotNone ==
  None \notin Nat /\ None \notin Previous /\ None \notin Outgoing /\ None \notin Decoded
  /\ None \notin Incoming
  OBVIOUS

-----------------------------------------------------------------------------
(* Runs.                                                                   *)

\* There is a run over w from d to e.
RunOver(d, w, st, e) == \E E : E[0] = d /\ Run(E, w, st) /\ E[Len(w)] = e

\* A run goes on with one more element.
LEMMA Longer ==
  ASSUME NEW D, NEW S, NEW w \in Seq(S), NEW st, NEW u \in S, NEW e,
         Run(D, w, st), Reads(D[Len(w)], u, e), Sound(e, st)
  PROVE  RunOver(D[0], Append(w, u), st, e)
<1> DEFINE n == Len(w)
           v == Append(w, u)
           E == [k \in 0..(n + 1) |-> IF k <= n THEN D[k] ELSE e]
<1>1. n \in Nat /\ Len(v) = n + 1 /\ v[n + 1] = u /\ \A k \in 1..n : v[k] = w[k]
  OBVIOUS
<1>2. E[n + 1] = e /\ \A k \in 0..n : E[k] = D[k]
  BY <1>1
<1> HIDE DEF n, v, E
<1>3. \A k \in 0..Len(v) : Sound(E[k], st)
  <2> SUFFICES ASSUME NEW k \in 0..(n + 1)  PROVE Sound(E[k], st)
    BY <1>1
  <2>1. CASE k = n + 1  BY <1>2, <2>1
  <2>2. CASE k \in 0..n  BY <1>2, <2>2 DEF Run, n
  <2>3. QED  BY <1>1, <2>1, <2>2
<1>4. \A k \in 1..Len(v) : Reads(E[k - 1], v[k], E[k])
  <2> SUFFICES ASSUME NEW k \in 1..(n + 1)  PROVE Reads(E[k - 1], v[k], E[k])
    BY <1>1
  <2>1. CASE k = n + 1
    <3>1. k - 1 = n /\ n \in 0..n  BY <1>1, <2>1
    <3>2. QED  BY <1>1, <1>2, <2>1, <3>1 DEF n
  <2>2. CASE k \in 1..n
    <3>1. k - 1 \in 0..n /\ k \in 0..n  BY <1>1, <2>2
    <3>2. QED  BY <1>1, <1>2, <2>2, <3>1 DEF Run, n
  <2>3. QED  BY <1>1, <2>1, <2>2
<1>5. E[0] = D[0]  BY <1>1, <1>2
<1>6. QED  BY <1>1, <1>2, <1>3, <1>4, <1>5 DEF Run, RunOver, v

\* A run from its second state on.
LEMMA Shorter ==
  ASSUME NEW D, NEW S, NEW w \in Seq(S), w # <<>>, NEW st, Run(D, w, st)
  PROVE  /\ Reads(D[0], Head(w), D[1])
         /\ \E E : /\ E[0] = D[1] /\ Run(E, Tail(w), st)
                   /\ E[Len(Tail(w))] = D[Len(w)]
<1> DEFINE n == Len(w)
           v == Tail(w)
           E == [k \in 0..(n - 1) |-> D[k + 1]]
<1>1. /\ n \in Nat \ {0} /\ Len(v) = n - 1 /\ w[1] = Head(w)
      /\ \A k \in 1..(n - 1) : v[k] = w[k + 1]
  OBVIOUS
<1>2. \A k \in 0..(n - 1) : E[k] = D[k + 1]
  OBVIOUS
<1> HIDE DEF n, v, E
<1>3. Reads(D[0], Head(w), D[1])
  <2>1. 1 \in 1..Len(w) /\ 1 - 1 = 0  BY <1>1 DEF n
  <2>2. QED  BY <1>1, <2>1 DEF Run
<1>4. \A k \in 0..Len(v) : Sound(E[k], st)
  <2> SUFFICES ASSUME NEW k \in 0..(n - 1)  PROVE Sound(E[k], st)
    BY <1>1
  <2>1. k + 1 \in 0..n  BY <1>1
  <2>2. QED  BY <1>2, <2>1 DEF Run, n
<1>5. \A k \in 1..Len(v) : Reads(E[k - 1], v[k], E[k])
  <2> SUFFICES ASSUME NEW k \in 1..(n - 1)  PROVE Reads(E[k - 1], v[k], E[k])
    BY <1>1
  <2>1. /\ k + 1 \in 1..n /\ (k + 1) - 1 = k
        /\ k - 1 \in 0..(n - 1) /\ k \in 0..(n - 1) /\ (k - 1) + 1 = k
    BY <1>1
  <2>2. Reads(D[k], w[k + 1], D[k + 1])  BY <2>1 DEF Run, n
  <2>3. QED  BY <1>1, <1>2, <2>1, <2>2
<1>6. E[0] = D[1] /\ E[Len(v)] = D[n]
  <2>1. 0 \in 0..(n - 1) /\ n - 1 \in 0..(n - 1) /\ (n - 1) + 1 = n  BY <1>1
  <2>2. QED  BY <1>1, <1>2, <2>1
<1>7. QED  BY <1>3, <1>4, <1>5, <1>6 DEF Run, v, n

-----------------------------------------------------------------------------
(* The decoder's steps are those of the run.                               *)

\* What is at the head of the wire.
LEMMA HeadTyped ==
  ASSUME EncoderInv, wire # <<>>
  PROVE  Head(wire) \in WireHeaders \cup Pieces /\ Tail(wire) \in Seq(WireHeaders \cup Pieces)
  BY DEF EncoderInv

\* A header and a piece are told apart by their part.
LEMMA Parts ==
  /\ \A u \in WireHeaders : u.part = "header" /\ u.chan \in All
  /\ \A u \in Pieces : u.part = "payload" /\ u.id \in Nat /\ u.size \in Nat /\ u.value \in Nat
  BY DEF WireHeaders, Pieces

\* A payload with more in it.
LEMMA FilledFields ==
  ASSUME NEW p \in Incoming, NEW u \in Pieces
  PROVE  /\ Filled(p, u) \in Incoming
         /\ Filled(p, u) = [size |-> p.size, read |-> p.read + u.size, ids |-> p.ids \cup {u.id}]
<1> DEFINE r == p.read + u.size
           i == p.ids \cup {u.id}
<1>1. r \in Nat /\ i \in SUBSET Nat /\ p.size \in Nat  BY DEF Incoming, Pieces
<1> HIDE DEF r, i
<1>2. [p EXCEPT !.read = r, !.ids = i] = [size |-> p.size, read |-> r, ids |-> i]
  <2> DEFINE q == [p EXCEPT !.read = r, !.ids = i]
  <2>1. q \in Incoming /\ q.size = p.size /\ q.read = r /\ q.ids = i  BY <1>1 DEF Incoming
  <2> HIDE DEF q
  <2>2. q = [size |-> q.size, read |-> q.read, ids |-> q.ids]  BY <2>1 DEF Incoming
  <2>3. QED  BY <2>1, <2>2 DEF q
<1>3. Filled(p, u) = [p EXCEPT !.read = r, !.ids = i]  BY DEF Filled, r, i
<1>4. QED  BY <1>1, <1>2, <1>3 DEF Incoming, r, i

\* GetHeader does what the run does with a header.
LEMMA HeaderStep ==
  ASSUME EncoderInv, ~broken, NEW d, NEW e, Present(d), Sound(d, sent),
         GetHeader, Reads(d, Head(wire), e)
  PROVE  Present(e)' /\ ~broken'
<1> DEFINE u == Head(wire)
           c == u.chan
<1>1. u \in WireHeaders /\ ReadsHeader(d, u, e)
  BY HeadTyped, Parts DEF GetHeader, Arrived, Reads
<1> HIDE DEF u
<1>2. u.type = "LARGE" \/ incompleteHeaders[c] # None
  BY <1>1 DEF ReadsHeader, Present
<1>3. /\ header' = e.header /\ channelId' = c /\ state' = "GET_PAYLOAD"
      /\ broken' = broken /\ decChunk' = decChunk /\ completedTimes' = completedTimes
      /\ received' = received
      /\ e.header = ReadHeader(u, incompleteHeaders[c])
  BY <1>1, <1>2 DEF GetHeader, u, ReadsHeader, Present
<1>4. e.headers = incompleteHeaders' /\ e.payloads = incompletePayloads'
  BY <1>1, <1>2, <1>3 DEF GetHeader, u, ReadsHeader, Present
<1>5. QED  BY <1>1, <1>3, <1>4 DEF ReadsHeader, Present

\* GetPayload does what the run does with a piece.
LEMMA PayloadStep ==
  ASSUME EncoderInv, ~broken, NEW d, NEW e, Present(d), Sound(d, sent),
         GetPayload, Reads(d, Head(wire), e)
  PROVE  Present(e)' /\ ~broken'
<1> DEFINE u == Head(wire)
           c == channelId
           old == incompletePayloads[c]
           size == Min({old.size - old.read, decChunk})
           new == [old EXCEPT !.read = @ + size, !.ids = @ \cup {u.id}]
<1>1. u \in Pieces /\ ReadsPayload(d, u, e)
  BY HeadTyped, Parts DEF GetPayload, Arrived, Reads
<1>2. d.channel = c /\ d.payloads[c] = old /\ old \in Incoming /\ u.size = size
  BY <1>1 DEF ReadsPayload, Present
<1>3. new = Filled(old, u)
  <2> HIDE DEF u, old, size
  <2>1. QED  BY <1>2, Zenon DEF Filled
<1>4. TimeOf(d.header, d.times[c]) = CompletedTime(c)
  BY <1>2 DEF TimeOf, CompletedTime, Present
<1>5. /\ state' = "GET_HEADER" /\ UNCHANGED <<header, channelId, incompleteHeaders>>
      /\ IF new.read < new.size
         THEN /\ incompletePayloads' = [incompletePayloads EXCEPT ![c] = new]
              /\ UNCHANGED <<broken, completedTimes, decChunk, received>>
         ELSE Complete(c, new, u)
  BY <1>2 DEF GetPayload
<1> HIDE DEF u, new, c, old
<1>6. CASE ReadsPart(d, u, e)
  BY <1>1, <1>2, <1>3, <1>5, <1>6 DEF ReadsPart, ReadsPayload, Present
<1>7. CASE ReadsLast(d, u, e)
  <2>1. Complete(c, new, u) /\ CompletedTime(c) # None
    BY <1>2, <1>3, <1>4, <1>5, <1>7 DEF ReadsLast
  <2>2. ~broken' /\ e.times = completedTimes'
        /\ e.payloads = incompletePayloads' /\ e.chunk = decChunk'
    BY <1>2, <1>4, <1>7, <2>1 DEF ReadsLast, Complete, Present
  <2>3. e.received = received'
    BY <1>2, <1>3, <1>4, <1>7, <2>1 DEF ReadsLast, Complete, Present
  <2>4. QED  BY <1>1, <1>5, <2>2, <2>3 DEF ReadsPayload, Present
<1>8. QED  BY <1>1, <1>6, <1>7 DEF ReadsPayload

\* A step of the decoder leaves the rest of the run.
LEMMA DecoderInv ==
  ASSUME ChunksInv, Decoder
  PROVE  ChunksInv'
<1>1. wire # <<>> /\ (wire' = Tail(wire) \/ broken')
  BY DEF Decoder, GetHeader, GetPayload, Arrived
<1>2. PICK D : /\ Present(D[0]) /\ Run(D, wire, sent)
               /\ Fits(D[Len(wire)], encChunk, prevHeader, outbox, sent, skew)
  BY DEF ChunksInv, RunInv
<1>3. /\ Reads(D[0], Head(wire), D[1])
      /\ \E E : /\ E[0] = D[1] /\ Run(E, Tail(wire), sent)
                /\ E[Len(Tail(wire))] = D[Len(wire)]
  BY <1>1, <1>2, Shorter DEF ChunksInv, EncoderInv
<1>4. Sound(D[0], sent)
  <2>1. 0 \in 0..Len(wire)  BY DEF ChunksInv, EncoderInv
  <2>2. QED  BY <1>2, <2>1 DEF Run
<1>5. Present(D[1])' /\ ~broken'
  <2> DEFINE d == D[0]
             e == D[1]
  <2>1. Present(d) /\ Reads(d, Head(wire), e) /\ Sound(d, sent)  BY <1>2, <1>3, <1>4
  <2> HIDE DEF d, e
  <2>2. Present(e)' /\ ~broken'
    BY <2>1, HeaderStep, PayloadStep DEF Decoder, ChunksInv
  <2>3. QED  BY <2>2 DEF e
<1>6. wire' = Tail(wire)  BY <1>1, <1>5
<1>7. UNCHANGED <<encChunk, prevHeader, outbox, sent, skew, nSent>>
  BY DEF Decoder, GetHeader, GetPayload, encVars
<1>8. EncoderInv'
  BY <1>1, <1>6, <1>7, HeadTyped DEF ChunksInv, EncoderInv
<1>9. RunInv'
  BY <1>2, <1>3, <1>5, <1>6, <1>7 DEF RunInv
<1>10. QED  BY <1>5, <1>8, <1>9 DEF ChunksInv

-----------------------------------------------------------------------------
(* Reading one element.                                                    *)

\* What the decoder makes of a header.
LEMMA HeaderRead ==
  ASSUME NEW u \in WireHeaders, NEW prev \in Decoded \cup {None},
         u.type = "LARGE" \/ prev # None
  PROVE  LET h == ReadHeader(u, prev) IN
         /\ h \in Decoded
         /\ u.type \in {"LARGE", "MEDIUM"} => h.size = u.size /\ h.kind = u.kind
         /\ u.type = "LARGE" => h.type = "LARGE" /\ h.time = u.time
         /\ u.type \in {"MEDIUM", "SMALL"} => h.type # "LARGE" /\ h.delta = u.time
         /\ u.type = "SMALL" => h.size = prev.size /\ h.kind = prev.kind
         /\ u.type = "TINY" => h = prev
<1>1. u.type \in HeaderTypes /\ u.time \in Nat /\ u.size \in Nat /\ u.kind \in AllKinds
  BY DEF WireHeaders
<1>2. CASE u.type = "LARGE"  BY <1>1, <1>2 DEF ReadHeader, Decoded, HeaderTypes
<1>3. CASE u.type = "MEDIUM"  BY <1>1, <1>3 DEF ReadHeader, Decoded, HeaderTypes
<1>4. CASE u.type = "SMALL"
  <2>1. prev \in Decoded  BY <1>4
  <2>2. ReadHeader(u, prev) = [prev EXCEPT !.type = "SMALL", !.time = 0, !.delta = u.time]
    BY <1>4 DEF ReadHeader
  <2> DEFINE q == [prev EXCEPT !.type = "SMALL", !.time = 0, !.delta = u.time]
  <2>3. q.type = "SMALL" /\ q.delta = u.time /\ q.size = prev.size /\ q.kind = prev.kind
    BY <2>1 DEF Decoded
  <2>4. q \in Decoded
    BY <1>1, <2>1 DEF Decoded, HeaderTypes
  <2> HIDE DEF q
  <2>5. ReadHeader(u, prev) = q  BY <2>2 DEF q
  <2>6. QED  BY <1>4, <2>3, <2>4, <2>5
<1>5. CASE u.type = "TINY"  BY <1>5 DEF ReadHeader
<1>6. QED  BY <1>1, <1>2, <1>3, <1>4, <1>5 DEF HeaderTypes

\* A header can be read when it refers to nothing the decoder has not got.
LEMMA ReadsAHeader ==
  ASSUME NEW d, NEW st, Sound(d, st), d.state = "GET_HEADER",
         NEW u \in WireHeaders, u.type = "LARGE" \/ d.headers[u.chan] # None,
         d.payloads[u.chan] = None => ReadHeader(u, d.headers[u.chan]).size # 0,
         u.chan # Control => ReadHeader(u, d.headers[u.chan]).kind # "CHUNK_SIZE"
  PROVE  \E e : Reads(d, u, e) /\ ReadsHeader(d, u, e) /\ Sound(e, st)
<1> DEFINE c == u.chan
           h == ReadHeader(u, d.headers[c])
           q == [size |-> h.size, read |-> 0, ids |-> {}]
           e == [state |-> "GET_PAYLOAD", header |-> h, channel |-> c, chunk |-> d.chunk,
                 headers |-> IF d.payloads[c] = None THEN [d.headers EXCEPT ![c] = h]
                             ELSE d.headers,
                 payloads |-> IF d.payloads[c] = None THEN [d.payloads EXCEPT ![c] = q]
                              ELSE d.payloads,
                 times |-> d.times, received |-> d.received]
<1>1. c \in All  BY Parts
<1>2. h \in Decoded  BY <1>1, HeaderRead DEF Sound
<1>3. q \in Incoming  BY <1>2 DEF Incoming, Decoded
<1>4. ReadsHeader(d, u, e)  BY DEF ReadsHeader
<1>5. e.headers \in [All -> Decoded \cup {None}]  BY <1>1, <1>2, Update DEF Sound
<1>6. e.payloads \in [All -> Incoming \cup {None}]  BY <1>1, <1>3, Update DEF Sound
<1>7. \A x \in Channels : e.headers[x] # None => e.headers[x].kind # "CHUNK_SIZE"
  <2> SUFFICES ASSUME NEW x \in Channels, e.headers[x] # None
               PROVE  e.headers[x].kind # "CHUNK_SIZE"
    OBVIOUS
  <2>1. CASE x = c /\ d.payloads[c] = None
    <3>1. e.headers[x] = h /\ c # Control  BY <1>1, <1>2, <2>1, Update DEF Sound
    <3>2. QED  BY <3>1
  <2>2. CASE ~(x = c /\ d.payloads[c] = None)
    <3>1. e.headers[x] = d.headers[x]  BY <1>1, <1>2, <2>2, Update DEF Sound
    <3>2. QED  BY <3>1 DEF Sound
  <2>3. QED  BY <2>1, <2>2
<1>8. \A x \in All : e.payloads[x] # None => e.payloads[x].read \in 0..(e.payloads[x].size - 1)
  <2> SUFFICES ASSUME NEW x \in All, e.payloads[x] # None
               PROVE  e.payloads[x].read \in 0..(e.payloads[x].size - 1)
    OBVIOUS
  <2>1. CASE x = c /\ d.payloads[c] = None
    <3>1. e.payloads[x] = q  BY <1>1, <1>3, <2>1, Update DEF Sound
    <3>2. q.read = 0 /\ q.size \in Nat \ {0}  BY <1>2, <2>1 DEF Decoded
    <3>3. QED  BY <3>1, <3>2
  <2>2. CASE ~(x = c /\ d.payloads[c] = None)
    <3>1. e.payloads[x] = d.payloads[x]  BY <1>1, <1>3, <2>2, Update DEF Sound
    <3>2. QED  BY <3>1 DEF Sound
  <2>3. QED  BY <2>1, <2>2
<1>9. Sound(e, st)
  <2>1. /\ e.state = "GET_PAYLOAD" /\ e.channel = c /\ e.chunk = d.chunk
        /\ e.times = d.times /\ e.received = d.received
    OBVIOUS
  <2> HIDE DEF e
  <2>2. QED  BY <1>1, <1>5, <1>6, <1>7, <1>8, <2>1 DEF Sound
<1>10. QED  BY <1>4, <1>9 DEF Reads

\* A piece that does not complete its message can be read.
LEMMA ReadsAPart ==
  ASSUME NEW d, NEW st, Sound(d, st), d.state = "GET_PAYLOAD", NEW u \in Pieces,
         d.payloads[d.channel] # None,
         u.size = Min({d.payloads[d.channel].size - d.payloads[d.channel].read, d.chunk}),
         d.payloads[d.channel].read + u.size < d.payloads[d.channel].size
  PROVE  \E e : Reads(d, u, e) /\ ReadsPayload(d, u, e) /\ ReadsPart(d, u, e) /\ Sound(e, st)
<1> DEFINE c == d.channel
           p == d.payloads[c]
           q == Filled(p, u)
           f == [state |-> "GET_HEADER", header |-> d.header, channel |-> c, chunk |-> d.chunk,
                 headers |-> d.headers, payloads |-> [d.payloads EXCEPT ![c] = q],
                 times |-> d.times, received |-> d.received]
<1>1. c \in All /\ p \in Incoming  BY DEF Sound
<1>2. q \in Incoming /\ q.size = p.size /\ q.read = p.read + u.size
  BY <1>1, FilledFields
<1>3. ReadsPayload(d, u, f) /\ ReadsPart(d, u, f)
  BY <1>1, <1>2 DEF ReadsPayload, ReadsPart
<1>4. f.payloads \in [All -> Incoming \cup {None}]  BY <1>1, <1>2, Update DEF Sound
<1>5. \A x \in All : f.payloads[x] # None => f.payloads[x].read \in 0..(f.payloads[x].size - 1)
  <2> SUFFICES ASSUME NEW x \in All, f.payloads[x] # None
               PROVE  f.payloads[x].read \in 0..(f.payloads[x].size - 1)
    OBVIOUS
  <2>1. CASE x = c
    <3>1. f.payloads[x] = q  BY <1>1, <1>2, <2>1, Update DEF Sound
    <3>2. q.read \in Nat /\ q.size \in Nat /\ q.read < q.size  BY <1>2 DEF Incoming
    <3>3. QED  BY <3>1, <3>2
  <2>2. CASE x # c
    <3>1. f.payloads[x] = d.payloads[x]  BY <1>1, <1>2, <2>2, Update DEF Sound
    <3>2. QED  BY <3>1 DEF Sound
  <2>3. QED  BY <2>1, <2>2
<1>6. Sound(f, st)
  <2>1. /\ f.state = "GET_HEADER" /\ f.channel = c /\ f.chunk = d.chunk
        /\ f.headers = d.headers /\ f.times = d.times /\ f.received = d.received
    OBVIOUS
  <2> HIDE DEF f
  <2>2. QED  BY <1>1, <1>4, <1>5, <2>1 DEF Sound
<1>7. QED  BY <1>3, <1>6 DEF Reads

\* A piece that completes its message can be read, if the message is the next one that was sent.
LEMMA ReadsTheLast ==
  ASSUME NEW st \in [Channels -> Seq(Sent)],
         NEW d, Sound(d, st), d.state = "GET_PAYLOAD", NEW u \in Pieces,
         NEW c, c = d.channel, NEW p, p = d.payloads[c], p # None,
         u.size = Min({p.size - p.read, d.chunk}), p.read + u.size = p.size,
         d.header \in Decoded, TimeOf(d.header, d.times[c]) # None,
         d.header.kind = "CHUNK_SIZE" => c = Control /\ u.value # 0,
         c # Control =>
            /\ Len(st[c]) = Len(d.received[c]) + 1
            /\ p.ids \cup {u.id} = {st[c][Len(st[c])].id}
            /\ p.size = st[c][Len(st[c])].size
            /\ TimeOf(d.header, d.times[c]) = st[c][Len(st[c])].time \/ st[c][Len(st[c])].skew
  PROVE  \E e : Reads(d, u, e) /\ ReadsPayload(d, u, e) /\ ReadsLast(d, u, e) /\ Sound(e, st)
<1> DEFINE time == TimeOf(d.header, d.times[c])
           q == Filled(p, u)
           r == [ids |-> q.ids, size |-> q.size, time |-> time, kind |-> d.header.kind]
           e == [state |-> "GET_HEADER", header |-> d.header, channel |-> c,
                 chunk |-> IF d.header.kind = "CHUNK_SIZE" THEN u.value ELSE d.chunk,
                 headers |-> d.headers, payloads |-> [d.payloads EXCEPT ![c] = None],
                 times |-> [d.times EXCEPT ![c] = time],
                 received |-> IF c = Control THEN d.received
                              ELSE [d.received EXCEPT ![c] = Append(@, r)]]
<1>1. c \in All /\ p \in Incoming  BY DEF Sound
<1>2. /\ q \in Incoming /\ q.size = p.size /\ q.read = p.read + u.size
      /\ q.ids = p.ids \cup {u.id}
  BY <1>1, FilledFields
<1>3. ~(q.read < q.size)  BY <1>1, <1>2 DEF Incoming
<1>4. time \in Nat
  <2>1. d.times[c] \in Nat \cup {None}  BY <1>1 DEF Sound
  <2>2. d.header.time \in Nat /\ d.header.delta \in Nat  BY DEF Decoded
  <2>3. QED  BY <2>1, <2>2 DEF TimeOf
<1>5. r \in Received
  <2>1. q.ids \in SUBSET Nat /\ q.size \in Nat /\ d.header.kind \in AllKinds
    BY <1>2 DEF Incoming, Decoded
  <2> HIDE DEF q, time
  <2>2. QED  BY <1>4, <2>1 DEF Received
<1>6. e.times \in [All -> Nat \cup {None}]
  <2> HIDE DEF time
  <2>1. QED  BY <1>1, <1>4, Update DEF Sound
<1>7. e.payloads \in [All -> Incoming \cup {None}]  BY <1>1, Update DEF Sound
<1>8. \A x \in All : e.payloads[x] # None => e.payloads[x].read \in 0..(e.payloads[x].size - 1)
  <2> SUFFICES ASSUME NEW x \in All, e.payloads[x] # None
               PROVE  e.payloads[x].read \in 0..(e.payloads[x].size - 1)
    OBVIOUS
  <2>1. x # c /\ e.payloads[x] = d.payloads[x]  BY <1>1, Update DEF Sound
  <2>2. QED  BY <2>1 DEF Sound
<1>9. ReadsPayload(d, u, e) /\ ReadsLast(d, u, e)
  <2>1. ReadsLast(d, u, e)  BY <1>3 DEF ReadsLast
  <2>2. QED  BY <1>1, <2>1 DEF ReadsPayload
<1>10. e.chunk \in Nat \ {0}  BY Parts DEF Sound
<1>11. /\ e.received \in [Channels -> Seq(Received)]
       /\ \A x \in Channels :
             /\ Len(e.received[x]) <= Len(st[x])
             /\ \A k \in 1..Len(e.received[x]) : Faithful(e.received[x][k], st[x][k])
  <2>1. CASE c = Control  BY <2>1 DEF Sound
  <2>2. CASE c # Control
    <3> DEFINE s == d.received[c]
               n == Len(s)
    <3>1. c \in Channels /\ s \in Seq(Received) /\ n \in Nat
      <4>1. c \in Channels /\ d.received \in [Channels -> Seq(Received)]
        BY <1>1, <2>2 DEF Sound
      <4> HIDE DEF r, e, q, time
      <4>2. s \in Seq(Received)  BY <4>1
      <4>3. QED  BY <4>1, <4>2
    <3>2. /\ Append(s, r) \in Seq(Received) /\ Len(Append(s, r)) = n + 1
          /\ Append(s, r)[n + 1] = r
          /\ \A k \in 1..n : Append(s, r)[k] = s[k]
      <4> HIDE DEF s, r
      <4>1. QED  BY <1>5, <3>1
    <3>3. Faithful(r, st[c][n + 1])
      <4>1. Len(st[c]) = n + 1  BY <2>2
      <4>2. QED  BY <1>2, <2>2, <4>1 DEF Faithful
    <3>4. e.received = [d.received EXCEPT ![c] = Append(s, r)]
      <4> HIDE DEF r
      <4>1. QED  BY <2>2
    <3> HIDE DEF r, e, q
    <3>5. /\ e.received \in [Channels -> Seq(Received)]
          /\ e.received[c] = Append(s, r)
          /\ \A x \in Channels \ {c} : e.received[x] = d.received[x]
      BY <3>1, <3>2, <3>4, Update DEF Sound
    <3>6. \A k \in 1..(n + 1) : Faithful(Append(s, r)[k], st[c][k])
      <4> SUFFICES ASSUME NEW k \in 1..(n + 1)  PROVE Faithful(Append(s, r)[k], st[c][k])
        OBVIOUS
      <4>1. CASE k = n + 1  BY <3>2, <3>3, <4>1
      <4>2. CASE k \in 1..n  BY <3>1, <3>2, <4>2 DEF Sound
      <4>3. QED  BY <3>1, <4>1, <4>2
    <3>7. ASSUME NEW x \in Channels
          PROVE  /\ Len(e.received[x]) <= Len(st[x])
                 /\ \A k \in 1..Len(e.received[x]) : Faithful(e.received[x][k], st[x][k])
      <4>1. CASE x = c
        <5>1. Len(st[c]) = n + 1 /\ Len(e.received[c]) = n + 1  BY <2>2, <3>2, <3>5
        <5>2. \A k \in 1..Len(e.received[c]) : Faithful(e.received[c][k], st[c][k])
          BY <3>5, <3>6, <5>1
        <5>3. QED  BY <3>1, <4>1, <5>1, <5>2
      <4>2. CASE x # c  BY <3>5, <4>2 DEF Sound
      <4>3. QED  BY <4>1, <4>2
    <3>8. QED  BY <3>5, <3>7
  <2>3. QED  BY <2>1, <2>2
<1>12. Sound(e, st)
  <2>1. e.state = "GET_HEADER" /\ e.channel = c /\ e.headers = d.headers  OBVIOUS
  <2> HIDE DEF e
  <2>2. QED  BY <1>1, <1>6, <1>7, <1>8, <1>10, <1>11, <2>1 DEF Sound
<1>13. QED  BY <1>9, <1>12 DEF Reads

-----------------------------------------------------------------------------
(* Writing a chunk.                                                        *)

\* The header in front of a chunk of the message in the outbox, o.
FirstHeader(c, o) == IF o.left = o.header.size THEN o.header ELSE Header(c, "TINY", 0, 0, "")

\* The state e is that behind the header of a chunk of message m, in the outbox as o.
Opened(d, e, c, o, m) ==
    /\ e.state = "GET_PAYLOAD" /\ e.channel = c /\ e.chunk = d.chunk
    /\ e.times = d.times /\ e.received = d.received
    /\ e.header \in Decoded /\ e.header.kind # "CHUNK_SIZE"
    /\ e.headers[c] = e.header /\ e.header.size = m.size
    /\ TimeOf(e.header, e.times[c]) # None
    /\ TimeOf(e.header, e.times[c]) = m.time \/ m.skew
    /\ e.payloads[c] \in Incoming
    /\ e.payloads[c].size = m.size /\ e.payloads[c].read = m.size - o.left
    /\ e.payloads[c].ids \cup {m.id} = {m.id}
    /\ \A x \in All \ {c} : e.headers[x] = d.headers[x] /\ e.payloads[x] = d.payloads[x]

\* What is in an outbox.
LEMMA OutboxFacts ==
  ASSUME EncoderInv, NEW d, Sound(d, sent),
         Fits(d, encChunk, prevHeader, outbox, sent, skew),
         NEW c \in Channels, outbox[c] # None,
         NEW o, o = outbox[c], NEW m, m = sent[c][Len(sent[c])]
  PROVE  /\ c \in All /\ c # Control
         /\ o \in Outgoing /\ o.header \in WireHeaders /\ o.left \in 1..m.size
         /\ o.header.chan = c /\ o.header.kind \in Kinds /\ o.header.type # "TINY"
         /\ m \in Sent /\ Len(sent[c]) = Len(d.received[c]) + 1
         /\ o.id = m.id /\ o.header.size = m.size /\ skew[c] = m.skew
         /\ prevHeader[c] # None => prevHeader[c].size = m.size /\ prevHeader[c].time = m.time
         /\ Unsent(d, c, o, m) \/ Begun(d, c, o, m)
         /\ d.headers[c] \in Decoded \cup {None} /\ d.times[c] \in Nat \cup {None}
<1>1. UnderWay(d, c, o, prevHeader, sent, skew)  BY DEF Fits
<1>2. c \in All /\ c # Control  OBVIOUS
<1>3. o \in Outgoing /\ o.left \in 1..o.header.size  BY DEF EncoderInv
<1>4. o.header \in WireHeaders  BY <1>3 DEF Outgoing
<1>5. m \in Sent
  <2>1. sent[c] \in Seq(Sent)  BY DEF EncoderInv
  <2>2. d.received[c] \in Seq(Received)  BY DEF Sound
  <2>3. Len(sent[c]) \in 1..Len(sent[c])  BY <1>1, <2>1, <2>2 DEF UnderWay
  <2>4. QED  BY <2>1, <2>3
<1>6. d.headers[c] \in Decoded \cup {None} /\ d.times[c] \in Nat \cup {None}
  BY <1>2 DEF Sound
<1>7. o.header.chan = c /\ o.header.kind \in Kinds /\ o.header.type # "TINY"
  BY DEF EncoderInv
<1>8. QED  BY <1>1, <1>2, <1>3, <1>4, <1>5, <1>6, <1>7 DEF UnderWay

\* The header of the message, or a tiny one, is read.
LEMMA ChunkHeader ==
  ASSUME EncoderInv, NEW d, Sound(d, sent),
         Fits(d, encChunk, prevHeader, outbox, sent, skew),
         NEW c \in Channels, outbox[c] # None,
         NEW o, o = outbox[c], NEW m, m = sent[c][Len(sent[c])]
  PROVE  /\ FirstHeader(c, o) \in WireHeaders
         /\ \E e : Reads(d, FirstHeader(c, o), e) /\ Sound(e, sent) /\ Opened(d, e, c, o, m)
<1> DEFINE a == FirstHeader(c, o)
           h == ReadHeader(a, d.headers[c])
<1>1. /\ c \in All /\ c # Control
      /\ o \in Outgoing /\ o.header \in WireHeaders /\ o.left \in 1..m.size
      /\ o.header.chan = c /\ o.header.kind \in Kinds /\ o.header.type # "TINY"
      /\ m \in Sent /\ o.header.size = m.size
      /\ Unsent(d, c, o, m) \/ Begun(d, c, o, m)
      /\ d.headers[c] \in Decoded \cup {None} /\ d.times[c] \in Nat \cup {None}
  BY OutboxFacts
<1>2. m.size \in Nat \ {0} /\ m.time \in Nat  BY <1>1 DEF Sent
<1>3. d.state = "GET_HEADER"  BY DEF Fits
<1>4. CASE Unsent(d, c, o, m)
  <2>1. a = o.header  BY <1>1, <1>4 DEF FirstHeader, Unsent
  <2>2. a.type = "LARGE" \/ d.headers[c] # None  BY <1>4, <2>1 DEF Unsent
  <2>3. h \in Decoded /\ h.size = m.size /\ h.kind # "CHUNK_SIZE"
    <3>1. CASE a.type \in {"LARGE", "MEDIUM"}
      <4>1. h \in Decoded /\ h.size = a.size /\ h.kind = a.kind
        BY <1>1, <2>1, <2>2, <3>1, HeaderRead
      <4>2. QED  BY <1>1, <2>1, <4>1
    <3>2. CASE a.type = "SMALL"
      <4>1. h \in Decoded /\ h.size = d.headers[c].size /\ h.kind = d.headers[c].kind
        BY <1>1, <2>1, <2>2, <3>2, HeaderRead
      <4>2. QED  BY <1>4, <2>1, <2>2, <3>2, <4>1 DEF Unsent, Sound
    <3>3. a.type \in HeaderTypes \ {"TINY"}  BY <1>1, <2>1 DEF WireHeaders
    <3>4. QED  BY <3>1, <3>2, <3>3 DEF HeaderTypes
  <2>4. TimeOf(h, d.times[c]) # None /\ (TimeOf(h, d.times[c]) = m.time \/ m.skew)
    <3>1. CASE a.type = "LARGE"
      <4>1. h.type = "LARGE" /\ h.time = a.time  BY <1>1, <2>1, <2>2, <3>1, HeaderRead
      <4>2. a.time \in Nat  BY <1>1, <2>1 DEF WireHeaders
      <4>3. QED  BY <1>4, <2>1, <3>1, <4>1, <4>2, NotNone DEF Unsent, TimeOf
    <3>2. CASE a.type # "LARGE"
      <4>1. a.type \in {"MEDIUM", "SMALL"}  BY <1>1, <2>1, <3>2 DEF WireHeaders, HeaderTypes
      <4>2. h.type # "LARGE" /\ h.delta = a.time
        BY <1>1, <2>1, <2>2, <4>1, HeaderRead
      <4>3. a.time \in Nat  BY <1>1, <2>1 DEF WireHeaders
      <4>4. d.times[c] # None /\ (d.times[c] + a.time = m.time \/ m.skew)
        BY <1>4, <2>1, <3>2 DEF Unsent
      <4>5. d.times[c] + a.time \in Nat  BY <1>1, <4>3, <4>4
      <4>6. QED  BY <4>2, <4>4, <4>5, NotNone DEF TimeOf
    <3>3. QED  BY <3>1, <3>2
  <2>5. d.payloads[c] = None  BY <1>4 DEF Unsent
  <2>6. a.chan = c /\ a \in WireHeaders  BY <1>1, <2>1
  <2> HIDE DEF a, h
  <2>7. h.size # 0  BY <1>2, <2>3
  <2>8. PICK e : Reads(d, a, e) /\ ReadsHeader(d, a, e) /\ Sound(e, sent)
    BY <1>3, <2>2, <2>3, <2>6, <2>7, ReadsAHeader DEF h
  <2> DEFINE q == [size |-> h.size, read |-> 0, ids |-> {}]
  <2>9. /\ e.state = "GET_PAYLOAD" /\ e.channel = c /\ e.chunk = d.chunk
        /\ e.times = d.times /\ e.received = d.received /\ e.header = h
        /\ e.headers = [d.headers EXCEPT ![c] = h]
        /\ e.payloads = [d.payloads EXCEPT ![c] = q]
    BY <2>5, <2>6, <2>8 DEF ReadsHeader, h
  <2>10. q \in Incoming  BY <2>3 DEF Incoming, Decoded
  <2>11. /\ e.headers[c] = h /\ e.payloads[c] = q
         /\ \A x \in All \ {c} : e.headers[x] = d.headers[x] /\ e.payloads[x] = d.payloads[x]
    <3> HIDE DEF q
    <3>1. QED  BY <1>1, <2>3, <2>9, <2>10, Update DEF Sound
  <2>12. q.size = m.size /\ q.read = m.size - o.left /\ q.ids \cup {m.id} = {m.id}
    BY <1>2, <1>4, <2>3 DEF Unsent
  <2> HIDE DEF q
  <2>13. Opened(d, e, c, o, m)
    BY <2>3, <2>4, <2>9, <2>10, <2>11, <2>12 DEF Opened
  <2>14. QED  BY <2>6, <2>8, <2>13 DEF a
<1>5. CASE Begun(d, c, o, m)
  <2> DEFINE tiny == Header(c, "TINY", 0, 0, "")
  <2>1. tiny.chan = c /\ tiny.type = "TINY" /\ tiny \in WireHeaders
    BY <1>1 DEF Header, WireHeaders, HeaderTypes, AllKinds
  <2>2. a = tiny
    <3> HIDE DEF tiny
    <3>1. o.left # o.header.size  BY <1>1, <1>2, <1>5 DEF Begun
    <3>2. QED  BY <3>1 DEF FirstHeader, tiny
  <2> HIDE DEF tiny
  <2>3. d.headers[c] # None /\ d.headers[c].size = m.size  BY <1>5 DEF Begun
  <2>4. h = d.headers[c]
    <3> HIDE DEF a
    <3>1. a.type = "TINY"  BY <2>1, <2>2
    <3>2. QED  BY <3>1 DEF ReadHeader
  <2>5. h \in Decoded /\ h.kind # "CHUNK_SIZE"
    <3> HIDE DEF a, h
    <3>1. d.headers[c] \in Decoded /\ d.headers[c].kind # "CHUNK_SIZE"
      BY <1>1, <2>3 DEF Sound
    <3>2. QED  BY <2>4, <3>1
  <2> DEFINE p == [size |-> m.size, read |-> m.size - o.left, ids |-> {m.id}]
  <2>6. d.payloads[c] = p /\ p \in Incoming
    <3> HIDE DEF a, h
    <3>1. m.id \in Nat /\ m.size - o.left \in Nat
      <4>1. m.id \in Nat  BY <1>1 DEF Sent
      <4>2. QED  BY <1>1, <1>2, <4>1
    <3>2. QED  BY <1>2, <1>5, <3>1 DEF Begun, Incoming
  <2> HIDE DEF a, h
  <2>7. h.size # 0  BY <1>2, <2>3, <2>4
  <2>8. d.payloads[c] # None
    <3> HIDE DEF p
    <3>1. QED  BY <2>6, NotNone
  <2>9. PICK e : Reads(d, a, e) /\ ReadsHeader(d, a, e) /\ Sound(e, sent)
    BY <1>3, <2>1, <2>2, <2>3, <2>5, <2>7, <2>8, ReadsAHeader DEF h
  <2>10. /\ e.state = "GET_PAYLOAD" /\ e.channel = c /\ e.chunk = d.chunk
         /\ e.times = d.times /\ e.received = d.received /\ e.header = h
         /\ e.headers = d.headers /\ e.payloads = d.payloads
    BY <2>1, <2>2, <2>8, <2>9 DEF ReadsHeader, h
  <2>11. Opened(d, e, c, o, m)
    BY <1>5, <2>3, <2>4, <2>5, <2>6, <2>10 DEF Opened, Begun
  <2>12. QED  BY <2>1, <2>2, <2>9, <2>11 DEF a
<1>6. QED  BY <1>1, <1>4, <1>5

\* The message o after n more bytes of it.
Less(o, n) == [o EXCEPT !.left = @ - n]

LEMMA OutgoingLess ==
  ASSUME NEW o \in Outgoing, NEW n \in Nat, o.left - n \in Nat
  PROVE  /\ Less(o, n) \in Outgoing /\ Less(o, n).left = o.left - n
         /\ Less(o, n).id = o.id /\ Less(o, n).header = o.header
  BY DEF Outgoing, Less

\* How much of a message of a size is cut off.
CutOf(size, left, chunk, n) ==
    /\ n \in 1..left /\ n = Min({size - (size - left), chunk})
    /\ n = left \/ n < left
    /\ n = left => (size - left) + n = size
    /\ n < left => /\ (size - left) + n < size
                   /\ (size - left) + n = size - (left - n)
                   /\ left - n \in Nat /\ left - n # 0 /\ left - n < size

LEMMA Cut ==
  ASSUME NEW size \in Nat \ {0}, NEW left \in 1..size, NEW chunk \in Nat \ {0}
  PROVE  CutOf(size, left, chunk, Min({chunk, left}))
<1> DEFINE n == Min({chunk, left})
<1>1. left \in Nat \ {0} /\ left <= size  OBVIOUS
<1>2. n = IF chunk <= left THEN chunk ELSE left  BY <1>1, MinOfTwo
<1>3. Min({left, chunk}) = n  BY <1>1, <1>2, MinOfTwo
<1> HIDE DEF n
<1>4. n \in Nat /\ n >= 1 /\ n <= left  BY <1>1, <1>2
<1>5. size - (size - left) = left  BY <1>1
<1>6. n \in 1..left /\ (n = left \/ n < left)  BY <1>1, <1>4
<1>7. n = left => (size - left) + n = size  BY <1>1
<1>8. n < left => /\ (size - left) + n < size
                  /\ (size - left) + n = size - (left - n)
                  /\ left - n \in Nat /\ left - n # 0 /\ left - n < size
  BY <1>1, <1>4
<1>9. CutOf(size, left, chunk, n)  BY <1>3, <1>5, <1>6, <1>7, <1>8 DEF CutOf
<1>10. QED  BY <1>9 DEF n

\* A channel for which the decoder's state stays the same.
LEMMA SameChannel ==
  ASSUME NEW d, NEW f, NEW x, NEW ph, NEW ob, NEW st, NEW sk,
         f.headers[x] = d.headers[x], f.payloads[x] = d.payloads[x],
         f.times[x] = d.times[x], f.received[x] = d.received[x]
  PROVE  /\ AtRest(d, x, ph, st, sk) => AtRest(f, x, ph, st, sk)
         /\ UnderWay(d, x, ob[x], ph, st, sk) => UnderWay(f, x, ob[x], ph, st, sk)
<1>1. AtRest(d, x, ph, st, sk) => AtRest(f, x, ph, st, sk)  BY DEF AtRest
<1>2. \A m : /\ Unsent(d, x, ob[x], m) => Unsent(f, x, ob[x], m)
             /\ Begun(d, x, ob[x], m) => Begun(f, x, ob[x], m)
  BY DEF Unsent, Begun
<1>3. UnderWay(d, x, ob[x], ph, st, sk) => UnderWay(f, x, ob[x], ph, st, sk)
  BY <1>2 DEF UnderWay
<1>4. QED  BY <1>1, <1>3

\* The piece is read: the message has begun, or is received.
LEMMA ChunkPiece ==
  ASSUME EncoderInv, NEW d, Sound(d, sent),
         Fits(d, encChunk, prevHeader, outbox, sent, skew),
         NEW c \in Channels, outbox[c] # None,
         NEW o, o = outbox[c], NEW m, m = sent[c][Len(sent[c])],
         NEW e, Sound(e, sent), Opened(d, e, c, o, m),
         NEW n, n = Min({encChunk, o.left}),
         NEW ob, ob = [outbox EXCEPT ![c] = IF o.left = n THEN None ELSE Less(o, n)]
  PROVE  /\ Piece(o.id, n, 0) \in Pieces
         /\ \E f : /\ Reads(e, Piece(o.id, n, 0), f) /\ Sound(f, sent)
                   /\ Fits(f, encChunk, prevHeader, ob, sent, skew)
<1> DEFINE u == Piece(o.id, n, 0)
           p == e.payloads[c]
<1>1. /\ c \in All /\ c # Control
      /\ o \in Outgoing /\ o.left \in 1..m.size /\ o.header.size = m.size
      /\ m \in Sent /\ Len(sent[c]) = Len(d.received[c]) + 1
      /\ o.id = m.id /\ skew[c] = m.skew
      /\ prevHeader[c] # None => prevHeader[c].size = m.size /\ prevHeader[c].time = m.time
  BY OutboxFacts
<1>2. m.size \in Nat \ {0} /\ m.time \in Nat /\ m.id \in Nat  BY <1>1 DEF Sent
<1>3. encChunk \in Nat \ {0} /\ o.left \in Nat \ {0}  BY <1>1, <1>2 DEF EncoderInv
<1>4. /\ n \in 1..o.left /\ n = Min({m.size - (m.size - o.left), encChunk})
      /\ n = o.left \/ n < o.left
      /\ n = o.left => (m.size - o.left) + n = m.size
      /\ n < o.left => /\ (m.size - o.left) + n < m.size
                       /\ (m.size - o.left) + n = m.size - (o.left - n)
                       /\ o.left - n \in Nat /\ o.left - n # 0 /\ o.left - n < m.size
  <2>1. CutOf(m.size, o.left, encChunk, n)  BY <1>1, <1>2, <1>3, Cut
  <2>2. QED  BY <2>1 DEF CutOf
<1>5. u \in Pieces /\ u.id = m.id /\ u.size = n /\ u.value = 0
  BY <1>1, <1>2, <1>3, <1>4 DEF Piece, Pieces
<1>6. /\ p \in Incoming /\ p.size = m.size /\ p.read = m.size - o.left
      /\ p.ids \cup {m.id} = {m.id}
      /\ e.state = "GET_PAYLOAD" /\ e.channel = c /\ e.chunk = encChunk
      /\ e.times = d.times /\ e.received = d.received
      /\ e.header \in Decoded /\ e.header.kind # "CHUNK_SIZE"
      /\ e.headers[c] = e.header /\ e.header.size = m.size
      /\ TimeOf(e.header, e.times[c]) # None
      /\ TimeOf(e.header, e.times[c]) = m.time \/ m.skew
      /\ \A x \in All \ {c} : e.headers[x] = d.headers[x] /\ e.payloads[x] = d.payloads[x]
  BY DEF Opened, Fits
<1> HIDE DEF u, p
<1>7. p # None  BY <1>6, NotNone
<1>8. u.size = Min({p.size - p.read, e.chunk})  BY <1>4, <1>5, <1>6
<1>9. outbox \in [Channels -> Outgoing \cup {None}]  BY DEF EncoderInv
<1>10. d.payloads[Control] = None  BY DEF Fits
<1>11. \A x \in Channels \ {c} :
          IF outbox[x] = None THEN AtRest(d, x, prevHeader, sent, skew)
          ELSE UnderWay(d, x, outbox[x], prevHeader, sent, skew)
  BY DEF Fits
<1>12. CASE n < o.left
  <2>1. p.read + u.size < p.size  BY <1>4, <1>5, <1>6, <1>12
  <2>2. PICK f : /\ Reads(e, u, f) /\ ReadsPayload(e, u, f) /\ ReadsPart(e, u, f)
                 /\ Sound(f, sent)
    BY <1>5, <1>6, <1>7, <1>8, <2>1, ReadsAPart DEF p
  <2> DEFINE q == Filled(p, u)
             r == Less(o, n)
  <2>3. /\ f.state = "GET_HEADER" /\ f.chunk = encChunk /\ f.headers = e.headers
        /\ f.times = d.times /\ f.received = d.received
        /\ f.payloads = [e.payloads EXCEPT ![c] = q]
    BY <1>6, <2>2 DEF ReadsPayload, ReadsPart, p
  <2>4. q = [size |-> m.size, read |-> m.size - (o.left - n), ids |-> {m.id}] /\ q \in Incoming
    <3>1. /\ q = [size |-> p.size, read |-> p.read + u.size, ids |-> p.ids \cup {u.id}]
          /\ q \in Incoming
      BY <1>5, <1>6, FilledFields
    <3>2. p.read + u.size = m.size - (o.left - n)  BY <1>4, <1>5, <1>6, <1>12
    <3> HIDE DEF q
    <3>3. QED  BY <1>5, <1>6, <3>1, <3>2
  <2>5. o.left - n \in Nat \ {0} /\ o.left - n < m.size  BY <1>4, <1>12
  <2>6. r \in Outgoing /\ r.left = o.left - n /\ r.id = m.id /\ r.header = o.header
    BY <1>1, <1>4, <2>5, OutgoingLess
  <2>7. ob = [outbox EXCEPT ![c] = r]
    <3>1. o.left # n  BY <1>3, <1>12
    <3>2. QED  BY <3>1
  <2> HIDE DEF q, r
  <2>8. /\ f.payloads[c] = q
        /\ \A x \in All \ {c} : f.payloads[x] = d.payloads[x]
    <3>1. e.payloads \in [All -> Incoming \cup {None}]  BY DEF Sound
    <3>2. QED  BY <1>1, <1>6, <2>3, <2>4, <3>1, Update
  <2>9. ob[c] = r /\ r # None /\ \A x \in Channels \ {c} : ob[x] = outbox[x]
    BY <1>9, <2>6, <2>7, NotNone, Update
  <2>10. Begun(f, c, r, m)
    <3>1. e.header # None  BY <1>6, NotNone
    <3>2. QED  BY <1>6, <2>3, <2>4, <2>5, <2>6, <2>8, <3>1 DEF Begun
  <2>11. UnderWay(f, c, ob[c], prevHeader, sent, skew)
    BY <1>1, <2>3, <2>6, <2>9, <2>10 DEF UnderWay
  <2>12. \A x \in Channels :
            IF ob[x] = None THEN AtRest(f, x, prevHeader, sent, skew)
            ELSE UnderWay(f, x, ob[x], prevHeader, sent, skew)
    <3> SUFFICES ASSUME NEW x \in Channels, x # c
                 PROVE  IF ob[x] = None THEN AtRest(f, x, prevHeader, sent, skew)
                        ELSE UnderWay(f, x, ob[x], prevHeader, sent, skew)
      BY <2>9, <2>11
    <3>1. /\ f.headers[x] = d.headers[x] /\ f.payloads[x] = d.payloads[x]
          /\ f.times[x] = d.times[x] /\ f.received[x] = d.received[x]
      BY <1>6, <2>3, <2>8
    <3>2. QED  BY <1>11, <2>9, <3>1, SameChannel
  <2>13. Fits(f, encChunk, prevHeader, ob, sent, skew)
    BY <1>1, <1>10, <2>3, <2>8, <2>12 DEF Fits
  <2>14. QED  BY <1>5, <2>2, <2>13 DEF u
<1>13. CASE n = o.left
  <2>1. p.read + u.size = p.size  BY <1>4, <1>5, <1>6, <1>13
  <2>2. sent \in [Channels -> Seq(Sent)]  BY DEF EncoderInv
  <2>3. PICK f : /\ Reads(e, u, f) /\ ReadsPayload(e, u, f) /\ ReadsLast(e, u, f)
                 /\ Sound(f, sent)
    <3>1. /\ Len(sent[c]) = Len(e.received[c]) + 1
          /\ p.ids \cup {u.id} = {m.id} /\ p.size = m.size
          /\ TimeOf(e.header, e.times[c]) = m.time \/ m.skew
      BY <1>1, <1>5, <1>6
    <3>2. p = e.payloads[e.channel] /\ e.channel = c  BY <1>6 DEF p
    <3>3. /\ e.header.kind = "CHUNK_SIZE" => c = Control /\ u.value # 0
          /\ c # Control =>
                /\ Len(sent[c]) = Len(e.received[c]) + 1
                /\ p.ids \cup {u.id} = {sent[c][Len(sent[c])].id}
                /\ p.size = sent[c][Len(sent[c])].size
                /\ \/ TimeOf(e.header, e.times[c]) = sent[c][Len(sent[c])].time
                   \/ sent[c][Len(sent[c])].skew
      BY <1>6, <3>1
    <3>4. /\ c = e.channel /\ p = e.payloads[c] /\ e.state = "GET_PAYLOAD"
          /\ e.header \in Decoded /\ TimeOf(e.header, e.times[c]) # None
      BY <1>6, <3>2
    <3>5. QED  BY <1>5, <1>7, <1>8, <2>1, <2>2, <3>3, <3>4, ReadsTheLast, Zenon
  <2> DEFINE time == TimeOf(e.header, e.times[c])
             q == Filled(p, u)
             r == [ids |-> q.ids, size |-> q.size, time |-> time, kind |-> e.header.kind]
  <2>4. /\ f.state = "GET_HEADER" /\ f.chunk = encChunk /\ f.headers = e.headers
        /\ f.payloads = [e.payloads EXCEPT ![c] = None]
        /\ f.times = [d.times EXCEPT ![c] = time]
        /\ f.received = [d.received EXCEPT ![c] = Append(d.received[c], r)]
    BY <1>1, <1>6, <2>3 DEF ReadsPayload, ReadsLast, p
  <2>5. ob = [outbox EXCEPT ![c] = None]  BY <1>13
  <2>6. time \in Nat \cup {None} /\ time # None
    <3>1. f.times[c] = time /\ f.times[c] \in Nat \cup {None}
      <4> HIDE DEF time
      <4>1. f.times[c] = time  BY <1>1, <2>4 DEF Sound
      <4>2. QED  BY <1>1, <2>3, <4>1 DEF Sound
    <3>2. QED  BY <1>6, <3>1
  <2> HIDE DEF time, q, r
  <2>7. /\ f.payloads[c] = None /\ f.times[c] = time
        /\ \A x \in All \ {c} : f.payloads[x] = d.payloads[x] /\ f.times[x] = d.times[x]
    <3>1. /\ e.payloads \in [All -> Incoming \cup {None}]
          /\ d.times \in [All -> Nat \cup {None}]
      BY DEF Sound
    <3>2. f.payloads[c] = None /\ \A x \in All \ {c} : f.payloads[x] = d.payloads[x]
      BY <1>1, <1>6, <2>4, <3>1
    <3>3. f.times[c] = time /\ \A x \in All \ {c} : f.times[x] = d.times[x]
      BY <1>1, <2>4, <2>6, <3>1
    <3>4. QED  BY <3>2, <3>3
  <2>8. /\ f.received[c] = Append(d.received[c], r)
        /\ \A x \in Channels \ {c} : f.received[x] = d.received[x]
    BY <2>4 DEF Sound
  <2>9. ob[c] = None /\ \A x \in Channels \ {c} : ob[x] = outbox[x]
    BY <1>9, <2>5
  <2>10. AtRest(f, c, prevHeader, sent, skew)
    <3>1. Len(f.received[c]) = Len(sent[c])
      <4>1. d.received[c] \in Seq(Received)  BY DEF Sound
      <4>2. QED  BY <1>1, <2>8, <4>1
    <3>2. f.headers[c] = e.header /\ e.header # None  BY <1>6, <2>4, NotNone
    <3>3. time = m.time \/ m.skew  BY <1>6 DEF time
    <3>4. QED  BY <1>1, <1>6, <2>6, <2>7, <3>1, <3>2, <3>3 DEF AtRest
  <2>11. \A x \in Channels :
            IF ob[x] = None THEN AtRest(f, x, prevHeader, sent, skew)
            ELSE UnderWay(f, x, ob[x], prevHeader, sent, skew)
    <3> SUFFICES ASSUME NEW x \in Channels, x # c
                 PROVE  IF ob[x] = None THEN AtRest(f, x, prevHeader, sent, skew)
                        ELSE UnderWay(f, x, ob[x], prevHeader, sent, skew)
      BY <2>9, <2>10
    <3>1. /\ f.headers[x] = d.headers[x] /\ f.payloads[x] = d.payloads[x]
          /\ f.times[x] = d.times[x] /\ f.received[x] = d.received[x]
      BY <1>6, <2>4, <2>7, <2>8
    <3>2. QED  BY <1>11, <2>9, <3>1, SameChannel
  <2>12. Fits(f, encChunk, prevHeader, ob, sent, skew)
    BY <1>1, <1>10, <2>4, <2>7, <2>11 DEF Fits
  <2>13. QED  BY <1>5, <2>3, <2>12 DEF u
<1>14. QED  BY <1>4, <1>12, <1>13

\* A run goes on with a header and a piece.
LEMMA Written ==
  ASSUME NEW D, NEW S, NEW w \in Seq(S), NEW st, NEW a \in S, NEW b \in S, NEW e, NEW f,
         Run(D, w, st), Reads(D[Len(w)], a, e), Sound(e, st), Reads(e, b, f), Sound(f, st)
  PROVE  w \o <<a, b>> \in Seq(S) /\ RunOver(D[0], w \o <<a, b>>, st, f)
<1> DEFINE v == Append(w, a)
<1>1. RunOver(D[0], v, st, e)  BY Longer
<1>2. v \in Seq(S)  OBVIOUS
<1>3. PICK E : E[0] = D[0] /\ Run(E, v, st) /\ E[Len(v)] = e  BY <1>1 DEF RunOver
<1> HIDE DEF v
<1>4. Reads(E[Len(v)], b, f)  BY <1>3
<1>5. RunOver(E[0], Append(v, b), st, f)  BY <1>2, <1>3, <1>4, Longer
<1>6. w \o <<a, b>> = Append(v, b) /\ w \o <<a, b>> \in Seq(S)  BY DEF v
<1>7. QED  BY <1>3, <1>5, <1>6

\* A chunk makes the run longer by its header and its piece.
LEMMA WriteChunkInv ==
  ASSUME ChunksInv, NEW c \in Channels, WriteChunk(c)
  PROVE  ChunksInv'
<1> DEFINE o == outbox[c]
           m == sent[c][Len(sent[c])]
           n == Min({encChunk, o.left})
           a == FirstHeader(c, o)
           b == Piece(o.id, n, 0)
           ob == [outbox EXCEPT ![c] = IF o.left = n THEN None ELSE Less(o, n)]
           S == WireHeaders \cup Pieces
<1>1. o # None /\ wire' = wire \o <<a, b>> /\ outbox' = ob
  BY DEF WriteChunk, FirstHeader, Less
<1>2. /\ UNCHANGED <<encChunk, prevHeader, nSent, sent, skew, broken, received>>
      /\ UNCHANGED <<state, header, channelId, decChunk, incompleteHeaders,
                     incompletePayloads, completedTimes>>
  BY DEF WriteChunk, decVars
<1>3. EncoderInv /\ ~broken /\ wire \in Seq(S)  BY DEF ChunksInv, EncoderInv
<1>4. PICK D : /\ Present(D[0]) /\ Run(D, wire, sent)
               /\ Fits(D[Len(wire)], encChunk, prevHeader, outbox, sent, skew)
  BY DEF ChunksInv, RunInv
<1> DEFINE d == D[Len(wire)]
<1>5. Sound(d, sent)
  <2>1. Len(wire) \in 0..Len(wire)  BY <1>3
  <2>2. QED  BY <1>4, <2>1 DEF Run
<1>6. Fits(d, encChunk, prevHeader, outbox, sent, skew)  BY <1>4
<1> HIDE DEF d, S
<1>7. a \in WireHeaders
      /\ \E e : Reads(d, a, e) /\ Sound(e, sent) /\ Opened(d, e, c, o, m)
  <2> HIDE DEF a
  <2>1. QED  BY <1>1, <1>3, <1>5, <1>6, ChunkHeader DEF a
<1>8. PICK e : Reads(d, a, e) /\ Sound(e, sent) /\ Opened(d, e, c, o, m)
  BY <1>7
<1>9. /\ b \in Pieces
      /\ \E f : /\ Reads(e, b, f) /\ Sound(f, sent)
                /\ Fits(f, encChunk, prevHeader, ob, sent, skew)
  BY <1>1, <1>3, <1>5, <1>6, <1>8, ChunkPiece
<1>10. PICK f : /\ Reads(e, b, f) /\ Sound(f, sent)
                /\ Fits(f, encChunk, prevHeader, ob, sent, skew)
  BY <1>9
<1>11. o \in Outgoing /\ o.left \in 1..m.size /\ o.header.size = m.size /\ m \in Sent
  BY <1>1, <1>3, <1>5, <1>6, OutboxFacts
<1> HIDE DEF o, m, n, a, b, ob
<1>12. a \in S /\ b \in S  BY <1>7, <1>9 DEF S
<1>13. /\ wire \o <<a, b>> \in Seq(S)
       /\ RunOver(D[0], wire \o <<a, b>>, sent, f)
  BY <1>3, <1>4, <1>8, <1>10, <1>12, Written DEF d
<1>14. PICK E : /\ E[0] = D[0] /\ Run(E, wire \o <<a, b>>, sent)
                /\ E[Len(wire \o <<a, b>>)] = f
  BY <1>13 DEF RunOver
<1>15. RunInv'
  <2>1. Present(E[0])'  BY <1>2, <1>4, <1>14 DEF Present
  <2>2. Run(E, wire', sent')  BY <1>1, <1>2, <1>14
  <2>3. Fits(E[Len(wire')], encChunk', prevHeader', outbox', sent', skew')
    BY <1>1, <1>2, <1>10, <1>14
  <2>4. QED  BY <2>1, <2>2, <2>3 DEF RunInv
<1>16. outbox' \in [Channels -> Outgoing \cup {None}]
       /\ \A x \in Channels : outbox'[x] # None =>
             /\ outbox'[x].left \in 1..outbox'[x].header.size
             /\ outbox'[x].header.chan = x /\ outbox'[x].header.kind \in Kinds
             /\ outbox'[x].header.type # "TINY"
  <2>1. CutOf(m.size, o.left, encChunk, n)
    <3>1. m.size \in Nat \ {0}  BY <1>11 DEF Sent
    <3>2. encChunk \in Nat \ {0}  BY <1>3 DEF EncoderInv
    <3>3. QED  BY <1>11, <3>1, <3>2, Cut DEF n
  <2> DEFINE r == IF o.left = n THEN None ELSE Less(o, n)
  <2>2. outbox \in [Channels -> Outgoing \cup {None}]  BY <1>3 DEF EncoderInv
  <2>3. o.header.chan = c /\ o.header.kind \in Kinds /\ o.header.type # "TINY"
    BY <1>1, <1>3 DEF EncoderInv, o
  <2>4. /\ r \in Outgoing \cup {None}
        /\ r # None => /\ r.left \in 1..r.header.size
                       /\ r.header.chan = c /\ r.header.kind \in Kinds
                       /\ r.header.type # "TINY"
    <3>1. CASE o.left = n  BY <3>1
    <3>2. CASE o.left # n
      <4>1. r = Less(o, n)  BY <3>2
      <4>2. /\ n \in 1..o.left /\ o.left - n \in Nat /\ o.left - n # 0
            /\ o.left - n < m.size /\ m.size \in Nat
        BY <1>11, <2>1, <3>2 DEF CutOf, Sent
      <4>3. n \in Nat /\ o.left - n \in 1..m.size
        <5>1. n \in Nat  BY <1>11, <4>2 DEF Outgoing
        <5> DEFINE l == o.left - n
        <5>2. l \in Nat /\ l # 0 /\ l < m.size /\ m.size \in Nat  BY <4>2
        <5> HIDE DEF l
        <5>3. l \in 1..m.size  BY <5>2
        <5>4. QED  BY <5>1, <5>3 DEF l
      <4>4. /\ Less(o, n) \in Outgoing /\ Less(o, n).left = o.left - n
            /\ Less(o, n).header = o.header
        BY <1>11, <4>2, <4>3, OutgoingLess
      <4> HIDE DEF r
      <4>5. QED  BY <1>11, <2>3, <4>1, <4>3, <4>4
    <3>3. QED  BY <3>1, <3>2
  <2>5. outbox' = [outbox EXCEPT ![c] = r]  BY <1>1 DEF ob
  <2> HIDE DEF r
  <2>6. /\ outbox' \in [Channels -> Outgoing \cup {None}] /\ outbox'[c] = r
        /\ \A x \in Channels \ {c} : outbox'[x] = outbox[x]
    BY <2>2, <2>4, <2>5, Update
  <2>7. QED  BY <1>3, <2>4, <2>6 DEF EncoderInv
<1>17. EncoderInv'
  BY <1>1, <1>2, <1>3, <1>13, <1>16 DEF EncoderInv, S
<1>18. QED  BY <1>2, <1>3, <1>15, <1>17 DEF ChunksInv

-----------------------------------------------------------------------------
(* Control messages.                                                       *)

\* A control message is read as a whole; what the encoder forgets of its last
\* headers does not matter to the decoder.
LEMMA ControlRead ==
  ASSUME EncoderInv, NEW d, Sound(d, sent),
         Fits(d, encChunk, prevHeader, outbox, sent, skew),
         NEW kind \in {"CHUNK_SIZE", "CONTROL"}, NEW n \in Nat, kind = "CHUNK_SIZE" => n # 0,
         NEW ph, \A c \in Channels : ph[c] = prevHeader[c] \/ ph[c] = None,
         NEW ec, ec = IF kind = "CHUNK_SIZE" THEN n ELSE encChunk
  PROVE  /\ Header(Control, "LARGE", 0, 1, kind) \in WireHeaders
         /\ Piece(nSent, 1, n) \in Pieces
         /\ \E e, f : /\ Reads(d, Header(Control, "LARGE", 0, 1, kind), e) /\ Sound(e, sent)
                      /\ Reads(e, Piece(nSent, 1, n), f) /\ Sound(f, sent)
                      /\ Fits(f, ec, ph, outbox, sent, skew)
<1> DEFINE a == Header(Control, "LARGE", 0, 1, kind)
           b == Piece(nSent, 1, n)
           h == ReadHeader(a, d.headers[Control])
           q == [size |-> 1, read |-> 0, ids |-> {}]
<1>1. /\ a \in WireHeaders /\ a.type = "LARGE" /\ a.chan = Control
      /\ a.size = 1 /\ a.time = 0 /\ a.kind = kind
  BY DEF Header, WireHeaders, HeaderTypes, AllKinds
<1>2. b \in Pieces /\ b.size = 1 /\ b.value = n
  BY DEF Piece, Pieces, EncoderInv
<1>3. Control \in All /\ Control \notin Channels /\ Channels \subseteq All  OBVIOUS
<1>4. /\ d.state = "GET_HEADER" /\ d.chunk = encChunk /\ d.payloads[Control] = None
      /\ encChunk \in Nat \ {0}
  BY DEF Fits, EncoderInv
<1>5. /\ d.headers \in [All -> Decoded \cup {None}]
      /\ d.payloads \in [All -> Incoming \cup {None}]
      /\ d.times \in [All -> Nat \cup {None}]
  BY DEF Sound
<1>6. h = [type |-> "LARGE", time |-> 0, delta |-> 0, size |-> 1, kind |-> kind]
  <2> HIDE DEF a
  <2>1. QED  BY <1>1 DEF ReadHeader
<1>7. /\ h \in Decoded /\ h.type = "LARGE" /\ h.time = 0 /\ h.size = 1 /\ h.kind = kind
  <2> HIDE DEF a, h
  <2>1. QED  BY <1>6 DEF Decoded, HeaderTypes, AllKinds
<1>8. q \in Incoming /\ q.size = 1 /\ q.read = 0  BY DEF Incoming
<1> HIDE DEF a, b, h, q
<1>9. PICK e : Reads(d, a, e) /\ ReadsHeader(d, a, e) /\ Sound(e, sent)
  BY <1>1, <1>3, <1>4, <1>7, ReadsAHeader DEF h
<1>10. /\ e.state = "GET_PAYLOAD" /\ e.channel = Control /\ e.chunk = encChunk
       /\ e.times = d.times /\ e.received = d.received /\ e.header = h
       /\ e.headers = [d.headers EXCEPT ![Control] = h]
       /\ e.payloads = [d.payloads EXCEPT ![Control] = q]
  <2>1. [size |-> h.size, read |-> 0, ids |-> {}] = q  BY <1>7 DEF q
  <2>2. QED  BY <1>1, <1>4, <1>9, <2>1 DEF ReadsHeader, h
<1>11. /\ e.payloads[Control] = q
       /\ \A x \in Channels : e.headers[x] = d.headers[x] /\ e.payloads[x] = d.payloads[x]
  BY <1>3, <1>5, <1>7, <1>8, <1>10, Update
<1>12. TimeOf(e.header, e.times[Control]) = 0  BY <1>7, <1>10 DEF TimeOf
<1>13. /\ q # None /\ q.read + b.size = q.size
       /\ b.size = Min({q.size - q.read, e.chunk})
  <2>1. q # None  BY <1>8, NotNone
  <2>2. Min({1, encChunk}) = 1  BY <1>4, MinOfTwo
  <2>3. QED  BY <1>2, <1>8, <1>10, <2>1, <2>2
<1>14. PICK f : /\ Reads(e, b, f) /\ ReadsPayload(e, b, f) /\ ReadsLast(e, b, f)
                /\ Sound(f, sent)
  <2>1. sent \in [Channels -> Seq(Sent)]  BY DEF EncoderInv
  <2>2. e.header \in Decoded /\ (e.header.kind = "CHUNK_SIZE" => b.value # 0)
    BY <1>2, <1>7, <1>10
  <2>3. TimeOf(e.header, e.times[Control]) # None  BY <1>12, NotNone
  <2>4. Control = e.channel /\ q = e.payloads[Control] /\ e.state = "GET_PAYLOAD"
    BY <1>10, <1>11
  <2>5. QED  BY <1>2, <1>9, <1>13, <2>1, <2>2, <2>3, <2>4, ReadsTheLast
<1>15. /\ f.state = "GET_HEADER" /\ f.chunk = ec /\ f.headers = e.headers
       /\ f.payloads = [e.payloads EXCEPT ![Control] = None]
       /\ f.times = [d.times EXCEPT ![Control] = TimeOf(e.header, e.times[Control])]
       /\ f.received = d.received
  BY <1>2, <1>7, <1>10, <1>14 DEF ReadsPayload, ReadsLast
<1>16. e.payloads \in [All -> Incoming \cup {None}]  BY <1>9 DEF Sound
<1>17. /\ f.payloads[Control] = None
       /\ \A x \in Channels : f.payloads[x] = d.payloads[x]
  BY <1>3, <1>11, <1>15, <1>16, Update
<1>18. \A x \in Channels : f.times[x] = d.times[x]
  BY <1>3, <1>5, <1>12, <1>15, Update
<1>19. \A x \in Channels :
          IF outbox[x] = None THEN AtRest(f, x, ph, sent, skew)
          ELSE UnderWay(f, x, outbox[x], ph, sent, skew)
  <2> SUFFICES ASSUME NEW x \in Channels
               PROVE  IF outbox[x] = None THEN AtRest(f, x, ph, sent, skew)
                      ELSE UnderWay(f, x, outbox[x], ph, sent, skew)
    OBVIOUS
  <2>1. /\ f.headers[x] = d.headers[x] /\ f.payloads[x] = d.payloads[x]
        /\ f.times[x] = d.times[x] /\ f.received[x] = d.received[x]
    BY <1>11, <1>15, <1>17, <1>18
  <2>2. IF outbox[x] = None THEN AtRest(f, x, prevHeader, sent, skew)
        ELSE UnderWay(f, x, outbox[x], prevHeader, sent, skew)
    <3>1. IF outbox[x] = None THEN AtRest(d, x, prevHeader, sent, skew)
          ELSE UnderWay(d, x, outbox[x], prevHeader, sent, skew)
      BY DEF Fits
    <3>2. QED  BY <2>1, <3>1, SameChannel
  <2>3. ph[x] = prevHeader[x] \/ ph[x] = None  OBVIOUS
  <2>4. AtRest(f, x, prevHeader, sent, skew) => AtRest(f, x, ph, sent, skew)
    BY <2>3 DEF AtRest
  <2>5. UnderWay(f, x, outbox[x], prevHeader, sent, skew)
        => UnderWay(f, x, outbox[x], ph, sent, skew)
    BY <2>3 DEF UnderWay
  <2>6. QED  BY <2>2, <2>4, <2>5
<1>20. Fits(f, ec, ph, outbox, sent, skew)
  BY <1>15, <1>17, <1>19 DEF Fits
<1>21. QED  BY <1>1, <1>2, <1>9, <1>14, <1>20 DEF a, b

\* A control message makes the run longer by its header and its piece.
LEMMA ControlInv ==
  ASSUME ChunksInv, nSent < MaxSent,
         NEW kind \in {"CHUNK_SIZE", "CONTROL"}, NEW n \in Nat, kind = "CHUNK_SIZE" => n # 0,
         wire' = wire \o ControlChunk(kind, n),
         encChunk' = IF kind = "CHUNK_SIZE" THEN n ELSE encChunk,
         prevHeader' = prevHeader \/ prevHeader' = [c \in Channels |-> None],
         nSent' = nSent + 1, UNCHANGED <<outbox, decVars, sent, received, skew>>
  PROVE  ChunksInv'
<1> DEFINE a == Header(Control, "LARGE", 0, 1, kind)
           b == Piece(nSent, 1, n)
           S == WireHeaders \cup Pieces
<1>1. /\ UNCHANGED <<outbox, sent, skew, broken, received>>
      /\ UNCHANGED <<state, header, channelId, decChunk, incompleteHeaders,
                     incompletePayloads, completedTimes>>
  BY DEF decVars
<1>2. wire' = wire \o <<a, b>>  BY DEF ControlChunk
<1>3. EncoderInv /\ ~broken /\ wire \in Seq(S)  BY DEF ChunksInv, EncoderInv
<1>4. PICK D : /\ Present(D[0]) /\ Run(D, wire, sent)
               /\ Fits(D[Len(wire)], encChunk, prevHeader, outbox, sent, skew)
  BY DEF ChunksInv, RunInv
<1> DEFINE d == D[Len(wire)]
<1>5. Sound(d, sent) /\ Fits(d, encChunk, prevHeader, outbox, sent, skew)
  <2>1. Len(wire) \in 0..Len(wire)  BY <1>3
  <2>2. QED  BY <1>4, <2>1 DEF Run
<1>6. \A c \in Channels : prevHeader'[c] = prevHeader[c] \/ prevHeader'[c] = None
  OBVIOUS
<1> HIDE DEF d, S, a, b
<1>7. /\ a \in WireHeaders /\ b \in Pieces
      /\ \E e, f : /\ Reads(d, a, e) /\ Sound(e, sent) /\ Reads(e, b, f) /\ Sound(f, sent)
                   /\ Fits(f, encChunk', prevHeader', outbox, sent, skew)
  BY <1>3, <1>5, <1>6, ControlRead DEF a, b
<1>8. PICK e, f : /\ Reads(d, a, e) /\ Sound(e, sent) /\ Reads(e, b, f) /\ Sound(f, sent)
                  /\ Fits(f, encChunk', prevHeader', outbox, sent, skew)
  BY <1>7
<1>9. wire \o <<a, b>> \in Seq(S) /\ RunOver(D[0], wire \o <<a, b>>, sent, f)
  <2>1. a \in S /\ b \in S  BY <1>7 DEF S
  <2>2. QED  BY <1>3, <1>4, <1>8, <2>1, Written DEF d
<1>10. PICK E : /\ E[0] = D[0] /\ Run(E, wire \o <<a, b>>, sent)
                /\ E[Len(wire \o <<a, b>>)] = f
  BY <1>9 DEF RunOver
<1>11. RunInv'
  <2>1. Present(E[0])'  BY <1>1, <1>4, <1>10 DEF Present
  <2>2. Run(E, wire', sent')  BY <1>1, <1>2, <1>10
  <2>3. Fits(E[Len(wire')], encChunk', prevHeader', outbox', sent', skew')
    BY <1>1, <1>2, <1>8, <1>10
  <2>4. QED  BY <2>1, <2>2, <2>3 DEF RunInv
<1>12. EncoderInv'
  <2>1. encChunk' \in Nat \ {0}  BY <1>3 DEF EncoderInv
  <2>2. prevHeader' \in [Channels -> Previous \cup {None}]  BY <1>3 DEF EncoderInv
  <2>3. nSent' \in 0..MaxSent  BY <1>3 DEF EncoderInv
  <2>4. QED  BY <1>1, <1>2, <1>3, <1>9, <2>1, <2>2, <2>3 DEF EncoderInv, S
<1>13. QED  BY <1>1, <1>3, <1>11, <1>12 DEF ChunksInv

-----------------------------------------------------------------------------
(* New messages.                                                           *)

\* The messages sent, st, with m on channel c.
Sends(st, c, m) == [st EXCEPT ![c] = Append(st[c], m)]

\* The decoder may have received the same when more has been sent.
LEMMA SentMore ==
  ASSUME NEW st \in [Channels -> Seq(Sent)], NEW c \in Channels, NEW m \in Sent,
         NEW D, NEW w, Run(D, w, st)
  PROVE  /\ Sends(st, c, m) \in [Channels -> Seq(Sent)]
         /\ Len(Sends(st, c, m)[c]) = Len(st[c]) + 1
         /\ Sends(st, c, m)[c][Len(Sends(st, c, m)[c])] = m
         /\ \A x \in Channels \ {c} : Sends(st, c, m)[x] = st[x]
         /\ Run(D, w, Sends(st, c, m))
<1> DEFINE s == Sends(st, c, m)
<1>1. st[c] \in Seq(Sent) /\ Len(st[c]) \in Nat  OBVIOUS
<1> DEFINE a == Append(st[c], m)
<1>2. /\ a \in Seq(Sent) /\ Len(a) = Len(st[c]) + 1 /\ a[Len(a)] = m
      /\ \A k \in 1..Len(st[c]) : a[k] = st[c][k]
  BY <1>1
<1>3. s = [st EXCEPT ![c] = a]  BY DEF Sends
<1> HIDE DEF a, s
<1>4. /\ s \in [Channels -> Seq(Sent)] /\ s[c] = a
      /\ \A x \in Channels \ {c} : s[x] = st[x]
  BY <1>2, <1>3, Update
<1>5. ASSUME NEW d, Sound(d, st)  PROVE Sound(d, s)
  <2>1. ASSUME NEW x \in Channels
        PROVE  /\ Len(d.received[x]) <= Len(s[x])
               /\ \A k \in 1..Len(d.received[x]) : Faithful(d.received[x][k], s[x][k])
    <3>1. /\ d.received[x] \in Seq(Received) /\ Len(d.received[x]) <= Len(st[x])
          /\ \A k \in 1..Len(d.received[x]) : Faithful(d.received[x][k], st[x][k])
      BY <1>5 DEF Sound
    <3>2. CASE x # c  BY <1>4, <3>1, <3>2
    <3>3. CASE x = c
      <4>1. Len(d.received[c]) \in Nat  BY <3>1, <3>3
      <4>2. \A k \in 1..Len(d.received[c]) : k \in 1..Len(st[c])
        BY <1>1, <3>1, <3>3, <4>1
      <4>3. Len(d.received[c]) <= Len(s[c])  BY <1>1, <1>2, <1>4, <3>1, <3>3, <4>1
      <4>4. \A k \in 1..Len(d.received[c]) : s[c][k] = st[c][k]  BY <1>2, <1>4, <4>2
      <4>5. QED  BY <3>1, <3>3, <4>3, <4>4
    <3>4. QED  BY <3>2, <3>3
  <2>2. QED  BY <1>5, <2>1 DEF Sound
<1>6. Run(D, w, s)  BY <1>5 DEF Run
<1>7. QED  BY <1>2, <1>4, <1>6 DEF s

\* The header of a new message, for a decoder that is at rest: a difference is
\* one to the last time, and the size is left out only if it is the last one.
LEMMA Compressed ==
  ASSUME NEW d, Sound(d, sent), EncoderInv, NEW c \in Channels,
         AtRest(d, c, prevHeader, sent, skew), NEW size \in Nat \ {0}, NEW time \in Nat
  PROVE  LET h == Compress(c, time, size)
             skewed == h.type # "LARGE" /\ (skew[c] \/ time < prevHeader[c].time)
         IN /\ h.type \in {"LARGE", "MEDIUM", "SMALL"} /\ h.time \in Nat
            /\ h.type = "LARGE" => h.time = time
            /\ h.type # "LARGE" =>
                  /\ d.headers[c] # None /\ d.times[c] # None
                  /\ d.times[c] + h.time = time \/ skewed
            /\ h.type = "SMALL" => d.headers[c].size = size
<1>1. prevHeader[c] # None => prevHeader[c].size \in Nat /\ prevHeader[c].time \in Nat
  <2>1. prevHeader[c] \in Previous \cup {None}  BY DEF EncoderInv
  <2>2. QED  BY <2>1 DEF Previous
<1>2. d.times[c] \in Nat \cup {None}  BY DEF Sound
<1>3. CASE prevHeader[c] # None /\ time > 0
  <2>1. /\ d.headers[c] # None /\ d.times[c] # None /\ d.times[c] \in Nat
        /\ prevHeader[c].size > 0 => d.headers[c].size = prevHeader[c].size
        /\ skew[c] \/ d.times[c] = prevHeader[c].time
    BY <1>2, <1>3 DEF AtRest
  <2>2. Compress(c, time, size) =
           [type |-> IF size = prevHeader[c].size THEN "SMALL" ELSE "MEDIUM",
            time |-> IF time < prevHeader[c].time THEN 0 ELSE time - prevHeader[c].time]
    BY <1>3 DEF Compress
  <2> DEFINE t == IF time < prevHeader[c].time THEN 0 ELSE time - prevHeader[c].time
             k == IF size = prevHeader[c].size THEN "SMALL" ELSE "MEDIUM"
  <2>3. t \in Nat /\ (time < prevHeader[c].time \/ prevHeader[c].time + t = time)
    BY <1>1, <1>3
  <2>4. k \in {"MEDIUM", "SMALL"} /\ (k = "SMALL" => d.headers[c].size = size)
    BY <2>1
  <2> HIDE DEF t, k
  <2>5. Compress(c, time, size).type = k /\ Compress(c, time, size).time = t
    BY <2>2 DEF t, k
  <2>6. d.times[c] + t = time \/ skew[c] \/ time < prevHeader[c].time
    BY <2>1, <2>3
  <2>7. k # "LARGE"  BY <2>4
  <2>8. QED  BY <2>1, <2>3, <2>4, <2>5, <2>6, <2>7
<1>4. CASE ~(prevHeader[c] # None /\ time > 0)
  <2>1. Compress(c, time, size) = [type |-> "LARGE", time |-> time]
    BY <1>4 DEF Compress
  <2>2. QED  BY <2>1
<1>5. QED  BY <1>3, <1>4

\* An empty message is never written, but the encoder's clock has moved.
LEMMA EmptyInv ==
  ASSUME ChunksInv, NEW c \in Channels, NEW kind \in Kinds, NEW time \in Times,
         Encode(c, kind, 0, time)
  PROVE  ChunksInv'
<1> DEFINE p == [size |-> 0, time |-> time]
<1>1. /\ outbox[c] = None /\ prevHeader[c] # None /\ nSent < MaxSent
      /\ nSent' = nSent + 1
      /\ prevHeader' = [prevHeader EXCEPT ![c] = p]
      /\ skew' = [skew EXCEPT ![c] = @ \/ time # prevHeader[c].time]
      /\ UNCHANGED <<encChunk, outbox, wire, sent, received, broken>>
      /\ UNCHANGED <<state, header, channelId, decChunk, incompleteHeaders,
                     incompletePayloads, completedTimes>>
  BY DEF Encode, MayEncode, decVars
<1>2. EncoderInv /\ ~broken  BY DEF ChunksInv
<1>3. p \in Previous /\ p.size = 0 /\ p.time = time  BY DEF Previous
<1> HIDE DEF p
<1>4. /\ prevHeader' \in [Channels -> Previous \cup {None}] /\ prevHeader'[c] = p
      /\ \A x \in Channels \ {c} : prevHeader'[x] = prevHeader[x]
  BY <1>1, <1>2, <1>3, Update DEF EncoderInv
<1>5. /\ skew' \in [Channels -> BOOLEAN]
      /\ skew'[c] <=> skew[c] \/ time # prevHeader[c].time
      /\ \A x \in Channels \ {c} : skew'[x] = skew[x]
  <2> DEFINE q == skew[c] \/ time # prevHeader[c].time
  <2>1. q \in BOOLEAN /\ skew \in [Channels -> BOOLEAN]  BY <1>2 DEF EncoderInv
  <2>2. skew' = [skew EXCEPT ![c] = q]  BY <1>1
  <2> HIDE DEF q
  <2>3. skew' \in [Channels -> BOOLEAN] /\ skew'[c] = q
        /\ \A x \in Channels \ {c} : skew'[x] = skew[x]
    BY <2>1, <2>2, Update
  <2>4. QED  BY <2>3 DEF q
<1>6. EncoderInv'
  <2>1. nSent' \in 0..MaxSent  BY <1>1, <1>2 DEF EncoderInv
  <2>2. QED  BY <1>1, <1>2, <1>4, <1>5, <2>1 DEF EncoderInv
<1>7. PICK D : /\ Present(D[0]) /\ Run(D, wire, sent)
               /\ Fits(D[Len(wire)], encChunk, prevHeader, outbox, sent, skew)
  BY DEF ChunksInv, RunInv
<1> DEFINE d == D[Len(wire)]
<1>8. /\ d.state = "GET_HEADER" /\ d.chunk = encChunk /\ d.payloads[Control] = None
      /\ \A x \in Channels :
            IF outbox[x] = None THEN AtRest(d, x, prevHeader, sent, skew)
            ELSE UnderWay(d, x, outbox[x], prevHeader, sent, skew)
  BY <1>7 DEF Fits
<1> HIDE DEF d
<1>9. AtRest(d, c, prevHeader', sent, skew')
  BY <1>1, <1>3, <1>4, <1>5, <1>8 DEF AtRest
<1>10. \A x \in Channels :
          IF outbox[x] = None THEN AtRest(d, x, prevHeader', sent, skew')
          ELSE UnderWay(d, x, outbox[x], prevHeader', sent, skew')
  <2> SUFFICES ASSUME NEW x \in Channels, x # c
               PROVE  IF outbox[x] = None THEN AtRest(d, x, prevHeader', sent, skew')
                      ELSE UnderWay(d, x, outbox[x], prevHeader', sent, skew')
    BY <1>1, <1>9
  <2>1. prevHeader'[x] = prevHeader[x] /\ skew'[x] = skew[x]  BY <1>4, <1>5
  <2>2. AtRest(d, x, prevHeader, sent, skew) => AtRest(d, x, prevHeader', sent, skew')
    BY <2>1 DEF AtRest
  <2>3. UnderWay(d, x, outbox[x], prevHeader, sent, skew)
        => UnderWay(d, x, outbox[x], prevHeader', sent, skew')
    BY <2>1 DEF UnderWay
  <2>4. QED  BY <1>8, <2>2, <2>3
<1>11. Fits(d, encChunk, prevHeader', outbox, sent, skew')
  BY <1>8, <1>10 DEF Fits
<1>12. RunInv'
  <2>1. Present(D[0])'  BY <1>1, <1>7 DEF Present
  <2>2. Fits(D[Len(wire')], encChunk', prevHeader', outbox', sent', skew')
    BY <1>1, <1>11 DEF d
  <2>3. QED  BY <1>1, <1>7, <2>1, <2>2 DEF RunInv
<1>13. QED  BY <1>1, <1>2, <1>6, <1>12 DEF ChunksInv

\* A message goes to the outbox, behind all that its channel has been sent.
LEMMA MessageInv ==
  ASSUME ChunksInv, NEW c \in Channels, NEW kind \in Kinds, NEW size \in Sizes, size # 0,
         NEW time \in Times, Encode(c, kind, size, time)
  PROVE  ChunksInv'
<1> DEFINE h == Compress(c, time, size)
           skewed == h.type # "LARGE" /\ (skew[c] \/ time < prevHeader[c].time)
           p == [size |-> size, time |-> time]
           g == Header(c, h.type, h.time, size, kind)
           o == [header |-> g, id |-> nSent, left |-> size]
           m == [id |-> nSent, size |-> size, time |-> time, kind |-> kind, skew |-> skew'[c]]
<1>1. /\ outbox[c] = None /\ nSent < MaxSent
      /\ nSent' = nSent + 1
      /\ prevHeader' = [prevHeader EXCEPT ![c] = p]
      /\ outbox' = [outbox EXCEPT ![c] = o]
      /\ skew' = [skew EXCEPT ![c] = h.type # "LARGE" /\ (@ \/ time < prevHeader[c].time)]
      /\ sent' = [sent EXCEPT ![c] = Append(@, m)]
      /\ UNCHANGED <<encChunk, wire, received, broken>>
      /\ UNCHANGED <<state, header, channelId, decChunk, incompleteHeaders,
                     incompletePayloads, completedTimes>>
  BY DEF Encode, MayEncode, decVars
<1>2. EncoderInv /\ ~broken  BY DEF ChunksInv
<1>3. size \in Nat \ {0} /\ time \in Nat /\ nSent \in Nat  BY <1>2 DEF EncoderInv
<1>4. PICK D : /\ Present(D[0]) /\ Run(D, wire, sent)
               /\ Fits(D[Len(wire)], encChunk, prevHeader, outbox, sent, skew)
  BY DEF ChunksInv, RunInv
<1> DEFINE d == D[Len(wire)]
<1>5. /\ d.state = "GET_HEADER" /\ d.chunk = encChunk /\ d.payloads[Control] = None
      /\ \A x \in Channels :
            IF outbox[x] = None THEN AtRest(d, x, prevHeader, sent, skew)
            ELSE UnderWay(d, x, outbox[x], prevHeader, sent, skew)
  BY <1>4 DEF Fits
<1>6. Sound(d, sent)
  <2>1. Len(wire) \in 0..Len(wire)  BY <1>2 DEF EncoderInv
  <2>2. QED  BY <1>4, <2>1 DEF Run
<1> HIDE DEF d
<1>7. AtRest(d, c, prevHeader, sent, skew)  BY <1>1, <1>5
<1>8. /\ h.type \in {"LARGE", "MEDIUM", "SMALL"} /\ h.time \in Nat
      /\ h.type = "LARGE" => h.time = time
      /\ h.type # "LARGE" =>
            /\ d.headers[c] # None /\ d.times[c] # None
            /\ d.times[c] + h.time = time \/ skewed
      /\ h.type = "SMALL" => d.headers[c].size = size
  BY <1>2, <1>3, <1>6, <1>7, Compressed
<1> HIDE DEF h
<1>9. /\ skew' \in [Channels -> BOOLEAN] /\ (skew'[c] <=> skewed)
      /\ \A x \in Channels \ {c} : skew'[x] = skew[x]
  <2> DEFINE b == skewed
  <2>1. b \in BOOLEAN /\ skew \in [Channels -> BOOLEAN]  BY <1>2 DEF EncoderInv
  <2>2. skew' = [skew EXCEPT ![c] = b]  BY <1>1
  <2> HIDE DEF b
  <2>3. skew' \in [Channels -> BOOLEAN] /\ skew'[c] = b
        /\ \A x \in Channels \ {c} : skew'[x] = skew[x]
    BY <2>1, <2>2, Update
  <2>4. QED  BY <2>3 DEF b
<1>10. p \in Previous /\ p.size = size /\ p.time = time  BY <1>3 DEF Previous
<1>11. g \in WireHeaders /\ g.type = h.type /\ g.time = h.time /\ g.size = size
       /\ g.chan = c /\ g.kind = kind
  BY <1>3, <1>8 DEF Header, WireHeaders, HeaderTypes, AllKinds
<1> HIDE DEF p, g
<1>12. o \in Outgoing /\ o.header = g /\ o.id = nSent /\ o.left = size
  BY <1>3, <1>11 DEF Outgoing
<1>13. /\ m \in Sent /\ m.id = nSent /\ m.size = size /\ m.time = time
       /\ m.skew = skew'[c]
  <2> DEFINE b == skew'[c]
  <2>1. b \in BOOLEAN  BY <1>9
  <2> HIDE DEF b
  <2>2. [id |-> nSent, size |-> size, time |-> time, kind |-> kind, skew |-> b] \in Sent
    BY <1>3, <2>1 DEF Sent
  <2>3. QED  BY <2>2 DEF b
<1> HIDE DEF o, m
<1>14. /\ prevHeader' \in [Channels -> Previous \cup {None}] /\ prevHeader'[c] = p
       /\ \A x \in Channels \ {c} : prevHeader'[x] = prevHeader[x]
  BY <1>1, <1>2, <1>10, Update DEF EncoderInv
<1>15. /\ outbox' \in [Channels -> Outgoing \cup {None}] /\ outbox'[c] = o
       /\ \A x \in Channels \ {c} : outbox'[x] = outbox[x]
  BY <1>1, <1>2, <1>12, Update DEF EncoderInv
<1>16. /\ sent' \in [Channels -> Seq(Sent)]
       /\ Len(sent'[c]) = Len(sent[c]) + 1 /\ sent'[c][Len(sent'[c])] = m
       /\ \A x \in Channels \ {c} : sent'[x] = sent[x]
       /\ Run(D, wire, sent')
  <2>1. sent \in [Channels -> Seq(Sent)]  BY <1>2 DEF EncoderInv
  <2>2. sent' = Sends(sent, c, m)  BY <1>1 DEF Sends
  <2>3. m \in Sent /\ Run(D, wire, sent)  BY <1>4, <1>13
  <2>4. QED  BY <2>1, <2>2, <2>3, SentMore
<1>17. EncoderInv'
  <2>1. \A x \in Channels : outbox'[x] # None =>
            /\ outbox'[x].left \in 1..outbox'[x].header.size
            /\ outbox'[x].header.chan = x /\ outbox'[x].header.kind \in Kinds
            /\ outbox'[x].header.type # "TINY"
    <3>1. /\ o.left \in 1..o.header.size /\ o.header.chan = c /\ o.header.kind \in Kinds
          /\ o.header.type # "TINY"
      BY <1>3, <1>8, <1>11, <1>12
    <3>2. QED  BY <1>2, <1>15, <3>1 DEF EncoderInv
  <2>2. nSent' \in 0..MaxSent  BY <1>1, <1>2 DEF EncoderInv
  <2>3. QED  BY <1>1, <1>2, <1>9, <1>14, <1>15, <1>16, <2>1, <2>2 DEF EncoderInv
<1>18. UnderWay(d, c, o, prevHeader', sent', skew')
  <2>1. Unsent(d, c, o, m)
    <3>1. d.payloads[c] = None  BY <1>7 DEF AtRest
    <3>2. m.skew <=> skewed  BY <1>9, <1>13
    <3>3. CASE h.type = "LARGE"
      BY <1>8, <1>11, <1>12, <1>13, <3>1, <3>3 DEF Unsent
    <3>4. CASE h.type # "LARGE"
      <4>1. d.times[c] + h.time = m.time \/ m.skew  BY <1>8, <1>13, <3>2, <3>4
      <4>2. QED  BY <1>8, <1>11, <1>12, <1>13, <3>1, <3>4, <4>1 DEF Unsent
    <3>5. QED  BY <3>3, <3>4
  <2>2. Len(sent[c]) = Len(d.received[c])  BY <1>7 DEF AtRest
  <2>3. QED  BY <1>10, <1>11, <1>12, <1>13, <1>14, <1>16, <2>1, <2>2 DEF UnderWay
<1>19. o # None  BY <1>12, NotNone
<1>20. \A x \in Channels :
          IF outbox'[x] = None THEN AtRest(d, x, prevHeader', sent', skew')
          ELSE UnderWay(d, x, outbox'[x], prevHeader', sent', skew')
  <2> SUFFICES ASSUME NEW x \in Channels, x # c
               PROVE  IF outbox'[x] = None THEN AtRest(d, x, prevHeader', sent', skew')
                      ELSE UnderWay(d, x, outbox'[x], prevHeader', sent', skew')
    BY <1>15, <1>18, <1>19
  <2>1. /\ prevHeader'[x] = prevHeader[x] /\ skew'[x] = skew[x]
        /\ sent'[x] = sent[x] /\ outbox'[x] = outbox[x]
    BY <1>9, <1>14, <1>15, <1>16
  <2>2. AtRest(d, x, prevHeader, sent, skew) => AtRest(d, x, prevHeader', sent', skew')
    BY <2>1 DEF AtRest
  <2>3. UnderWay(d, x, outbox[x], prevHeader, sent, skew)
        => UnderWay(d, x, outbox'[x], prevHeader', sent', skew')
    BY <2>1 DEF UnderWay
  <2>4. QED  BY <1>5, <2>1, <2>2, <2>3
<1>21. Fits(d, encChunk, prevHeader', outbox', sent', skew')
  BY <1>5, <1>20 DEF Fits
<1>22. RunInv'
  <2>1. Present(D[0])'  BY <1>1, <1>4 DEF Present
  <2>2. Fits(D[Len(wire')], encChunk', prevHeader', outbox', sent', skew')
    BY <1>1, <1>21 DEF d
  <2>3. QED  BY <1>1, <1>16, <2>1, <2>2 DEF RunInv
<1>23. QED  BY <1>1, <1>2, <1>17, <1>22 DEF ChunksInv

-----------------------------------------------------------------------------
(* The invariant.                                                          *)

\* At first the wire is empty, and both sides know of nothing.
LEMMA ChunksInvInit == ChunksInit => ChunksInv
<1> SUFFICES ASSUME ChunksInit PROVE ChunksInv  OBVIOUS
<1>1. EncoderInv  BY DEF ChunksInit, EncoderInv
<1> DEFINE d == [state |-> state, header |-> header, channel |-> channelId, chunk |-> decChunk,
                 headers |-> incompleteHeaders, payloads |-> incompletePayloads,
                 times |-> completedTimes, received |-> received]
           D == [k \in {0} |-> d]
<1>2. Present(d)  BY DEF Present
<1>3. Sound(d, sent)
  <2>1. /\ d.state = "GET_HEADER" /\ d.channel = Control /\ d.chunk = InitialChunk
        /\ d.headers = [c \in All |-> None] /\ d.payloads = [c \in All |-> None]
        /\ d.times = [c \in All |-> None] /\ d.received = [c \in Channels |-> <<>>]
        /\ sent = [c \in Channels |-> <<>>]
    BY DEF ChunksInit
  <2> HIDE DEF d
  <2>2. Control \in All /\ Channels \subseteq All /\ InitialChunk \in Nat \ {0}  OBVIOUS
  <2>3. \A c \in Channels : d.headers[c] = None /\ d.received[c] = <<>> /\ sent[c] = <<>>
    BY <2>1, <2>2
  <2>4. d.received \in [Channels -> Seq(Received)]  BY <2>1
  <2>5. QED  BY <2>1, <2>2, <2>3, <2>4 DEF Sound
<1>4. Fits(d, encChunk, prevHeader, outbox, sent, skew)
  <2>1. /\ d.state = "GET_HEADER" /\ d.chunk = encChunk
        /\ d.payloads = [c \in All |-> None] /\ d.received = [c \in Channels |-> <<>>]
        /\ sent = [c \in Channels |-> <<>>] /\ prevHeader = [c \in Channels |-> None]
        /\ outbox = [c \in Channels |-> None]
    BY DEF ChunksInit
  <2> HIDE DEF d
  <2>2. Control \in All /\ Channels \subseteq All  OBVIOUS
  <2>3. \A c \in Channels : AtRest(d, c, prevHeader, sent, skew)
    BY <2>1, <2>2 DEF AtRest
  <2>4. QED  BY <2>1, <2>2, <2>3 DEF Fits
<1> HIDE DEF d
<1>5. D[0] = d /\ wire = <<>>  BY DEF ChunksInit
<1> HIDE DEF D
<1>6. RunInv
  <2>1. Len(wire) = 0  BY <1>5
  <2>2. Run(D, wire, sent)  BY <1>3, <1>5, <2>1 DEF Run
  <2>3. QED  BY <1>2, <1>4, <1>5, <2>1, <2>2 DEF RunInv
<1>7. QED  BY <1>1, <1>6 DEF ChunksInv, ChunksInit

\* Every step keeps the run.
LEMMA ChunksInvStep == ChunksInv /\ [ChunksNext]_chunkVars => ChunksInv'
<1> SUFFICES ASSUME ChunksInv, [ChunksNext]_chunkVars PROVE ChunksInv'  OBVIOUS
<1>1. CASE EncodeMessage
  <2>1. PICK c \in Channels, kind \in Kinds, size \in Sizes, time \in Times :
            Encode(c, kind, size, time)
    BY <1>1 DEF EncodeMessage
  <2>2. CASE size = 0  BY <2>1, <2>2, EmptyInv
  <2>3. CASE size # 0  BY <2>1, <2>3, MessageInv
  <2>4. QED  BY <2>2, <2>3
<1>2. CASE EncodeChunkSize
  <2>1. PICK n \in ChunkSizes : encChunk' = n /\ wire' = wire \o ControlChunk("CHUNK_SIZE", n)
    BY <1>2 DEF EncodeChunkSize
  <2>2. n \in Nat /\ n # 0  OBVIOUS
  <2>3. nSent < MaxSent /\ nSent' = nSent + 1
        /\ UNCHANGED <<prevHeader, outbox, decVars, sent, received, skew>>
    BY <1>2 DEF EncodeChunkSize, MayEncode
  <2>4. QED  BY <2>1, <2>2, <2>3, ControlInv
<1>3. CASE EncodeStreamBegin
  <2>1. /\ nSent < MaxSent /\ nSent' = nSent + 1
        /\ prevHeader' = [c \in Channels |-> None]
        /\ wire' = wire \o ControlChunk("CONTROL", 0) /\ encChunk' = encChunk
        /\ UNCHANGED <<outbox, decVars, sent, received, skew>>
    BY <1>3 DEF EncodeStreamBegin, MayEncode
  <2>2. QED  BY <2>1, ControlInv
<1>4. CASE \E c \in Channels : WriteChunk(c)  BY <1>4, WriteChunkInv
<1>5. CASE Decoder  BY <1>5, DecoderInv
<1>6. CASE UNCHANGED chunkVars
  <2>1. /\ UNCHANGED <<encChunk, prevHeader, outbox, wire, sent, received, skew, nSent>>
        /\ UNCHANGED <<state, header, channelId, decChunk, incompleteHeaders,
                       incompletePayloads, completedTimes, broken>>
    BY <1>6 DEF chunkVars, encVars, decVars
  <2>2. EncoderInv'  BY <2>1 DEF ChunksInv, EncoderInv
  <2>3. RunInv'  BY <2>1 DEF ChunksInv, RunInv, Present
  <2>4. QED  BY <2>1, <2>2, <2>3 DEF ChunksInv
<1>7. QED  BY <1>1, <1>2, <1>3, <1>4, <1>5, <1>6 DEF ChunksNext, Encoder

\* Whatever is on the wire, the decoder can read it to the end, and is then where
\* the encoder takes it to be.
THEOREM Simulated == ChunksSpec => []ChunksInv
<1>1. QED  BY ChunksInvInit, ChunksInvStep, PTL DEF ChunksSpec

\* What the run says of the decoder as it is.
LEMMA PresentSound ==
  ASSUME ChunksInv
  PROVE  \E d : Present(d) /\ Sound(d, sent)
<1>1. PICK D : Present(D[0]) /\ Run(D, wire, sent)  BY DEF ChunksInv, RunInv
<1>2. 0 \in 0..Len(wire)  BY DEF ChunksInv, EncoderInv
<1>3. QED  BY <1>1, <1>2 DEF Run

\* RtmpDecoder's state is of its types, and the payload it puts together is never
\* longer than its header says.
THEOREM ChunksTyped == ChunksSpec => []ChunksTypeOK
<1>1. ChunksInv => ChunksTypeOK
  <2> SUFFICES ASSUME ChunksInv PROVE ChunksTypeOK  OBVIOUS
  <2>1. PICK d : Present(d) /\ Sound(d, sent)  BY PresentSound
  <2>2. /\ decChunk \in Nat \ {0} /\ state \in {"GET_HEADER", "GET_PAYLOAD"}
        /\ channelId \in All
        /\ \A c \in All : incompletePayloads[c] # None =>
              incompletePayloads[c].read \in 0..(incompletePayloads[c].size - 1)
        /\ \A c \in Channels : Len(received[c]) <= Len(sent[c])
    BY <2>1 DEF Present, Sound
  <2>3. /\ encChunk \in Nat \ {0} /\ nSent \in 0..MaxSent
        /\ \A c \in Channels : outbox[c] # None => outbox[c].left \in 1..outbox[c].header.size
    BY DEF ChunksInv, EncoderInv
  <2>4. QED  BY <2>2, <2>3 DEF ChunksTypeOK
<1>2. QED  BY Simulated, <1>1, PTL

\* RtmpDecoder.decode never takes bytes for what they are not, for any chunk
\* sizes and however the chunks of the channels are interleaved.
THEOREM NeverBroken == ChunksSpec => []InStep
<1>1. ChunksInv => InStep  BY DEF ChunksInv, InStep
<1>2. QED  BY Simulated, <1>1, PTL

\* What RtmpDecoder delivers on a channel is what RtmpEncoder was given, in order
\* and whole.
THEOREM Whole == ChunksSpec => []DeliveredWhole
<1>1. ChunksInv => DeliveredWhole
  <2> SUFFICES ASSUME ChunksInv PROVE DeliveredWhole  OBVIOUS
  <2>1. PICK d : Present(d) /\ Sound(d, sent)  BY PresentSound
  <2>2. \A c \in Channels : \A k \in 1..Len(received[c]) : Faithful(received[c][k], sent[c][k])
    BY <2>1 DEF Present, Sound
  <2>3. QED  BY <2>2 DEF Faithful, DeliveredWhole
<1>2. QED  BY Simulated, <1>1, PTL

\* The time differences RtmpHeader writes add up to the times of the messages, but
\* where the encoder's own clock went wrong.
THEOREM SameTimes == ChunksSpec => []TimesKept
<1>1. ChunksInv => TimesKept
  <2> SUFFICES ASSUME ChunksInv PROVE TimesKept  OBVIOUS
  <2>1. PICK d : Present(d) /\ Sound(d, sent)  BY PresentSound
  <2>2. \A c \in Channels : \A k \in 1..Len(received[c]) : Faithful(received[c][k], sent[c][k])
    BY <2>1 DEF Present, Sound
  <2>3. QED  BY <2>2 DEF Faithful, TimesKept
<1>2. QED  BY Simulated, <1>1, PTL

=============================================================================
