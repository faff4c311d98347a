-------------------------- MODULE MusicServiceProofs --------------------------
(***************************************************************************)
(* The music service for any number of commands, objects, players and      *)
(* kills.  The argument is one of order: commands wait in the looper in    *)
(* the order of their start ids, behind the creation of their object, and  *)
(* every player of that object was started by an earlier command.  So a    *)
(* completion can stop the service only when nobody has asked for anything *)
(* since its player was started.                                           *)
(***************************************************************************)
EXTENDS MusicService, SequenceTheorems, TLAPS

(* The parameters below are the present object r, the number n of objects, *)
(* the last start id l, the lives f of the objects, and of the players     *)
(* their states md, objects hm and start ids sid.                          *)

\* A message of the looper is for the present object, or harmless.
Fits(m, r, n, l, f, md, hm, sid) ==
    /\ m.what \in Commands =>
          /\ r # None /\ m.to = r /\ m.id <= l
          /\ \A p \in Player : hm[p] = r => sid[p] < m.id
    /\ m.what = "CREATE" =>
          /\ r # None /\ m.to = r /\ f[r] = "none"
          /\ \A p \in Player : hm[p] # r
    /\ m.what = "DESTROY" => m.to # r /\ m.to <= n
    /\ m.what = "COMPLETE" =>
          /\ m.of \in Player /\ md[m.of] # "none"
          /\ m.to = hm[m.of] /\ m.id = sid[m.of]
          /\ md[m.of] = "playing" /\ hm[m.of] = r => sid[m.of] < l

\* Message m may be in the looper before message o.
Before(m, o) ==
    /\ m.what \in Commands \cup {"CREATE"} => o.what # "CREATE"
    /\ m.what \in Commands /\ o.what \in Commands => m.id < o.id

InOrder(q) == \A a, b \in 1..Len(q) : a < b => Before(q[a], q[b])

QueueInv(q, r, n, l, f, md, hm, sid) ==
    /\ \A a \in 1..Len(q) : Fits(q[a], r, n, l, f, md, hm, sid)
    /\ InOrder(q)

LooperInv == QueueInv(looper, rec, nInst, lastId, life, media, home, startId)

CreatePending(q) == \E a \in 1..Len(q) : q[a].what = "CREATE"

\* The record's object is the last one made, and is created or about to be.
RecordInv ==
    /\ rec # None => /\ rec = nInst /\ life[rec] # "gone"
                     /\ life[rec] = "none" => CreatePending(looper)
    /\ \A i \in Inst : i > nInst => life[i] = "none" /\ player[i] = None

\* The commands the record has not handled are in the order of their ids.
StartsInv ==
    /\ rec = None => starts = <<>>
    /\ \A a \in 1..Len(starts) : starts[a][2] <= lastId
    /\ \A a, b \in 1..Len(starts) : a < b => starts[a][2] < starts[b][2]

\* A player that is not released is the one of the object that made it.
PlayersInv ==
    /\ \A p \in Player :
          /\ p > nPlayers => media[p] = "none"
          /\ home[p] <= nInst
          /\ home[p] = rec /\ rec # None => startId[p] <= lastId
          /\ media[p] \notin {"none", "released"} => home[p] \in Inst /\ player[home[p]] = p
    /\ \A i \in Inst : player[i] # None =>
          /\ media[player[i]] \notin {"none", "released"}
          /\ home[player[i]] = i /\ notification[i]

MusicInv ==
    /\ FieldTypes
    /\ LooperInv
    /\ RecordInv
    /\ StartsInv
    /\ PlayersInv
    /\ PlayerReachable
    /\ NotificationShown

USE MusicAssumption DEF None, Inst, Player

-----------------------------------------------------------------------------
(* Queues.                                                                 *)

Kinds == Commands \cup {"CREATE", "DESTROY", "COMPLETE"}

\* The elements of a queue are messages.
LEMMA QueueElement ==
  ASSUME NEW q \in Seq(Message), NEW a \in 1..Len(q)
  PROVE  /\ q[a] \in Message
         /\ q[a].to \in Inst /\ q[a].what \in Kinds /\ q[a].id \in Nat
         /\ q[a].of \in Player \cup {None}
<1>1. q[a] \in Message  OBVIOUS
<1>2. QED  BY <1>1 DEF Message, Kinds

\* What is left when the first message is taken.
LEMMA TailFacts ==
  ASSUME NEW q \in Seq(Message), q # <<>>
  PROVE  /\ Tail(q) \in Seq(Message)
         /\ Len(Tail(q)) = Len(q) - 1
         /\ \A a \in 1..Len(Tail(q)) : Tail(q)[a] = q[a + 1] /\ a + 1 \in 2..Len(q)
         /\ Head(q) = q[1] /\ 1 \in 1..Len(q)
         /\ Len(q) \in Nat
  OBVIOUS

\* What a new message adds.
LEMMA AppendFacts ==
  ASSUME NEW q \in Seq(Message), NEW m \in Message
  PROVE  /\ Append(q, m) \in Seq(Message)
         /\ Len(Append(q, m)) = Len(q) + 1
         /\ \A a \in 1..Len(q) : Append(q, m)[a] = q[a]
         /\ Append(q, m)[Len(q) + 1] = m
         /\ Len(q) \in Nat
  OBVIOUS

\* The first message is taken, and the state changes.
LEMMA PopQueue ==
  ASSUME NEW q \in Seq(Message), q # <<>>, InOrder(q),
         NEW r, NEW n, NEW l, NEW f, NEW md, NEW hm, NEW sid,
         \A a \in 2..Len(q) : Fits(q[a], r, n, l, f, md, hm, sid)
  PROVE  QueueInv(Tail(q), r, n, l, f, md, hm, sid)
<1>1. \A a \in 1..Len(Tail(q)) : Fits(Tail(q)[a], r, n, l, f, md, hm, sid)
  BY TailFacts
<1>2. InOrder(Tail(q))
  <2> SUFFICES ASSUME NEW a \in 1..Len(Tail(q)), NEW b \in 1..Len(Tail(q)), a < b
               PROVE  Before(Tail(q)[a], Tail(q)[b])
    BY DEF InOrder
  <2>1. /\ Tail(q)[a] = q[a + 1] /\ a + 1 \in 1..Len(q)
        /\ Tail(q)[b] = q[b + 1] /\ b + 1 \in 1..Len(q) /\ a + 1 < b + 1
    BY TailFacts
  <2>2. QED  BY <2>1 DEF InOrder
<1>3. QED  BY <1>1, <1>2 DEF QueueInv

\* A message is added, and the state changes.
LEMMA PushQueue ==
  ASSUME NEW q \in Seq(Message), NEW m \in Message, InOrder(q),
         NEW r, NEW n, NEW l, NEW f, NEW md, NEW hm, NEW sid,
         \A a \in 1..Len(q) : Fits(q[a], r, n, l, f, md, hm, sid) /\ Before(q[a], m),
         Fits(m, r, n, l, f, md, hm, sid)
  PROVE  QueueInv(Append(q, m), r, n, l, f, md, hm, sid)
<1>1. \A a \in 1..Len(Append(q, m)) : Fits(Append(q, m)[a], r, n, l, f, md, hm, sid)
  <2> SUFFICES ASSUME NEW a \in 1..Len(Append(q, m))
               PROVE  Fits(Append(q, m)[a], r, n, l, f, md, hm, sid)
    OBVIOUS
  <2>1. CASE a \in 1..Len(q)  BY <2>1, AppendFacts
  <2>2. CASE a = Len(q) + 1  BY <2>2, AppendFacts
  <2>3. QED  BY <2>1, <2>2, AppendFacts
<1>2. InOrder(Append(q, m))
  <2> SUFFICES ASSUME NEW a \in 1..Len(Append(q, m)), NEW b \in 1..Len(Append(q, m)), a < b
               PROVE  Before(Append(q, m)[a], Append(q, m)[b])
    BY DEF InOrder
  <2>1. a \in 1..Len(q) /\ Append(q, m)[a] = q[a]  BY AppendFacts
  <2>2. CASE b \in 1..Len(q)  BY <2>1, <2>2, AppendFacts DEF InOrder
  <2>3. CASE b = Len(q) + 1  BY <2>1, <2>3, AppendFacts
  <2>4. QED  BY <2>2, <2>3, AppendFacts
<1>3. QED  BY <1>1, <1>2 DEF QueueInv

\* A creation that waits behind the first message still waits when that is taken.
LEMMA PopPending ==
  ASSUME NEW q \in Seq(Message), q # <<>>, q[1].what # "CREATE", CreatePending(q)
  PROVE  CreatePending(Tail(q))
<1>1. PICK a \in 1..Len(q) : q[a].what = "CREATE"  BY DEF CreatePending
<1>2. a # 1  BY <1>1
<1>3. a - 1 \in 1..Len(Tail(q)) /\ Tail(q)[a - 1] = q[a]  BY <1>2, TailFacts
<1>4. QED  BY <1>1, <1>3 DEF CreatePending

\* And when a message is added.
LEMMA PushPending ==
  ASSUME NEW q \in Seq(Message), NEW m \in Message, CreatePending(q) \/ m.what = "CREATE"
  PROVE  CreatePending(Append(q, m))
<1>1. CASE CreatePending(q)
  <2>1. PICK a \in 1..Len(q) : q[a].what = "CREATE"  BY <1>1 DEF CreatePending
  <2>2. a \in 1..Len(Append(q, m)) /\ Append(q, m)[a] = q[a]  BY AppendFacts
  <2>3. QED  BY <2>1, <2>2 DEF CreatePending
<1>2. CASE m.what = "CREATE"
  <2>1. Len(q) + 1 \in 1..Len(Append(q, m))  BY AppendFacts
  <2>2. QED  BY <1>2, <2>1, AppendFacts DEF CreatePending
<1>3. QED  BY <1>1, <1>2

\* Messages of the activity manager.
LEMMA MsgTyped ==
  ASSUME NEW w \in Kinds, NEW i \in Inst, NEW k \in Nat
  PROVE  /\ Msg(w, i, k) \in Message
         /\ Msg(w, i, k).what = w /\ Msg(w, i, k).to = i /\ Msg(w, i, k).id = k
  BY DEF Msg, Message, Kinds

\* A command at the head: its object is the record's and has been created.
LEMMA CommandHead ==
  ASSUME FieldTypes, LooperInv, RecordInv, looper # <<>>, Head(looper).what \in Commands
  PROVE  /\ rec # None /\ rec \in Inst /\ Head(looper).to = rec /\ life[rec] = "live"
         /\ Head(looper).id \in Nat /\ Head(looper).id <= lastId
         /\ \A p \in Player : home[p] = rec => startId[p] < Head(looper).id
         /\ ~CreatePending(looper)
         /\ \A a \in 2..Len(looper) : looper[a].what \in Commands =>
               Head(looper).id < looper[a].id
<1>1. looper \in Seq(Message)  BY DEF FieldTypes
<1>2. Head(looper) = looper[1] /\ 1 \in 1..Len(looper)  BY <1>1, TailFacts
<1>3. Fits(looper[1], rec, nInst, lastId, life, media, home, startId)
  BY <1>2 DEF LooperInv, QueueInv
<1>4. \A a \in 2..Len(looper) : Before(looper[1], looper[a])
  BY <1>1, <1>2 DEF LooperInv, QueueInv, InOrder
<1>5. ~CreatePending(looper)
  <2> SUFFICES ASSUME NEW a \in 1..Len(looper), looper[a].what = "CREATE"  PROVE FALSE
    BY DEF CreatePending
  <2>1. a # 1  BY <1>2 DEF Commands, UserCommands
  <2>2. a \in 2..Len(looper)  BY <1>1, <2>1
  <2>3. QED  BY <1>2, <1>4, <2>2 DEF Before
<1>6. rec # None /\ Head(looper).to = rec /\ Head(looper).id <= lastId
  BY <1>2, <1>3 DEF Fits
<1>7. rec \in Inst /\ life[rec] = "live"
  BY <1>5, <1>6 DEF RecordInv, FieldTypes
<1>8. QED  BY <1>1, <1>2, <1>3, <1>4, <1>5, <1>6, <1>7, QueueElement DEF Fits, Before

-----------------------------------------------------------------------------
(* What handlers have in common.                                           *)

\* What is left of a sequence without its first element.
LEMMA RestFacts ==
  ASSUME NEW S, NEW q \in Seq(S), q # <<>>
  PROVE  /\ SubSeq(q, 2, Len(q)) \in Seq(S)
         /\ Len(SubSeq(q, 2, Len(q))) = Len(q) - 1 /\ Len(q) \in Nat
         /\ \A a \in 1..Len(SubSeq(q, 2, Len(q))) : SubSeq(q, 2, Len(q))[a] = q[a + 1]
<1>1. Len(q) \in Nat \ {0}  OBVIOUS
<1>2. SubSeq(q, 2, Len(q)) = Tail(q)
  BY TailIsSubSeq
<1>3. /\ Tail(q) \in Seq(S) /\ Len(Tail(q)) = Len(q) - 1
      /\ \A a \in 1..Len(Tail(q)) : Tail(q)[a] = q[a + 1]
  OBVIOUS
<1> DEFINE t == SubSeq(q, 2, Len(q))
<1>4. t = Tail(q)  BY <1>2
<1> HIDE DEF t
<1>5. /\ t \in Seq(S) /\ Len(t) = Len(q) - 1
      /\ \A a \in 1..Len(t) : t[a] = q[a + 1]
  BY <1>3, <1>4, Zenon
<1>6. QED  BY <1>1, <1>5 DEF t

\* The commands not handled stay in order.
LEMMA StartsStep ==
  ASSUME FieldTypes, StartsInv, lastId' = lastId,
         \/ rec' = rec /\ (starts' = starts \/ starts' = Handled)
         \/ rec' = None /\ starts' = <<>>
  PROVE  StartsInv' /\ starts' \in Seq(Commands \X Nat)
<1> USE DEF FieldTypes, StartsInv
<1>1. CASE starts' = <<>>  BY <1>1
<1>2. CASE rec' = rec /\ starts' = starts  BY <1>2
<1>3. CASE rec' = rec /\ starts' = SubSeq(starts, 2, Len(starts)) /\ starts # <<>>
  <2>1. /\ starts' \in Seq(Commands \X Nat)
        /\ Len(starts') = Len(starts) - 1 /\ Len(starts) \in Nat
        /\ \A a \in 1..Len(starts') : starts'[a] = starts[a + 1]
    BY <1>3, RestFacts
  <2>2. \A a \in 1..Len(starts) : starts[a][2] \in Nat  BY <2>1
  <2>3. \A a \in 1..Len(starts') : a + 1 \in 1..Len(starts)  BY <2>1
  <2>4. \A a \in 1..Len(starts') : starts'[a][2] <= lastId'  BY <2>1, <2>3
  <2>5. \A a, b \in 1..Len(starts') : a < b => starts'[a][2] < starts'[b][2]
    <3> SUFFICES ASSUME NEW a \in 1..Len(starts'), NEW b \in 1..Len(starts'), a < b
                 PROVE  starts'[a][2] < starts'[b][2]
      OBVIOUS
    <3>1. a + 1 \in 1..Len(starts) /\ b + 1 \in 1..Len(starts) /\ a + 1 < b + 1  BY <2>1
    <3>2. QED  BY <2>1, <3>1
  <2>6. rec' = None => starts' = <<>>  BY <1>3
  <2>7. QED  BY <2>1, <2>4, <2>5, <2>6
<1>4. CASE rec' = rec /\ starts' = SubSeq(starts, 2, Len(starts)) /\ starts = <<>>
  <2>1. starts' = <<>>  BY <1>4
  <2>2. QED  BY <1>1, <2>1
<1>5. QED  BY <1>1, <1>2, <1>3, <1>4 DEF Handled

\* A handler that takes the first message and leaves the record alone.
LEMMA TakeStep ==
  ASSUME FieldTypes, LooperInv, RecordInv, looper # <<>>,
         looper' = Tail(looper), UNCHANGED <<rec, lastId, nInst, life>>,
         Head(looper).what # "CREATE",
         \A i \in Inst : i > nInst => player'[i] = None,
         \A a \in 2..Len(looper) :
             Fits(looper[a], rec, nInst, lastId, life, media', home', startId')
  PROVE  looper' \in Seq(Message) /\ LooperInv' /\ RecordInv'
<1>1. looper \in Seq(Message)  BY DEF FieldTypes
<1>2. looper' \in Seq(Message)  BY <1>1, TailFacts
<1>3. InOrder(looper)  BY DEF LooperInv, QueueInv
<1>4. QueueInv(looper', rec, nInst, lastId, life, media', home', startId')
  BY <1>1, <1>3, PopQueue
<1>5. LooperInv'  BY <1>4 DEF LooperInv
<1>6. CreatePending(looper) => CreatePending(looper')  BY <1>1, TailFacts, PopPending
<1>7. RecordInv'
  <2>1. RecordInv' <=>
          /\ rec' # None => /\ rec' = nInst' /\ life'[rec'] # "gone"
                            /\ life'[rec'] = "none" => CreatePending(looper')
          /\ \A i \in Inst : i > nInst' => life'[i] = "none" /\ player'[i] = None
    BY DEF RecordInv, CreatePending
  <2>2. QED  BY <1>6, <2>1 DEF RecordInv
<1>8. QED  BY <1>2, <1>5, <1>7

\* A handler that ends with stopSelf: the record is left alone, or brought down when nothing
\* for its object is in the looper.
LEMMA StopSelfStep ==
  ASSUME FieldTypes, LooperInv, RecordInv, StartsInv, looper # <<>>,
         NEW g \in BOOLEAN, NEW s, s = starts \/ s = Handled,
         StopSelf(Head(looper).to, Head(looper).id, g, s),
         UNCHANGED <<lastId, nInst, life, home, startId>>,
         Head(looper).what # "CREATE",
         \A i \in Inst : i > nInst => player'[i] = None,
         \A a \in 2..Len(looper) :
             Fits(looper[a], rec, nInst, lastId, life, media', home, startId),
         rec = Head(looper).to /\ lastId = Head(looper).id =>
             \A a \in 2..Len(looper) : looper[a].what \notin Commands \cup {"CREATE"}
  PROVE  /\ looper' \in Seq(Message) /\ rec' \in {rec, None} /\ fg' \in BOOLEAN
         /\ starts' \in Seq(Commands \X Nat)
         /\ LooperInv' /\ RecordInv' /\ StartsInv'
         /\ \/ rec' = rec /\ fg' = g
            \/ rec' = None /\ rec = Head(looper).to /\ lastId = Head(looper).id
<1>1. looper \in Seq(Message) /\ InOrder(looper)  BY DEF FieldTypes, LooperInv, QueueInv
<1>2. CASE ~(rec = Head(looper).to /\ lastId = Head(looper).id)
  <2>1. looper' = Tail(looper) /\ fg' = g /\ starts' = s /\ rec' = rec
    BY <1>2 DEF StopSelf
  <2>2. StartsInv' /\ starts' \in Seq(Commands \X Nat)  BY <2>1, StartsStep
  <2>3. looper' \in Seq(Message) /\ LooperInv' /\ RecordInv'  BY <2>1, TakeStep
  <2>4. QED  BY <2>1, <2>2, <2>3
<1>3. CASE rec = Head(looper).to /\ lastId = Head(looper).id
  <2> DEFINE i == Head(looper).to
             m == Msg("DESTROY", i, 0)
             q == Tail(looper)
  <2>1. looper' = Append(q, m) /\ rec' = None /\ starts' = <<>> /\ fg' = FALSE
    BY <1>3 DEF StopSelf
  <2>2. i \in Inst  BY <1>1, TailFacts, QueueElement
  <2>3. m \in Message /\ m.what = "DESTROY" /\ m.to = i
    <3>1. "DESTROY" \in Kinds /\ 0 \in Nat  BY DEF Kinds
    <3> HIDE DEF i
    <3>2. QED  BY ONLY <2>2, <3>1, MsgTyped DEF Msg
  <2>4. StartsInv' /\ starts' \in Seq(Commands \X Nat)  BY <2>1, StartsStep
  <2>5. /\ q \in Seq(Message)
        /\ \A a \in 1..Len(q) : q[a] = looper[a + 1] /\ a + 1 \in 2..Len(looper)
                                /\ a + 1 \in 1..Len(looper)
    BY <1>1, TailFacts
  <2>6. \A a \in 1..Len(q) :
          Fits(q[a], None, nInst, lastId, life, media', home, startId)
    <3> SUFFICES ASSUME NEW a \in 2..Len(looper)
                 PROVE  Fits(looper[a], None, nInst, lastId, life, media', home, startId)
      BY <2>5
    <3>1. looper[a].to \in Inst /\ looper[a].what \in Kinds
      BY <1>1, TailFacts, QueueElement
    <3>2. looper[a].what \notin Commands \cup {"CREATE"}  BY <1>3
    <3>3. Fits(looper[a], rec, nInst, lastId, life, media', home, startId)  OBVIOUS
    <3>4. QED  BY <3>1, <3>2, <3>3 DEF Fits
  <2>7. QueueInv(q, None, nInst, lastId, life, media', home, startId)
    <3>1. \A a \in 2..Len(looper) :
            Fits(looper[a], None, nInst, lastId, life, media', home, startId)
      <4> SUFFICES ASSUME NEW a \in 2..Len(looper)
                   PROVE  Fits(looper[a], None, nInst, lastId, life, media', home, startId)
        OBVIOUS
      <4>1. a - 1 \in 1..Len(q) /\ (a - 1) + 1 = a  BY <1>1, TailFacts
      <4>2. QED  BY <2>5, <2>6, <4>1
    <3>2. QED  BY <1>1, <3>1, PopQueue
  <2>8. Fits(m, None, nInst, lastId, life, media', home, startId)
    <3>1. i <= nInst  BY <1>3, <2>2 DEF RecordInv, FieldTypes
    <3>2. QED  BY <2>2, <2>3, <3>1 DEF Fits, Commands, UserCommands
  <2>9. \A a \in 1..Len(q) : Before(q[a], m)
    BY <2>3 DEF Before, Commands, UserCommands
  <2> HIDE DEF q, m
  <2>10. QueueInv(Append(q, m), None, nInst, lastId, life, media', home, startId)
    <3>1. InOrder(q) /\ \A a \in 1..Len(q) :
             Fits(q[a], None, nInst, lastId, life, media', home, startId)
      BY <2>7 DEF QueueInv
    <3>2. QED  BY <2>3, <2>5, <2>8, <2>9, <3>1, PushQueue
  <2>11. LooperInv'  BY <2>1, <2>10 DEF LooperInv
  <2>12. RecordInv'  BY <2>1 DEF RecordInv
  <2>13. looper' \in Seq(Message)  BY <2>1, <2>3, <2>5, AppendFacts
  <2>14. QED  BY <1>3, <2>1, <2>4, <2>11, <2>12, <2>13
<1>4. QED  BY <1>2, <1>3

-----------------------------------------------------------------------------
(* The steps.                                                              *)

\* A function changed at one place.
LEMMA FunctionUpdate ==
  ASSUME NEW A, NEW B, NEW f \in [A -> B], NEW a, NEW b \in B
  PROVE  /\ [f EXCEPT ![a] = b] \in [A -> B]
         /\ \A x \in A : [f EXCEPT ![a] = b][x] = IF x = a THEN b ELSE f[x]
  BY ONLY f \in [A -> B], b \in B

\* Nothing has happened.
LEMMA MusicInitInv == MusicInit => MusicInv
<1> SUFFICES ASSUME MusicInit  PROVE MusicInv  OBVIOUS
<1> USE DEF MusicInit
<1>1. FieldTypes
  <2>1. commands \in 0..MaxCommands /\ kills \in 0..MaxKills
    BY DEF MusicAssumption
  <2>2. nInst \in 0..MaxInst /\ nPlayers \in 0..MaxPlayers /\ rec \in 0..nInst /\ lastId \in Nat
    BY DEF MusicAssumption
  <2>3. asked \in Commands /\ late \subseteq Player  BY DEF Commands
  <2>4. fg \in BOOLEAN  OBVIOUS
  <2>5. looper \in Seq(Message) /\ starts \in Seq(Commands \X Nat)  OBVIOUS
  <2>6. life \in [Inst -> {"none", "live", "gone"}] /\ notification \in [Inst -> BOOLEAN]
    OBVIOUS
  <2>7. player \in [Inst -> 0..nPlayers]
    <3>1. 0 \in 0..0  OBVIOUS
    <3>2. QED  BY <3>1
  <2>8. media \in [Player -> {"none", "playing", "paused", "completed", "released"}]
    OBVIOUS
  <2>9. home \in [Player -> Inst \cup {None}] /\ startId \in [Player -> Nat]
    OBVIOUS
  <2>10. QED
    BY <2>1, <2>2, <2>3, <2>4, <2>5, <2>6, <2>7, <2>8, <2>9 DEF FieldTypes
<1>2. LooperInv  BY DEF LooperInv, QueueInv, InOrder
<1>3. RecordInv  BY DEF RecordInv
<1>4. StartsInv  BY DEF StartsInv
<1>5. PlayersInv  BY DEF PlayersInv
<1>6. PlayerReachable /\ NotificationShown  BY DEF PlayerReachable, NotificationShown
<1>7. QED  BY <1>1, <1>2, <1>3, <1>4, <1>5, <1>6 DEF MusicInv

\* A command for the present object is behind all that was asked of it.
LEMMA CommandPresent ==
  ASSUME MusicInv, NEW c \in UserCommands, Command(c), rec # None
  PROVE  looper' \in Seq(Message) /\ LooperInv' /\ RecordInv' /\ PlayersInv'
<1> DEFINE m == Msg(c, rec, lastId + 1)
<1> USE DEF MusicInv
<1>1. /\ looper' = Append(looper, m) /\ lastId' = lastId + 1
      /\ UNCHANGED <<rec, nInst, life, player, notification, mediaVars>>
  BY DEF Command
<1>2. /\ looper \in Seq(Message) /\ InOrder(looper) /\ rec \in Inst /\ lastId \in Nat
      /\ startId \in [Player -> Nat]
  BY DEF FieldTypes, LooperInv, QueueInv
<1>3. m \in Message /\ m.what = c /\ m.to = rec /\ m.id = lastId + 1
  BY <1>2, MsgTyped DEF Kinds, Commands
<1>4. c \in Commands /\ c \notin {"CREATE", "DESTROY", "COMPLETE"}
  BY DEF Commands, UserCommands
<1>5. \A a \in 1..Len(looper) :
        /\ Fits(looper[a], rec, nInst, lastId + 1, life, media, home, startId)
        /\ Before(looper[a], m)
  <2> SUFFICES ASSUME NEW a \in 1..Len(looper)
               PROVE  /\ Fits(looper[a], rec, nInst, lastId + 1, life, media, home, startId)
                      /\ Before(looper[a], m)
    OBVIOUS
  <2>1. Fits(looper[a], rec, nInst, lastId, life, media, home, startId)
    BY DEF LooperInv, QueueInv
  <2>2. looper[a].id \in Nat  BY <1>2, QueueElement
  <2>3. Before(looper[a], m)  BY <1>2, <1>3, <1>4, <2>1, <2>2 DEF Fits, Before
  <2>4. looper[a].id <= lastId => looper[a].id <= lastId + 1  BY <1>2, <2>2
  <2>5. \A p \in Player : startId[p] < lastId => startId[p] < lastId + 1  BY <1>2
  <2>6. Fits(looper[a], rec, nInst, lastId + 1, life, media, home, startId)
    BY <2>1, <2>4, <2>5 DEF Fits
  <2>7. QED  BY <2>3, <2>6
<1> HIDE DEF m
<1>6. Fits(m, rec, nInst, lastId + 1, life, media, home, startId)
  <2>1. \A p \in Player : home[p] = rec => startId[p] <= lastId  BY DEF PlayersInv
  <2>2. \A p \in Player : home[p] = rec => startId[p] < lastId + 1  BY <1>2, <2>1
  <2>3. QED  BY <1>2, <1>3, <1>4, <2>2 DEF Fits
<1>7. QueueInv(looper', rec, nInst, lastId + 1, life, media, home, startId)
  BY <1>1, <1>2, <1>3, <1>5, <1>6, PushQueue
<1>8. LooperInv'  BY <1>1, <1>7 DEF LooperInv, mediaVars
<1>9. CreatePending(looper) => CreatePending(looper')  BY <1>1, <1>2, <1>3, PushPending
<1>10. RecordInv'  BY <1>1, <1>9 DEF RecordInv, CreatePending
<1>11. PlayersInv'
  <2>1. \A p \in Player : home[p] = rec => startId[p] <= lastId + 1
    BY <1>2 DEF PlayersInv
  <2>2. QED  BY <1>1, <2>1 DEF PlayersInv, mediaVars
<1>12. QED  BY <1>1, <1>2, <1>3, <1>8, <1>10, <1>11, AppendFacts

\* A command that makes an object is behind its creation.
LEMMA CommandNew ==
  ASSUME MusicInv, NEW c \in UserCommands, Command(c), rec = None
  PROVE  looper' \in Seq(Message) /\ LooperInv' /\ RecordInv' /\ PlayersInv'
<1> DEFINE i == nInst + 1
           m1 == Msg("CREATE", i, 0)
           m2 == Msg(c, i, 1)
           q == Append(looper, m1)
<1> USE DEF MusicInv
<1>1. /\ looper' = looper \o <<m1, m2>> /\ lastId' = 1 /\ rec' = i /\ nInst' = i
      /\ nInst < MaxInst
      /\ UNCHANGED <<life, player, notification, nPlayers, media, home, startId>>
  BY DEF Command, mediaVars
<1>2. /\ looper \in Seq(Message) /\ InOrder(looper) /\ i \in Inst /\ i # None /\ nInst \in Nat
      /\ startId \in [Player -> Nat] /\ home \in [Player -> Inst \cup {None}]
  BY <1>1 DEF FieldTypes, LooperInv, QueueInv
<1>3. /\ m1 \in Message /\ m1.what = "CREATE" /\ m1.to = i
      /\ m2 \in Message /\ m2.what = c /\ m2.to = i /\ m2.id = 1
  <2>1. "CREATE" \in Kinds /\ c \in Kinds /\ 0 \in Nat /\ 1 \in Nat  BY DEF Kinds, Commands
  <2>2. i \in Inst  BY <1>2
  <2> HIDE DEF MusicInv, i
  <2>3. m1 \in Message /\ m1.what = "CREATE" /\ m1.to = i  BY <2>1, <2>2, MsgTyped
  <2>4. m2 \in Message /\ m2.what = c /\ m2.to = i /\ m2.id = 1  BY <2>1, <2>2, MsgTyped
  <2>5. QED  BY <2>3, <2>4
<1> HIDE DEF m1, m2
<1>4. looper' = Append(q, m2)  BY <1>1, <1>2, <1>3
<1>5. c \in Commands /\ c \notin {"CREATE", "DESTROY", "COMPLETE"}
      /\ "CREATE" \notin Commands /\ "DESTROY" \notin Commands /\ "COMPLETE" \notin Commands
  BY DEF Commands, UserCommands
<1>6. \A p \in Player : home[p] # i
  <2>1. \A p \in Player : home[p] <= nInst  BY DEF PlayersInv
  <2>2. \A p \in Player : home[p] \in Nat  BY <1>2
  <2>3. QED  BY <1>2, <2>1, <2>2
<1>7. \A p \in Player : media[p] # "playing"  BY DEF PlayerReachable
<1>8. \A a \in 1..Len(looper) : looper[a].what \notin Commands \cup {"CREATE"}
  BY DEF LooperInv, QueueInv, Fits
<1>9. \A a \in 1..Len(looper) :
        /\ Fits(looper[a], i, i, 1, life, media, home, startId)
        /\ Before(looper[a], m1)
  <2> SUFFICES ASSUME NEW a \in 1..Len(looper)
               PROVE  /\ Fits(looper[a], i, i, 1, life, media, home, startId)
                      /\ Before(looper[a], m1)
    OBVIOUS
  <2>1. Fits(looper[a], None, nInst, lastId, life, media, home, startId)
    BY DEF LooperInv, QueueInv
  <2>2. looper[a].to \in Nat  BY <1>2, QueueElement
  <2>3. Before(looper[a], m1)  BY <1>8 DEF Before
  <2>4. looper[a].to <= nInst => looper[a].to # i /\ looper[a].to <= i  BY <1>2, <2>2
  <2>5. Fits(looper[a], i, i, 1, life, media, home, startId)
    BY <1>7, <1>8, <2>1, <2>4 DEF Fits
  <2>6. QED  BY <2>3, <2>5
<1>10. Fits(m1, i, i, 1, life, media, home, startId)
  <2>1. life[i] = "none"  BY <1>2 DEF RecordInv
  <2>2. QED  BY <1>2, <1>3, <1>5, <1>6, <2>1 DEF Fits
<1>11. Fits(m2, i, i, 1, life, media, home, startId)
  BY <1>2, <1>3, <1>5, <1>6 DEF Fits
<1> HIDE DEF i
<1>12. QueueInv(q, i, i, 1, life, media, home, startId)
  BY <1>2, <1>3, <1>9, <1>10, PushQueue
<1>13. \A a \in 1..Len(q) : Before(q[a], m2)
  <2> SUFFICES ASSUME NEW a \in 1..Len(q)  PROVE Before(q[a], m2)  OBVIOUS
  <2>1. CASE a \in 1..Len(looper)  BY <1>2, <1>3, <1>5, <1>8, <2>1, AppendFacts DEF Before
  <2>2. CASE a = Len(looper) + 1  BY <1>2, <1>3, <1>5, <2>2, AppendFacts DEF Before
  <2>3. QED  BY <1>2, <1>3, <2>1, <2>2, AppendFacts
<1>14. q \in Seq(Message)  BY <1>2, <1>3, AppendFacts
<1>15. CreatePending(q)  BY <1>2, <1>3, PushPending
<1> HIDE DEF q
<1>16. QueueInv(looper', i, i, 1, life, media, home, startId)
  <2>1. \A a \in 1..Len(q) : Fits(q[a], i, i, 1, life, media, home, startId)
    BY <1>12 DEF QueueInv
  <2>2. InOrder(q)  BY <1>12 DEF QueueInv
  <2>3. QED  BY <1>3, <1>4, <1>11, <1>13, <1>14, <2>1, <2>2, PushQueue
<1>17. LooperInv'  BY <1>1, <1>16 DEF LooperInv
<1>18. CreatePending(looper')  BY <1>3, <1>4, <1>14, <1>15, PushPending
<1>19. RecordInv'
  <2>1. life[i] = "none"  BY <1>2 DEF RecordInv, i
  <2>2. \A j \in Inst : j > i => j > nInst  BY <1>2 DEF i
  <2>3. QED  BY <1>1, <1>18, <2>1, <2>2 DEF RecordInv, CreatePending
<1>20. PlayersInv'
  <2>1. \A p \in Player : home[p] <= i
    <3>1. \A p \in Player : home[p] \in Nat /\ home[p] <= nInst  BY <1>2 DEF PlayersInv
    <3>2. QED  BY <1>2, <3>1 DEF i
  <2>2. QED  BY <1>1, <1>6, <2>1 DEF PlayersInv
<1>21. looper' \in Seq(Message)  BY <1>3, <1>4, <1>14, AppendFacts
<1>22. QED  BY <1>17, <1>19, <1>20, <1>21

\* startService.
LEMMA CommandInv ==
  ASSUME MusicInv, NEW c \in UserCommands, Command(c)
  PROVE  MusicInv'
<1> USE DEF MusicInv
<1>1. looper' \in Seq(Message) /\ LooperInv' /\ RecordInv' /\ PlayersInv'
  BY CommandPresent, CommandNew
<1>2. /\ starts' = Append(starts, <<c, lastId'>>) /\ commands < MaxCommands
      /\ commands' = commands + 1 /\ asked' \in {asked, c}
      /\ UNCHANGED <<fg, kills, life, player, notification, nPlayers, media, home, startId,
                     late>>
  BY DEF Command, mediaVars
<1>3. /\ rec' # None /\ lastId' \in Nat
      /\ (rec = None /\ starts = <<>>) \/ (lastId' > lastId /\ rec' = rec)
      /\ rec' \in 0..nInst' /\ nInst' \in 0..MaxInst
  <2>1. /\ rec \in 0..nInst /\ nInst \in 0..MaxInst /\ lastId \in Nat
        /\ rec = None => starts = <<>>
    BY DEF FieldTypes, StartsInv
  <2>2. CASE rec = None
    <3>1. nInst < MaxInst /\ nInst' = nInst + 1 /\ rec' = nInst + 1 /\ lastId' = 1
      BY <2>2 DEF Command
    <3>2. QED  BY <2>1, <2>2, <3>1
  <2>3. CASE rec # None
    <3>1. lastId' = lastId + 1 /\ rec' = rec /\ nInst' = nInst  BY <2>3 DEF Command
    <3>2. QED  BY <2>1, <2>3, <3>1
  <2>4. QED  BY <2>2, <2>3
<1>4. starts \in Seq(Commands \X Nat) /\ Len(starts) \in Nat /\ lastId \in Nat
      /\ c \in Commands
  BY DEF FieldTypes, Commands
<1>5. starts' \in Seq(Commands \X Nat)
  BY <1>2, <1>3, <1>4
<1>6. StartsInv'
  <2>1. /\ Len(starts') = Len(starts) + 1
        /\ \A a \in 1..Len(starts) : starts'[a] = starts[a]
        /\ starts'[Len(starts) + 1][2] = lastId'
    BY <1>2, <1>3, <1>4
  <2>2. \A a \in 1..Len(starts) : starts[a][2] \in Nat  BY <1>4
  <2>3. \A a \in 1..Len(starts) : starts[a][2] < lastId'
    BY <1>3, <1>4, <2>2 DEF StartsInv
  <2>4. \A a \in 1..Len(starts') : a \in 1..Len(starts) \/ a = Len(starts) + 1
    BY <1>4, <2>1
  <2>5. \A a \in 1..Len(starts') : starts'[a][2] <= lastId'
    BY <1>3, <2>1, <2>2, <2>3, <2>4
  <2>6. \A a, b \in 1..Len(starts') : a < b => starts'[a][2] < starts'[b][2]
    <3> SUFFICES ASSUME NEW a \in 1..Len(starts'), NEW b \in 1..Len(starts'), a < b
                 PROVE  starts'[a][2] < starts'[b][2]
      OBVIOUS
    <3>1. a \in 1..Len(starts)  BY <1>4, <2>1
    <3>2. CASE b \in 1..Len(starts)  BY <2>1, <3>1, <3>2 DEF StartsInv
    <3>3. CASE b = Len(starts) + 1  BY <2>1, <2>3, <3>1, <3>3
    <3>4. QED  BY <2>4, <3>2, <3>3
  <2>7. QED  BY <1>3, <2>5, <2>6 DEF StartsInv
<1>7. FieldTypes'
  <2>1. commands' \in 0..MaxCommands  BY <1>2 DEF FieldTypes, MusicAssumption
  <2>2. asked' \in Commands  BY <1>2, <1>4 DEF FieldTypes
  <2>3. QED  BY <1>1, <1>2, <1>3, <1>5, <2>1, <2>2 DEF FieldTypes
<1>8. PlayerReachable'
  BY <1>2, <1>3 DEF PlayerReachable
<1>9. NotificationShown'  BY <1>2 DEF NotificationShown
<1>10. QED  BY <1>1, <1>6, <1>7, <1>8, <1>9

\* The object is created: it was the record's, and nothing else waits to be created.
LEMMA OnCreateInv ==
  ASSUME MusicInv, OnCreate
  PROVE  MusicInv'
<1> DEFINE i == Head(looper).to
<1> USE DEF MusicInv
<1>1. /\ looper # <<>> /\ Head(looper).what = "CREATE" /\ looper' = Tail(looper)
      /\ life' = [life EXCEPT ![i] = "live"]
      /\ UNCHANGED <<rec, lastId, starts, fg, commands, kills, asked, nInst, player,
                     notification, nPlayers, media, home, startId, late>>
  BY DEF OnCreate, Dispatch, mediaVars
<1>2. looper \in Seq(Message) /\ InOrder(looper)
      /\ life \in [Inst -> {"none", "live", "gone"}]
  BY DEF FieldTypes, LooperInv, QueueInv
<1>3. Head(looper) = looper[1] /\ 1 \in 1..Len(looper) /\ i \in Inst
  BY <1>1, <1>2, TailFacts, QueueElement
<1>4. rec # None /\ i = rec /\ life[rec] = "none"
  BY <1>1, <1>3 DEF LooperInv, QueueInv, Fits
<1>5. \A a \in 2..Len(looper) : looper[a].what # "CREATE"
  <2>1. \A a \in 2..Len(looper) : a \in 1..Len(looper) /\ 1 < a  BY <1>1, <1>2
  <2>2. QED  BY <1>1, <1>3, <2>1 DEF InOrder, Before, LooperInv, QueueInv
<1>6. \A a \in 2..Len(looper) : Fits(looper[a], rec, nInst, lastId, life', media, home, startId)
  <2>1. \A a \in 2..Len(looper) : Fits(looper[a], rec, nInst, lastId, life, media, home, startId)
    BY <1>1, <1>2 DEF LooperInv, QueueInv
  <2>2. QED  BY <1>5, <2>1 DEF Fits
<1>7. QueueInv(looper', rec, nInst, lastId, life', media, home, startId)
  BY <1>1, <1>2, <1>6, PopQueue
<1>8. LooperInv'  BY <1>1, <1>7 DEF LooperInv
<1>9. /\ life' \in [Inst -> {"none", "live", "gone"}]
      /\ \A j \in Inst : life'[j] = IF j = i THEN "live" ELSE life[j]
  BY <1>1, <1>2, FunctionUpdate
<1>10. RecordInv'
  <2>1. life'[rec] = "live"  BY <1>3, <1>4, <1>9
  <2>2. \A j \in Inst : j > nInst => j # i  BY <1>3, <1>4 DEF RecordInv, FieldTypes
  <2>3. QED  BY <1>1, <1>9, <2>1, <2>2 DEF RecordInv
<1>11. FieldTypes'
  <2>1. looper' \in Seq(Message)  BY <1>1, <1>2, TailFacts
  <2>2. QED  BY <1>1, <1>9, <2>1 DEF FieldTypes
<1>12. StartsInv'  BY <1>1 DEF StartsInv
<1>13. PlayersInv'  BY <1>1 DEF PlayersInv
<1>14. PlayerReachable'  BY <1>1, <1>4 DEF PlayerReachable
<1>15. NotificationShown'  BY <1>1 DEF NotificationShown
<1>16. QED  BY <1>8, <1>10, <1>11, <1>12, <1>13, <1>14, <1>15

\* An object is destroyed: it is not the record's.
LEMMA OnDestroyInv ==
  ASSUME MusicInv, OnDestroy
  PROVE  MusicInv'
<1> DEFINE i == Head(looper).to
<1> USE DEF MusicInv
<1>1. /\ looper # <<>> /\ Head(looper).what = "DESTROY" /\ looper' = Tail(looper)
      /\ life' = [life EXCEPT ![i] = "gone"] /\ fg' = StopForeground(i)
      /\ UNCHANGED <<rec, lastId, starts, commands, kills, asked, nInst, player,
                     notification, nPlayers, media, home, startId, late>>
  BY DEF OnDestroy, Dispatch, mediaVars
<1>2. looper \in Seq(Message) /\ InOrder(looper) /\ nInst \in Nat
      /\ life \in [Inst -> {"none", "live", "gone"}]
  BY DEF FieldTypes, LooperInv, QueueInv
<1>3. Head(looper) = looper[1] /\ 1 \in 1..Len(looper) /\ i \in Inst
  BY <1>1, <1>2, TailFacts, QueueElement
<1>4. i # rec /\ i <= nInst
  BY <1>1, <1>3 DEF LooperInv, QueueInv, Fits
<1>5. /\ life' \in [Inst -> {"none", "live", "gone"}]
      /\ \A j \in Inst : life'[j] = IF j = i THEN "gone" ELSE life[j]
  BY <1>1, <1>2, FunctionUpdate
<1>6. rec # None => rec \in Inst /\ life'[rec] = life[rec]
  BY <1>4, <1>5 DEF RecordInv, FieldTypes
<1>7. \A a \in 2..Len(looper) : Fits(looper[a], rec, nInst, lastId, life', media, home, startId)
  <2>1. \A a \in 2..Len(looper) : Fits(looper[a], rec, nInst, lastId, life, media, home, startId)
    BY <1>1, <1>2 DEF LooperInv, QueueInv
  <2>2. QED  BY <1>6, <2>1 DEF Fits
<1>8. QueueInv(looper', rec, nInst, lastId, life', media, home, startId)
  BY <1>1, <1>2, <1>7, PopQueue
<1>9. LooperInv'  BY <1>1, <1>8 DEF LooperInv
<1>10. CreatePending(looper) => CreatePending(looper')
  BY <1>1, <1>2, <1>3, PopPending
<1>11. RecordInv'
  <2>1. \A j \in Inst : j > nInst => j # i  BY <1>2, <1>3, <1>4
  <2>2. rec # None => /\ rec = nInst /\ life'[rec] # "gone"
                      /\ life'[rec] = "none" => CreatePending(looper')
    BY <1>6, <1>10 DEF RecordInv
  <2>3. \A j \in Inst : j > nInst => life'[j] = "none" /\ player[j] = None
    BY <1>5, <2>1 DEF RecordInv
  <2>4. QED  BY <1>1, <2>2, <2>3 DEF RecordInv, CreatePending
<1>12. fg' = fg  BY <1>1, <1>4 DEF StopForeground, FieldTypes
<1>13. FieldTypes'
  <2>1. looper' \in Seq(Message)  BY <1>1, <1>2, TailFacts
  <2>2. QED  BY <1>1, <1>5, <1>12, <2>1 DEF FieldTypes
<1>14. StartsInv'  BY <1>1 DEF StartsInv
<1>15. PlayersInv'  BY <1>1 DEF PlayersInv
<1>16. PlayerReachable'  BY <1>1, <1>6 DEF PlayerReachable
<1>17. NotificationShown'  BY <1>1, <1>12 DEF NotificationShown
<1>18. QED  BY <1>9, <1>11, <1>13, <1>14, <1>15, <1>16, <1>17

\* A command that changes nothing: a refusal, an answer, a null intent.
LEMMA PlainAnswer ==
  ASSUME MusicInv, looper # <<>>, Head(looper).what \in Commands, Answer(fg),
         UNCHANGED <<objVars, mediaVars>>
  PROVE  MusicInv'
<1> USE DEF MusicInv
<1>1. /\ looper' = Tail(looper) /\ starts' = Handled
      /\ UNCHANGED <<rec, lastId, fg, commands, kills, asked, nInst, life, player,
                     notification, nPlayers, media, home, startId, late>>
  BY DEF Answer, objVars, mediaVars
<1>2. Head(looper).what # "CREATE"  BY DEF Commands, UserCommands
<1>3. looper' \in Seq(Message) /\ LooperInv' /\ RecordInv'
  <2>1. \A a \in 2..Len(looper) : Fits(looper[a], rec, nInst, lastId, life, media', home', startId')
    BY <1>1 DEF LooperInv, QueueInv, FieldTypes
  <2>2. \A j \in Inst : j > nInst => player'[j] = None  BY <1>1 DEF RecordInv
  <2>3. QED  BY <1>1, <1>2, <2>1, <2>2, TakeStep
<1>4. StartsInv' /\ starts' \in Seq(Commands \X Nat)  BY <1>1, StartsStep
<1>5. FieldTypes'  BY <1>1, <1>3, <1>4 DEF FieldTypes
<1>6. PlayersInv'  BY <1>1 DEF PlayersInv
<1>7. PlayerReachable'  BY <1>1 DEF PlayerReachable
<1>8. NotificationShown'  BY <1>1 DEF NotificationShown
<1>9. QED  BY <1>3, <1>4, <1>5, <1>6, <1>7, <1>8

\* Pause, or play again: the player of the present object, which shows its notification.
LEMMA HandlePlayPauseInv ==
  ASSUME MusicInv, HandlePlayPause, player[Head(looper).to] # None
  PROVE  MusicInv'
<1> DEFINE m == Head(looper)
           x == player[rec]
<1> USE DEF MusicInv
<1>1. /\ rec # None /\ rec \in Inst /\ m.to = rec /\ life[rec] = "live"
      /\ looper # <<>> /\ m.what \in Commands /\ m.id <= lastId /\ m.id \in Nat
      /\ \A p \in Player : home[p] = rec => startId[p] < m.id
  BY CommandHead DEF HandlePlayPause, Dispatch, Commands, UserCommands
<1> DEFINE next == IF media[x] = "playing" THEN "paused" ELSE "playing"
<1>2. /\ looper' = Tail(looper) /\ starts' = Handled /\ fg' = Log(rec, notification[rec])
      /\ media' = [media EXCEPT ![x] = next] /\ late' = late \ {x}
      /\ UNCHANGED <<rec, lastId, commands, kills, asked, nInst, life, player,
                     notification, nPlayers, home, startId>>
  BY <1>1 DEF HandlePlayPause, Answer, PlayPauseLog, objVars
<1>3. /\ x # None /\ home[x] = rec /\ notification[rec]
      /\ media[x] \notin {"none", "released"}
  BY <1>1 DEF HandlePlayPause, PlayersInv
<1>4. x \in Player /\ x \in 1..nPlayers
  BY <1>1, <1>3 DEF FieldTypes
<1>5. /\ media \in [Player -> {"none", "playing", "paused", "completed", "released"}]
      /\ next \in {"none", "playing", "paused", "completed", "released"}
  BY DEF FieldTypes
<1>6. /\ media' \in [Player -> {"none", "playing", "paused", "completed", "released"}]
      /\ \A p \in Player : media'[p] = IF p = x THEN next ELSE media[p]
  BY <1>2, <1>5, FunctionUpdate
<1> HIDE DEF x
<1>7. fg' = TRUE  BY <1>1, <1>2, <1>3 DEF Log
<1>8. \A a \in 2..Len(looper) : Fits(looper[a], rec, nInst, lastId, life, media', home, startId)
  <2> SUFFICES ASSUME NEW a \in 2..Len(looper)
               PROVE  Fits(looper[a], rec, nInst, lastId, life, media', home, startId)
    OBVIOUS
  <2>1. Fits(looper[a], rec, nInst, lastId, life, media, home, startId)
    BY DEF LooperInv, QueueInv, FieldTypes
  <2>2. startId[x] < lastId  BY <1>1, <1>3, <1>4 DEF FieldTypes
  <2>3. \A p \in Player : media[p] # "none" => media'[p] # "none"  BY <1>6
  <2>4. \A p \in Player : media'[p] = "playing" /\ home[p] = rec =>
          startId[p] < lastId \/ media[p] = "playing"
    BY <1>6, <2>2
  <2>5. QED  BY <2>1, <2>3, <2>4 DEF Fits
<1>9. looper' \in Seq(Message) /\ LooperInv' /\ RecordInv'
  <2>1. \A j \in Inst : j > nInst => player'[j] = None  BY <1>2 DEF RecordInv
  <2>2. Head(looper).what # "CREATE"  BY <1>1 DEF Commands, UserCommands
  <2>3. \A a \in 2..Len(looper) :
          Fits(looper[a], rec, nInst, lastId, life, media', home', startId')
    BY <1>2, <1>8
  <2>4. QED  BY <1>1, <1>2, <2>1, <2>2, <2>3, TakeStep
<1>10. StartsInv' /\ starts' \in Seq(Commands \X Nat)  BY <1>2, StartsStep
<1>11. FieldTypes'
  <2>1. late' \subseteq Player /\ fg' \in BOOLEAN  BY <1>2, <1>7 DEF FieldTypes
  <2>2. QED  BY <1>2, <1>6, <1>9, <1>10, <2>1 DEF FieldTypes
<1>12. PlayersInv'
  <2>1. \A p \in Player :
          /\ p > nPlayers => media'[p] = "none"
          /\ media'[p] \notin {"none", "released"} => home[p] \in Inst /\ player[home[p]] = p
    <3>1. player[rec] = x  BY DEF x
    <3>2. x <= nPlayers  BY <1>4 DEF FieldTypes
    <3> SUFFICES ASSUME NEW p \in Player
                 PROVE  /\ p > nPlayers => media'[p] = "none"
                        /\ media'[p] \notin {"none", "released"} =>
                              home[p] \in Inst /\ player[home[p]] = p
      OBVIOUS
    <3>3. CASE p = x
      <4>1. ~(p > nPlayers)  BY <3>2, <3>3 DEF FieldTypes
      <4>2. QED  BY <1>1, <1>3, <3>1, <3>3, <4>1
    <3>4. CASE p # x
      <4>1. media'[p] = media[p]  BY <1>6, <3>4
      <4>2. QED  BY <4>1 DEF PlayersInv
    <3>5. QED  BY <3>3, <3>4
  <2>2. \A j \in Inst : player[j] # None => media'[player[j]] \notin {"none", "released"}
    <3>1. \A j \in Inst : player[j] # None => player[j] \in Player  BY DEF FieldTypes
    <3>2. QED  BY <1>6, <3>1 DEF PlayersInv
  <2>3. QED  BY <1>2, <2>1, <2>2 DEF PlayersInv
<1>13. PlayerReachable'
  <2>1. player[rec] = x  BY DEF x
  <2>2. QED  BY <1>1, <1>2, <1>6, <2>1 DEF PlayerReachable
<1>14. NotificationShown'  BY <1>7 DEF NotificationShown
<1>15. QED  BY <1>9, <1>10, <1>11, <1>12, <1>13, <1>14

\* A new player, or a file that cannot be played: in both cases the old player is released and
\* the notification is shown.
LEMMA HandleForegroundInv ==
  ASSUME MusicInv, HandleForeground
  PROVE  MusicInv'
<1> DEFINE m == Head(looper)
           x == player[rec]
           y == nPlayers + 1
           Media == {"none", "playing", "paused", "completed", "released"}
<1> USE DEF MusicInv
<1>1. /\ rec # None /\ rec \in Inst /\ m.to = rec /\ life[rec] = "live"
      /\ looper # <<>> /\ m.what \in Commands /\ m.id <= lastId /\ m.id \in Nat
      /\ \A p \in Player : home[p] = rec => startId[p] < m.id
      /\ ~CreatePending(looper)
      /\ \A a \in 2..Len(looper) : looper[a].what \in Commands => m.id < looper[a].id
  BY CommandHead DEF HandleForeground, Dispatch, Commands, UserCommands
<1>2. /\ looper' = Tail(looper) /\ starts' = Handled /\ fg' = Log(rec, TRUE)
      /\ notification' = [notification EXCEPT ![rec] = TRUE]
      /\ UNCHANGED <<rec, lastId, commands, kills, asked, nInst, life, late>>
      /\ PlayMusic(rec, m.id) \/ PlayFails(rec)
  BY <1>1 DEF HandleForeground, Answer
<1>3. /\ media \in [Player -> Media] /\ player \in [Inst -> 0..nPlayers]
      /\ notification \in [Inst -> BOOLEAN] /\ home \in [Player -> Inst \cup {None}]
      /\ startId \in [Player -> Nat] /\ nPlayers \in 0..MaxPlayers /\ looper \in Seq(Message)
      /\ lastId \in Nat /\ nInst \in Nat /\ x \in 0..nPlayers
  BY <1>1 DEF FieldTypes
<1>4. fg' = TRUE  BY <1>1, <1>2 DEF Log
<1>5. /\ notification' \in [Inst -> BOOLEAN]
      /\ \A j \in Inst : notification'[j] <=> (j = rec \/ notification[j])
  BY <1>2, <1>3, FunctionUpdate
<1>6. /\ Released(rec) \in [Player -> Media]
      /\ \A p \in Player : Released(rec)[p] = IF p = x THEN "released" ELSE media[p]
  <2>1. \A p \in Player : media[p] \in Media  BY <1>3
  <2>2. \A p \in Player : (IF p = x THEN "released" ELSE media[p]) \in Media  BY <2>1
  <2>3. QED  BY <2>2 DEF Released
\* What is left of the other players, whichever the case.
<1>7. \A p \in Player :
        /\ media[p] \notin {"none", "released"} /\ p # x =>
              home[p] \in Inst /\ home[p] # rec /\ player[home[p]] = p
        /\ media[p] = "playing" => p = x
  BY <1>1 DEF PlayersInv, PlayerReachable
<1> HIDE DEF x, Media
<1>8. player[rec] = x /\ (x # None => x \in Player /\ home[x] = rec)
  BY <1>1, <1>3 DEF x, PlayersInv
<1>9. \A a \in 2..Len(looper) :
        /\ Fits(looper[a], rec, nInst, lastId, life, media, home, startId)
        /\ looper[a].what # "CREATE"
  BY <1>1, <1>3 DEF LooperInv, QueueInv, CreatePending
<1>10. CASE PlayMusic(rec, m.id)
  <2> USE DEF Media
  <2>1. /\ y \in Player /\ nPlayers' = y
        /\ player' = [player EXCEPT ![rec] = y] /\ media' = [Released(rec) EXCEPT ![y] = "playing"]
        /\ home' = [home EXCEPT ![y] = rec] /\ startId' = [startId EXCEPT ![y] = m.id]
    BY <1>10 DEF PlayMusic
  <2>2. /\ media' \in [Player -> Media]
        /\ \A p \in Player : media'[p] = IF p = y THEN "playing"
                                         ELSE IF p = x THEN "released" ELSE media[p]
    <3>1. "playing" \in Media  OBVIOUS
    <3> HIDE DEF Media
    <3>2. /\ media' \in [Player -> Media]
          /\ \A p \in Player : media'[p] = IF p = y THEN "playing" ELSE Released(rec)[p]
      BY <1>6, <2>1, <3>1, FunctionUpdate
    <3>3. QED  BY <1>6, <3>2
  <2>3. /\ home' \in [Player -> Inst \cup {None}]
        /\ \A p \in Player : home'[p] = IF p = y THEN rec ELSE home[p]
    BY <1>1, <1>3, <2>1, FunctionUpdate
  <2>4. /\ startId' \in [Player -> Nat]
        /\ \A p \in Player : startId'[p] = IF p = y THEN m.id ELSE startId[p]
    BY <1>1, <1>3, <2>1, FunctionUpdate
  <2>5. player \in [Inst -> 0..y] /\ y \in 0..y /\ nPlayers \in Nat
    BY <1>3
  <2>6. /\ player' \in [Inst -> 0..y]
        /\ \A j \in Inst : player'[j] = IF j = rec THEN y ELSE player[j]
    BY <2>1, <2>5, FunctionUpdate
  <2>7. /\ media[y] = "none" /\ \A j \in Inst : player[j] # y
        /\ x # y
    BY <1>3, <1>8, <2>1, <2>5 DEF PlayersInv
  <2>8. \A a \in 2..Len(looper) :
          Fits(looper[a], rec, nInst, lastId, life, media', home', startId')
    <3> SUFFICES ASSUME NEW a \in 2..Len(looper)
                 PROVE  Fits(looper[a], rec, nInst, lastId, life, media', home', startId')
      OBVIOUS
    <3> DEFINE o == looper[a]
    <3>1. Fits(o, rec, nInst, lastId, life, media, home, startId) /\ o.what # "CREATE"
      BY <1>9
    <3> HIDE DEF o
    <3>2. o.what \in Commands => m.id < o.id  BY <1>1 DEF o
    <3>3. o.what \in Commands =>
            /\ rec # None /\ o.to = rec /\ o.id <= lastId
            /\ \A p \in Player : home'[p] = rec => startId'[p] < o.id
      BY <2>3, <2>4, <3>1, <3>2 DEF Fits
    <3>4. o.what = "COMPLETE" =>
            /\ o.of \in Player /\ media'[o.of] # "none"
            /\ o.to = home'[o.of] /\ o.id = startId'[o.of]
            /\ media'[o.of] = "playing" /\ home'[o.of] = rec => startId'[o.of] < lastId
      <4> HAVE o.what = "COMPLETE"
      <4>1. /\ o.of \in Player /\ media[o.of] # "none"
            /\ o.to = home[o.of] /\ o.id = startId[o.of]
            /\ media[o.of] = "playing" /\ home[o.of] = rec => startId[o.of] < lastId
        BY <3>1 DEF Fits
      <4>2. o.of # y  BY <2>7, <4>1
      <4>3. QED  BY <2>2, <2>3, <2>4, <4>1, <4>2
    <3>5. o.what = "DESTROY" => o.to # rec /\ o.to <= nInst  BY <3>1 DEF Fits
    <3>6. QED  BY <3>1, <3>3, <3>4, <3>5 DEF Fits, o
  <2>9. looper' \in Seq(Message) /\ LooperInv' /\ RecordInv'
    <3>1. \A j \in Inst : j > nInst => player'[j] = None  BY <1>1, <1>3, <2>6 DEF RecordInv
    <3>2. Head(looper).what # "CREATE"  BY <1>1 DEF Commands, UserCommands
    <3>3. QED  BY <1>1, <1>2, <2>8, <3>1, <3>2, TakeStep
  <2>10. StartsInv' /\ starts' \in Seq(Commands \X Nat)  BY <1>2, StartsStep
  <2>11. FieldTypes'
    <3>1. nPlayers' \in 0..MaxPlayers  BY <2>1, <2>5
    <3>2. media' \in [Player -> {"none", "playing", "paused", "completed", "released"}]
      BY <2>2
    <3>3. QED
      BY <1>2, <1>4, <1>5, <2>1, <2>3, <2>4, <2>6, <2>9, <2>10, <3>1, <3>2 DEF FieldTypes
  <2>12. PlayersInv'
    <3>1. \A p \in Player :
            /\ p > nPlayers' => media'[p] = "none"
            /\ home'[p] <= nInst
            /\ home'[p] = rec => startId'[p] <= lastId
      <4> SUFFICES ASSUME NEW p \in Player
                   PROVE  /\ p > y => media'[p] = "none"
                          /\ home'[p] <= nInst
                          /\ home'[p] = rec => startId'[p] <= lastId
        BY <2>1
      <4>1. CASE p = y
        BY <1>1, <1>3, <2>3, <2>4, <4>1 DEF RecordInv
      <4>2. CASE p # y
        <5>1. p > y => p > nPlayers /\ p # x  BY <1>3, <2>5
        <5>2. QED  BY <1>1, <2>2, <2>3, <2>4, <4>2, <5>1 DEF PlayersInv
      <4>3. QED  BY <4>1, <4>2
    <3>2. \A p \in Player : media'[p] \notin {"none", "released"} =>
            home'[p] \in Inst /\ player'[home'[p]] = p
      <4> SUFFICES ASSUME NEW p \in Player, media'[p] \notin {"none", "released"}
                   PROVE  home'[p] \in Inst /\ player'[home'[p]] = p
        OBVIOUS
      <4>1. CASE p = y
        <5>1. home'[p] = rec  BY <2>3, <4>1
        <5>2. QED  BY <1>1, <2>6, <4>1, <5>1
      <4>2. CASE p # y
        <5>1. media'[p] = media[p] /\ p # x /\ home'[p] = home[p]  BY <2>2, <2>3, <4>2
        <5>2. home[p] \in Inst /\ player[home[p]] = p /\ home[p] # rec  BY <1>7, <5>1
        <5>3. QED  BY <2>6, <5>1, <5>2
      <4>3. QED  BY <4>1, <4>2
    <3>3. \A j \in Inst : player'[j] # None =>
            /\ media'[player'[j]] \notin {"none", "released"}
            /\ home'[player'[j]] = j /\ notification'[j]
      <4> SUFFICES ASSUME NEW j \in Inst, player'[j] # None
                   PROVE  /\ media'[player'[j]] \notin {"none", "released"}
                          /\ home'[player'[j]] = j /\ notification'[j]
        OBVIOUS
      <4>1. CASE j = rec
        <5>1. player'[j] = y /\ home'[y] = rec  BY <2>1, <2>3, <2>6, <4>1
        <5>2. media'[y] \notin {"none", "released"}  BY <2>1, <2>2
        <5>3. QED  BY <1>5, <4>1, <5>1, <5>2
      <4>2. CASE j # rec
        <5>1. player'[j] = player[j] /\ player[j] \in Player /\ player[j] # y
          BY <1>3, <2>6, <2>7, <4>2
        <5>2. /\ media[player[j]] \notin {"none", "released"}
              /\ home[player[j]] = j /\ notification[j]
          BY <5>1 DEF PlayersInv
        <5>3. player[j] # x  BY <1>8, <4>2, <5>1, <5>2
        <5>4. QED  BY <1>5, <2>2, <2>3, <5>1, <5>2, <5>3
      <4>3. QED  BY <4>1, <4>2
    <3>4. QED  BY <1>2, <3>1, <3>2, <3>3 DEF PlayersInv
  <2>13. PlayerReachable'
    BY <1>1, <1>2, <1>7, <2>2, <2>6 DEF PlayerReachable
  <2>14. NotificationShown'  BY <1>4 DEF NotificationShown
  <2>15. QED  BY <2>9, <2>10, <2>11, <2>12, <2>13, <2>14
<1>11. CASE PlayFails(rec)
  <2> USE DEF Media
  <2>1. /\ player' = [player EXCEPT ![rec] = None] /\ media' = Released(rec)
        /\ UNCHANGED <<nPlayers, home, startId>>
    BY <1>11 DEF PlayFails
  <2>2. /\ media' \in [Player -> Media]
        /\ \A p \in Player : media'[p] = IF p = x THEN "released" ELSE media[p]
    BY <1>6, <2>1
  <2>3. /\ player' \in [Inst -> 0..nPlayers]
        /\ \A j \in Inst : player'[j] = IF j = rec THEN None ELSE player[j]
    <3>1. None \in 0..nPlayers  BY <1>3
    <3>2. QED  BY <1>3, <2>1, <3>1, FunctionUpdate
  <2>4. \A a \in 2..Len(looper) :
          Fits(looper[a], rec, nInst, lastId, life, media', home', startId')
    BY <1>9, <2>1, <2>2 DEF Fits
  <2>5. looper' \in Seq(Message) /\ LooperInv' /\ RecordInv'
    <3>1. \A j \in Inst : j > nInst => player'[j] = None  BY <2>3 DEF RecordInv
    <3>2. Head(looper).what # "CREATE"  BY <1>1 DEF Commands, UserCommands
    <3>3. QED  BY <1>1, <1>2, <2>4, <3>1, <3>2, TakeStep
  <2>6. StartsInv' /\ starts' \in Seq(Commands \X Nat)  BY <1>2, StartsStep
  <2>7. FieldTypes'
    <3>1. media' \in [Player -> {"none", "playing", "paused", "completed", "released"}]
      BY <2>2
    <3>2. QED  BY <1>2, <1>4, <1>5, <2>1, <2>3, <2>5, <2>6, <3>1 DEF FieldTypes
  <2>8. PlayersInv'
    <3>1. \A p \in Player :
            /\ p > nPlayers => media'[p] = "none"
            /\ media'[p] \notin {"none", "released"} => home[p] \in Inst /\ player'[home[p]] = p
      <4>1. \A p \in Player : p > nPlayers => p # x  BY <1>3
      <4>2. QED  BY <1>7, <2>2, <2>3, <4>1 DEF PlayersInv
    <3>2. \A j \in Inst : player'[j] # None =>
            /\ media'[player'[j]] \notin {"none", "released"}
            /\ home[player'[j]] = j /\ notification'[j]
      <4> SUFFICES ASSUME NEW j \in Inst, player'[j] # None
                   PROVE  /\ media'[player'[j]] \notin {"none", "released"}
                          /\ home[player'[j]] = j /\ notification'[j]
        OBVIOUS
      <4>1. j # rec /\ player'[j] = player[j] /\ player[j] \in Player
        BY <1>3, <2>3
      <4>2. /\ media[player[j]] \notin {"none", "released"}
            /\ home[player[j]] = j /\ notification[j]
        BY <4>1 DEF PlayersInv
      <4>3. player[j] # x  BY <1>8, <4>1, <4>2
      <4>4. QED  BY <1>5, <2>2, <4>1, <4>2, <4>3
    <3>3. QED  BY <1>2, <2>1, <3>1, <3>2 DEF PlayersInv
  <2>9. PlayerReachable'
    BY <1>7, <2>2 DEF PlayerReachable
  <2>10. NotificationShown'  BY <1>4 DEF NotificationShown
  <2>11. QED  BY <2>5, <2>6, <2>7, <2>8, <2>9, <2>10
<1>12. QED  BY <1>2, <1>10, <1>11

\* A player that plays is the one of a live object of the record.
LEMMA PlayingIsPresent ==
  ASSUME MusicInv, NEW p \in Player, media[p] = "playing"
  PROVE  rec # None /\ rec \in Inst /\ player[rec] = p /\ home[p] = rec
<1>1. rec # None /\ rec \in 0..nInst /\ nInst \in 0..MaxInst /\ player[rec] = p
  BY DEF MusicInv, FieldTypes, PlayerReachable
<1>2. rec \in Inst /\ player[rec] # None  BY <1>1
<1>3. QED  BY <1>1, <1>2 DEF MusicInv, PlayersInv

\* At the last command the looper has no other.
LEMMA LastCommand ==
  ASSUME MusicInv, looper # <<>>, Head(looper).what \in Commands, lastId = Head(looper).id
  PROVE  \A a \in 2..Len(looper) : looper[a].what \notin Commands \cup {"CREATE"}
<1> USE DEF MusicInv
<1>1. looper \in Seq(Message) /\ lastId \in Nat  BY DEF FieldTypes
<1> SUFFICES ASSUME NEW a \in 2..Len(looper), looper[a].what \in Commands \cup {"CREATE"}
             PROVE  FALSE
  OBVIOUS
<1>2. a \in 1..Len(looper) /\ looper[a].id \in Nat
  BY <1>1, QueueElement
<1>3. looper[a].what # "CREATE"  BY <1>2, CommandHead DEF CreatePending
<1>4. lastId < looper[a].id  BY <1>3, CommandHead
<1>5. looper[a].id <= lastId  BY <1>2, <1>3 DEF LooperInv, QueueInv, Fits
<1>6. QED  BY <1>1, <1>2, <1>4, <1>5

\* Stop: the player is released if it plays; the service ends unless it was asked again.
LEMMA HandleStopInv ==
  ASSUME MusicInv, HandleStop
  PROVE  MusicInv'
<1> DEFINE m == Head(looper)
           x == player[rec]
           Media == {"none", "playing", "paused", "completed", "released"}
<1> USE DEF MusicInv
<1>1. /\ rec # None /\ rec \in Inst /\ m.to = rec /\ looper # <<>> /\ m.what \in Commands
  BY CommandHead DEF HandleStop, Dispatch, Commands, UserCommands
<1>2. /\ ReleasePlaying(rec) /\ StopSelf(m.to, m.id, FALSE, Handled)
      /\ UNCHANGED <<lastId, commands, kills, asked, nInst, life, notification, nPlayers,
                     home, startId, late>>
  BY <1>1 DEF HandleStop, StopForeground
<1>3. /\ media \in [Player -> Media] /\ player \in [Inst -> 0..nPlayers]
      /\ nPlayers \in 0..MaxPlayers /\ looper \in Seq(Message)
      /\ x \in 0..nPlayers
  BY <1>1 DEF FieldTypes
<1>4. \A p \in Player : media'[p] # "playing"
  <2> SUFFICES ASSUME NEW p \in Player, media'[p] = "playing"  PROVE FALSE
    OBVIOUS
  <2>1. CASE IsPlaying(rec)
    <3>1. media' = Released(rec)  BY <1>2, <2>1 DEF ReleasePlaying
    <3>2. p # x /\ media[p] = "playing"  BY <3>1 DEF Released
    <3>3. QED  BY <3>2, PlayingIsPresent
  <2>2. CASE ~IsPlaying(rec)
    <3>1. media' = media  BY <1>2, <2>2 DEF ReleasePlaying
    <3>2. player[rec] = p /\ p # None  BY <3>1, PlayingIsPresent
    <3>3. QED  BY <2>2, <3>1, <3>2 DEF IsPlaying
  <2>3. QED  BY <2>1, <2>2
<1>5. /\ media' \in [Player -> Media] /\ player' \in [Inst -> 0..nPlayers]
      /\ \A p \in Player : media'[p] = media[p] \/ (p = x /\ media'[p] = "released")
      /\ \A j \in Inst : player'[j] = player[j] \/ (j = rec /\ player'[j] = None)
      /\ x # None /\ player'[rec] # None => media' = media
      /\ player' = player \/ player'[rec] = None
      /\ player'[rec] = x \/ media'[x] = "released"
      /\ media' = media \/ player'[rec] = None
  <2>1. CASE IsPlaying(rec)
    <3>1. media' = Released(rec) /\ player' = [player EXCEPT ![rec] = None]
      BY <1>2, <2>1 DEF ReleasePlaying
    <3>2. \A p \in Player : media[p] \in Media  BY <1>3
    <3>3. \A p \in Player : (IF p = x THEN "released" ELSE media[p]) \in Media  BY <3>2
    <3>4. /\ media' \in [Player -> Media]
          /\ \A p \in Player : media'[p] = IF p = x THEN "released" ELSE media[p]
      BY <3>1, <3>3 DEF Released
    <3>5. x \in Player  BY <1>3, <2>1 DEF IsPlaying
    <3>6. /\ player' \in [Inst -> 0..nPlayers]
          /\ \A j \in Inst : player'[j] = IF j = rec THEN None ELSE player[j]
      <4>1. None \in 0..nPlayers  BY <1>3
      <4>2. QED  BY <1>3, <3>1, <4>1, FunctionUpdate
    <3>7. QED  BY <1>1, <3>4, <3>5, <3>6
  <2>2. CASE ~IsPlaying(rec)
    <3>1. media' = media /\ player' = player  BY <1>2, <2>2 DEF ReleasePlaying
    <3>2. QED  BY <1>3, <3>1
  <2>3. QED  BY <2>1, <2>2
<1> HIDE DEF x, Media
<1>6. player[rec] = x  BY DEF x
<1>7. /\ looper' \in Seq(Message) /\ rec' \in {rec, None} /\ fg' \in BOOLEAN
      /\ starts' \in Seq(Commands \X Nat)
      /\ LooperInv' /\ RecordInv' /\ StartsInv'
  <2>1. \A j \in Inst : j > nInst => player'[j] = None  BY <1>5 DEF RecordInv
  <2>2. Head(looper).what # "CREATE"  BY <1>1 DEF Commands, UserCommands
  <2>3. \A a \in 2..Len(looper) :
          Fits(looper[a], rec, nInst, lastId, life, media', home, startId)
    <3>1. \A a \in 2..Len(looper) :
            Fits(looper[a], rec, nInst, lastId, life, media, home, startId)
      BY <1>3 DEF LooperInv, QueueInv
    <3>2. \A p \in Player : media[p] # "none" => media'[p] # "none"  BY <1>5
    <3>3. QED  BY <1>4, <3>1, <3>2 DEF Fits
  <2>4. lastId = m.id => \A a \in 2..Len(looper) : looper[a].what \notin Commands \cup {"CREATE"}
    BY <1>1, LastCommand
  <2> HIDE DEF m
  <2>5. QED  BY <1>1, <1>2, <2>1, <2>2, <2>3, <2>4, StopSelfStep DEF m
<1>8. FieldTypes'
  <2>1. rec' \in 0..nInst'  BY <1>2, <1>7 DEF FieldTypes
  <2>2. QED  BY <1>2, <1>5, <1>7, <2>1 DEF FieldTypes, Media
<1>9. PlayersInv'
  <2>1. \A p \in Player :
          /\ p > nPlayers => media'[p] = "none"
          /\ media'[p] \notin {"none", "released"} => home[p] \in Inst /\ player'[home[p]] = p
    <3> SUFFICES ASSUME NEW p \in Player
                 PROVE  /\ p > nPlayers => media'[p] = "none"
                        /\ media'[p] \notin {"none", "released"} =>
                              home[p] \in Inst /\ player'[home[p]] = p
      OBVIOUS
    <3>1. p > nPlayers => p # x  BY <1>3
    <3>2. media'[p] \notin {"none", "released"} => media'[p] = media[p]  BY <1>5
    <3>3. media'[p] \notin {"none", "released"} /\ home[p] = rec => player'[rec] = p
      <4> HAVE media'[p] \notin {"none", "released"} /\ home[p] = rec
      <4>1. player[rec] = p  BY <3>2 DEF PlayersInv
      <4>2. QED  BY <1>5, <1>6, <4>1
    <3>4. QED  BY <1>5, <3>1, <3>2, <3>3 DEF PlayersInv
  <2>2. \A j \in Inst : player'[j] # None =>
          /\ media'[player'[j]] \notin {"none", "released"}
          /\ home[player'[j]] = j /\ notification[j]
    <3> SUFFICES ASSUME NEW j \in Inst, player'[j] # None
                 PROVE  /\ media'[player'[j]] \notin {"none", "released"}
                        /\ home[player'[j]] = j /\ notification[j]
      OBVIOUS
    <3>1. player'[j] = player[j] /\ player[j] \in Player  BY <1>3, <1>5
    <3>2. /\ media[player[j]] \notin {"none", "released"}
          /\ home[player[j]] = j /\ notification[j]
      BY <3>1 DEF PlayersInv
    <3>3. media'[player[j]] = media[player[j]]
      <4>1. CASE j = rec  BY <1>5, <3>1, <4>1
      <4>2. CASE j # rec
        <5>1. x # None => home[x] = rec  BY <1>1, <1>6 DEF PlayersInv
        <5>2. player[j] # x  BY <3>1, <3>2, <4>2, <5>1
        <5>3. QED  BY <1>5, <3>1, <5>2
      <4>3. QED  BY <4>1, <4>2
    <3>4. QED  BY <3>1, <3>2, <3>3
  <2>3. QED  BY <1>2, <1>7, <2>1, <2>2 DEF PlayersInv
<1>10. PlayerReachable' /\ NotificationShown'
  BY <1>4 DEF PlayerReachable, NotificationShown
<1>11. QED  BY <1>7, <1>8, <1>9, <1>10

\* An information poll ends a service that has no player.
LEMMA HandleGetInfoInv ==
  ASSUME MusicInv, HandleGetInfo
  PROVE  MusicInv'
<1> DEFINE m == Head(looper)
<1> USE DEF MusicInv
<1>1. /\ rec # None /\ rec \in Inst /\ m.to = rec /\ looper # <<>> /\ m.what \in Commands
      /\ UNCHANGED <<objVars, mediaVars>>
  BY CommandHead DEF HandleGetInfo, Dispatch, Commands, UserCommands
<1>2. CASE player[rec] # None
  <2>1. Answer(fg)  BY <1>1, <1>2 DEF HandleGetInfo
  <2>2. QED  BY <1>1, <2>1, PlainAnswer
<1>3. CASE player[rec] = None
  <2>1. /\ StopSelf(m.to, m.id, fg, Handled)
        /\ UNCHANGED <<lastId, commands, kills, asked, nInst, life, player, notification,
                       nPlayers, media, home, startId, late>>
    BY <1>1, <1>3 DEF HandleGetInfo, objVars, mediaVars
  <2>2. \A p \in Player : media[p] # "playing"
    BY <1>3, PlayingIsPresent
  <2>3. /\ looper' \in Seq(Message) /\ rec' \in {rec, None} /\ fg' \in BOOLEAN
        /\ starts' \in Seq(Commands \X Nat)
        /\ LooperInv' /\ RecordInv' /\ StartsInv'
    <3>1. \A j \in Inst : j > nInst => player'[j] = None  BY <2>1 DEF RecordInv
    <3>2. Head(looper).what # "CREATE"  BY <1>1 DEF Commands, UserCommands
    <3>3. \A a \in 2..Len(looper) :
            Fits(looper[a], rec, nInst, lastId, life, media', home, startId)
      BY <2>1 DEF LooperInv, QueueInv, FieldTypes
    <3>4. lastId = m.id =>
            \A a \in 2..Len(looper) : looper[a].what \notin Commands \cup {"CREATE"}
      BY <1>1, LastCommand
    <3>5. fg \in BOOLEAN  BY DEF FieldTypes
    <3> HIDE DEF m
    <3>6. QED  BY <1>1, <2>1, <3>1, <3>2, <3>3, <3>4, <3>5, StopSelfStep DEF m
  <2>4. FieldTypes'
    <3>1. rec' \in 0..nInst'  BY <2>1, <2>3 DEF FieldTypes
    <3>2. QED  BY <2>1, <2>3, <3>1 DEF FieldTypes
  <2>5. PlayersInv'  BY <2>1, <2>3 DEF PlayersInv
  <2>6. PlayerReachable' /\ NotificationShown'
    BY <2>1, <2>2 DEF PlayerReachable, NotificationShown
  <2>7. QED  BY <2>3, <2>4, <2>5, <2>6
<1>4. QED  BY <1>2, <1>3

\* A completion ends the service only when its player was started by the last command and has
\* not been started again; else the notification may go, and the player is late.
LEMMA OnCompletionInv ==
  ASSUME MusicInv, OnCompletion
  PROVE  MusicInv'
<1> DEFINE m == Head(looper)
           x == m.of
<1> USE DEF MusicInv
<1>1. /\ looper # <<>> /\ m.what = "COMPLETE"
      /\ UNCHANGED <<lastId, commands, kills, asked, nInst, life, player, notification,
                     nPlayers, media, home, startId>>
  BY DEF OnCompletion, Dispatch, objVars
<1>2. looper \in Seq(Message) /\ lastId \in Nat /\ startId \in [Player -> Nat]
      /\ fg \in BOOLEAN
  BY DEF FieldTypes
<1>3. m = looper[1] /\ 1 \in 1..Len(looper)
  BY <1>1, <1>2, TailFacts
<1>4. /\ x \in Player /\ media[x] # "none" /\ m.to = home[x] /\ m.id = startId[x]
      /\ media[x] = "playing" /\ home[x] = rec => startId[x] < lastId
  BY <1>1, <1>3 DEF LooperInv, QueueInv, Fits
<1>5. m.what # "CREATE" /\ \A j \in Inst : j > nInst => player'[j] = None
  BY <1>1 DEF RecordInv
<1>6. \A a \in 2..Len(looper) : Fits(looper[a], rec, nInst, lastId, life, media', home', startId')
  BY <1>1, <1>2 DEF LooperInv, QueueInv
<1>7. CASE media[x] = "released"
  <2>1. looper' = Tail(looper) /\ UNCHANGED <<rec, starts, fg, late>>
    BY <1>7 DEF OnCompletion
  <2>2. looper' \in Seq(Message) /\ LooperInv' /\ RecordInv'
    BY <1>1, <1>5, <1>6, <2>1, TakeStep
  <2>3. FieldTypes'  BY <1>1, <2>1, <2>2 DEF FieldTypes
  <2>4. StartsInv'  BY <1>1, <2>1 DEF StartsInv
  <2>5. PlayersInv'  BY <1>1, <2>1 DEF PlayersInv
  <2>6. PlayerReachable' /\ NotificationShown'
    BY <1>1, <2>1 DEF PlayerReachable, NotificationShown
  <2>7. QED  BY <2>2, <2>3, <2>4, <2>5, <2>6
<1>8. CASE media[x] # "released"
  <2>1. /\ StopSelf(m.to, m.id, StopForeground(m.to), starts)
        /\ late' = IF media[x] = "playing" THEN late \cup {x} ELSE late
    BY <1>8 DEF OnCompletion
  <2>2. home[x] \in Inst /\ player[home[x]] = x  BY <1>4, <1>8 DEF PlayersInv
  <2>3. rec = m.to /\ lastId = m.id =>
          \A a \in 2..Len(looper) : looper[a].what \notin Commands \cup {"CREATE"}
    <3> SUFFICES ASSUME home[x] = rec, lastId = startId[x], NEW a \in 2..Len(looper),
                        looper[a].what \in Commands \cup {"CREATE"}
                 PROVE  FALSE
      BY <1>4
    <3>1. a \in 1..Len(looper) /\ looper[a].id \in Nat  BY <1>2, QueueElement
    <3>2. Fits(looper[a], rec, nInst, lastId, life, media, home, startId)
      BY <3>1 DEF LooperInv, QueueInv
    <3>3. looper[a].what \in Commands  BY <1>4, <3>2 DEF Fits
    <3>4. startId[x] < looper[a].id /\ looper[a].id <= lastId  BY <1>4, <3>2, <3>3 DEF Fits
    <3>5. QED  BY <1>2, <3>1, <3>4
  <2> DEFINE g == StopForeground(m.to)
  <2>4. g \in BOOLEAN /\ (g <=> fg /\ rec # m.to)  BY DEF StopForeground
  <2> HIDE DEF m, x, g
  <2>5. /\ looper' \in Seq(Message) /\ rec' \in {rec, None} /\ fg' \in BOOLEAN
        /\ starts' \in Seq(Commands \X Nat)
        /\ LooperInv' /\ RecordInv' /\ StartsInv'
        /\ \/ rec' = rec /\ fg' = g
           \/ rec' = None /\ rec = m.to /\ lastId = m.id
    <3>1. StopSelf(m.to, m.id, g, starts)  BY <2>1 DEF g
    <3>2. QED  BY <1>1, <1>5, <1>6, <2>3, <2>4, <3>1, StopSelfStep DEF m
  <2>6. \A p \in Player : media[p] = "playing" =>
          rec' = rec /\ (fg' \/ p \in late')
    <3> SUFFICES ASSUME NEW p \in Player, media[p] = "playing"
                 PROVE  rec' = rec /\ (fg' \/ p \in late')
      OBVIOUS
    <3>1. rec # None /\ player[rec] = p /\ home[p] = rec  BY PlayingIsPresent
    <3>2. rec = m.to => p = x  BY <1>4, <2>2, <3>1
    <3>3. ~(rec = m.to /\ lastId = m.id)  BY <1>2, <1>4, <3>1, <3>2
    <3>4. rec' = rec /\ fg' = g  BY <2>5, <3>3
    <3>5. CASE rec = m.to  BY <2>1, <3>2, <3>4, <3>5
    <3>6. CASE rec # m.to  BY <2>1, <2>4, <3>4, <3>6 DEF NotificationShown
    <3>7. QED  BY <3>5, <3>6, <3>4
  <2>7. FieldTypes'
    <3>1. rec' \in 0..nInst'  BY <1>1, <2>5 DEF FieldTypes
    <3>2. late' \subseteq Player  BY <1>4, <2>1 DEF FieldTypes
    <3>3. QED  BY <1>1, <2>5, <3>1, <3>2 DEF FieldTypes
  <2>8. PlayersInv'  BY <1>1, <2>5 DEF PlayersInv
  <2>9. PlayerReachable'  BY <1>1, <2>6 DEF PlayerReachable
  <2>10. NotificationShown'  BY <1>1, <2>6 DEF NotificationShown
  <2>11. QED  BY <2>5, <2>7, <2>8, <2>9, <2>10
<1>9. QED  BY <1>7, <1>8

\* The music ends: the completion carries the start id of its player.
LEMMA MediaEndsInv ==
  ASSUME MusicInv, NEW x \in Player, MediaEnds(x)
  PROVE  MusicInv'
<1> DEFINE m == [Msg("COMPLETE", home[x], startId[x]) EXCEPT !.of = x]
           Media == {"none", "playing", "paused", "completed", "released"}
<1> USE DEF MusicInv
<1>1. /\ media[x] = "playing" /\ media' = [media EXCEPT ![x] = "completed"]
      /\ looper' = Append(looper, m)
      /\ UNCHANGED <<rec, lastId, starts, fg, commands, kills, asked, nInst, life, player,
                     notification, nPlayers, home, startId, late>>
  BY DEF MediaEnds, objVars
<1>2. /\ looper \in Seq(Message) /\ media \in [Player -> Media] /\ startId[x] \in Nat
      /\ InOrder(looper) /\ "completed" \in Media
  BY DEF FieldTypes, LooperInv, QueueInv
<1>3. home[x] \in Inst  BY <1>1 DEF PlayersInv
<1>4. /\ m \in Message /\ m.what = "COMPLETE" /\ m.to = home[x] /\ m.id = startId[x]
      /\ m.of = x
  BY <1>2, <1>3 DEF Msg, Message
<1> HIDE DEF m, Media
<1>5. /\ media' \in [Player -> Media]
      /\ \A p \in Player : media'[p] = IF p = x THEN "completed" ELSE media[p]
  BY <1>1, <1>2, FunctionUpdate
<1>6. m.what \notin Commands \cup {"CREATE", "DESTROY"}
  BY <1>4 DEF Commands, UserCommands
<1>7. \A a \in 1..Len(looper) :
        /\ Fits(looper[a], rec, nInst, lastId, life, media', home, startId)
        /\ Before(looper[a], m)
  <2> SUFFICES ASSUME NEW a \in 1..Len(looper)
               PROVE  /\ Fits(looper[a], rec, nInst, lastId, life, media', home, startId)
                      /\ Before(looper[a], m)
    OBVIOUS
  <2>1. Fits(looper[a], rec, nInst, lastId, life, media, home, startId)
    BY DEF LooperInv, QueueInv
  <2>2. \A p \in Player : /\ media[p] # "none" => media'[p] # "none"
                          /\ media'[p] = "playing" => media[p] = "playing"
    BY <1>5
  <2>3. Fits(looper[a], rec, nInst, lastId, life, media', home, startId)
    BY <2>1, <2>2 DEF Fits
  <2>4. QED  BY <1>6, <2>3 DEF Before
<1>8. Fits(m, rec, nInst, lastId, life, media', home, startId)
  BY <1>4, <1>5, <1>6 DEF Fits
<1>9. QueueInv(looper', rec, nInst, lastId, life, media', home, startId)
  BY <1>1, <1>2, <1>4, <1>7, <1>8, PushQueue
<1>10. LooperInv'  BY <1>1, <1>9 DEF LooperInv
<1>11. CreatePending(looper) => CreatePending(looper')
  BY <1>1, <1>2, <1>4, PushPending
<1>12. RecordInv'  BY <1>1, <1>11 DEF RecordInv, CreatePending
<1>13. FieldTypes'
  <2>1. looper' \in Seq(Message)  BY <1>1, <1>2, <1>4, AppendFacts
  <2>2. QED  BY <1>1, <1>5, <2>1 DEF FieldTypes, Media
<1>14. StartsInv'  BY <1>1 DEF StartsInv
<1>15. PlayersInv'
  <2>1. \A p \in Player : /\ p > nPlayers => media'[p] = "none"
                          /\ media'[p] \notin {"none", "released"} =>
                                media[p] \notin {"none", "released"}
                          /\ media[p] \notin {"none", "released"} =>
                                media'[p] \notin {"none", "released"}
    BY <1>1, <1>5 DEF PlayersInv
  <2>2. \A j \in Inst : player[j] # None => player[j] \in Player  BY DEF FieldTypes
  <2>3. QED  BY <1>1, <2>1, <2>2 DEF PlayersInv
<1>16. PlayerReachable' /\ NotificationShown'
  BY <1>1, <1>5 DEF PlayerReachable, NotificationShown
<1>17. QED  BY <1>10, <1>12, <1>13, <1>14, <1>15, <1>16

\* The creation of an object followed by the commands it has still to handle.
LEMMA Redelivered ==
  ASSUME NEW i \in Inst, NEW s \in Seq(Commands \X Nat)
  PROVE  LET q == <<Msg("CREATE", i, 0)>> \o
                      [k \in 1..Len(s) |-> Msg(s[k][1], i, s[k][2])]
         IN /\ q \in Seq(Message) /\ Len(q) = Len(s) + 1 /\ Len(s) \in Nat
            /\ q[1] = Msg("CREATE", i, 0)
            /\ \A a \in 1..Len(s) : q[a + 1] = Msg(s[a][1], i, s[a][2])
<1> DEFINE first == <<Msg("CREATE", i, 0)>>
           rest == [k \in 1..Len(s) |-> Msg(s[k][1], i, s[k][2])]
<1>1. Len(s) \in Nat  OBVIOUS
<1>2. Msg("CREATE", i, 0) \in Message  BY MsgTyped DEF Kinds
<1>3. \A k \in 1..Len(s) : Msg(s[k][1], i, s[k][2]) \in Message
  <2> SUFFICES ASSUME NEW k \in 1..Len(s)  PROVE Msg(s[k][1], i, s[k][2]) \in Message
    OBVIOUS
  <2>1. s[k] \in Commands \X Nat  OBVIOUS
  <2>2. s[k][1] \in Kinds /\ s[k][2] \in Nat  BY <2>1 DEF Kinds
  <2>3. QED  BY <2>2, MsgTyped
<1>4. rest \in Seq(Message) /\ Len(rest) = Len(s)
  <2>1. rest \in [1..Len(s) -> Message]  BY <1>3
  <2> HIDE DEF rest
  <2>2. rest \in Seq(Message)  BY <1>1, <2>1, SeqDef
  <2>3. Len(rest) \in Nat /\ DOMAIN rest = 1..Len(rest) /\ DOMAIN rest = 1..Len(s)
    BY <2>1, <2>2, LenProperties
  <2>4. Len(rest) = Len(s)  BY <1>1, <2>3
  <2>5. QED  BY <2>2, <2>4
<1>5. \A k \in 1..Len(s) : rest[k] = Msg(s[k][1], i, s[k][2])  OBVIOUS
<1>6. first \in Seq(Message) /\ Len(first) = 1 /\ first[1] = Msg("CREATE", i, 0)
  BY <1>2
<1> HIDE DEF first, rest
<1>7. /\ first \o rest \in Seq(Message) /\ Len(first \o rest) = Len(s) + 1
      /\ (first \o rest)[1] = first[1]
      /\ \A a \in 1..Len(s) : (first \o rest)[a + 1] = rest[a]
  <2>1. /\ first \o rest \in Seq(Message) /\ Len(first \o rest) = Len(first) + Len(rest)
        /\ \A j \in 1..Len(first) + Len(rest) :
              (first \o rest)[j] = IF j <= Len(first) THEN first[j] ELSE rest[j - Len(first)]
    BY <1>4, <1>6, ConcatProperties
  <2>2. Len(first \o rest) = Len(s) + 1  BY <1>1, <1>4, <1>6, <2>1
  <2>3. (first \o rest)[1] = first[1]
    <3>1. 1 \in 1..Len(first) + Len(rest) /\ 1 <= Len(first)  BY <1>1, <1>4, <1>6
    <3>2. QED  BY <2>1, <3>1
  <2>4. \A a \in 1..Len(s) : (first \o rest)[a + 1] = rest[a]
    <3> SUFFICES ASSUME NEW a \in 1..Len(s)  PROVE (first \o rest)[a + 1] = rest[a]
      OBVIOUS
    <3>1. a + 1 \in 1..Len(first) + Len(rest) /\ ~(a + 1 <= Len(first))
          /\ (a + 1) - Len(first) = a
      BY <1>1, <1>4, <1>6
    <3>2. QED  BY <2>1, <3>1
  <2>5. QED  BY <2>1, <2>2, <2>3, <2>4
<1>8. QED  BY <1>1, <1>5, <1>6, <1>7 DEF first, rest

\* The process dies: no player is left, and the commands come again in their order.
LEMMA ProcessKillInv ==
  ASSUME MusicInv, ProcessKill
  PROVE  MusicInv'
<1> USE DEF MusicInv
<1>1. /\ kills < MaxKills /\ kills' = kills + 1 /\ fg' = FALSE
      /\ life' = [j \in Inst |-> IF j <= nInst THEN "gone" ELSE "none"]
      /\ player' = [j \in Inst |-> None] /\ notification' = [j \in Inst |-> FALSE]
      /\ media' = [p \in Player |-> IF p <= nPlayers THEN "released" ELSE "none"]
      /\ UNCHANGED <<commands, asked, nPlayers, home, startId, late>>
  BY DEF ProcessKill
<1>2. /\ nInst \in 0..MaxInst /\ rec \in 0..nInst /\ lastId \in Nat
      /\ starts \in Seq(Commands \X Nat) /\ nPlayers \in 0..MaxPlayers /\ Len(starts) \in Nat
      /\ home \in [Player -> Inst \cup {None}]
  BY DEF FieldTypes
<1>3. /\ media' \in [Player -> {"none", "playing", "paused", "completed", "released"}]
      /\ life' \in [Inst -> {"none", "live", "gone"}]
      /\ notification' \in [Inst -> BOOLEAN]
      /\ kills' \in 0..MaxKills
  <2>1. kills' \in 0..MaxKills  BY <1>1 DEF FieldTypes, MusicAssumption
  <2>2. media' \in [Player -> {"none", "playing", "paused", "completed", "released"}]
    BY <1>1
  <2>3. life' \in [Inst -> {"none", "live", "gone"}]  BY <1>1
  <2>4. notification' \in [Inst -> BOOLEAN]  BY <1>1
  <2>5. QED  BY <2>1, <2>2, <2>3, <2>4
<1>4. player' \in [Inst -> 0..nPlayers']
  <2>1. None \in 0..nPlayers'  BY <1>1, <1>2
  <2>2. QED  BY <1>1, <2>1
<1>5. \A p \in Player : media'[p] \in {"none", "released"}  BY <1>1
<1>6. PlayerReachable' /\ NotificationShown'
  BY <1>5 DEF PlayerReachable, NotificationShown
<1>7. CASE rec = None
  <2>1. looper' = <<>> /\ UNCHANGED <<rec, lastId, starts, nInst>>
    BY <1>7 DEF ProcessKill
  <2>2. FieldTypes'
    <3>1. looper' \in Seq(Message)  BY <2>1
    <3>2. starts' \in Seq(Commands \X Nat) /\ fg' \in BOOLEAN /\ late' \subseteq Player
      BY <1>1, <1>2, <2>1 DEF FieldTypes
    <3>3. /\ rec' \in 0..nInst' /\ lastId' \in Nat /\ nInst' \in 0..MaxInst
          /\ commands' \in 0..MaxCommands /\ asked' \in Commands /\ nPlayers' \in 0..MaxPlayers
          /\ home' \in [Player -> Inst \cup {None}] /\ startId' \in [Player -> Nat]
      BY <1>1, <2>1 DEF FieldTypes
    <3>4. QED  BY <1>3, <1>4, <3>1, <3>2, <3>3 DEF FieldTypes
  <2>3. LooperInv'  BY <2>1 DEF LooperInv, QueueInv, InOrder
  <2>4. RecordInv'
    <3>1. \A j \in Inst : j > nInst => ~(j <= nInst)  BY <1>2
    <3>2. QED  BY <1>1, <1>7, <2>1, <3>1 DEF RecordInv
  <2>5. StartsInv'  BY <2>1 DEF StartsInv
  <2>6. PlayersInv'
    <3>1. \A p \in Player : p > nPlayers => media'[p] = "none"
      <4>1. \A p \in Player : p > nPlayers => ~(p <= nPlayers)  BY <1>2
      <4>2. QED  BY <1>1, <4>1
    <3>2. QED  BY <1>1, <1>5, <1>7, <2>1, <3>1 DEF PlayersInv
  <2>7. QED  BY <1>6, <2>2, <2>3, <2>4, <2>5, <2>6
<1>8. CASE rec # None
  <2> DEFINE i == nInst + 1
             q == <<Msg("CREATE", i, 0)>> \o
                     [k \in 1..Len(starts') |-> Msg(starts'[k][1], i, starts'[k][2])]
  <2>1. /\ nInst < MaxInst /\ nInst' = i /\ rec' = i /\ looper' = q
        /\ \/ starts = <<>> /\ lastId' = lastId + 1 /\ starts' = <<<<"NULL", lastId + 1>>>>
           \/ starts # <<>> /\ lastId' = lastId /\ starts' = starts
    BY <1>8 DEF ProcessKill
  <2>2. i \in Inst /\ i # None /\ lastId' \in Nat /\ rec' \in 0..nInst' /\ nInst' \in 0..MaxInst
    BY <1>2, <2>1
  <2>3. starts' \in Seq(Commands \X Nat) /\ StartsInv'
    <3>1. CASE starts = <<>>
      <4>1. lastId' = lastId + 1 /\ starts' = <<<<"NULL", lastId + 1>>>>  BY <2>1, <3>1
      <4>2. "NULL" \in Commands /\ lastId + 1 \in Nat  BY <1>2 DEF Commands
      <4>3. <<"NULL", lastId + 1>> \in Commands \X Nat  BY <4>2
      <4>4. starts' \in Seq(Commands \X Nat) /\ Len(starts') = 1 /\ starts'[1][2] = lastId'
        BY <4>1, <4>3
      <4>5. QED  BY <2>1, <2>2, <4>4 DEF StartsInv
    <3>2. CASE starts # <<>>  BY <1>2, <1>8, <2>1, <2>2, <3>2 DEF StartsInv
    <3>3. QED  BY <3>1, <3>2
  <2>4. /\ q \in Seq(Message) /\ Len(q) = Len(starts') + 1 /\ Len(starts') \in Nat
        /\ q[1] = Msg("CREATE", i, 0)
        /\ \A a \in 1..Len(starts') : q[a + 1] = Msg(starts'[a][1], i, starts'[a][2])
    BY <2>2, <2>3, Redelivered
  <2> HIDE DEF q
  <2>5. q[1].what = "CREATE" /\ q[1].to = i
    <3>1. "CREATE" \in Kinds /\ 0 \in Nat  BY DEF Kinds
    <3>2. QED  BY <2>2, <2>4, <3>1, MsgTyped
  <2>6. \A a \in 2..Len(q) :
          /\ a - 1 \in 1..Len(starts')
          /\ q[a].what \in Commands /\ q[a].to = i /\ q[a].id = starts'[a - 1][2]
    <3> SUFFICES ASSUME NEW a \in 2..Len(q)
                 PROVE  /\ a - 1 \in 1..Len(starts')
                        /\ q[a].what \in Commands /\ q[a].to = i
                        /\ q[a].id = starts'[a - 1][2]
      OBVIOUS
    <3>1. a - 1 \in 1..Len(starts') /\ (a - 1) + 1 = a  BY <2>4
    <3>2. starts'[a - 1] \in Commands \X Nat  BY <2>3, <3>1
    <3>3. starts'[a - 1][1] \in Commands /\ starts'[a - 1][2] \in Nat
          /\ starts'[a - 1][1] \in Kinds
      BY <3>2 DEF Kinds
    <3>4. q[a] = Msg(starts'[a - 1][1], i, starts'[a - 1][2])
      <4>1. q[(a - 1) + 1] = Msg(starts'[a - 1][1], i, starts'[a - 1][2])  BY <2>4, <3>1
      <4>2. QED  BY <3>1, <4>1
    <3>5. QED  BY <2>2, <3>1, <3>3, <3>4, MsgTyped
  <2>7. \A p \in Player : home[p] # i /\ home[p] <= i
    <3>1. \A p \in Player : home[p] \in Nat /\ home[p] <= nInst  BY <1>2 DEF PlayersInv
    <3>2. QED  BY <1>2, <3>1
  <2>8. life'[i] = "none"
    <3>1. ~(i <= nInst)  BY <1>2
    <3>2. QED  BY <1>1, <2>2, <3>1
  <2>9. "CREATE" \notin Commands /\ "DESTROY" \notin Commands /\ "COMPLETE" \notin Commands
    BY DEF Commands, UserCommands
  <2>10. \A a \in 1..Len(q) : a = 1 \/ a \in 2..Len(q)  BY <2>4
  <2> HIDE DEF i
  <2>11. \A a \in 1..Len(q) : Fits(q[a], i, i, lastId', life', media', home, startId)
    <3>1. Fits(q[1], i, i, lastId', life', media', home, startId)
      BY <2>2, <2>5, <2>7, <2>8, <2>9 DEF Fits
    <3>2. \A a \in 2..Len(q) : Fits(q[a], i, i, lastId', life', media', home, startId)
      BY <2>2, <2>3, <2>6, <2>7, <2>9 DEF Fits, StartsInv
    <3>3. QED  BY <2>10, <3>1, <3>2
  <2>12. InOrder(q)
    <3> SUFFICES ASSUME NEW a \in 1..Len(q), NEW b \in 1..Len(q), a < b
                 PROVE  Before(q[a], q[b])
      BY DEF InOrder
    <3>1. b \in 2..Len(q)  BY <2>4
    <3>2. CASE a = 1  BY <2>5, <2>6, <2>9, <3>1, <3>2 DEF Before
    <3>3. CASE a \in 2..Len(q)
      <4>1. starts'[a - 1][2] < starts'[b - 1][2]
        <5>1. a - 1 < b - 1  OBVIOUS
        <5>2. QED  BY <2>6, <2>3, <3>1, <3>3, <5>1 DEF StartsInv
      <4>2. QED  BY <2>6, <2>9, <3>1, <3>3, <4>1 DEF Before
    <3>4. QED  BY <2>10, <3>2, <3>3
  <2>13. LooperInv'  BY <1>1, <2>1, <2>11, <2>12 DEF LooperInv, QueueInv
  <2>14. RecordInv'
    <3>1. CreatePending(looper')  BY <2>1, <2>4, <2>5 DEF CreatePending
    <3>2. \A j \in Inst : j > i => life'[j] = "none"
      <4>1. \A j \in Inst : j > i => ~(j <= nInst)  BY <1>2 DEF i
      <4>2. QED  BY <1>1, <4>1
    <3>3. QED  BY <1>1, <2>1, <2>8, <3>1, <3>2 DEF RecordInv, CreatePending
  <2>15. FieldTypes'
    BY <1>1, <1>3, <1>4, <2>1, <2>2, <2>3, <2>4 DEF FieldTypes
  <2>16. PlayersInv'
    <3>1. \A p \in Player : p > nPlayers => media'[p] = "none"
      <4>1. \A p \in Player : p > nPlayers => ~(p <= nPlayers)  BY <1>2
      <4>2. QED  BY <1>1, <4>1
    <3>2. QED  BY <1>1, <1>5, <2>1, <2>7, <3>1 DEF PlayersInv
  <2>17. QED  BY <1>6, <2>3, <2>13, <2>14, <2>15, <2>16
<1>9. QED  BY <1>7, <1>8

-----------------------------------------------------------------------------
(* The theorems.                                                           *)

\* Every step keeps the invariant.
LEMMA MusicStepInv == MusicInv /\ [MusicNext]_musicVars => MusicInv'
<1> SUFFICES ASSUME MusicInv, [MusicNext]_musicVars  PROVE MusicInv'
  OBVIOUS
<1>1. ASSUME NEW c \in UserCommands, Command(c)  PROVE MusicInv'
  BY <1>1, CommandInv
<1>2. CASE OnCreate  BY <1>2, OnCreateInv
<1>3. CASE OnDestroy  BY <1>3, OnDestroyInv
<1>4. CASE RefuseForeground
  BY <1>4, PlainAnswer DEF RefuseForeground, Dispatch, Commands, UserCommands
<1>5. CASE HandleForeground  BY <1>5, HandleForegroundInv
<1>6. CASE HandleStop  BY <1>6, HandleStopInv
<1>7. CASE HandleGetInfo  BY <1>7, HandleGetInfoInv
<1>8. CASE HandlePlayPause
  <2>1. CASE player[Head(looper).to] # None  BY <1>8, <2>1, HandlePlayPauseInv
  <2>2. CASE player[Head(looper).to] = None
    <3>1. /\ Answer(fg) /\ looper # <<>> /\ Head(looper).what \in Commands
          /\ UNCHANGED <<objVars, mediaVars>>
      BY <1>8, <2>2 DEF HandlePlayPause, Dispatch, Commands, UserCommands, mediaVars
    <3>2. QED  BY <3>1, PlainAnswer
  <2>3. QED  BY <2>1, <2>2
<1>9. CASE HandleNull
  BY <1>9, PlainAnswer DEF HandleNull, Dispatch, Commands, UserCommands
<1>10. CASE OnCompletion  BY <1>10, OnCompletionInv
<1>11. ASSUME NEW p \in Player, MediaEnds(p)  PROVE MusicInv'
  BY <1>11, MediaEndsInv
<1>12. CASE ProcessKill  BY <1>12, ProcessKillInv
<1>13. CASE UNCHANGED musicVars
  BY <1>13 DEF musicVars, amVars, objVars, mediaVars, MusicInv, FieldTypes, LooperInv,
               QueueInv, Fits, InOrder, Before, RecordInv, CreatePending, StartsInv,
               PlayersInv, PlayerReachable, NotificationShown
<1>14. QED
  BY <1>1, <1>2, <1>3, <1>4, <1>5, <1>6, <1>7, <1>8, <1>9, <1>10, <1>11, <1>12, <1>13
  DEF MusicNext, MainLooper

\* The invariant holds of every run of the service.
THEOREM MusicInvariant == MusicSpec => []MusicInv
<1>1. MusicInit => MusicInv  BY MusicInitInv
<1>2. MusicInv /\ [MusicNext]_musicVars => MusicInv'  BY MusicStepInv
<1>3. QED  BY <1>1, <1>2, PTL DEF MusicSpec

\* The types of the service's state.
THEOREM MusicTypes == MusicSpec => []MusicTypeOK
<1>1. MusicInv => MusicTypeOK  BY DEF MusicInv, PlayersInv, MusicTypeOK
<1>2. QED  BY <1>1, MusicInvariant, PTL

\* Whatever is asked, polled, completed or killed, no player plays that the service's present
\* object does not hold in its field: onCompletion and the poll never stop a service that plays.
THEOREM PlayerReachableHolds == MusicSpec => []PlayerReachable
<1>1. MusicInv => PlayerReachable  BY DEF MusicInv
<1>2. QED  BY <1>1, MusicInvariant, PTL

\* The player field is never left at a released player, which the next command would throw on.
THEOREM NoReleasedPlayerHolds == MusicSpec => []NoReleasedPlayer
<1>1. MusicInv => NoReleasedPlayer  BY DEF MusicInv, PlayersInv, NoReleasedPlayer
<1>2. QED  BY <1>1, MusicInvariant, PTL

\* A service that plays is in the foreground, but for the player that was started again before
\* its completion was handled.
THEOREM NotificationShownHolds == MusicSpec => []NotificationShown
<1>1. MusicInv => NotificationShown  BY DEF MusicInv
<1>2. QED  BY <1>1, MusicInvariant, PTL
=============================================================================
