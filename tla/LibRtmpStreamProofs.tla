------------------------ MODULE LibRtmpStreamProofs ------------------------
(***************************************************************************)
(* What a download of LibRtmpStream leaves in its file, for any length of  *)
(* the stream, any number of repeated frames and any queue.  The argument  *)
(* follows the frames: the file holds the stream up to some time m, every  *)
(* stamp that the client sends is at most m, and so the server is never    *)
(* told to go on behind a frame that the client does not have, whatever it *)
(* sends again and whatever of it is skipped or ignored.                   *)
(***************************************************************************)
EXTENDS LibRtmpStream, TLAPS

Times == 0..LastTime

CommandTypes == {"connect", "createStream", "play", "pause", "unpause", "deleteStream"}
MessageTypes == {"connected", "created", "start", "failed", "notify", "eof", "empty",
                 "ping", "complete", "frame"}
Commands == [type : CommandTypes, time : Times]
Messages == [type : MessageTypes, time : Times, epoch : Nat]

Flags ==
    /\ first \in BOOLEAN /\ ctrlC \in BOOLEAN /\ known \in BOOLEAN
    /\ connected \in BOOLEAN /\ timedout \in BOOLEAN /\ bPlaying \in BOOLEAN
    /\ streamOpen \in BOOLEAN /\ ended \in BOOLEAN /\ gotHeader \in BOOLEAN
    /\ lost \in BOOLEAN /\ late \in BOOLEAN /\ lagging \in BOOLEAN /\ early \in BOOLEAN

Numbers ==
    /\ pc \in {"loop", "connect", "read", "packet", "check", "done"}
    /\ nStatus \in {"SUCCESS", "FAILED", "INCOMPLETE", "NO_CONNECT"}
    /\ mode \in {"idle", "playing", "paused"}
    /\ retries \in 0..1 /\ pausing \in 0..3
    /\ pauseStamp \in Times /\ mediaStamp \in Times
    /\ channelStamp \in Times /\ timestamp \in Times
    /\ nSent \in 0..MaxSent /\ pos \in 0..(LastTime + 1)
    /\ epoch \in Nat /\ unpauses \in Nat

Queues ==
    /\ file \in Seq(Times) /\ buffer \in Seq(Times)
    /\ toServer \in Seq(Commands) /\ toClient \in Seq(Messages)

TypeInv == Flags /\ Numbers /\ Queues

-----------------------------------------------------------------------------
(* The client's control.                                                   *)

\* What has not begun has nothing.
NotBegun ==
    /\ pc \in {"loop", "done"} /\ ~connected
    /\ toServer = <<>> /\ toClient = <<>> /\ file = <<>> /\ buffer = <<>>
    /\ ~bPlaying /\ ~gotHeader /\ pausing = 0

\* Frames wait for a write only inside RTMP_Read and before the first write.
ControlInv ==
    /\ first => NotBegun
    /\ buffer # <<>> => pc = "packet" /\ file = <<>>
    /\ pc = "packet" => ~ended
    /\ connected /\ ~gotHeader => file = <<>>
    /\ pc = "loop" /\ ~first => nStatus = "INCOMPLETE"
    /\ bPlaying => streamOpen
    /\ connected /\ pc \in {"loop", "read", "packet", "check"} => streamOpen
    /\ connected /\ pc = "connect" => pausing = 3 \/ Output = <<>>

-----------------------------------------------------------------------------
(* Commands and answers.                                                   *)

Open == connected /\ pc # "done"

\* RTMP_ConnectStream waits for the stream to play.
Waiting == pc = "connect" /\ ~bPlaying

Calls == {"connect", "createStream", "play"}
Answers == {"connected", "created", "start"}

\* No two elements of s have a type of T.
Single(s, T) == \A a, b \in 1..Len(s) : s[a].type \in T /\ s[b].type \in T => a = b

Has(s, T) == \E a \in 1..Len(s) : s[a].type \in T

\* One call at a time is under way, and only while the client waits.
CallInv ==
    Open =>
        /\ Single(toServer, Calls) /\ Single(toClient, Answers)
        /\ ~(Has(toServer, Calls) /\ Has(toClient, Answers))
        /\ Has(toServer, Calls) \/ Has(toClient, Answers) => Waiting
        /\ Has(toServer, {"play"}) \/ Has(toClient, {"start"}) => streamOpen

\* The commands s take a server of epoch e to epoch u, one unpause at a time.
Counts(s, e, u) ==
    \E g \in [1..(Len(s) + 1) -> Nat] :
        /\ g[1] = e /\ g[Len(s) + 1] = u
        /\ \A a, b \in 1..(Len(s) + 1) : a <= b => g[a] <= g[b]
        /\ \A a \in 1..Len(s) :
              g[a + 1] = IF s[a].type = "unpause" THEN g[a] + 1 ELSE g[a]

EpochInv ==
    /\ Counts(toServer, epoch, unpauses)
    /\ \A a \in 1..Len(toClient) : toClient[a].epoch <= epoch

-----------------------------------------------------------------------------
(* Frames.                                                                 *)

\* The messages under way, and the frame that the server would send next.
Line == Append(toClient, Frame(pos))

\* The a-th message of q is a frame that will not be ignored; if w, the client waits for
\* the stream to play.
Heard(q, w, a) ==
    /\ q[a].type = "frame"
    /\ w => \E b \in 1..(a - 1) : q[b].type = "start"

\* The frames of q go on from n at most or from a frame before them.  Those of
\* epoch e come in order, after l.
InLine(q, w, n, e, l) ==
    \A a \in 1..Len(q) : Heard(q, w, a) =>
        /\ \/ q[a].time <= n
           \/ \E b \in 1..(a - 1) : Heard(q, w, b) /\ q[a].time <= q[b].time + 1
        /\ q[a].epoch = e =>
              /\ q[a].time > l
              /\ \A b \in 1..(a - 1) :
                    Heard(q, w, b) /\ q[b].epoch = e => q[b].time < q[a].time

\* The output s has everything up to m, or all but what was sent at time 0.
UpTo(s, m) ==
    /\ \A i \in 1..Len(s) : s[i] <= m
    /\ \A t \in 1..m : \E i \in 1..Len(s) : s[i] = t
    /\ s = <<>> \/ early \/ \E i \in 1..Len(s) : s[i] = 0

\* The frame that the client can take next without a hole, when it has those up to m.
Wanted(m) == IF Output = <<>> /\ ~early /\ ~ended THEN 0 ELSE m + 1

\* No frame was taken between a pause and the unpause, nor has the pause come too soon.
Clean == ~late /\ ~lagging

\* Frames up to this one are not expected again, if any.
Floor == IF Clean /\ pausing = 0 /\ Output # <<>> THEN LastFrame ELSE -1

InOrder(s) == \A i \in 1..(Len(s) - 1) : s[i] < s[i + 1]

\* Where a command lets the server go on.
Begins(c, n) ==
    /\ c.type = "play" => c.time <= n
    /\ c.type = "unpause" => c.time + 1 <= n

AllBegin(s, n) == \A a \in 1..Len(s) : Begins(s[a], n)

OpenInv(m) ==
    /\ m > 0 => gotHeader
    /\ gotHeader => Output # <<>>
    /\ pausing # 0 => early \/ gotHeader
    /\ AllBegin(toServer, Wanted(m))
    /\ InLine(Line, Waiting, Wanted(m), unpauses, Floor)
    /\ Clean /\ pausing # 0 => LastFrame <= mediaStamp
    /\ Clean /\ pausing = 0 /\ Output # <<>> => epoch = unpauses

FrameInv(m) ==
    /\ UpTo(Output, m)
    /\ Clean => InOrder(Output)
    /\ pc # "done" =>
          mediaStamp <= m /\ channelStamp <= m /\ pauseStamp <= m /\ timestamp <= m
    /\ Open => OpenInv(m)

StreamInv ==
    /\ TypeInv /\ ControlInv /\ CallInv /\ EpochInv
    /\ SuccessIsWhole
    /\ \E m \in Times : FrameInv(m)

-----------------------------------------------------------------------------
(* Types.                                                                  *)

LEMMA TimesTyped == 0 \in Times /\ Times \subseteq Nat /\ LastTime \in Times
  BY StreamAssumption DEF Times

LEMMA CommandTyped ==
  ASSUME NEW type \in CommandTypes, NEW t \in Times
  PROVE  /\ Command(type, t) \in Commands
         /\ Command(type, t).type = type /\ Command(type, t).time = t
  BY DEF Command, Commands

LEMMA MessageTyped ==
  ASSUME NEW type \in MessageTypes
  PROVE  /\ Message(type) \in Messages
         /\ Message(type).type = type /\ Message(type).time = 0 /\ Message(type).epoch = 0
  BY TimesTyped DEF Message, Messages

\* The message and the command that are read next.
LEMMA HeadMessage ==
  ASSUME Queues, toClient # <<>>
  PROVE  /\ Head(toClient) = toClient[1] /\ 1 \in 1..Len(toClient)
         /\ Head(toClient) \in Messages /\ Tail(toClient) \in Seq(Messages)
         /\ Head(toClient).time \in Times /\ Head(toClient).epoch \in Nat
<1>1. toClient \in Seq(Messages)  BY DEF Queues
<1>2. Head(toClient) = toClient[1] /\ 1 \in 1..Len(toClient) /\ Tail(toClient) \in Seq(Messages)
  BY <1>1
<1>3. Head(toClient) \in Messages  BY <1>1, <1>2
<1> QED  BY <1>2, <1>3 DEF Messages

LEMMA HeadCommand ==
  ASSUME Queues, toServer # <<>>
  PROVE  /\ Head(toServer) = toServer[1] /\ 1 \in 1..Len(toServer)
         /\ Head(toServer) \in Commands /\ Tail(toServer) \in Seq(Commands)
         /\ Head(toServer).time \in Times /\ Head(toServer).type \in CommandTypes
<1>1. toServer \in Seq(Commands)  BY DEF Queues
<1>2. Head(toServer) = toServer[1] /\ 1 \in 1..Len(toServer) /\ Tail(toServer) \in Seq(Commands)
  BY <1>1
<1>3. Head(toServer) \in Commands  BY <1>1, <1>2
<1> QED  BY <1>2, <1>3 DEF Commands

LEMMA InitTyped == StreamInit => TypeInv
<1>1. StreamInit => Flags  BY DEF StreamInit, Flags
<1>2. StreamInit => Numbers
  BY TimesTyped, StreamAssumption DEF StreamInit, Numbers
<1>3. StreamInit => Queues
  <2>1. <<>> \in Seq(Times) /\ <<>> \in Seq(Commands) /\ <<>> \in Seq(Messages)
    OBVIOUS
  <2> QED  BY <2>1 DEF StreamInit, Queues
<1> QED  BY <1>1, <1>2, <1>3 DEF TypeInv

\* No step makes a flag anything else.
LEMMA FlagsTyped ==
  ASSUME Flags, [StreamNext]_streamVars
  PROVE  Flags'
<1> USE DEF Flags, mainVars, rtmpVars, mediaVars, readVars, serverVars, historyVars
<1>1. CASE Connect  BY <1>1 DEF Connect
<1>2. CASE Resume
  <2>1. CASE GiveUp  BY <1>2, <2>1 DEF Resume, GiveUp
  <2>2. CASE Toggle  BY <1>2, <2>2 DEF Resume, Toggle
  <2>3. CASE Reconnect  BY <1>2, <2>3 DEF Resume, Reconnect
  <2> QED  BY <1>2, <2>1, <2>2, <2>3 DEF Resume
<1>3. CASE Stopped \/ Read \/ ConnectStreamReturns
  BY <1>3 DEF Stopped, Read, ConnectStreamReturns
<1>4. CASE Check  BY <1>4 DEF Check
<1>5. CASE HandleResult
  <2>1. /\ UNCHANGED <<first, ctrlC, known, connected, bPlaying, ended, gotHeader, lost, late,
                       lagging, early>>
        /\ timedout' = FALSE /\ streamOpen' \in {streamOpen, TRUE}
    BY <1>5 DEF HandleResult, Receive
  <2>2. streamOpen' \in BOOLEAN  BY <2>1
  <2> QED  BY <2>1, <2>2
<1>16. CASE HandlePlayStart  BY <1>16 DEF HandlePlayStart, Receive
<1>6. CASE HandlePauseNotify
  <2>1. /\ UNCHANGED <<first, ctrlC, known, connected, bPlaying, streamOpen, ended, gotHeader,
                       lost, late>>
        /\ timedout' = FALSE
    BY <1>6 DEF HandlePauseNotify, Receive
  <2>2. UNCHANGED <<lagging, early>>  BY <1>6 DEF HandlePauseNotify, SendUnpause
  <2> QED  BY <2>1, <2>2
<1>7. CASE HandleCtrl
  <2>1. /\ UNCHANGED <<first, ctrlC, known, connected, bPlaying, streamOpen, ended, gotHeader,
                       lost, late>>
        /\ timedout' = FALSE
    BY <1>7 DEF HandleCtrl, Receive
  <2>2. CASE UNCHANGED <<lagging, early>>  BY <2>1, <2>2
  <2>3. CASE SendPause(channelStamp)  BY <2>1, <2>3 DEF SendPause
  <2>4. UNCHANGED <<lagging, early>> \/ SendPause(channelStamp)
    BY <1>7 DEF HandleCtrl, SendUnpause
  <2> QED  BY <2>2, <2>3, <2>4
<1>8. CASE HandleEnd \/ ReadClosed \/ ReadTimesOut
  <2>1. /\ UNCHANGED <<first, ctrlC, lost, late, lagging, early>>
        /\ connected' \in {connected, FALSE} /\ bPlaying' \in {bPlaying, FALSE}
        /\ streamOpen' \in {streamOpen, FALSE} /\ gotHeader' \in {gotHeader, FALSE}
        /\ timedout' \in {TRUE, FALSE}
        /\ ReadFails \/ UNCHANGED <<known, ended>>
    BY <1>8 DEF HandleEnd, ReadClosed, ReadTimesOut, Close
  <2>2. known' \in {known, TRUE} /\ ended' \in {ended, TRUE}  BY <2>1 DEF ReadFails, Write
  <2>3. /\ connected' \in BOOLEAN /\ bPlaying' \in BOOLEAN /\ streamOpen' \in BOOLEAN
        /\ gotHeader' \in BOOLEAN /\ timedout' \in BOOLEAN
    BY <2>1
  <2>4. known' \in BOOLEAN /\ ended' \in BOOLEAN  BY <2>2
  <2> QED  BY <2>1, <2>3, <2>4
<1>11. CASE IgnoreFrame
  <2>1. /\ UNCHANGED <<first, ctrlC, known, connected, bPlaying, streamOpen, ended, gotHeader,
                       lost, late, lagging, early>>
        /\ timedout' = FALSE
    BY <1>11 DEF IgnoreFrame, Receive
  <2> QED  BY <2>1
<1>12. CASE MediaFrame
  <2>1. gotHeader' \in BOOLEAN /\ late' \in BOOLEAN /\ bPlaying' \in BOOLEAN
    BY <1>12 DEF MediaFrame, FirstFrame
  <2>2. known' \in {known, TRUE}  BY <1>12 DEF MediaFrame, FirstFrame, Write
  <2>3. /\ UNCHANGED <<first, ctrlC, connected, streamOpen, ended, lost, lagging, early>>
        /\ timedout' = FALSE
    BY <1>12 DEF MediaFrame
  <2> QED  BY <2>1, <2>2, <2>3
<1>13. CASE Stop  BY <1>13 DEF Stop
<1>14. CASE Server
  <2>1. /\ UNCHANGED <<first, ctrlC, known, connected, timedout, bPlaying, streamOpen, ended,
                       gotHeader, late, lagging, early>>
        /\ lost' \in {lost, TRUE}
    BY <1>14 DEF Server, ServerCommand, ServerFrame, ServerComplete, ServerChatter, ServerLost,
               ClientUnchanged
  <2>2. lost' \in BOOLEAN  BY <2>1
  <2> QED  BY <2>1, <2>2
<1>15. CASE UNCHANGED streamVars  BY <1>15 DEF streamVars
<1> QED
  BY <1>1, <1>2, <1>3, <1>4, <1>5, <1>6, <1>7, <1>8, <1>11, <1>12, <1>13, <1>14,
     <1>15, <1>16
  DEF StreamNext, Main, Packet, Server

\* No step leads a stamp out of the stream or a field out of its range.
LEMMA NumbersTyped ==
  ASSUME Numbers, Queues, [StreamNext]_streamVars
  PROVE  Numbers'
<1> USE TimesTyped
    DEF Numbers, mainVars, rtmpVars, mediaVars, readVars, serverVars, historyVars
<1>1. CASE Connect  BY <1>1 DEF Connect
<1>2. CASE Resume
  <2>1. CASE GiveUp  BY <1>2, <2>1 DEF Resume, GiveUp
  <2>2. CASE Toggle  BY <1>2, <2>2 DEF Resume, Toggle
  <2>3. CASE Reconnect  BY <1>2, <2>3 DEF Resume, Reconnect
  <2> QED  BY <1>2, <2>1, <2>2, <2>3 DEF Resume
<1>3. CASE Stopped \/ Read \/ ConnectStreamReturns
  BY <1>3 DEF Stopped, Read, ConnectStreamReturns
<1>4. CASE Check
  <2>1. nStatus' \in {"SUCCESS", "FAILED", "INCOMPLETE", "NO_CONNECT"}
        /\ pc' \in {"loop", "read", "done"}
    BY <1>4 DEF Check, StatusOf
  <2> QED  BY <1>4, <2>1 DEF Check
<1>5. CASE HandleResult \/ HandlePlayStart
  BY <1>5 DEF HandleResult, HandlePlayStart, Receive
<1>6. CASE HandlePauseNotify  BY <1>6 DEF HandlePauseNotify, Receive, SendUnpause
<1>7. CASE HandleCtrl
  <2>1. UNCHANGED <<pc, nStatus, mode, retries, mediaStamp, channelStamp, timestamp, nSent, pos,
                    epoch>>
    BY <1>7 DEF HandleCtrl, Receive
  <2>2. pausing' \in {pausing, AfterEof(pausing), 1, 3}  BY <1>7 DEF HandleCtrl
  <2>3. AfterEof(pausing) \in 0..3  BY DEF AfterEof
  <2>4. pauseStamp' \in {pauseStamp, channelStamp}  BY <1>7 DEF HandleCtrl
  <2>5. unpauses' \in {unpauses, unpauses + 1}
    BY <1>7 DEF HandleCtrl, SendPause, SendUnpause
  <2>6. pausing' \in 0..3 /\ pauseStamp' \in Times /\ unpauses' \in Nat
    BY <2>2, <2>3, <2>4, <2>5
  <2> QED  BY <2>1, <2>6
<1>8. CASE HandleEnd \/ ReadClosed \/ ReadTimesOut
  <2>1. /\ UNCHANGED <<retries, pausing, mediaStamp, channelStamp, timestamp, mode, nSent, pos,
                       epoch, unpauses>>
        /\ pauseStamp' \in {pauseStamp, channelStamp}
    BY <1>8 DEF HandleEnd, ReadClosed, ReadTimesOut, Close
  <2>2. pc' \in {pc, "check", "done"} /\ nStatus' \in {nStatus, "FAILED", "INCOMPLETE"}
    BY <1>8 DEF HandleEnd, ReadClosed, ReadTimesOut, ReadFails, Write
  <2> QED  BY <2>1, <2>2
<1>11. CASE IgnoreFrame  BY <1>11 DEF IgnoreFrame, Receive
<1>12. CASE MediaFrame
  <2>1. Head(toClient).time \in Times  BY <1>12, HeadMessage DEF MediaFrame
  <2>2. /\ pc' \in {"packet", "check", "done"} /\ nStatus' \in {nStatus, "FAILED"}
        /\ channelStamp' = Head(toClient).time
        /\ mediaStamp' \in {Head(toClient).time, mediaStamp}
        /\ timestamp' \in {Head(toClient).time, timestamp}
        /\ pausing' \in {0, pausing}
    BY <1>12 DEF MediaFrame, FirstFrame, Write
  <2> QED  BY <1>12, <2>1, <2>2 DEF MediaFrame
<1>13. CASE Stop  BY <1>13 DEF Stop
<1>14. CASE ServerCommand
  <2>1. Head(toServer).time \in Times  BY <1>14, HeadCommand DEF ServerCommand
  <2>2. pos' \in 0..(LastTime + 1)
    <3>1. \/ pos' = pos \/ pos' \in 0..Head(toServer).time
          \/ pos' \in 0..(Head(toServer).time + 1)
      BY <1>14 DEF ServerCommand
    <3> QED  BY <2>1, <3>1, StreamAssumption DEF Times
  <2>3. mode' \in {"idle", "playing", "paused"}
    BY <1>14 DEF ServerCommand
  <2> QED  BY <1>14, <2>2, <2>3 DEF ServerCommand, ClientUnchanged
<1>15. CASE ServerFrame
  BY <1>15, StreamAssumption DEF ServerFrame, ClientUnchanged
<1>16. CASE ServerComplete \/ ServerChatter \/ ServerLost
  BY <1>16 DEF ServerComplete, ServerChatter, ServerLost, ClientUnchanged
<1>17. CASE UNCHANGED streamVars  BY <1>17 DEF streamVars
<1> QED
  BY <1>1, <1>2, <1>3, <1>4, <1>5, <1>6, <1>7, <1>8, <1>11, <1>12, <1>13, <1>14,
     <1>15, <1>16, <1>17
  DEF StreamNext, Main, Packet, Server


\* Every part of what is sent and read is a command, a message or a time.
LEMMA QueuesTyped ==
  ASSUME Numbers, Queues, [StreamNext]_streamVars
  PROVE  Queues'
<1> USE DEF mainVars, rtmpVars, mediaVars, readVars, serverVars, historyVars
<1>q. /\ <<>> \in Seq(Times) /\ file \in Seq(Times) /\ buffer \in Seq(Times)
      /\ file \o buffer \in Seq(Times)
      /\ toServer \in Seq(Commands) /\ toClient \in Seq(Messages)
  BY DEF Queues
<1>s. /\ 0 \in Times /\ pauseStamp \in Times /\ channelStamp \in Times
  BY TimesTyped DEF Numbers
<1>a. ASSUME NEW c \in Commands
      PROVE  <<c>> \in Seq(Commands) /\ Append(toServer, c) \in Seq(Commands)
             /\ toServer \o <<c>> \in Seq(Commands)
  BY <1>q
<1>b. ASSUME NEW c \in Commands, NEW d \in Commands
      PROVE  toServer \o <<c>> \o <<d>> \in Seq(Commands)
  BY <1>q, <1>a
<1>t. /\ Command("connect", 0) \in Commands /\ Command("createStream", 0) \in Commands
      /\ Command("deleteStream", 0) \in Commands
      /\ \A t \in Times : Command("play", t) \in Commands /\ Command("pause", t) \in Commands
                          /\ Command("unpause", t) \in Commands
  BY <1>s, CommandTyped DEF CommandTypes
<1>h. \A type : Receive(type) => toClient' \in Seq(Messages)
  BY HeadMessage DEF Receive
<1>1. CASE Connect
  <2>1. toServer' \in {toServer, <<Command("connect", 0)>>}
        /\ UNCHANGED <<toClient, file, buffer>>
    BY <1>1 DEF Connect
  <2> QED  BY <2>1, <1>q, <1>a, <1>t DEF Queues
<1>2. CASE Resume
  <2>0. UNCHANGED <<toClient, file, buffer>>  BY <1>2 DEF Resume
  <2>1. CASE GiveUp  BY <2>0, <2>1, <1>q DEF GiveUp, Queues
  <2>2. CASE Toggle
    <3> DEFINE p == Command("pause", pauseStamp)
               u == Command("unpause", pauseStamp)
    <3>1. p \in Commands /\ u \in Commands  BY <1>s, <1>t
    <3>2. toServer' = toServer \o (IF pausing = 0 THEN <<p>> ELSE <<>>) \o <<u>>
      BY <2>2 DEF Toggle
    <3>3. toServer' = toServer \o <<p>> \o <<u>> \/ toServer' = toServer \o <<>> \o <<u>>
      BY <3>2
    <3>4. toServer \o <<>> = toServer  BY <1>q
    <3> HIDE DEF p, u
    <3>5. toServer' \in Seq(Commands)  BY <3>1, <3>3, <3>4, <1>a, <1>b
    <3> QED  BY <2>0, <3>5, <1>q DEF Queues
  <2>3. CASE Reconnect
    <3> DEFINE p == Command("deleteStream", 0)
               u == Command("createStream", 0)
    <3>1. p \in Commands /\ u \in Commands  BY <1>t
    <3>2. toServer' = toServer \o (IF streamOpen THEN <<p>> ELSE <<>>) \o <<u>>
      BY <2>3 DEF Reconnect
    <3>3. toServer' = toServer \o <<p>> \o <<u>> \/ toServer' = toServer \o <<>> \o <<u>>
      BY <3>2
    <3>4. toServer \o <<>> = toServer  BY <1>q
    <3> HIDE DEF p, u
    <3>5. toServer' \in Seq(Commands)  BY <3>1, <3>3, <3>4, <1>a, <1>b
    <3> QED  BY <2>0, <3>5, <1>q DEF Queues
  <2> QED  BY <1>2, <2>1, <2>2, <2>3 DEF Resume
<1>3. CASE Stopped \/ Read \/ ConnectStreamReturns \/ Check \/ Stop
  <2>1. UNCHANGED <<toServer, toClient, file, buffer>>
    BY <1>3 DEF Stopped, Read, ConnectStreamReturns, Check, Stop
  <2> QED  BY <2>1, <1>q DEF Queues
<1>4. CASE HandleResult
  <2>1. UNCHANGED <<file, buffer>> /\ toClient' \in Seq(Messages)
    <3>1. Receive("connected") => UNCHANGED file  BY DEF Receive
    <3>2. Receive("created") => UNCHANGED file  BY DEF Receive
    <3> QED  BY <1>4, <3>1, <3>2, <1>h DEF HandleResult
  <2>2. \E c \in Commands : toServer' = Append(toServer, c)
    BY <1>4, <1>s, <1>t DEF HandleResult
  <2> QED  BY <2>1, <2>2, <1>q, <1>a DEF Queues
<1>5. CASE HandlePlayStart \/ IgnoreFrame
  <2>1. UNCHANGED <<toServer, file, buffer>> /\ toClient' \in Seq(Messages)
    BY <1>5, <1>h DEF HandlePlayStart, IgnoreFrame, Receive
  <2> QED  BY <2>1, <1>q DEF Queues
<1>6. CASE HandlePauseNotify
  <2>1. UNCHANGED <<file, buffer>> /\ toClient' \in Seq(Messages)
    BY <1>6, <1>h DEF HandlePauseNotify, Receive
  <2>2. toServer' = toServer \/ toServer' = Append(toServer, Command("unpause", pauseStamp))
    BY <1>6 DEF HandlePauseNotify, SendUnpause
  <2> QED  BY <2>1, <2>2, <1>q, <1>a, <1>s, <1>t DEF Queues
<1>7. CASE HandleCtrl
  <2>1. UNCHANGED <<file, buffer>>
    <3>1. \A type : Receive(type) => UNCHANGED file  BY DEF Receive
    <3> QED  BY <1>7, <3>1 DEF HandleCtrl
  <2>2. toClient' \in Seq(Messages)
    BY <1>7, <1>h DEF HandleCtrl
  <2>3. \/ toServer' = toServer
        \/ toServer' = Append(toServer, Command("pause", channelStamp))
        \/ toServer' = Append(toServer, Command("unpause", pauseStamp))
    BY <1>7 DEF HandleCtrl, SendPause, SendUnpause
  <2> QED  BY <2>1, <2>2, <2>3, <1>q, <1>a, <1>s, <1>t DEF Queues
<1>8. CASE HandleEnd
  <2>1. toServer' = toServer /\ toClient' \in Seq(Messages)
    BY <1>8, HeadMessage DEF HandleEnd
  <2>2. file' \in {file, file \o buffer} /\ buffer' \in {<<>>, buffer}
    BY <1>8 DEF HandleEnd, ReadFails, Write
  <2> QED  BY <2>1, <2>2, <1>q DEF Queues
<1>9. CASE ReadClosed \/ ReadTimesOut
  <2>1. toServer' = toServer /\ toClient' = toClient
    BY <1>9 DEF ReadClosed, ReadTimesOut
  <2>2. file' \in {file, file \o buffer} /\ buffer' \in {<<>>, buffer}
    BY <1>9 DEF ReadClosed, ReadTimesOut, ReadFails, Write
  <2> QED  BY <2>1, <2>2, <1>q DEF Queues
<1>10. CASE MediaFrame
  <2> DEFINE t == Head(toClient).time
  <2>1. toServer' = toServer /\ toClient' \in Seq(Messages) /\ t \in Times
    BY <1>10, HeadMessage DEF MediaFrame
  <2> HIDE DEF t
  <2>2. /\ file' \in {file, file \o Append(buffer, t)}
        /\ buffer' \in {<<>>, buffer, Append(buffer, t)}
    BY <1>10 DEF MediaFrame, FirstFrame, Write, t
  <2>3. Append(buffer, t) \in Seq(Times)  BY <1>q, <2>1
  <2>4. file \o Append(buffer, t) \in Seq(Times)  BY <1>q, <2>3
  <2> QED  BY <2>1, <2>2, <2>3, <2>4, <1>q DEF Queues
<1>11. CASE ServerCommand
  <2>1. UNCHANGED <<file, buffer>> /\ toServer' \in Seq(Commands)
    BY <1>11, HeadCommand DEF ServerCommand, ClientUnchanged
  <2>2. PICK reply \in Replies(Head(toServer).type) :
           toClient' = toClient \o [i \in DOMAIN reply |-> Message(reply[i])]
    BY <1>11 DEF ServerCommand
  <2>3. reply \in Seq(MessageTypes)
    <3>1. reply \in {<<"connected">>, <<"created">>, <<"start">>, <<"failed">>, <<>>,
                     <<"notify">>, <<"eof", "notify">>, <<"eof", "empty">>}
      BY <2>2 DEF Replies
    <3>2. /\ \A x \in MessageTypes : <<x>> \in Seq(MessageTypes)
          /\ \A x, y \in MessageTypes : <<x, y>> \in Seq(MessageTypes)
          /\ <<>> \in Seq(MessageTypes)
      OBVIOUS
    <3>3. {"connected", "created", "start", "failed", "notify", "eof", "empty"}
             \subseteq MessageTypes
      BY DEF MessageTypes
    <3> HIDE DEF MessageTypes
    <3> QED  BY <3>1, <3>2, <3>3
  <2>4. [i \in DOMAIN reply |-> Message(reply[i])] \in Seq(Messages)
    BY <2>3, MessageTyped
  <2> QED  BY <2>1, <2>2, <2>4, <1>q DEF Queues
<1>12. CASE ServerFrame
  <2>1. pos \in Times  BY <1>12, StreamAssumption DEF ServerFrame, Numbers, Times
  <2>2. Frame(pos) \in Messages
    BY <2>1 DEF Frame, Messages, MessageTypes, Numbers
  <2> QED  BY <1>12, <2>2, <1>q DEF ServerFrame, ClientUnchanged, Queues
<1>13. CASE ServerComplete \/ ServerChatter \/ ServerLost
  <2>1. UNCHANGED <<toServer, file, buffer>>
    BY <1>13 DEF ServerComplete, ServerChatter, ServerLost, ClientUnchanged
  <2>2. \/ toClient' = toClient \/ toClient' = Append(toClient, Message("complete"))
        \/ toClient' = <<Message("empty")>> \/ toClient' = <<Message("ping")>>
    BY <1>13 DEF ServerComplete, ServerChatter, ServerLost
  <2>3. /\ Message("complete") \in Messages /\ Message("empty") \in Messages
        /\ Message("ping") \in Messages
    BY MessageTyped DEF MessageTypes
  <2>4. ASSUME NEW m \in Messages
        PROVE  Append(toClient, m) \in Seq(Messages) /\ <<m>> \in Seq(Messages)
    BY <1>q
  <2>5. toClient' \in Seq(Messages)  BY <2>2, <2>3, <2>4, <1>q
  <2> QED  BY <2>1, <2>5, <1>q DEF Queues
<1>14. CASE UNCHANGED streamVars  BY <1>14, <1>q DEF streamVars, Queues
<1> QED
  BY <1>1, <1>2, <1>3, <1>4, <1>5, <1>6, <1>7, <1>8, <1>9, <1>10, <1>11, <1>12, <1>13, <1>14
  DEF StreamNext, Main, Packet, Server

LEMMA TypeStep == TypeInv /\ [StreamNext]_streamVars => TypeInv'
  BY FlagsTyped, NumbersTyped, QueuesTyped DEF TypeInv

-----------------------------------------------------------------------------
(* The client's control, step by step.                                     *)

\* The first message of a type that the client reads.
LEMMA Received ==
  ASSUME Queues, NEW type, Receive(type)
  PROVE  /\ 1 \in 1..Len(toClient) /\ toClient[1].type = type
         /\ toClient' = Tail(toClient) /\ Reading /\ Open
         /\ \A T : type \in T => Has(toClient, T)
<1>1. toClient # <<>> /\ Head(toClient).type = type /\ Reading  BY DEF Receive
<1>2. 1 \in 1..Len(toClient) /\ toClient[1].type = type  BY <1>1, HeadMessage
<1>3. Open  BY <1>1 DEF Reading, Open
<1> QED  BY <1>1, <1>2, <1>3 DEF Receive, Has

\* Each step keeps what is known of the place in the loops and the fields set there.
LEMMA ControlStep ==
  ASSUME TypeInv, ControlInv, CallInv, [StreamNext]_streamVars
  PROVE  ControlInv'
<1> USE DEF ControlInv, NotBegun, Output, mainVars, rtmpVars, mediaVars, readVars, serverVars,
            historyVars
<1>q. Queues /\ file \o <<>> = file  BY DEF TypeInv, Queues
<1>1. CASE Connect  BY <1>1 DEF Connect
<1>2. CASE Resume
  <2>1. CASE GiveUp  BY <1>2, <2>1 DEF Resume, GiveUp
  <2>2. CASE Toggle  BY <1>2, <2>2 DEF Resume, Toggle
  <2>3. CASE Reconnect  BY <1>2, <2>3 DEF Resume, Reconnect
  <2> QED  BY <1>2, <2>1, <2>2, <2>3 DEF Resume
<1>3. CASE Stopped  BY <1>3 DEF Stopped
<1>4. CASE Read  BY <1>4 DEF Read
<1>5. CASE ConnectStreamReturns  BY <1>5 DEF ConnectStreamReturns
<1>6. CASE Check
  <2>1. /\ pc = "check" /\ ~first /\ buffer = <<>>
        /\ UNCHANGED <<first, file, buffer, connected, bPlaying, streamOpen, pausing, ended,
                       gotHeader>>
    BY <1>6 DEF Check
  <2>2. pc' # "packet" /\ pc' # "connect"  BY <1>6 DEF Check
  <2>3. pc' = "loop" => nStatus' = "INCOMPLETE"  BY <1>6 DEF Check
  <2> QED  BY <2>1, <2>2, <2>3
<1>7. CASE HandleResult
  <2>1. /\ UNCHANGED <<pc, first, nStatus, known, file, buffer, connected, bPlaying, pausing,
                       ended, gotHeader>>
        /\ streamOpen' \in {streamOpen, TRUE}
    BY <1>7 DEF HandleResult, Receive
  <2>2. connected  BY <1>7 DEF HandleResult, Receive, Reading
  <2> QED  BY <2>1, <2>2
<1>8. CASE HandlePlayStart
  <2>1. streamOpen  BY <1>8, <1>q, Received DEF HandlePlayStart, CallInv
  <2>2. connected  BY <1>8 DEF HandlePlayStart, Receive, Reading
  <2> QED  BY <1>8, <2>1, <2>2 DEF HandlePlayStart, Receive
<1>9. CASE HandlePauseNotify
  <2>1. connected  BY <1>9 DEF HandlePauseNotify, Receive, Reading
  <2>2. pausing' \in {pausing, 3}  BY <1>9 DEF HandlePauseNotify
  <2> QED  BY <1>9, <2>1, <2>2 DEF HandlePauseNotify, Receive
<1>10. CASE HandleCtrl
  <2>1. connected /\ UNCHANGED <<pc, first, nStatus, known, file, buffer, connected, bPlaying,
                                 streamOpen, ended, gotHeader>>
    BY <1>10 DEF HandleCtrl, Receive, Reading
  <2>2. pausing = 3 => pausing' = 3  BY <1>10 DEF HandleCtrl, AfterEof
  <2> QED  BY <2>1, <2>2
<1>11. CASE HandleEnd \/ ReadClosed
  <2>1. /\ ~connected' /\ ~bPlaying' /\ ~gotHeader' /\ UNCHANGED first
        /\ connected /\ pc \in {"packet", "connect"}
        /\ IF pc = "packet" THEN ReadFails ELSE UNCHANGED <<pc, nStatus, ended, file, buffer>>
    BY <1>11 DEF HandleEnd, ReadClosed, Close, Reading
  <2>2. CASE pc = "packet"
    <3>1. buffer' = <<>> /\ pc' \in {"check", "done"}  BY <2>1, <2>2 DEF ReadFails, Write
    <3> QED  BY <2>1, <3>1
  <2>3. CASE pc # "packet"  BY <2>1, <2>3
  <2> QED  BY <2>2, <2>3
<1>13. CASE ReadTimesOut
  <2>1. /\ UNCHANGED <<first, connected, bPlaying, streamOpen, pausing, gotHeader>>
        /\ connected
    BY <1>13 DEF ReadTimesOut, Reading
  <2>2. CASE pc = "packet"
    <3>1. /\ buffer' = <<>> /\ pc' \in {"check", "done"}
          /\ ~gotHeader => file' = file
      BY <1>13, <2>2 DEF ReadTimesOut, ReadFails, Write
    <3> QED  BY <2>1, <2>2, <3>1
  <2>3. CASE pc # "packet"
    <3>1. pc' = "done" /\ UNCHANGED <<file, buffer, ended>>
      BY <1>13, <2>3 DEF ReadTimesOut
    <3> QED  BY <2>1, <2>3, <3>1
  <2> QED  BY <2>2, <2>3
<1>14. CASE IgnoreFrame  BY <1>14 DEF IgnoreFrame, Receive, Reading
<1>15. CASE MediaFrame
  <2> DEFINE t == Head(toClient).time
  <2>1. /\ pc = "packet" /\ connected /\ ~first /\ streamOpen /\ ~ended
        /\ UNCHANGED <<first, connected, streamOpen, ended>>
    BY <1>15 DEF MediaFrame
  <2>2. CASE Skipped(t)
    <3>1. UNCHANGED <<pc, nStatus, bPlaying, file, gotHeader, buffer>>
      BY <1>15, <2>2 DEF MediaFrame
    <3> QED  BY <2>1, <3>1
  <2>3. CASE ~Skipped(t) /\ gotHeader
    <3>1. gotHeader' /\ buffer' = <<>> /\ pc' \in {"check", "done"}
      BY <1>15, <2>3 DEF MediaFrame, Write
    <3> QED  BY <2>1, <3>1
  <2>4. CASE ~Skipped(t) /\ ~gotHeader
    <3>1. \/ UNCHANGED <<file, pc, nStatus>>
          \/ gotHeader' /\ buffer' = <<>> /\ pc' \in {"check", "done"}
      BY <1>15, <2>4 DEF MediaFrame, FirstFrame, Write
    <3> QED  BY <2>1, <2>4, <3>1
  <2> QED  BY <2>2, <2>3, <2>4
<1>16. CASE Stop  BY <1>16 DEF Stop
<1>17. CASE Server
  <2>1. ~first
    BY <1>17 DEF Server, ServerCommand, ServerFrame, ServerComplete, ServerChatter, ServerLost,
                 MaySend
  <2>2. ClientUnchanged
    BY <1>17 DEF Server, ServerCommand, ServerFrame, ServerComplete, ServerChatter, ServerLost
  <2> QED  BY <2>1, <2>2 DEF ClientUnchanged
<1>18. CASE UNCHANGED streamVars  BY <1>18 DEF streamVars
<1> QED
  BY <1>1, <1>2, <1>3, <1>4, <1>5, <1>6, <1>7, <1>8, <1>9, <1>10, <1>11, <1>13, <1>14,
     <1>15, <1>16, <1>17, <1>18
  DEF StreamNext, Main, Packet

-----------------------------------------------------------------------------
(* Queues: one more element, one less.                                     *)

LEMMA Appended ==
  ASSUME NEW S, NEW s \in Seq(S), NEW x \in S
  PROVE  /\ Append(s, x) \in Seq(S) /\ Len(Append(s, x)) = Len(s) + 1
         /\ Append(s, x)[Len(s) + 1] = x
         /\ \A a \in 1..Len(s) : Append(s, x)[a] = s[a]
         /\ Append(s, x) # <<>>
  OBVIOUS

LEMMA Dropped ==
  ASSUME NEW S, NEW s \in Seq(S), s # <<>>
  PROVE  /\ Tail(s) \in Seq(S) /\ Len(Tail(s)) = Len(s) - 1 /\ Len(s) \in Nat \ {0}
         /\ s[1] = Head(s) /\ Head(s) \in S
         /\ \A a \in 1..(Len(s) - 1) : Tail(s)[a] = s[a + 1] /\ a + 1 \in 1..Len(s)
  OBVIOUS

\* A queue with one more part, and the types in it.
LEMMA AppendedTypes ==
  ASSUME NEW S, NEW s \in Seq(S), NEW x \in S, NEW T
  PROVE  /\ Has(Append(s, x), T) <=> Has(s, T) \/ x.type \in T
         /\ Single(s, T) /\ (x.type \in T => ~Has(s, T)) => Single(Append(s, x), T)
<1> DEFINE r == Append(s, x)
<1>1. /\ Len(r) = Len(s) + 1 /\ r[Len(s) + 1] = x /\ Len(s) \in Nat
      /\ \A a \in 1..Len(s) : r[a] = s[a]
  OBVIOUS
<1> HIDE DEF r
<1>2. Has(r, T) <=> Has(s, T) \/ x.type \in T
  <2>1. 1..Len(r) = 1..Len(s) \cup {Len(s) + 1}  BY <1>1
  <2>2. ASSUME Has(r, T) PROVE Has(s, T) \/ x.type \in T
    BY <1>1, <2>1, <2>2 DEF Has
  <2>3. ASSUME Has(s, T) PROVE Has(r, T)
    BY <1>1, <2>1, <2>3 DEF Has
  <2>4. ASSUME x.type \in T PROVE Has(r, T)
    BY <1>1, <2>1, <2>4 DEF Has
  <2> QED  BY <2>2, <2>3, <2>4
<1>3. ASSUME Single(s, T), x.type \in T => ~Has(s, T) PROVE Single(r, T)
  <2> SUFFICES ASSUME NEW a \in 1..Len(r), NEW b \in 1..Len(r), r[a].type \in T,
                      r[b].type \in T
               PROVE  a = b
    BY DEF Single
  <2>1. CASE a \in 1..Len(s) /\ b \in 1..Len(s)  BY <1>1, <1>3, <2>1 DEF Single
  <2>2. CASE a \notin 1..Len(s) /\ b \notin 1..Len(s)  BY <1>1, <2>2
  <2>3. CASE a \in 1..Len(s) /\ b \notin 1..Len(s)
    BY <1>1, <1>3, <2>3 DEF Has
  <2>4. CASE a \notin 1..Len(s) /\ b \in 1..Len(s)
    BY <1>1, <1>3, <2>4 DEF Has
  <2> QED  BY <2>1, <2>2, <2>3, <2>4
<1> QED  BY <1>2, <1>3 DEF r

\* A queue without its first part, and the types in it.
LEMMA DroppedTypes ==
  ASSUME NEW S, NEW s \in Seq(S), s # <<>>, NEW T
  PROVE  /\ Has(Tail(s), T) => Has(s, T)
         /\ Single(s, T) => Single(Tail(s), T)
         /\ Single(s, T) /\ Head(s).type \in T => ~Has(Tail(s), T)
         /\ Head(s).type \in T => Has(s, T)
<1> DEFINE r == Tail(s)
<1>1. /\ Len(r) = Len(s) - 1 /\ Len(s) \in Nat \ {0} /\ s[1] = Head(s)
      /\ \A a \in 1..Len(r) : r[a] = s[a + 1] /\ a + 1 \in 1..Len(s)
  OBVIOUS
<1> HIDE DEF r
<1>2. Has(r, T) => Has(s, T)  BY <1>1 DEF Has
<1>3. ASSUME Single(s, T) PROVE Single(r, T)
  <2> SUFFICES ASSUME NEW a \in 1..Len(r), NEW b \in 1..Len(r), r[a].type \in T,
                      r[b].type \in T
               PROVE  a = b
    BY DEF Single
  <2>1. a + 1 = b + 1  BY <1>1, <1>3 DEF Single
  <2> QED  BY <2>1
<1>4. ASSUME Single(s, T), Head(s).type \in T, Has(r, T) PROVE FALSE
  <2>1. PICK a \in 1..Len(r) : r[a].type \in T  BY <1>4 DEF Has
  <2>2. /\ 1 \in 1..Len(s) /\ s[1].type \in T
        /\ a + 1 \in 1..Len(s) /\ s[a + 1].type \in T
    BY <1>1, <1>4, <2>1
  <2>3. a + 1 = 1  BY <1>4, <2>2 DEF Single
  <2> QED  BY <2>3
<1>5. Head(s).type \in T => Has(s, T)  BY <1>1 DEF Has
<1> QED  BY <1>2, <1>3, <1>4, <1>5 DEF r

\* What RTMP_ToggleStream and RTMP_ReconnectStream send, and what the server answers.
LEMMA Toggled ==
  ASSUME Queues, Toggle
  PROVE  LET p == Command("pause", pauseStamp)
             u == Command("unpause", pauseStamp)
         IN toServer' = IF pausing = 0 THEN Append(Append(toServer, p), u)
                        ELSE Append(toServer, u)
<1> DEFINE p == Command("pause", pauseStamp)
           u == Command("unpause", pauseStamp)
<1>1. toServer' = toServer \o (IF pausing = 0 THEN <<p>> ELSE <<>>) \o <<u>>  BY DEF Toggle
<1>2. toServer \in Seq(Commands)  BY DEF Queues
<1> HIDE DEF p, u
<1>3. toServer \o <<p>> = Append(toServer, p) /\ toServer \o <<>> = toServer  BY <1>2
<1>4. Append(toServer, p) \o <<u>> = Append(Append(toServer, p), u)
      /\ toServer \o <<u>> = Append(toServer, u)
  BY <1>2
<1>5. toServer' = IF pausing = 0 THEN Append(Append(toServer, p), u) ELSE Append(toServer, u)
  BY <1>1, <1>3, <1>4
<1> QED  BY <1>5 DEF p, u

\* RTMP_ReconnectStream deletes the stream it has and creates one.
LEMMA Reconnected ==
  ASSUME Queues, Reconnect
  PROVE  LET p == Command("deleteStream", 0)
             u == Command("createStream", 0)
         IN toServer' = IF streamOpen THEN Append(Append(toServer, p), u)
                        ELSE Append(toServer, u)
<1> DEFINE p == Command("deleteStream", 0)
           u == Command("createStream", 0)
<1>1. toServer' = toServer \o (IF streamOpen THEN <<p>> ELSE <<>>) \o <<u>>  BY DEF Reconnect
<1>2. toServer \in Seq(Commands)  BY DEF Queues
<1> HIDE DEF p, u
<1>3. toServer \o <<p>> = Append(toServer, p) /\ toServer \o <<>> = toServer  BY <1>2
<1>4. Append(toServer, p) \o <<u>> = Append(Append(toServer, p), u)
      /\ toServer \o <<u>> = Append(toServer, u)
  BY <1>2
<1>5. toServer' = IF streamOpen THEN Append(Append(toServer, p), u) ELSE Append(toServer, u)
  BY <1>1, <1>3, <1>4
<1> QED  BY <1>5 DEF p, u

\* What handling a command sends to the client.
LEMMA Answered ==
  ASSUME Queues, ServerCommand
  PROVE  LET c == Head(toServer).type IN
         \/ toClient' = toClient /\ c \notin Calls
         \/ /\ c = "connect" /\ toClient' = Append(toClient, Message("connected"))
         \/ /\ c = "createStream" /\ toClient' = Append(toClient, Message("created"))
         \/ /\ c = "play" /\ toClient' = Append(toClient, Message("start"))
         \/ /\ c = "play" /\ toClient' = Append(toClient, Message("failed"))
         \/ /\ c = "pause" /\ toClient' = Append(toClient, Message("notify"))
         \/ /\ c = "pause"
            /\ \E x \in {"notify", "empty"} :
                  toClient' = Append(Append(toClient, Message("eof")), Message(x))
<1> DEFINE c == Head(toServer).type
<1>1. PICK reply \in Replies(c) :
         toClient' = toClient \o [i \in DOMAIN reply |-> Message(reply[i])]
  BY DEF ServerCommand
<1> HIDE DEF c
<1>2. toClient \in Seq(Messages)  BY DEF Queues
<1>3. ASSUME NEW x \in MessageTypes, reply = <<x>>
      PROVE  toClient' = Append(toClient, Message(x))
  <2> DEFINE m == Message(x)
  <2>1. [i \in DOMAIN reply |-> Message(reply[i])] = <<m>>  BY <1>3
  <2>2. m \in Messages  BY MessageTyped
  <2> HIDE DEF m
  <2>3. toClient \o <<m>> = Append(toClient, m)  BY <1>2, <2>2
  <2> QED  BY <1>1, <2>1, <2>3 DEF m
<1>4. ASSUME NEW x \in MessageTypes, NEW y \in MessageTypes, reply = <<x, y>>
      PROVE  toClient' = Append(Append(toClient, Message(x)), Message(y))
  <2> DEFINE m == Message(x)
             n == Message(y)
  <2>1. [i \in DOMAIN reply |-> Message(reply[i])] = <<m, n>>  BY <1>4
  <2>2. m \in Messages /\ n \in Messages  BY MessageTyped
  <2> HIDE DEF m, n
  <2>3. toClient \o <<m, n>> = Append(Append(toClient, m), n)  BY <1>2, <2>2
  <2> QED  BY <1>1, <2>1, <2>3 DEF m, n
<1>5. ASSUME reply = <<>> PROVE toClient' = toClient
  <2>1. [i \in DOMAIN reply |-> Message(reply[i])] = <<>>  BY <1>5
  <2> QED  BY <1>1, <1>2, <2>1
<1>6. /\ c = "connect" => reply = <<"connected">>
      /\ c = "createStream" => reply = <<"created">>
      /\ c = "play" => reply \in {<<"start">>, <<"failed">>}
      /\ c = "pause" => reply \in {<<>>, <<"notify">>, <<"eof", "notify">>, <<"eof", "empty">>}
      /\ c \notin Calls \cup {"pause"} => reply = <<>>
  BY <1>1 DEF Replies, Calls
<1>7. \A x \in {"connected", "created", "start", "failed", "notify", "eof", "empty"} :
         x \in MessageTypes
  BY DEF MessageTypes
<1>8. CASE c = "connect"  BY <1>3, <1>6, <1>7, <1>8 DEF c
<1>9. CASE c = "createStream"  BY <1>3, <1>6, <1>7, <1>9 DEF c
<1>10. CASE c = "play"  BY <1>3, <1>6, <1>7, <1>10 DEF c
<1>11. CASE c = "pause"
  <2>1. CASE reply = <<>>  BY <1>5, <1>11, <2>1 DEF c, Calls
  <2>2. CASE reply = <<"notify">>  BY <1>3, <1>7, <1>11, <2>2 DEF c
  <2>3. CASE reply = <<"eof", "notify">>  BY <1>4, <1>7, <1>11, <2>3 DEF c
  <2>4. CASE reply = <<"eof", "empty">>  BY <1>4, <1>7, <1>11, <2>4 DEF c
  <2> QED  BY <1>6, <1>11, <2>1, <2>2, <2>3, <2>4
<1>12. CASE c \notin Calls \cup {"pause"}  BY <1>5, <1>6, <1>12 DEF c
<1> QED  BY <1>8, <1>9, <1>10, <1>11, <1>12 DEF Calls

-----------------------------------------------------------------------------
(* One call at a time.                                                     *)

LEMMA HasPart ==
  ASSUME NEW s, NEW S, NEW T, S \subseteq T, Has(s, S)
  PROVE  Has(s, T)
  BY DEF Has

LEMMA NoneSingle ==
  ASSUME NEW s, NEW T, ~Has(s, T)
  PROVE  Single(s, T)
  BY DEF Has, Single

LEMMA AppendedOther ==
  ASSUME NEW S, NEW s \in Seq(S), NEW x \in S, NEW T, x.type \notin T
  PROVE  /\ \A U : U \subseteq T => (Has(Append(s, x), U) <=> Has(s, U))
         /\ Single(s, T) => Single(Append(s, x), T)
<1>1. ASSUME NEW U, U \subseteq T PROVE Has(Append(s, x), U) <=> Has(s, U)
  <2>1. x.type \notin U  BY <1>1
  <2> QED  BY <2>1, AppendedTypes
<1>2. Single(s, T) => Single(Append(s, x), T)  BY AppendedTypes
<1> QED  BY <1>1, <1>2

\* Nothing under way, or nothing more than before, with the client where it was.
LEMMA NoCall ==
  ASSUME ~Has(toServer', Calls), ~Has(toClient', Answers)
  PROVE  CallInv'
<1>1. ~Has(toServer', {"play"}) /\ ~Has(toClient', {"start"})
  BY HasPart DEF Calls, Answers
<1> QED  BY <1>1, NoneSingle DEF CallInv

\* What CallInv says of a connection that is open.
LEMMA CallsElsewhere ==
  ASSUME Queues, CallInv, Open
  PROVE  /\ ~Waiting => ~Has(toServer, Calls) /\ ~Has(toClient, Answers)
         /\ Has(toClient, Answers) => ~Has(toServer, Calls)
         /\ Single(toServer, Calls) /\ Single(toClient, Answers)
  BY DEF CallInv

\* A message is read, and what is sent is not a call.
LEMMA CallRead ==
  ASSUME Queues, CallInv, Open, UNCHANGED <<pc, connected, bPlaying, streamOpen>>,
         toClient # <<>>, toClient' = Tail(toClient),
         \/ toServer' = toServer
         \/ \E c \in Commands : c.type \notin Calls /\ toServer' = Append(toServer, c)
  PROVE  CallInv'
<1>1. toServer \in Seq(Commands) /\ toClient \in Seq(Messages)  BY DEF Queues
<1>2. \A T : T \subseteq Calls => (Has(toServer', T) <=> Has(toServer, T))
  <2>1. ASSUME NEW c \in Commands, c.type \notin Calls, toServer' = Append(toServer, c)
        PROVE  \A T : T \subseteq Calls => (Has(toServer', T) <=> Has(toServer, T))
    BY <1>1, <2>1, AppendedOther
  <2> QED  BY <2>1
<1>3. Single(toServer, Calls) => Single(toServer', Calls)
  <2>1. ASSUME NEW c \in Commands, c.type \notin Calls, toServer' = Append(toServer, c)
        PROVE  Single(toServer, Calls) => Single(toServer', Calls)
    BY <1>1, <2>1, AppendedTypes
  <2> QED  BY <2>1
<1>4. \A T : /\ Has(toClient', T) => Has(toClient, T)
             /\ Single(toClient, T) => Single(toClient', T)
  BY <1>1, DroppedTypes
<1>5. {"play"} \subseteq Calls  BY DEF Calls
<1>6. (Open <=> Open') /\ (Waiting <=> Waiting')  BY DEF Open, Waiting
<1> QED  BY <1>2, <1>3, <1>4, <1>5, <1>6 DEF CallInv

\* The server sends what is not an answer.
LEMMA CallSent ==
  ASSUME Queues, CallInv, UNCHANGED <<pc, connected, bPlaying, streamOpen, toServer>>,
         \/ toClient' = toClient
         \/ \E m \in Messages : m.type \notin Answers /\ toClient' = Append(toClient, m)
  PROVE  CallInv'
<1>1. toServer \in Seq(Commands) /\ toClient \in Seq(Messages)  BY DEF Queues
<1>2. \A T : T \subseteq Answers => (Has(toClient', T) <=> Has(toClient, T))
  <2>1. ASSUME NEW m \in Messages, m.type \notin Answers, toClient' = Append(toClient, m)
        PROVE  \A T : T \subseteq Answers => (Has(toClient', T) <=> Has(toClient, T))
    BY <1>1, <2>1, AppendedOther
  <2> QED  BY <2>1
<1>3. Single(toClient, Answers) => Single(toClient', Answers)
  <2>1. ASSUME NEW m \in Messages, m.type \notin Answers, toClient' = Append(toClient, m)
        PROVE  Single(toClient, Answers) => Single(toClient', Answers)
    BY <1>1, <2>1, AppendedTypes
  <2> QED  BY <2>1
<1>5. {"start"} \subseteq Answers  BY DEF Answers
<1>6. (Open <=> Open') /\ (Waiting <=> Waiting')  BY DEF Open, Waiting
<1> QED  BY <1>2, <1>3, <1>5, <1>6 DEF CallInv

\* The server handles a command.
LEMMA CallHandled ==
  ASSUME Queues, CallInv, Open, ServerCommand
  PROVE  CallInv'
<1> DEFINE c == Head(toServer).type
<1>1. toServer \in Seq(Commands) /\ toClient \in Seq(Messages)  BY DEF Queues
<1>2. toServer # <<>> /\ toServer' = Tail(toServer) /\ ClientUnchanged
  BY DEF ServerCommand
<1>3. (Open <=> Open') /\ (Waiting <=> Waiting') /\ (streamOpen' <=> streamOpen)
  BY <1>2 DEF Open, Waiting, ClientUnchanged, rtmpVars
<1>4. \A T : /\ Has(toServer', T) => Has(toServer, T)
             /\ Single(toServer, T) => Single(toServer', T)
             /\ Single(toServer, T) /\ c \in T => ~Has(toServer', T) /\ Has(toServer, T)
  BY <1>1, <1>2, DroppedTypes
<1>5. CASE c \in Calls
  <2>1. /\ ~Has(toServer', Calls) /\ ~Has(toClient, Answers) /\ Waiting
        /\ ~Has(toServer', {"play"}) /\ (c = "play" => streamOpen)
        /\ Single(toServer', Calls) /\ Single(toClient, Answers)
    <3>1. Has(toServer, Calls) /\ ~Has(toServer', Calls)  BY <1>4, <1>5 DEF CallInv
    <3>2. ~Has(toServer', {"play"})  BY <3>1, HasPart DEF Calls
    <3>3. c = "play" => Has(toServer, {"play"})  BY <1>1, <1>2, DroppedTypes
    <3> QED  BY <3>1, <3>2, <3>3, NoneSingle DEF CallInv
  <2>2. PICK m \in {Message("connected"), Message("created"), Message("start"),
                    Message("failed")} :
           toClient' = Append(toClient, m) /\ (m = Message("start") => c = "play")
    <3>1. Message("start").type = "start" /\ Message("failed").type = "failed"
          /\ Message("connected").type = "connected" /\ Message("created").type = "created"
      BY DEF Message
    <3>2. \/ c = "connect" /\ toClient' = Append(toClient, Message("connected"))
          \/ c = "createStream" /\ toClient' = Append(toClient, Message("created"))
          \/ c = "play" /\ toClient' = Append(toClient, Message("start"))
          \/ c = "play" /\ toClient' = Append(toClient, Message("failed"))
      BY <1>5, Answered DEF Calls
    <3> QED  BY <3>1, <3>2
  <2>3. m \in Messages /\ (m.type = "start" => m = Message("start"))
    BY MessageTyped DEF MessageTypes
  <2>4. Single(toClient', Answers) /\ (Has(toClient', {"start"}) => m.type = "start")
    <3>1. ~Has(toClient, {"start"})  BY <2>1, HasPart DEF Answers
    <3> QED  BY <1>1, <2>1, <2>2, <2>3, <3>1, AppendedTypes
  <2> QED  BY <1>3, <2>1, <2>2, <2>3, <2>4 DEF CallInv
<1>6. CASE c \notin Calls
  <2>1. \A T : T \subseteq Answers => (Has(toClient', T) <=> Has(toClient, T))
    <3> SUFFICES ASSUME NEW T, T \subseteq Answers
                 PROVE  Has(toClient', T) <=> Has(toClient, T)
      OBVIOUS
    <3>1. \A x \in {"notify", "eof", "empty"} :
             Message(x) \in Messages /\ Message(x).type \notin T
      BY MessageTyped DEF MessageTypes, Answers
    <3>2. CASE toClient' = toClient  BY <3>2
    <3>3. CASE toClient' = Append(toClient, Message("notify"))
      BY <1>1, <3>1, <3>3, AppendedTypes
    <3>4. CASE \E x \in {"notify", "empty"} :
                  toClient' = Append(Append(toClient, Message("eof")), Message(x))
      <4>1. Append(toClient, Message("eof")) \in Seq(Messages)  BY <1>1, <3>1
      <4>2. Has(Append(toClient, Message("eof")), T) <=> Has(toClient, T)
        BY <1>1, <3>1, AppendedTypes
      <4>3. PICK x \in {"notify", "empty"} :
               toClient' = Append(Append(toClient, Message("eof")), Message(x))
        BY <3>4
      <4>4. Message(x) \in Messages /\ Message(x).type \notin T  BY <3>1
      <4> QED  BY <4>1, <4>2, <4>3, <4>4, AppendedTypes
    <3> QED  BY <1>6, <3>2, <3>3, <3>4, Answered DEF Calls
  <2>2. Single(toClient, Answers) => Single(toClient', Answers)
    <3>1. \A x \in {"notify", "eof", "empty"} :
             Message(x) \in Messages /\ Message(x).type \notin Answers
      BY MessageTyped DEF MessageTypes, Answers
    <3>2. CASE toClient' = toClient  BY <3>2
    <3>3. CASE toClient' = Append(toClient, Message("notify"))
      BY <1>1, <3>1, <3>3, AppendedTypes
    <3>4. CASE \E x \in {"notify", "empty"} :
                  toClient' = Append(Append(toClient, Message("eof")), Message(x))
      <4>1. Append(toClient, Message("eof")) \in Seq(Messages)  BY <1>1, <3>1
      <4>2. Single(toClient, Answers) => Single(Append(toClient, Message("eof")), Answers)
        BY <1>1, <3>1, AppendedTypes
      <4>3. PICK x \in {"notify", "empty"} :
               toClient' = Append(Append(toClient, Message("eof")), Message(x))
        BY <3>4
      <4>4. Message(x) \in Messages /\ Message(x).type \notin Answers  BY <3>1
      <4> QED  BY <4>1, <4>2, <4>3, <4>4, AppendedTypes
    <3> QED  BY <1>6, <3>2, <3>3, <3>4, Answered DEF Calls
  <2>3. {"start"} \subseteq Answers  BY DEF Answers
  <2> QED  BY <1>3, <1>4, <2>1, <2>2, <2>3 DEF CallInv
<1> QED  BY <1>5, <1>6

\* The library makes a call only when the one before is answered.
LEMMA CallStep ==
  ASSUME TypeInv, ControlInv, CallInv, [StreamNext]_streamVars
  PROVE  CallInv'
<1> USE DEF mainVars, rtmpVars, mediaVars, readVars, serverVars, historyVars
<1>q. Queues /\ toServer \in Seq(Commands) /\ toClient \in Seq(Messages)
  BY DEF TypeInv, Queues
<1>n. ~Has(<<>>, Calls) /\ ~Has(<<>>, Answers)  BY DEF Has
<1>t. /\ 0 \in Times /\ pauseStamp \in Times /\ channelStamp \in Times
  BY TimesTyped DEF TypeInv, Numbers
<1>c. ASSUME NEW c \in {"createStream", "play", "pause", "unpause", "deleteStream"},
             NEW t \in Times
      PROVE  Command(c, t) \in Commands /\ Command(c, t).type = c
  BY CommandTyped DEF CommandTypes
<1>k. \A c \in {"pause", "unpause", "deleteStream"} : c \notin Calls  BY DEF Calls
\* Nothing of calls and answers is touched.
<1>u. ASSUME UNCHANGED <<pc, connected, bPlaying, streamOpen, toServer, toClient>>
      PROVE  CallInv'
  BY <1>u DEF CallInv, Open, Waiting
\* Outside RTMP_ConnectStream there is none.
<1>o. ASSUME Open, ~Waiting, UNCHANGED <<toServer, toClient>>
      PROVE  CallInv'
  <2>1. ~Has(toServer, Calls) /\ ~Has(toClient, Answers)
    BY <1>o DEF CallInv
  <2> QED  BY <1>o, <2>1, NoCall
<1>d. ASSUME ~Open' PROVE CallInv'  BY <1>d DEF CallInv
<1>1. CASE Connect
  <2>1. CASE pc' = "done"  BY <2>1, <1>d DEF Open
  <2>2. CASE pc' # "done"
    <3> DEFINE c == Command("connect", 0)
    <3>1. /\ pc' = "connect" /\ toServer' = <<c>> /\ toClient' = <<>> /\ ~bPlaying'
      BY <1>1, <2>2 DEF Connect, ControlInv, NotBegun
    <3>2. c \in Commands /\ c.type = "connect"  BY <1>t, CommandTyped DEF CommandTypes
    <3>3. <<>> \in Seq(Commands) /\ <<c>> = Append(<<>>, c)  BY <3>2
    <3>4. Single(<<c>>, Calls) /\ ~Has(<<c>>, {"play"})
      <4>1. ~Has(<<>>, {"play"})  BY DEF Has
      <4>2. Single(<<>>, Calls)  BY <1>n, NoneSingle
      <4> DEFINE s == <<>>
      <4>3. s \in Seq(Commands) /\ <<c>> = Append(s, c)  BY <3>3
      <4>4. ~Has(s, Calls) /\ ~Has(s, {"play"}) /\ Single(s, Calls)  BY <1>n, <4>1, <4>2
      <4> HIDE DEF c, s
      <4>5. Single(<<c>>, Calls)  BY <3>2, <4>3, <4>4, AppendedTypes
      <4>6. ~Has(<<c>>, {"play"})  BY <3>2, <4>3, <4>4, AppendedTypes
      <4> QED  BY <4>5, <4>6
    <3>5. Single(<<>>, Answers) /\ ~Has(<<>>, {"start"})
      BY <1>n, NoneSingle DEF Has
    <3> QED  BY <1>n, <3>1, <3>4, <3>5 DEF CallInv, Waiting
  <2> QED  BY <2>1, <2>2
<1>2. CASE Resume
  <2>1. /\ UNCHANGED toClient
        /\ Open' => connected /\ pc = "loop"
    BY <1>2 DEF Resume, GiveUp, Toggle, Reconnect, Open
  <2>2. ASSUME Open'
        PROVE  ~Has(toServer, Calls) /\ ~Has(toClient', Answers)
    BY <2>1, <2>2 DEF CallInv, Open, Waiting
  <2>3. CASE GiveUp  BY <2>3, <1>d DEF GiveUp, Open
  <2>4. CASE Toggle /\ Open'
    <3> DEFINE p == Command("pause", pauseStamp)
               u == Command("unpause", pauseStamp)
    <3>1. /\ p \in Commands /\ p.type \notin Calls
          /\ u \in Commands /\ u.type \notin Calls
      BY <1>t, <1>c, <1>k
    <3>2. toServer' = IF pausing = 0 THEN Append(Append(toServer, p), u)
                      ELSE Append(toServer, u)
      BY <1>q, <2>4, Toggled
    <3> HIDE DEF p, u
    <3>3. Append(toServer, p) \in Seq(Commands) /\ ~Has(Append(toServer, p), Calls)
      BY <1>q, <2>2, <2>4, <3>1, AppendedTypes
    <3>4. ~Has(toServer', Calls)
      BY <1>q, <2>2, <2>4, <3>1, <3>2, <3>3, AppendedTypes
    <3> QED  BY <2>2, <2>4, <3>4, NoCall
  <2>5. CASE Reconnect /\ Open'
    <3> DEFINE p == Command("deleteStream", 0)
               u == Command("createStream", 0)
    <3>1. /\ p \in Commands /\ p.type \notin Calls
          /\ u \in Commands /\ u.type = "createStream"
      BY <1>t, <1>c, <1>k
    <3>2. toServer' = IF streamOpen THEN Append(Append(toServer, p), u)
                      ELSE Append(toServer, u)
      BY <1>q, <2>5, Reconnected
    <3> HIDE DEF p, u
    <3>3. Append(toServer, p) \in Seq(Commands) /\ ~Has(Append(toServer, p), Calls)
      BY <1>q, <2>2, <2>5, <3>1, AppendedTypes
    <3>4. ~Has(toServer, {"play"}) /\ ~Has(Append(toServer, p), {"play"})
          /\ ~Has(toClient', {"start"})
      BY <2>2, <2>5, <3>3, HasPart DEF Calls, Answers
    <3>5. /\ Single(toServer, Calls) /\ Single(Append(toServer, p), Calls)
          /\ Single(toClient', Answers)
      BY <2>2, <2>5, <3>3, NoneSingle
    <3>6. Single(toServer', Calls) /\ ~Has(toServer', {"play"})
      BY <1>q, <2>2, <2>5, <3>1, <3>2, <3>3, <3>4, <3>5, AppendedTypes
    <3>7. Waiting'  BY <2>5 DEF Reconnect, Waiting, ControlInv
    <3> QED  BY <2>2, <2>5, <3>4, <3>5, <3>6, <3>7 DEF CallInv
  <2> QED  BY <1>2, <1>d, <2>3, <2>4, <2>5 DEF Resume
<1>3. CASE Stopped  BY <1>3, <1>d DEF Stopped, Open
<1>4. CASE Read \/ Check
  <2>1. UNCHANGED <<toServer, toClient, connected>> /\ ~Waiting /\ pc # "done"
    BY <1>4 DEF Read, Check, Waiting
  <2> QED  BY <2>1, <1>o, <1>d DEF Open
<1>5. CASE ConnectStreamReturns
  <2>1. CASE bPlaying
    <3>1. UNCHANGED <<toServer, toClient, connected>> /\ ~Waiting /\ pc # "done"
      BY <1>5, <2>1 DEF ConnectStreamReturns, Waiting
    <3> QED  BY <3>1, <1>o, <1>d DEF Open
  <2>2. CASE ~bPlaying
    <3>1. pc' = "done"  BY <1>5, <2>2 DEF ConnectStreamReturns
    <3> QED  BY <3>1, <1>d DEF Open
  <2> QED  BY <2>1, <2>2
<1>6. CASE HandleResult
  <2>1. PICK a \in {"connected", "created"} : Receive(a)  BY <1>6 DEF HandleResult
  <2>2. /\ Open /\ toClient # <<>> /\ toClient' = Tail(toClient) /\ Head(toClient).type \in Answers
        /\ UNCHANGED <<pc, connected, bPlaying>>
        /\ \E c \in {"createStream", "play"}, t \in Times :
              /\ toServer' = Append(toServer, Command(c, t))
              /\ c = "play" => streamOpen'
    <3>1. Open /\ toClient # <<>> /\ toClient' = Tail(toClient) /\ Head(toClient).type \in Answers
      BY <1>q, <2>1, Received DEF Receive, Answers
    <3>2. UNCHANGED <<pc, connected, bPlaying>>  BY <1>6 DEF HandleResult, Receive
    <3>3. \E c \in {"createStream", "play"}, t \in Times :
             /\ toServer' = Append(toServer, Command(c, t))
             /\ c = "play" => streamOpen'
      BY <1>6, <1>t DEF HandleResult
    <3> QED  BY <3>1, <3>2, <3>3
  <2>3. PICK c \in {"createStream", "play"}, t \in Times :
           toServer' = Append(toServer, Command(c, t)) /\ (c = "play" => streamOpen')
    BY <2>2
  <2>4. Command(c, t) \in Commands /\ Command(c, t).type = c  BY <1>c
  <2>5. /\ ~Has(toClient', Answers) /\ ~Has(toServer, Calls) /\ Waiting
    BY <1>q, <2>2, DroppedTypes DEF CallInv
  <2>6. ~Has(toClient', {"start"}) /\ ~Has(toServer, {"play"})
    BY <2>5, HasPart DEF Answers, Calls
  <2>7. /\ Single(toServer', Calls) /\ Single(toClient', Answers)
        /\ Has(toServer', {"play"}) => c = "play"
    BY <1>q, <2>3, <2>4, <2>5, <2>6, AppendedTypes, NoneSingle
  <2>8. Waiting'  BY <2>2, <2>5 DEF Waiting
  <2> QED  BY <2>3, <2>5, <2>6, <2>7, <2>8 DEF CallInv
<1>7. CASE HandlePlayStart
  <2>1. Open /\ toClient # <<>> /\ toClient' = Tail(toClient) /\ Head(toClient).type \in Answers
    BY <1>q, <1>7, Received DEF HandlePlayStart, Receive, Answers
  <2>2. ~Has(toClient', Answers) /\ ~Has(toServer, Calls)
    BY <1>q, <2>1, DroppedTypes DEF CallInv
  <2>3. toServer' = toServer  BY <1>7 DEF HandlePlayStart
  <2> QED  BY <2>2, <2>3, NoCall
<1>8. CASE HandlePauseNotify \/ HandleCtrl \/ IgnoreFrame
  <2>1. /\ UNCHANGED <<pc, connected, bPlaying, streamOpen>>
        /\ Open /\ toClient # <<>> /\ toClient' = Tail(toClient)
    <3>1. PICK type : Receive(type)  BY <1>8 DEF HandlePauseNotify, HandleCtrl, IgnoreFrame
    <3>2. Open /\ toClient # <<>> /\ toClient' = Tail(toClient) /\ pc' = pc
      BY <1>q, <3>1, Received DEF Receive
    <3> QED  BY <1>8, <3>2 DEF HandlePauseNotify, HandleCtrl, IgnoreFrame
  <2>2. \/ toServer' = toServer
        \/ toServer' = Append(toServer, Command("pause", channelStamp))
        \/ toServer' = Append(toServer, Command("unpause", pauseStamp))
    BY <1>8 DEF HandlePauseNotify, HandleCtrl, IgnoreFrame, SendPause, SendUnpause
  <2>3. \/ toServer' = toServer
        \/ \E c \in Commands : c.type \notin Calls /\ toServer' = Append(toServer, c)
    BY <1>c, <1>t, <1>k, <2>2
  <2> QED  BY <1>q, <2>1, <2>3, CallRead
<1>9. CASE HandleEnd \/ ReadClosed
  <2>1. ~connected'  BY <1>9 DEF HandleEnd, ReadClosed, Close
  <2> QED  BY <2>1, <1>d DEF Open
<1>10. CASE ReadTimesOut
  <2>1. CASE pc = "packet"
    <3>1. UNCHANGED <<toServer, toClient, connected>> /\ ~Waiting /\ pc # "done"
      BY <1>10, <2>1 DEF ReadTimesOut, Waiting
    <3> QED  BY <3>1, <1>o, <1>d DEF Open
  <2>2. CASE pc # "packet"
    <3>1. pc' = "done"  BY <1>10, <2>2 DEF ReadTimesOut
    <3> QED  BY <3>1, <1>d DEF Open
  <2> QED  BY <2>1, <2>2
<1>11. CASE MediaFrame
  <2>1. Open /\ ~Waiting /\ toClient # <<>> /\ UNCHANGED toServer /\ toClient' = Tail(toClient)
    BY <1>11 DEF MediaFrame, Open, Waiting
  <2>2. ~Has(toServer', Calls) /\ ~Has(toClient', Answers)
    BY <1>q, <2>1, DroppedTypes DEF CallInv
  <2> QED  BY <2>2, NoCall
<1>12. CASE Stop  BY <1>12, <1>u DEF Stop
<1>13. CASE ServerCommand
  <2>1. Open  BY <1>13 DEF ServerCommand, MaySend, Open
  <2> QED  BY <1>13, <1>q, <2>1, CallHandled
<1>14. CASE ServerFrame
  <2>1. UNCHANGED <<pc, connected, bPlaying, streamOpen, toServer>>
    BY <1>14 DEF ServerFrame, ClientUnchanged
  <2>2. toClient' = Append(toClient, Frame(pos)) /\ pos \in Times
    BY <1>14, StreamAssumption DEF ServerFrame, TypeInv, Numbers, Times
  <2>3. Frame(pos) \in Messages /\ Frame(pos).type \notin Answers
    BY <2>2 DEF Frame, Messages, MessageTypes, Answers, TypeInv, Numbers
  <2> QED  BY <1>q, <2>1, <2>2, <2>3, CallSent
<1>15. CASE ServerComplete \/ ServerChatter \/ ServerLost
  <2>1. UNCHANGED <<pc, connected, bPlaying, streamOpen, toServer>>
    BY <1>15 DEF ServerComplete, ServerChatter, ServerLost, ClientUnchanged
  <2>2. \/ toClient' = toClient \/ toClient' = Append(toClient, Message("complete"))
        \/ toClient = <<>> /\ toClient' = <<Message("empty")>>
        \/ toClient = <<>> /\ toClient' = <<Message("ping")>>
    BY <1>15 DEF ServerComplete, ServerChatter, ServerLost
  <2>3. \A x \in {"complete", "empty", "ping"} :
           /\ Message(x) \in Messages /\ Message(x).type \notin Answers
           /\ Append(<<>>, Message(x)) = <<Message(x)>>
    <3>1. ASSUME NEW m \in Messages PROVE Append(<<>>, m) = <<m>>  OBVIOUS
    <3> QED  BY <3>1, MessageTyped DEF MessageTypes, Answers
  <2>4. \/ toClient' = toClient
        \/ \E m \in Messages : m.type \notin Answers /\ toClient' = Append(toClient, m)
    BY <2>2, <2>3
  <2> QED  BY <1>q, <2>1, <2>4, CallSent
<1>16. CASE UNCHANGED streamVars  BY <1>16, <1>u DEF streamVars
<1> QED
  BY <1>1, <1>2, <1>3, <1>4, <1>5, <1>6, <1>7, <1>8, <1>9, <1>10, <1>11, <1>12, <1>13, <1>14,
     <1>15, <1>16
  DEF StreamNext, Main, Packet, Server

-----------------------------------------------------------------------------
(* Epochs.                                                                 *)

IsUnpause(c) == c.type = "unpause"

\* With no command under way the epoch is the number of unpauses.
LEMMA CountsEmpty ==
  ASSUME NEW e \in Nat
  PROVE  Counts(<<>>, e, e)
<1> DEFINE g == [a \in 1..1 |-> e]
<1>1. /\ Len(<<>>) = 0 /\ g \in [1..1 -> Nat] /\ g[1] = e
      /\ \A a, b \in 1..1 : a <= b => g[a] <= g[b]
  OBVIOUS
<1> HIDE DEF g
<1>2. 0 + 1 = 1 /\ 1..0 = {}  OBVIOUS
<1> QED  BY <1>1, <1>2 DEF Counts

\* A command is sent: an unpause is one epoch more to come.
LEMMA CountsAppended ==
  ASSUME NEW s \in Seq(Commands), NEW e \in Nat, NEW u \in Nat, NEW x \in Commands,
         Counts(s, e, u), NEW v \in Nat, v = IF IsUnpause(x) THEN u + 1 ELSE u
  PROVE  Counts(Append(s, x), e, v)
<1> DEFINE n == Len(s)
           r == Append(s, x)
<1>1. PICK g \in [1..(n + 1) -> Nat] :
         /\ g[1] = e /\ g[n + 1] = u
         /\ \A a, b \in 1..(n + 1) : a <= b => g[a] <= g[b]
         /\ \A a \in 1..n : g[a + 1] = IF s[a].type = "unpause" THEN g[a] + 1 ELSE g[a]
  BY DEF Counts
<1>2. /\ n \in Nat /\ Len(r) = n + 1 /\ r[n + 1] = x /\ \A a \in 1..n : r[a] = s[a]
  BY Appended
<1> HIDE DEF n, r
<1> DEFINE h == [a \in 1..(n + 2) |-> IF a <= n + 1 THEN g[a] ELSE v]
<1>3. h \in [1..(n + 2) -> Nat]  BY <1>2
<1>4. h[1] = e /\ h[n + 2] = v /\ (\A a \in 1..(n + 1) : h[a] = g[a])  BY <1>1, <1>2
<1> HIDE DEF h
<1>5. ASSUME NEW a \in 1..(n + 2), NEW b \in 1..(n + 2), a <= b
      PROVE  h[a] <= h[b]
  <2>1. CASE b <= n + 1
    <3>1. a \in 1..(n + 1) /\ b \in 1..(n + 1)  BY <1>2, <1>5, <2>1
    <3> QED  BY <1>1, <1>4, <1>5, <3>1
  <2>2. CASE a <= n + 1 /\ b = n + 2
    <3>1. a \in 1..(n + 1) /\ n + 1 \in 1..(n + 1) /\ a <= n + 1  BY <1>2, <1>5, <2>2
    <3>2. g[a] <= u /\ g[a] \in Nat  BY <1>1, <3>1
    <3>3. h[a] = g[a] /\ h[b] = v  BY <1>4, <2>2, <3>1
    <3> QED  BY <3>2, <3>3
  <2>3. CASE a = n + 2 /\ b = n + 2  BY <1>2, <1>4, <2>3
  <2> QED  BY <1>2, <1>5, <2>1, <2>2, <2>3
<1>6. ASSUME NEW a \in 1..(n + 1)
      PROVE  h[a + 1] = IF r[a].type = "unpause" THEN h[a] + 1 ELSE h[a]
  <2>1. CASE a \in 1..n
    <3>1. a + 1 \in 1..(n + 1) /\ a \in 1..(n + 1)  BY <1>2, <2>1
    <3> QED  BY <1>1, <1>2, <1>4, <2>1, <3>1
  <2>2. CASE a = n + 1
    <3>1. h[a + 1] = v /\ h[a] = u /\ r[a] = x
      <4>1. a + 1 = n + 2  BY <1>2, <2>2
      <4> QED  BY <1>1, <1>2, <1>4, <2>2, <4>1
    <3> QED  BY <3>1 DEF IsUnpause
  <2> QED  BY <1>2, <2>1, <2>2
<1>7. Len(r) + 1 = n + 2 /\ Len(r) = n + 1  BY <1>2
<1>8. h \in [1..(Len(r) + 1) -> Nat] /\ h[1] = e /\ h[Len(r) + 1] = v
  BY <1>3, <1>4, <1>7
<1>9. \A a, b \in 1..(Len(r) + 1) : a <= b => h[a] <= h[b]  BY <1>5, <1>7
<1>10. \A a \in 1..Len(r) : h[a + 1] = IF r[a].type = "unpause" THEN h[a] + 1 ELSE h[a]
  BY <1>6, <1>7
<1>11. Counts(r, e, v)  BY ZenonT(30), <1>8, <1>9, <1>10 DEF Counts
<1> QED  BY <1>11 DEF r

\* A command is handled: an unpause begins its epoch.
LEMMA CountsDropped ==
  ASSUME NEW s \in Seq(Commands), NEW e \in Nat, NEW u \in Nat, s # <<>>,
         Counts(s, e, u), NEW d \in Nat, d = IF IsUnpause(Head(s)) THEN e + 1 ELSE e
  PROVE  Counts(Tail(s), d, u)
<1> DEFINE n == Len(s)
           r == Tail(s)
<1>1. PICK g \in [1..(n + 1) -> Nat] :
         /\ g[1] = e /\ g[n + 1] = u
         /\ \A a, b \in 1..(n + 1) : a <= b => g[a] <= g[b]
         /\ \A a \in 1..n : g[a + 1] = IF s[a].type = "unpause" THEN g[a] + 1 ELSE g[a]
  BY DEF Counts
<1>2. /\ n \in Nat \ {0} /\ Len(r) = n - 1 /\ s[1] = Head(s)
      /\ \A a \in 1..(n - 1) : r[a] = s[a + 1] /\ a + 1 \in 1..n
  BY Dropped
<1> HIDE DEF n, r
<1> DEFINE h == [a \in 1..n |-> g[a + 1]]
<1>3. \A a \in 1..n : a + 1 \in 1..(n + 1)  BY <1>2
<1>4. h \in [1..n -> Nat] /\ \A a \in 1..n : h[a] = g[a + 1]  BY <1>1, <1>3
<1> HIDE DEF h
<1>5. h[1] = d /\ h[n] = u
  <2>1. 1 \in 1..n /\ n \in 1..n /\ 1 + 1 = 2  BY <1>2
  <2>2. g[1 + 1] = IF s[1].type = "unpause" THEN g[1] + 1 ELSE g[1]  BY <1>1, <2>1
  <2>3. g[1 + 1] = d  BY <1>1, <1>2, <2>2 DEF IsUnpause
  <2> QED  BY <1>1, <1>4, <2>1, <2>3
<1>6. ASSUME NEW a \in 1..n, NEW b \in 1..n, a <= b
      PROVE  h[a] <= h[b]
  <2>1. a + 1 <= b + 1  BY <1>6
  <2> QED  BY <1>1, <1>3, <1>4, <1>6, <2>1
<1>7. ASSUME NEW a \in 1..(n - 1)
      PROVE  h[a + 1] = IF r[a].type = "unpause" THEN h[a] + 1 ELSE h[a]
  <2>1. a \in 1..n /\ a + 1 \in 1..n /\ r[a] = s[a + 1]  BY <1>2
  <2>2. g[a + 1 + 1] = IF s[a + 1].type = "unpause" THEN g[a + 1] + 1 ELSE g[a + 1]
    BY <1>1, <2>1
  <2> QED  BY <1>4, <2>1, <2>2
<1>8. Len(r) + 1 = n /\ Len(r) = n - 1  BY <1>2
<1>9. Counts(r, d, u)  BY <1>4, <1>5, <1>6, <1>7, <1>8 DEF Counts
<1> QED  BY <1>9 DEF r

\* The epoch never passes the unpauses sent, and reaches them with the last unpause.
LEMMA CountsEnd ==
  ASSUME NEW s \in Seq(Commands), NEW e \in Nat, NEW u \in Nat, Counts(s, e, u)
  PROVE  /\ e <= u
         /\ e = u => \A a \in 1..Len(s) : ~IsUnpause(s[a])
<1> DEFINE n == Len(s)
<1>1. PICK g \in [1..(n + 1) -> Nat] :
         /\ g[1] = e /\ g[n + 1] = u
         /\ \A a, b \in 1..(n + 1) : a <= b => g[a] <= g[b]
         /\ \A a \in 1..n : g[a + 1] = IF s[a].type = "unpause" THEN g[a] + 1 ELSE g[a]
  BY DEF Counts
<1>2. n \in Nat /\ 1 \in 1..(n + 1) /\ n + 1 \in 1..(n + 1) /\ 1 <= n + 1  OBVIOUS
<1>3. e <= u  BY <1>1, <1>2
<1>4. ASSUME e = u, NEW a \in 1..n, IsUnpause(s[a]) PROVE FALSE
  <2>1. a \in 1..(n + 1) /\ a + 1 \in 1..(n + 1) /\ 1 <= a /\ a + 1 <= n + 1  BY <1>2
  <2>2. g[1] <= g[a] /\ g[a + 1] <= g[n + 1]  BY <1>1, <1>2, <2>1
  <2>3. g[a + 1] = g[a] + 1  BY <1>1, <1>4 DEF IsUnpause
  <2>4. g[a] \in Nat  BY <1>1, <2>1
  <2> QED  BY <1>1, <1>4, <2>2, <2>3, <2>4
<1> QED  BY <1>3, <1>4

\* Commands are appended with the unpauses counted, and taken with the epoch.
LEMMA CountsStep ==
  ASSUME TypeInv, ControlInv, Counts(toServer, epoch, unpauses), [StreamNext]_streamVars
  PROVE  Counts(toServer', epoch', unpauses')
<1> USE DEF mainVars, rtmpVars, mediaVars, readVars, serverVars, historyVars
<1>q. /\ Queues /\ toServer \in Seq(Commands) /\ epoch \in Nat /\ unpauses \in Nat
      /\ unpauses + 1 \in Nat
  BY DEF TypeInv, Queues, Numbers
<1>t. /\ 0 \in Times /\ pauseStamp \in Times /\ channelStamp \in Times
  BY TimesTyped DEF TypeInv, Numbers
<1>c. ASSUME NEW c \in {"connect", "createStream", "play", "pause", "deleteStream"},
             NEW t \in Times
      PROVE  Command(c, t) \in Commands /\ ~IsUnpause(Command(c, t))
  BY CommandTyped DEF CommandTypes, IsUnpause
<1>v. ASSUME NEW t \in Times
      PROVE  Command("unpause", t) \in Commands /\ IsUnpause(Command("unpause", t))
  BY CommandTyped DEF CommandTypes, IsUnpause
\* The three ways in which a client's step changes what is under way.
<1>k. ASSUME UNCHANGED <<toServer, epoch, unpauses>>
      PROVE  Counts(toServer', epoch', unpauses')
  BY <1>k
<1>a. ASSUME NEW c \in Commands, ~IsUnpause(c), toServer' = Append(toServer, c),
             UNCHANGED <<epoch, unpauses>>
      PROVE  Counts(toServer', epoch', unpauses')
  BY <1>q, <1>a, CountsAppended
<1>u. ASSUME NEW t \in Times, toServer' = Append(toServer, Command("unpause", t)),
             UNCHANGED epoch, unpauses' = unpauses + 1
      PROVE  Counts(toServer', epoch', unpauses')
  BY <1>q, <1>v, <1>u, CountsAppended
<1>1. CASE Connect
  <2>1. CASE pc' = "done"  BY <1>1, <2>1, <1>k DEF Connect
  <2>2. CASE pc' # "done"
    <3> DEFINE c == Command("connect", 0)
    <3>1. /\ toServer' = <<c>> /\ toServer = <<>> /\ UNCHANGED <<epoch, unpauses>>
      BY <1>1, <2>2 DEF Connect, ControlInv, NotBegun
    <3>2. c \in Commands /\ ~IsUnpause(c)  BY <1>c, <1>t
    <3> HIDE DEF c
    <3>3. <<c>> = Append(<<>>, c)  OBVIOUS
    <3> QED  BY <1>a, <3>1, <3>2, <3>3
  <2> QED  BY <2>1, <2>2
<1>2. CASE Resume
  <2>1. CASE GiveUp  BY <1>2, <2>1, <1>k DEF Resume, GiveUp
  <2>2. CASE Toggle
    <3> DEFINE p == Command("pause", pauseStamp)
               u == Command("unpause", pauseStamp)
    <3>1. epoch' = epoch /\ unpauses' = unpauses + 1  BY <1>2, <2>2 DEF Resume, Toggle
    <3>2. toServer' = IF pausing = 0 THEN Append(Append(toServer, p), u)
                      ELSE Append(toServer, u)
      BY <1>q, <2>2, Toggled
    <3>3. p \in Commands /\ ~IsUnpause(p)  BY <1>t, <1>c
    <3>4. u \in Commands /\ IsUnpause(u)  BY <1>t, <1>v
    <3> HIDE DEF p, u
    <3>5. Append(toServer, p) \in Seq(Commands) /\ Counts(Append(toServer, p), epoch, unpauses)
      BY <1>q, <3>3, CountsAppended
    <3> QED  BY <1>q, <3>1, <3>2, <3>4, <3>5, CountsAppended
  <2>3. CASE Reconnect
    <3> DEFINE p == Command("deleteStream", 0)
               u == Command("createStream", 0)
    <3>1. epoch' = epoch /\ unpauses' = unpauses  BY <1>2, <2>3 DEF Resume, Reconnect
    <3>2. toServer' = IF streamOpen THEN Append(Append(toServer, p), u)
                      ELSE Append(toServer, u)
      BY <1>q, <2>3, Reconnected
    <3>3. p \in Commands /\ ~IsUnpause(p) /\ u \in Commands /\ ~IsUnpause(u)  BY <1>t, <1>c
    <3> HIDE DEF p, u
    <3>5. Append(toServer, p) \in Seq(Commands) /\ Counts(Append(toServer, p), epoch, unpauses)
      BY <1>q, <3>3, CountsAppended
    <3> QED  BY <1>q, <3>1, <3>2, <3>3, <3>5, CountsAppended
  <2> QED  BY <1>2, <2>1, <2>2, <2>3 DEF Resume
<1>3. CASE Stopped \/ Read \/ Check \/ ConnectStreamReturns \/ Stop
  <2>1. UNCHANGED <<toServer, epoch, unpauses>>
    BY <1>3 DEF Stopped, Read, Check, ConnectStreamReturns, Stop
  <2> QED  BY <2>1, <1>k
<1>4. CASE HandleResult
  <2>1. /\ \/ toServer' = Append(toServer, Command("createStream", 0))
           \/ \E t \in Times : toServer' = Append(toServer, Command("play", t))
        /\ UNCHANGED <<epoch, unpauses>>
    BY <1>4, <1>t DEF HandleResult, Receive
  <2> QED  BY <2>1, <1>a, <1>c, <1>t
<1>5. CASE HandlePlayStart \/ IgnoreFrame
  <2>1. UNCHANGED <<toServer, epoch, unpauses>>
    BY <1>5 DEF HandlePlayStart, IgnoreFrame, Receive
  <2> QED  BY <2>1, <1>k
<1>6. CASE HandlePauseNotify
  <2>1. \/ UNCHANGED <<toServer, unpauses>>
        \/ toServer' = Append(toServer, Command("unpause", pauseStamp))
           /\ unpauses' = unpauses + 1
    BY <1>6 DEF HandlePauseNotify, SendUnpause
  <2>2. epoch' = epoch  BY <1>6 DEF HandlePauseNotify, Receive
  <2> QED  BY <2>1, <2>2, <1>k, <1>u, <1>t
<1>7. CASE HandleCtrl
  <2>1. \/ UNCHANGED <<toServer, unpauses>>
        \/ toServer' = Append(toServer, Command("unpause", pauseStamp))
           /\ unpauses' = unpauses + 1
        \/ toServer' = Append(toServer, Command("pause", channelStamp))
           /\ unpauses' = unpauses
    BY <1>7 DEF HandleCtrl, SendPause, SendUnpause
  <2>2. epoch' = epoch  BY <1>7 DEF HandleCtrl, Receive
  <2> QED  BY <2>1, <2>2, <1>k, <1>u, <1>a, <1>c, <1>t
<1>8. CASE HandleEnd \/ ReadClosed \/ ReadTimesOut \/ MediaFrame
  <2>1. UNCHANGED <<toServer, epoch, unpauses>>
    BY <1>8 DEF HandleEnd, ReadClosed, ReadTimesOut, MediaFrame
  <2> QED  BY <2>1, <1>k
<1>9. CASE ServerCommand
  <2> DEFINE c == Head(toServer)
  <2>1. toServer # <<>> /\ toServer' = Tail(toServer) /\ unpauses' = unpauses
    BY <1>9 DEF ServerCommand, ClientUnchanged
  <2>2. epoch' = IF IsUnpause(c) THEN epoch + 1 ELSE epoch
    BY <1>9 DEF ServerCommand, IsUnpause
  <2>3. epoch' \in Nat  BY <1>q, <2>2
  <2> QED  BY <1>q, <2>1, <2>2, <2>3, CountsDropped
<1>10. CASE ServerFrame \/ ServerComplete \/ ServerChatter \/ ServerLost
  <2>1. UNCHANGED <<toServer, epoch, unpauses>>
    BY <1>10 DEF ServerFrame, ServerComplete, ServerChatter, ServerLost, ClientUnchanged
  <2> QED  BY <2>1, <1>k
<1>11. CASE UNCHANGED streamVars  BY <1>11, <1>k DEF streamVars
<1> QED
  BY <1>1, <1>2, <1>3, <1>4, <1>5, <1>6, <1>7, <1>8, <1>9, <1>10, <1>11
  DEF StreamNext, Main, Packet, Server

\* What is added to a queue, and what stays.
LEMMA AppendedAll ==
  ASSUME NEW S, NEW s \in Seq(S), NEW x \in S, NEW r, r = Append(s, x)
  PROVE  \A a \in 1..Len(r) : (a \in 1..Len(s) /\ r[a] = s[a]) \/ (a = Len(s) + 1 /\ r[a] = x)
  OBVIOUS

\* The messages under way after a step of the client or the server.
LEMMA ClientQueue ==
  ASSUME TypeInv, ControlInv, [StreamNext]_streamVars
  PROVE  \/ toClient' = toClient
         \/ toClient # <<>> /\ toClient' = Tail(toClient)
         \/ \E m \in Messages : m.epoch <= epoch /\ toClient' = Append(toClient, m)
         \/ \E m, n \in Messages : /\ m.epoch <= epoch /\ n.epoch <= epoch
                                   /\ toClient' = Append(Append(toClient, m), n)
<1> USE DEF mainVars, rtmpVars, mediaVars, readVars, serverVars, historyVars
<1>q. Queues /\ toClient \in Seq(Messages) /\ epoch \in Nat
  BY DEF TypeInv, Queues, Numbers
<1>m. \A x \in MessageTypes : Message(x) \in Messages /\ Message(x).epoch <= epoch
  BY <1>q, MessageTyped
<1>1. CASE Main \/ Stop \/ ReadClosed \/ ReadTimesOut \/ ServerLost \/ UNCHANGED streamVars
  <2>1. UNCHANGED toClient
    <3>1. CASE Connect  BY <3>1 DEF Connect
    <3>2. CASE Main /\ ~Connect
      BY <3>2 DEF Main, Resume, Stopped, ConnectStreamReturns, Read, Check
    <3> QED
      BY <1>1, <3>1, <3>2 DEF Stop, ReadClosed, ReadTimesOut, ServerLost, streamVars
  <2> QED  BY <2>1
<1>2. CASE HandleResult \/ HandlePlayStart \/ HandlePauseNotify \/ HandleCtrl \/ HandleEnd
           \/ IgnoreFrame \/ MediaFrame
  BY <1>2 DEF HandleResult, HandlePlayStart, HandlePauseNotify, HandleCtrl, HandleEnd,
              IgnoreFrame, MediaFrame, Receive
<1>3. CASE ServerCommand
  <2>1. \A x \in {"connected", "created", "start", "failed", "notify", "eof", "empty"} :
           x \in MessageTypes
    BY DEF MessageTypes
  <2> QED  BY <1>3, <1>q, <1>m, <2>1, Answered
<1>4. CASE ServerFrame
  <2>1. toClient' = Append(toClient, Frame(pos)) /\ pos \in Times
    BY <1>4, StreamAssumption DEF ServerFrame, TypeInv, Numbers, Times
  <2>2. Frame(pos) \in Messages /\ Frame(pos).epoch <= epoch
    BY <1>q, <2>1 DEF Frame, Messages, MessageTypes, TypeInv, Numbers
  <2> QED  BY <2>1, <2>2
<1>5. CASE ServerComplete \/ ServerChatter
  <2>1. \/ toClient' = Append(toClient, Message("complete"))
        \/ toClient = <<>> /\ toClient' = <<Message("empty")>>
        \/ toClient = <<>> /\ toClient' = <<Message("ping")>>
    BY <1>5 DEF ServerComplete, ServerChatter
  <2>2. \A x \in {"complete", "empty", "ping"} :
           x \in MessageTypes /\ Append(<<>>, Message(x)) = <<Message(x)>>
    <3>1. ASSUME NEW m \in Messages PROVE Append(<<>>, m) = <<m>>  OBVIOUS
    <3> QED  BY <3>1, MessageTyped DEF MessageTypes
  <2> QED  BY <1>m, <2>1, <2>2
<1> QED
  BY <1>1, <1>2, <1>3, <1>4, <1>5 DEF StreamNext, Packet, Server

\* Each step keeps the count of epochs.
LEMMA EpochStep ==
  ASSUME TypeInv, ControlInv, EpochInv, [StreamNext]_streamVars
  PROVE  EpochInv'
<1>q. toClient \in Seq(Messages) /\ epoch \in Nat
  BY DEF TypeInv, Queues, Numbers
<1>1. Counts(toServer', epoch', unpauses')  BY CountsStep DEF EpochInv
<1>2. epoch' \in Nat /\ epoch <= epoch'
  <2>1. epoch' \in {epoch, epoch + 1}
    <3> USE DEF mainVars, rtmpVars, mediaVars, readVars, serverVars, historyVars
    <3>1. CASE Main \/ Stop \/ UNCHANGED streamVars
      BY <3>1 DEF Main, Connect, Resume, Stopped, ConnectStreamReturns, Read, Check, Stop,
                  streamVars
    <3>2. CASE Packet
      BY <3>2 DEF Packet, HandleResult, HandlePlayStart, HandlePauseNotify, HandleCtrl,
                  HandleEnd, IgnoreFrame, MediaFrame, ReadClosed, ReadTimesOut, Receive
    <3>3. CASE Server
      BY <3>3 DEF Server, ServerCommand, ServerFrame, ServerComplete, ServerChatter, ServerLost
    <3> QED  BY <3>1, <3>2, <3>3 DEF StreamNext
  <2> QED  BY <1>q, <2>1
<1>3. \A a \in 1..Len(toClient) : toClient[a].epoch <= epoch /\ toClient[a].epoch \in Nat
  <2>1. ASSUME NEW a \in 1..Len(toClient) PROVE toClient[a] \in Messages  BY <1>q
  <2> QED  BY <2>1 DEF EpochInv, Messages
<1>4. ASSUME NEW a \in 1..Len(toClient')
      PROVE  toClient'[a].epoch <= epoch /\ toClient'[a].epoch \in Nat
  <2>1. CASE toClient' = toClient  BY <1>3, <2>1
  <2>2. CASE toClient # <<>> /\ toClient' = Tail(toClient)
    <3>1. toClient'[a] = toClient[a + 1] /\ a + 1 \in 1..Len(toClient)
      BY <1>q, <2>2, Dropped
    <3> QED  BY <1>3, <3>1
  <2>3. ASSUME NEW m \in Messages, m.epoch <= epoch, toClient' = Append(toClient, m)
        PROVE  toClient'[a].epoch <= epoch /\ toClient'[a].epoch \in Nat
    BY <1>q, <1>3, <2>3, AppendedAll DEF Messages
  <2>4. ASSUME NEW m \in Messages, NEW n \in Messages, m.epoch <= epoch, n.epoch <= epoch,
               toClient' = Append(Append(toClient, m), n)
        PROVE  toClient'[a].epoch <= epoch /\ toClient'[a].epoch \in Nat
    <3> DEFINE r == Append(toClient, m)
    <3>1. r \in Seq(Messages)  BY <1>q, <2>4
    <3>2. \A b \in 1..Len(r) : r[b].epoch <= epoch  BY <1>q, <1>3, <2>4, AppendedAll
    <3>3. toClient' = Append(r, n)  BY <2>4
    <3> HIDE DEF r
    <3>4. toClient' \in Seq(Messages)  BY <2>4, <3>1, <3>3
    <3>5. toClient'[a] \in Messages  BY <3>4
    <3>6. toClient'[a].epoch <= epoch  BY <2>4, <3>1, <3>2, <3>3, AppendedAll
    <3> QED  BY <3>5, <3>6 DEF Messages
  <2> QED  BY <2>1, <2>2, <2>3, <2>4, ClientQueue
<1>5. \A a \in 1..Len(toClient') : toClient'[a].epoch <= epoch'
  BY <1>q, <1>2, <1>4
<1> QED  BY <1>1, <1>5 DEF EpochInv

-----------------------------------------------------------------------------
(* The line of frames: what a message more or less does to it.             *)

Media == [type : MessageTypes, time : Nat, epoch : Nat]

\* What InLine says of a message f that comes after those of s.
AtEnd(s, w, f, n, e, l) ==
    f.type = "frame" /\ (w => Has(s, {"start"})) =>
        /\ \/ f.time <= n
           \/ \E b \in 1..Len(s) : Heard(s, w, b) /\ f.time <= s[b].time + 1
        /\ f.epoch = e =>
              /\ f.time > l
              /\ \A b \in 1..Len(s) : Heard(s, w, b) /\ s[b].epoch = e => s[b].time < f.time

LEMMA MediaTyped ==
  ASSUME NEW q \in Seq(Media), NEW a \in 1..Len(q)
  PROVE  q[a] \in Media /\ q[a].time \in Nat /\ q[a].epoch \in Nat
<1>1. q[a] \in Media  OBVIOUS
<1> QED  BY <1>1 DEF Media

\* What comes behind does not change what is heard before it.
LEMMA HeardAppended ==
  ASSUME NEW s \in Seq(Media), NEW x \in Media, NEW w
  PROVE  /\ \A a \in 1..Len(s) : Heard(Append(s, x), w, a) <=> Heard(s, w, a)
         /\ Heard(Append(s, x), w, Len(s) + 1)
              <=> x.type = "frame" /\ (w => Has(s, {"start"}))
<1> DEFINE r == Append(s, x)
           n == Len(s)
<1>1. /\ n \in Nat /\ r[n + 1] = x /\ \A a \in 1..n : r[a] = s[a]
  BY Appended
<1> HIDE DEF r, n
<1>2. ASSUME NEW a \in 1..n PROVE Heard(r, w, a) <=> Heard(s, w, a)
  <2>1. \A b \in 1..(a - 1) : r[b] = s[b]  BY <1>1
  <2>2. r[a] = s[a]  BY <1>1
  <2> QED  BY <2>1, <2>2 DEF Heard
<1>3. Heard(r, w, n + 1) <=> x.type = "frame" /\ (w => Has(s, {"start"}))
  <2>1. (n + 1) - 1 = n  BY <1>1
  <2>2. (\E b \in 1..((n + 1) - 1) : r[b].type = "start") <=> Has(s, {"start"})
    BY <1>1, <2>1 DEF Has, n
  <2> QED  BY <1>1, <2>2 DEF Heard
<1> QED  BY <1>2, <1>3 DEF r, n

\* A longer line is one whose last message is in line too.
LEMMA InLineAppended ==
  ASSUME NEW s \in Seq(Media), NEW f \in Media, NEW w, NEW n, NEW e, NEW l
  PROVE  InLine(Append(s, f), w, n, e, l) <=> InLine(s, w, n, e, l) /\ AtEnd(s, w, f, n, e, l)
<1> DEFINE r == Append(s, f)
           k == Len(s)
           Good(q, a) ==
              /\ \/ q[a].time <= n
                 \/ \E b \in 1..(a - 1) : Heard(q, w, b) /\ q[a].time <= q[b].time + 1
              /\ q[a].epoch = e =>
                    /\ q[a].time > l
                    /\ \A b \in 1..(a - 1) :
                          Heard(q, w, b) /\ q[b].epoch = e => q[b].time < q[a].time
<1>1. /\ k \in Nat /\ Len(r) = k + 1 /\ r[k + 1] = f /\ \A a \in 1..k : r[a] = s[a]
  BY Appended
<1>2. /\ \A a \in 1..k : Heard(r, w, a) <=> Heard(s, w, a)
      /\ Heard(r, w, k + 1) <=> f.type = "frame" /\ (w => Has(s, {"start"}))
  BY ZenonT(30), HeardAppended
<1> HIDE DEF r
<1>3. ASSUME NEW a \in 1..k PROVE Good(r, a) <=> Good(s, a)
  <2>1. r[a] = s[a] /\ \A b \in 1..(a - 1) : r[b] = s[b] /\ (Heard(r, w, b) <=> Heard(s, w, b))
    BY <1>1, <1>2
  <2> QED  BY <2>1
<1>4. (Heard(r, w, k + 1) => Good(r, k + 1)) <=> AtEnd(s, w, f, n, e, l)
  <2>1. (k + 1) - 1 = k  BY <1>1
  <2> QED  BY <1>1, <1>2, <2>1 DEF AtEnd
<1>5. InLine(s, w, n, e, l) <=> \A a \in 1..k : Heard(s, w, a) => Good(s, a)
  BY DEF InLine
<1>6. InLine(r, w, n, e, l) <=> \A a \in 1..(k + 1) : Heard(r, w, a) => Good(r, a)
  BY <1>1 DEF InLine
<1> HIDE DEF Good
<1>7. 1..(k + 1) = 1..k \cup {k + 1}  BY <1>1
<1> HIDE DEF k
<1> QED  BY <1>2, <1>3, <1>4, <1>5, <1>6, <1>7 DEF r

\* The first message is read, and what is heard after it stays so.
LEMMA PopLine ==
  ASSUME NEW q \in Seq(Media), q # <<>>, NEW w, NEW v, NEW n \in Nat, NEW n2 \in Nat,
         NEW e \in Nat, NEW l \in Int, NEW l2 \in Int,
         \A a \in 1..(Len(q) - 1) : Heard(Tail(q), v, a) <=> Heard(q, w, a + 1),
         InLine(q, w, n, e, l), n <= n2,
         Heard(q, w, 1) => q[1].time + 1 <= n2,
         l2 <= l \/ l2 = -1 \/ (Heard(q, w, 1) /\ q[1].epoch = e /\ l2 = q[1].time)
  PROVE  InLine(Tail(q), v, n2, e, l2)
<1> DEFINE r == Tail(q)
<1>1. /\ Len(r) = Len(q) - 1 /\ Len(q) \in Nat \ {0}
      /\ \A a \in 1..(Len(q) - 1) : r[a] = q[a + 1] /\ a + 1 \in 1..Len(q)
  BY Dropped
<1> HIDE DEF r
<1> SUFFICES ASSUME NEW a \in 1..Len(r), Heard(r, v, a)
             PROVE  /\ \/ r[a].time <= n2
                       \/ \E b \in 1..(a - 1) : Heard(r, v, b) /\ r[a].time <= r[b].time + 1
                    /\ r[a].epoch = e =>
                          /\ r[a].time > l2
                          /\ \A b \in 1..(a - 1) :
                                Heard(r, v, b) /\ r[b].epoch = e => r[b].time < r[a].time
  BY DEF InLine, r
<1>2. /\ a + 1 \in 1..Len(q) /\ Heard(q, w, a + 1) /\ r[a] = q[a + 1] /\ (a + 1) - 1 = a
      /\ r[a].time \in Nat
  BY <1>1, MediaTyped DEF r
<1>3. /\ \/ r[a].time <= n
         \/ \E b \in 1..a : Heard(q, w, b) /\ r[a].time <= q[b].time + 1
      /\ r[a].epoch = e =>
            /\ r[a].time > l
            /\ \A b \in 1..a : Heard(q, w, b) /\ q[b].epoch = e => q[b].time < r[a].time
  BY <1>2 DEF InLine
<1>4. r[a].time <= n2 \/ \E b \in 1..(a - 1) : Heard(r, v, b) /\ r[a].time <= r[b].time + 1
  <2>1. CASE r[a].time <= n  BY <1>2, <2>1
  <2>2. ASSUME NEW b \in 1..a, Heard(q, w, b), r[a].time <= q[b].time + 1
        PROVE  r[a].time <= n2 \/ \E c \in 1..(a - 1) : Heard(r, v, c)
                                                        /\ r[a].time <= r[c].time + 1
    <3>1. CASE b = 1
      <4>1. 1 \in 1..Len(q)  BY <1>1
      <4>2. q[1].time \in Nat  BY <4>1, MediaTyped
      <4> QED  BY <1>2, <2>2, <3>1, <4>2
    <3>2. CASE b # 1
      <4>1. b - 1 \in 1..(a - 1) /\ b - 1 \in 1..(Len(q) - 1) /\ (b - 1) + 1 = b
        BY <1>1, <3>2
      <4>2. Heard(r, v, b - 1) /\ r[b - 1] = q[b]  BY <1>1, <2>2, <4>1 DEF r
      <4> QED  BY <2>2, <4>1, <4>2
    <3> QED  BY <3>1, <3>2
  <2> QED  BY <1>3, <2>1, <2>2
<1>5. ASSUME r[a].epoch = e
      PROVE  /\ r[a].time > l2
             /\ \A b \in 1..(a - 1) :
                   Heard(r, v, b) /\ r[b].epoch = e => r[b].time < r[a].time
  <2>1. r[a].time > l2
    <3>1. 1 \in 1..a  OBVIOUS
    <3> QED  BY <1>2, <1>3, <1>5, <3>1
  <2>2. ASSUME NEW b \in 1..(a - 1), Heard(r, v, b), r[b].epoch = e
        PROVE  r[b].time < r[a].time
    <3>1. b + 1 \in 1..a /\ b \in 1..(Len(q) - 1)  BY <1>1
    <3>2. Heard(q, w, b + 1) /\ r[b] = q[b + 1]  BY <1>1, <2>2, <3>1 DEF r
    <3> QED  BY <1>3, <1>5, <2>2, <3>1, <3>2
  <2> QED  BY <2>1, <2>2
<1> QED  BY <1>4, <1>5

\* What is heard after the first message.
LEMMA HeardDropped ==
  ASSUME NEW q \in Seq(Media), q # <<>>, NEW w, ~w \/ q[1].type # "start"
  PROVE  \A a \in 1..(Len(q) - 1) : Heard(Tail(q), w, a) <=> Heard(q, w, a + 1)
<1> DEFINE r == Tail(q)
<1>1. /\ Len(r) = Len(q) - 1 /\ Len(q) \in Nat \ {0}
      /\ \A a \in 1..(Len(q) - 1) : r[a] = q[a + 1] /\ a + 1 \in 1..Len(q)
  BY Dropped
<1> HIDE DEF r
<1>2. ASSUME NEW a \in 1..(Len(q) - 1)
      PROVE  Heard(r, w, a) <=> Heard(q, w, a + 1)
  <2>1. r[a] = q[a + 1] /\ (a + 1) - 1 = a  BY <1>1
  <2>2. CASE ~w  BY <2>1, <2>2 DEF Heard
  <2>3. CASE q[1].type # "start"
    <3>1. ASSUME NEW b \in 1..(a - 1), r[b].type = "start"
          PROVE  \E c \in 1..a : q[c].type = "start"
      <4>1. b + 1 \in 1..a /\ r[b] = q[b + 1]  BY <1>1
      <4> QED  BY <3>1, <4>1
    <3>2. ASSUME NEW c \in 1..a, q[c].type = "start"
          PROVE  \E b \in 1..(a - 1) : r[b].type = "start"
      <4>1. c # 1  BY <2>3, <3>2
      <4>2. c - 1 \in 1..(a - 1) /\ (c - 1) + 1 = c /\ c - 1 \in 1..(Len(q) - 1)
        BY <1>1, <4>1
      <4>3. r[c - 1] = q[c]  BY <1>1, <4>2
      <4> QED  BY <3>2, <4>2, <4>3
    <3> QED  BY <2>1, <3>1, <3>2 DEF Heard
  <2> QED  BY <2>2, <2>3
<1> QED  BY <1>2 DEF r

\* Once play has started, everything behind the start is heard.
LEMMA HeardStarted ==
  ASSUME NEW q \in Seq(Media), q # <<>>, q[1].type = "start"
  PROVE  \A a \in 1..(Len(q) - 1) : Heard(Tail(q), FALSE, a) <=> Heard(q, TRUE, a + 1)
<1> DEFINE r == Tail(q)
<1>1. /\ Len(q) \in Nat \ {0}
      /\ \A a \in 1..(Len(q) - 1) : r[a] = q[a + 1] /\ a + 1 \in 1..Len(q)
  BY Dropped
<1> HIDE DEF r
<1>2. ASSUME NEW a \in 1..(Len(q) - 1)
      PROVE  Heard(r, FALSE, a) <=> Heard(q, TRUE, a + 1)
  <2>1. r[a] = q[a + 1] /\ 1 \in 1..((a + 1) - 1)  BY <1>1
  <2> QED  BY <2>1 DEF Heard
<1> QED  BY <1>2 DEF r

\* Of an epoch that no message has, nothing is said.
LEMMA FreshLine ==
  ASSUME NEW q \in Seq(Media), NEW w, NEW n \in Nat, NEW n2 \in Nat, n <= n2,
         NEW e, NEW l, NEW d \in Nat, NEW k, InLine(q, w, n, e, l),
         \A a \in 1..Len(q) : q[a].epoch < d
  PROVE  InLine(q, w, n2, d, k)
<1>1. ASSUME NEW a \in 1..Len(q), Heard(q, w, a)
      PROVE  /\ \/ q[a].time <= n2
                \/ \E b \in 1..(a - 1) : Heard(q, w, b) /\ q[a].time <= q[b].time + 1
             /\ q[a].epoch # d
  <2>1. q[a].time \in Nat /\ q[a].epoch \in Nat  BY MediaTyped
  <2>2. q[a].epoch # d  BY <2>1
  <2>3. \/ q[a].time <= n
        \/ \E b \in 1..(a - 1) : Heard(q, w, b) /\ q[a].time <= q[b].time + 1
    BY <1>1 DEF InLine
  <2>4. q[a].time <= n => q[a].time <= n2  BY <2>1
  <2> QED  BY <2>2, <2>3, <2>4
<1> QED  BY <1>1 DEF InLine

\* A line that goes on from n goes on from any later frame, and one after l from l back.
LEMMA WiderLine ==
  ASSUME NEW q \in Seq(Media), NEW w, NEW n \in Nat, NEW n2 \in Nat, n <= n2,
         NEW e, NEW l \in Int, NEW k \in Int, k <= l \/ k = -1, InLine(q, w, n, e, l)
  PROVE  InLine(q, w, n2, e, k)
<1>1. ASSUME NEW a \in 1..Len(q), Heard(q, w, a)
      PROVE  /\ \/ q[a].time <= n2
                \/ \E b \in 1..(a - 1) : Heard(q, w, b) /\ q[a].time <= q[b].time + 1
             /\ q[a].epoch = e =>
                   /\ q[a].time > k
                   /\ \A b \in 1..(a - 1) :
                         Heard(q, w, b) /\ q[b].epoch = e => q[b].time < q[a].time
  <2>1. q[a].time \in Nat  BY MediaTyped
  <2>2. /\ \/ q[a].time <= n
           \/ \E b \in 1..(a - 1) : Heard(q, w, b) /\ q[a].time <= q[b].time + 1
        /\ q[a].epoch = e =>
              /\ q[a].time > l
              /\ \A b \in 1..(a - 1) :
                    Heard(q, w, b) /\ q[b].epoch = e => q[b].time < q[a].time
    BY <1>1 DEF InLine
  <2>3. q[a].time <= n => q[a].time <= n2  BY <2>1
  <2>4. q[a].time > l => q[a].time > k  BY <2>1
  <2> QED  BY <2>2, <2>3, <2>4
<1> QED  BY <1>1 DEF InLine

\* While no stream has started nothing is heard.
LEMMA UnheardLine ==
  ASSUME NEW q, ~Has(q, {"start"}), NEW n, NEW e, NEW l, Len(q) \in Nat
  PROVE  InLine(q, TRUE, n, e, l)
<1>1. ASSUME NEW a \in 1..Len(q) PROVE ~Heard(q, TRUE, a)
  <2>1. \A b \in 1..(a - 1) : b \in 1..Len(q)  OBVIOUS
  <2> QED  BY <2>1 DEF Heard, Has
<1> QED  BY <1>1 DEF InLine

\* A message that is no frame, before the frame that would be sent next.
LEMMA InsertLine ==
  ASSUME NEW s \in Seq(Media), NEW x \in Media, NEW f \in Media, NEW w, NEW n, NEW e, NEW l,
         x.type # "frame", ~w \/ x.type # "start", InLine(Append(s, f), w, n, e, l)
  PROVE  InLine(Append(Append(s, x), f), w, n, e, l)
<1> DEFINE r == Append(s, x)
<1>1. r \in Seq(Media) /\ Len(r) = Len(s) + 1 /\ Len(s) \in Nat
      /\ \A a \in 1..Len(s) : r[a] = s[a]
  BY Appended
<1>2. InLine(s, w, n, e, l) /\ AtEnd(s, w, f, n, e, l)  BY InLineAppended
<1>3. AtEnd(s, w, x, n, e, l)  BY DEF AtEnd
<1>4. InLine(r, w, n, e, l)  BY <1>2, <1>3, InLineAppended
<1>5. /\ \A a \in 1..Len(s) : Heard(r, w, a) <=> Heard(s, w, a)
      /\ ~Heard(r, w, Len(s) + 1)
      /\ (w => Has(r, {"start"})) <=> (w => Has(s, {"start"}))
  BY HeardAppended, AppendedTypes
<1> HIDE DEF r
<1>6. AtEnd(r, w, f, n, e, l)
  <2> SUFFICES ASSUME f.type = "frame" /\ (w => Has(s, {"start"}))
               PROVE  /\ \/ f.time <= n
                         \/ \E b \in 1..Len(r) : Heard(r, w, b) /\ f.time <= r[b].time + 1
                      /\ f.epoch = e =>
                            /\ f.time > l
                            /\ \A b \in 1..Len(r) :
                                  Heard(r, w, b) /\ r[b].epoch = e => r[b].time < f.time
    BY <1>5 DEF AtEnd
  <2>1. /\ \/ f.time <= n
           \/ \E b \in 1..Len(s) : Heard(s, w, b) /\ f.time <= s[b].time + 1
        /\ f.epoch = e =>
              /\ f.time > l
              /\ \A b \in 1..Len(s) : Heard(s, w, b) /\ s[b].epoch = e => s[b].time < f.time
    BY <1>2 DEF AtEnd
  <2>2. 1..Len(r) = 1..Len(s) \cup {Len(s) + 1}  BY <1>1
  <2>3. \A b \in 1..Len(s) : r[b] = s[b] /\ (Heard(r, w, b) <=> Heard(s, w, b)) /\ b \in 1..Len(r)
    BY <1>1, <1>5, <2>2
  <2>4. \A b \in 1..Len(r) : Heard(r, w, b) => b \in 1..Len(s)
    BY <1>5, <2>2
  <2> QED  BY <2>1, <2>3, <2>4
<1>7. InLine(Append(r, f), w, n, e, l)  BY <1>1, <1>4, <1>6, InLineAppended
<1> QED  BY <1>7 DEF r

\* The answer to play, before the frame from which the stream goes on.
LEMMA StartLine ==
  ASSUME NEW s \in Seq(Media), NEW x \in Media, NEW f \in Media, NEW n, NEW e, NEW l,
         x.type # "frame", ~Has(s, {"start"}), f.time <= n, f.time > l
  PROVE  InLine(Append(Append(s, x), f), TRUE, n, e, l)
<1> DEFINE r == Append(s, x)
<1>1. r \in Seq(Media) /\ Len(r) = Len(s) + 1 /\ Len(s) \in Nat
  BY Appended
<1>2. InLine(s, TRUE, n, e, l)  BY <1>1, UnheardLine
<1>3. AtEnd(s, TRUE, x, n, e, l)  BY DEF AtEnd
<1>4. InLine(r, TRUE, n, e, l)  BY <1>2, <1>3, InLineAppended
<1>5. \A a \in 1..Len(r) : ~Heard(r, TRUE, a)
  <2>1. \A a \in 1..Len(s) : ~Heard(s, TRUE, a)
    <3>1. ASSUME NEW a \in 1..Len(s) PROVE ~Heard(s, TRUE, a)
      <4>1. \A b \in 1..(a - 1) : b \in 1..Len(s)  OBVIOUS
      <4> QED  BY <4>1 DEF Heard, Has
    <3> QED  BY <3>1
  <2>2. 1..Len(r) = 1..Len(s) \cup {Len(s) + 1}  BY <1>1
  <2>3. /\ \A a \in 1..Len(s) : Heard(r, TRUE, a) <=> Heard(s, TRUE, a)
        /\ ~Heard(r, TRUE, Len(s) + 1)
    BY HeardAppended
  <2> QED  BY <2>1, <2>2, <2>3
<1> HIDE DEF r
<1>6. AtEnd(r, TRUE, f, n, e, l)  BY <1>5 DEF AtEnd
<1>7. InLine(Append(r, f), TRUE, n, e, l)  BY <1>1, <1>4, <1>6, InLineAppended
<1> QED  BY <1>7 DEF r

\* The server goes on from elsewhere, in an epoch of its own.
LEMMA MovedLine ==
  ASSUME NEW s \in Seq(Media), NEW f \in Media, NEW g \in Media, NEW w, NEW n, NEW e \in Nat,
         NEW l, InLine(Append(s, f), w, n, e, l),
         \A a \in 1..Len(s) : s[a].epoch < g.epoch,
         g.time <= n, g.epoch = e => g.time > l
  PROVE  InLine(Append(s, g), w, n, e, l)
<1>1. InLine(s, w, n, e, l)  BY InLineAppended
<1>2. \A a \in 1..Len(s) : s[a].epoch # g.epoch
  <2>1. g.epoch \in Nat  BY DEF Media
  <2> QED  BY <2>1, MediaTyped
<1>3. AtEnd(s, w, g, n, e, l)  BY <1>2 DEF AtEnd
<1> QED  BY <1>1, <1>3, InLineAppended

\* The frame is sent, and the next one is to be sent next.
LEMMA NextLine ==
  ASSUME NEW s \in Seq(Media), NEW f \in Media, NEW g \in Media, NEW w, NEW n, NEW e,
         NEW l \in Int, InLine(Append(s, f), w, n, e, l), f.type = "frame",
         g.type = "frame", g.time = f.time + 1, g.epoch = f.epoch
  PROVE  InLine(Append(Append(s, f), g), w, n, e, l)
<1> DEFINE r == Append(s, f)
<1>1. /\ r \in Seq(Media) /\ Len(r) = Len(s) + 1 /\ Len(s) \in Nat /\ r[Len(s) + 1] = f
      /\ \A a \in 1..Len(s) : r[a] = s[a]
  BY Appended
<1>2. AtEnd(s, w, f, n, e, l)  BY InLineAppended
<1>3. /\ \A a \in 1..Len(s) : Heard(r, w, a) <=> Heard(s, w, a)
      /\ Heard(r, w, Len(s) + 1) <=> (w => Has(s, {"start"}))
      /\ (w => Has(r, {"start"})) <=> (w => Has(s, {"start"}))
  <2>1. Has(r, {"start"}) <=> Has(s, {"start"})
    <3>1. f.type \notin {"start"}  OBVIOUS
    <3> QED  BY <3>1, AppendedTypes
  <2> QED  BY <2>1, HeardAppended
<1>7. InLine(r, w, n, e, l)  OBVIOUS
<1> HIDE DEF r
<1>4. f.time \in Nat /\ g.time \in Nat  BY DEF Media
<1>5. AtEnd(r, w, g, n, e, l)
  <2> SUFFICES ASSUME w => Has(s, {"start"})
               PROVE  /\ \E b \in 1..Len(r) : Heard(r, w, b) /\ g.time <= r[b].time + 1
                      /\ g.epoch = e =>
                            /\ g.time > l
                            /\ \A b \in 1..Len(r) :
                                  Heard(r, w, b) /\ r[b].epoch = e => r[b].time < g.time
    BY <1>3 DEF AtEnd
  <2>1. Len(r) \in 1..Len(r) /\ Heard(r, w, Len(r)) /\ r[Len(r)] = f  BY <1>1, <1>3
  <2>2. g.time <= f.time + 1  BY <1>4
  <2>3. ASSUME g.epoch = e
        PROVE  /\ g.time > l
               /\ \A b \in 1..Len(r) : Heard(r, w, b) /\ r[b].epoch = e => r[b].time < g.time
    <3>1. /\ f.time > l
          /\ \A b \in 1..Len(s) : Heard(s, w, b) /\ s[b].epoch = e => s[b].time < f.time
      BY <1>2, <2>3 DEF AtEnd
    <3>2. g.time > l  BY <1>4, <3>1
    <3>3. ASSUME NEW b \in 1..Len(r), Heard(r, w, b), r[b].epoch = e
          PROVE  r[b].time < g.time
      <4>1. CASE b = Len(r)  BY <1>4, <2>1, <4>1
      <4>2. CASE b # Len(r)
        <5>1. b \in 1..Len(s)  BY <1>1, <4>2
        <5>2. r[b].time < f.time  BY <1>1, <1>3, <3>1, <3>3, <5>1
        <5>3. r[b].time \in Nat  BY <1>1, MediaTyped
        <5> QED  BY <1>4, <5>2, <5>3
      <4> QED  BY <4>1, <4>2
    <3> QED  BY <3>2, <3>3
  <2> QED  BY <2>1, <2>2, <2>3
<1>6. InLine(Append(r, g), w, n, e, l)  BY <1>1, <1>5, <1>7, InLineAppended
<1> QED  BY <1>6 DEF r

-----------------------------------------------------------------------------
(* The frames, step by step: what every step needs.                        *)

\* Commands that let the server go on from a wanted frame: one more, a later frame, one less.
LEMMA BeginAppended ==
  ASSUME NEW s \in Seq(Commands), NEW x \in Commands, NEW n \in Nat, NEW k \in Nat, n <= k,
         AllBegin(s, n), Begins(x, k)
  PROVE  AllBegin(Append(s, x), k)
<1> DEFINE r == Append(s, x)
<1>1. \A a \in 1..Len(r) : (a \in 1..Len(s) /\ r[a] = s[a]) \/ r[a] = x
  BY AppendedAll
<1> HIDE DEF r
<1>2. ASSUME NEW a \in 1..Len(s) PROVE Begins(s[a], k)
  <2>1. s[a].time \in Nat
    <3>1. s[a] \in Commands  OBVIOUS
    <3> QED  BY <3>1, TimesTyped DEF Commands
  <2> QED  BY <2>1 DEF AllBegin, Begins
<1> QED  BY <1>1, <1>2 DEF AllBegin, r

LEMMA BeginWider ==
  ASSUME NEW s \in Seq(Commands), NEW n \in Nat, NEW k \in Nat, n <= k, AllBegin(s, n)
  PROVE  AllBegin(s, k)
<1>1. ASSUME NEW a \in 1..Len(s) PROVE Begins(s[a], k)
  <2>1. s[a].time \in Nat
    <3>1. s[a] \in Commands  OBVIOUS
    <3> QED  BY <3>1, TimesTyped DEF Commands
  <2> QED  BY <2>1 DEF AllBegin, Begins
<1> QED  BY <1>1 DEF AllBegin

LEMMA BeginDropped ==
  ASSUME NEW s \in Seq(Commands), s # <<>>, NEW n, AllBegin(s, n)
  PROVE  AllBegin(Tail(s), n) /\ Begins(Head(s), n)
<1>1. /\ \A a \in 1..Len(Tail(s)) : Tail(s)[a] = s[a + 1] /\ a + 1 \in 1..Len(s)
      /\ Head(s) = s[1] /\ 1 \in 1..Len(s)
  BY Dropped
<1> QED  BY <1>1 DEF AllBegin

\* The output, the frame that is wanted next and the frames not expected again.
LEMMA OutputFacts ==
  ASSUME TypeInv, NEW m \in Times, UpTo(Output, m)
  PROVE  /\ Output \in Seq(Times) /\ Len(Output) \in Nat
         /\ m \in Nat
         /\ Output = <<>> => m = 0
         /\ Wanted(m) \in Nat /\ m <= Wanted(m)
         /\ early \/ m > 0 \/ ended \/ Output # <<>> => Wanted(m) = m + 1
         /\ LastFrame \in Nat /\ LastFrame <= m
         /\ Floor \in Int
         /\ Floor = -1 \/ (Clean /\ pausing = 0 /\ Output # <<>>)
<1>1. Output \in Seq(Times)  BY DEF TypeInv, Queues, Output
<1>2. Len(Output) \in Nat /\ m \in Nat  BY <1>1, TimesTyped
<1>3. Output = <<>> => m = 0
  <2> SUFFICES ASSUME Output = <<>>, m # 0 PROVE FALSE
    OBVIOUS
  <2>1. m \in 1..m  BY <1>2
  <2>2. \E i \in 1..Len(Output) : TRUE  BY <2>1 DEF UpTo
  <2>3. Len(Output) = 0  OBVIOUS
  <2> QED  BY <2>2, <2>3
<1>4. /\ Wanted(m) = IF Output = <<>> /\ ~early /\ ~ended THEN 0 ELSE m + 1
      /\ early \/ m > 0 \/ ended \/ Output # <<>> => Wanted(m) = m + 1
  BY <1>2, <1>3 DEF Wanted
<1>5. Wanted(m) \in Nat /\ m <= Wanted(m)
  BY <1>2, <1>3, <1>4
<1>6. LastFrame \in Nat /\ LastFrame <= m
  <2>1. CASE Output = <<>>
    <3>1. LastFrame = 0  BY <2>1 DEF LastFrame, Output
    <3> QED  BY <1>2, <3>1
  <2>2. CASE Output # <<>>
    <3>1. LastFrame = Output[Len(Output)]  BY <2>2 DEF LastFrame, Output
    <3>2. Len(Output) \in 1..Len(Output)  BY <1>1, <2>2
    <3>3. Output[Len(Output)] \in Times  BY <1>1, <3>2
    <3> QED  BY <3>1, <3>2, <3>3, TimesTyped DEF UpTo
  <2> QED  BY <2>1, <2>2
<1>7. Floor \in Int /\ (Floor = -1 \/ (Clean /\ pausing = 0 /\ Output # <<>>))
  BY <1>6 DEF Floor
<1> QED  BY <1>1, <1>2, <1>3, <1>4, <1>5, <1>6, <1>7

\* The line as a queue of frames and messages with a time.
LEMMA LineFacts ==
  ASSUME TypeInv
  PROVE  /\ toClient \in Seq(Media) /\ Frame(pos) \in Media
         /\ Line \in Seq(Media) /\ Line = Append(toClient, Frame(pos))
         /\ toClient # <<>> => /\ Line[1] = Head(toClient)
                               /\ Tail(Line) = Append(Tail(toClient), Frame(pos))
         /\ Line # <<>> /\ unpauses \in Nat /\ epoch \in Nat
<1>1. Messages \subseteq Media  BY TimesTyped DEF Messages, Media
<1>2. toClient \in Seq(Messages)  BY DEF TypeInv, Queues
<1>3. toClient \in Seq(Media)  BY <1>1, <1>2
<1>4. Frame(pos) \in Media
  BY StreamAssumption DEF TypeInv, Numbers, Frame, Media, MessageTypes
<1>5. unpauses \in Nat /\ epoch \in Nat  BY DEF TypeInv, Numbers
<1> DEFINE f == Frame(pos)
<1>6. f \in Media /\ Line = Append(toClient, f)  BY <1>4 DEF Line
<1> HIDE DEF f
<1>7. Line \in Seq(Media) /\ Line # <<>>  BY <1>3, <1>6
<1>8. ASSUME toClient # <<>>
      PROVE  Line[1] = Head(toClient) /\ Tail(Line) = Append(Tail(toClient), f)
  BY <1>3, <1>6, <1>8
<1> QED  BY <1>3, <1>4, <1>5, <1>6, <1>7, <1>8 DEF f

LEMMA InLineSame ==
  ASSUME NEW q, NEW w, NEW v, w <=> v, NEW n, NEW e, NEW l, InLine(q, w, n, e, l)
  PROVE  InLine(q, v, n, e, l)
<1>1. \A a : Heard(q, w, a) <=> Heard(q, v, a)  BY DEF Heard
<1> QED  BY <1>1 DEF InLine

\* A message is read that is not heard, or the next frame.
LEMMA LinePopped ==
  ASSUME TypeInv, toClient # <<>>, toClient' = Tail(toClient), pos' = pos, epoch' = epoch,
         NEW w, NEW n \in Nat, NEW n2 \in Nat, n <= n2, NEW e \in Nat, NEW l \in Int,
         NEW l2 \in Int, InLine(Line, w, n, e, l),
         ~w \/ Head(toClient).type # "start",
         ~w /\ Head(toClient).type = "frame" => Head(toClient).time + 1 <= n2,
         \/ l2 <= l \/ l2 = -1
         \/ /\ ~w /\ Head(toClient).type = "frame" /\ Head(toClient).epoch = e
            /\ l2 = Head(toClient).time
  PROVE  InLine(Line', w, n2, e, l2)
<1>1. /\ Line \in Seq(Media) /\ Line # <<>> /\ Line[1] = Head(toClient)
      /\ Line' = Tail(Line)
  BY LineFacts DEF Line, Frame
<1>2. \A a \in 1..(Len(Line) - 1) : Heard(Tail(Line), w, a) <=> Heard(Line, w, a + 1)
  BY <1>1, HeardDropped
<1>3. Heard(Line, w, 1) <=> ~w /\ Head(toClient).type = "frame"
  <2>1. ~ \E b \in 1..(1 - 1) : Line[b].type = "start"  OBVIOUS
  <2> QED  BY <1>1, <2>1 DEF Heard
<1> QED  BY <1>1, <1>2, <1>3, PopLine

\* Play starts: the frames behind the start are no longer ignored.
LEMMA LineStarted ==
  ASSUME TypeInv, toClient # <<>>, toClient' = Tail(toClient), pos' = pos, epoch' = epoch,
         NEW n \in Nat, NEW e \in Nat, NEW l \in Int, InLine(Line, TRUE, n, e, l),
         Head(toClient).type = "start"
  PROVE  InLine(Line', FALSE, n, e, l)
<1>1. /\ Line \in Seq(Media) /\ Line # <<>> /\ Line[1] = Head(toClient)
      /\ Line' = Tail(Line)
  BY LineFacts DEF Line, Frame
<1>2. \A a \in 1..(Len(Line) - 1) : Heard(Tail(Line), FALSE, a) <=> Heard(Line, TRUE, a + 1)
  BY <1>1, HeardStarted
<1>3. ~Heard(Line, TRUE, 1)  BY <1>1 DEF Heard
<1> DEFINE w == TRUE
           v == FALSE
<1>4. /\ \A a \in 1..(Len(Line) - 1) : Heard(Tail(Line), v, a) <=> Heard(Line, w, a + 1)
      /\ ~Heard(Line, w, 1) /\ InLine(Line, w, n, e, l)
  BY <1>2, <1>3
<1> HIDE DEF w, v
<1>5. n <= n /\ l <= l  OBVIOUS
<1>6. InLine(Tail(Line), v, n, e, l)  BY <1>1, <1>4, <1>5, PopLine
<1> QED  BY <1>1, <1>6 DEF v

\* What is left to show of a step that leaves the output alone.
LEMMA FramesKept ==
  ASSUME TypeInv, NEW m \in Times, FrameInv(m), UNCHANGED <<file, buffer>>,
         early => early', Clean' => Clean,
         pc' # "done" => mediaStamp' <= m /\ channelStamp' <= m /\ pauseStamp' <= m
                         /\ timestamp' <= m,
         Open' => OpenInv(m)'
  PROVE  FrameInv(m)'
<1>1. Output' = Output  BY DEF Output
<1>2. UpTo(Output, m)'  BY <1>1 DEF FrameInv, UpTo
<1>3. (Clean => InOrder(Output))'  BY <1>1 DEF FrameInv, InOrder
<1> QED  BY <1>2, <1>3 DEF FrameInv

\* The output is as it was, and what is wanted next is not earlier.
LEMMA OutputKept ==
  ASSUME TypeInv, NEW m \in Times, FrameInv(m), UNCHANGED <<file, buffer>>, early => early',
         ended => ended' \/ early' \/ Output # <<>>
  PROVE  /\ Output' = Output /\ LastFrame' = LastFrame
         /\ Wanted(m)' \in Nat /\ Wanted(m) <= Wanted(m)'
         /\ early' => Wanted(m)' = m + 1
<1>1. Output' = Output /\ LastFrame' = LastFrame  BY DEF Output, LastFrame
<1>2. /\ m \in Nat
      /\ Wanted(m)' = IF Output = <<>> /\ ~early' /\ ~ended' THEN 0 ELSE m + 1
      /\ Wanted(m) = IF Output = <<>> /\ ~early /\ ~ended THEN 0 ELSE m + 1
  BY <1>1, OutputFacts DEF Wanted, FrameInv
<1>3. Wanted(m)' \in Nat /\ Wanted(m) <= Wanted(m)'  BY <1>2
<1> QED  BY <1>1, <1>2, <1>3

\* It is enough to look at the commands, the line and the epoch.
LEMMA OpenKept ==
  ASSUME TypeInv, NEW m \in Times, FrameInv(m), Open,
         UNCHANGED <<file, buffer, gotHeader, mediaStamp>>, early => early', Clean' <=> Clean,
         pausing' = pausing \/ (pausing # 0 /\ pausing' # 0),
         AllBegin(toServer', Wanted(m)'),
         InLine(Line', Waiting', Wanted(m)', unpauses', Floor),
         Clean /\ pausing = 0 /\ Output # <<>> => epoch' = unpauses'
  PROVE  OpenInv(m)'
<1>1. Output' = Output /\ LastFrame' = LastFrame  BY DEF Output, LastFrame
<1>2. OpenInv(m)  BY DEF FrameInv
<1>3. (m > 0 => gotHeader)' /\ (gotHeader => Output # <<>>)'  BY <1>1, <1>2 DEF OpenInv
<1>4. (pausing # 0 => early \/ gotHeader)'  BY <1>2 DEF OpenInv
<1>5. (Clean /\ pausing # 0 => LastFrame <= mediaStamp)'  BY <1>1, <1>2 DEF OpenInv
<1>6. (Clean /\ pausing = 0 /\ Output # <<>> => epoch = unpauses)'  BY <1>1
<1>7. InLine(Line', Waiting', Wanted(m)', unpauses', Floor')
  <2>1. Floor' = Floor  BY <1>1 DEF Floor
  <2> QED  BY <2>1
<1> QED  BY <1>3, <1>4, <1>5, <1>6, <1>7 DEF OpenInv, AllBegin

\* A step that does not touch what the frames depend on.
LEMMA SameFrames ==
  ASSUME TypeInv, NEW m \in Times, FrameInv(m),
         UNCHANGED <<file, buffer, mediaStamp, channelStamp, pauseStamp, ended, gotHeader,
                     pausing, toServer, toClient, pos, epoch, unpauses, late, lagging, early>>,
         pc' # "done" => pc # "done" /\ timestamp' <= m,
         Open' => Open /\ (Waiting' <=> Waiting)
  PROVE  FrameInv(m)'
<1>1. ASSUME Open' PROVE OpenInv(m)'
  <2>1. Open /\ (Waiting' <=> Waiting) /\ OpenInv(m)  BY <1>1 DEF FrameInv
  <2>2. Line' = Line  BY DEF Line, Frame
  <2>3. Wanted(m)' = Wanted(m)  BY DEF Wanted, Output
  <2>4. InLine(Line', Waiting', Wanted(m)', unpauses', Floor)
    BY <2>1, <2>2, <2>3, InLineSame DEF OpenInv
  <2>5. AllBegin(toServer', Wanted(m)')  BY <2>1, <2>3 DEF OpenInv
  <2>6. (Clean' <=> Clean) /\ (Clean /\ pausing = 0 /\ Output # <<>> => epoch' = unpauses')
    BY <2>1 DEF Clean, OpenInv
  <2> QED  BY <2>1, <2>4, <2>5, <2>6, OpenKept
<1>2. Clean' => Clean  BY DEF Clean
<1>3. pc' # "done" => mediaStamp' <= m /\ channelStamp' <= m /\ pauseStamp' <= m
                      /\ timestamp' <= m
  BY DEF FrameInv
<1> QED  BY <1>1, <1>2, <1>3, FramesKept

\* No message is of an epoch that has not begun.
LEMMA LineEpochs ==
  ASSUME TypeInv, EpochInv
  PROVE  /\ epoch <= unpauses /\ epoch \in Nat /\ unpauses \in Nat
         /\ \A a \in 1..Len(Line) : Line[a].epoch < unpauses + 1
         /\ \A a \in 1..Len(toClient) : toClient[a].epoch < epoch + 1
         /\ epoch = unpauses => \A a \in 1..Len(toServer) : ~IsUnpause(toServer[a])
<1>1. epoch \in Nat /\ unpauses \in Nat /\ toServer \in Seq(Commands)
  BY DEF TypeInv, Numbers, Queues
<1>2. /\ epoch <= unpauses
      /\ epoch = unpauses => \A a \in 1..Len(toServer) : ~IsUnpause(toServer[a])
  BY <1>1, CountsEnd DEF EpochInv
<1>3. toClient \in Seq(Media) /\ Frame(pos) \in Media /\ Line = Append(toClient, Frame(pos))
  BY LineFacts
<1>4. ASSUME NEW a \in 1..Len(toClient)
      PROVE  toClient[a].epoch < epoch + 1 /\ toClient[a].epoch < unpauses + 1
  <2>1. toClient[a].epoch \in Nat /\ toClient[a].epoch <= epoch
    BY <1>3, MediaTyped DEF EpochInv
  <2> QED  BY <1>1, <1>2, <2>1
<1>5. ASSUME NEW a \in 1..Len(Line) PROVE Line[a].epoch < unpauses + 1
  <2>1. (a \in 1..Len(toClient) /\ Line[a] = toClient[a]) \/ Line[a] = Frame(pos)
    BY <1>3, AppendedAll
  <2>2. Frame(pos).epoch = epoch  BY DEF Frame
  <2> QED  BY <1>1, <1>2, <1>4, <2>1, <2>2
<1> QED  BY <1>1, <1>2, <1>4, <1>5

\* A message is read, and at most one command sent for it.
LEMMA ReadKept ==
  ASSUME TypeInv, EpochInv, NEW m \in Times, FrameInv(m), Open, toClient # <<>>,
         toClient' = Tail(toClient), Head(toClient).type # "start",
         Head(toClient).type = "frame" => Waiting,
         UNCHANGED <<file, buffer, gotHeader, mediaStamp, channelStamp, timestamp, ended, pos,
                     epoch, pc, bPlaying, connected, late, lagging, early>>,
         pauseStamp' = pauseStamp,
         pausing' = pausing \/ (pausing # 0 /\ pausing' # 0),
         \/ toServer' = toServer /\ unpauses' = unpauses
         \/ \E c \in Commands :
               /\ toServer' = Append(toServer, c) /\ Begins(c, Wanted(m))
               /\ unpauses' = unpauses \/ (unpauses' = unpauses + 1 /\ pausing # 0)
  PROVE  FrameInv(m)'
<1>1. OpenInv(m) /\ UpTo(Output, m) /\ toServer \in Seq(Commands)
  BY DEF FrameInv, TypeInv, Queues
<1>2. Wanted(m) \in Nat /\ Floor \in Int  BY <1>1, OutputFacts
<1>3. unpauses \in Nat /\ unpauses + 1 \in Nat /\ unpauses' \in {unpauses, unpauses + 1}
  BY LineFacts
<1>4. Wanted(m)' = Wanted(m) /\ Wanted(m) <= Wanted(m) /\ Floor <= Floor
  BY <1>2 DEF Wanted, Output
<1>5. InLine(Line, Waiting, Wanted(m), unpauses', Floor)
  <2>1. InLine(Line, Waiting, Wanted(m), unpauses, Floor)  BY <1>1 DEF OpenInv
  <2>2. InLine(Line, Waiting, Wanted(m), unpauses + 1, Floor)
    BY <1>2, <1>3, <1>4, <2>1, LineFacts, LineEpochs, FreshLine
  <2> QED  BY <1>3, <2>1, <2>2
<1>6. InLine(Line', Waiting, Wanted(m), unpauses', Floor)
  BY <1>2, <1>3, <1>4, <1>5, LinePopped
<1>7. InLine(Line', Waiting', Wanted(m)', unpauses', Floor)
  <2>1. Waiting' <=> Waiting  BY DEF Waiting
  <2> QED  BY <1>4, <1>6, <2>1, InLineSame
<1>8. AllBegin(toServer', Wanted(m)')
  <2>1. AllBegin(toServer, Wanted(m))  BY <1>1 DEF OpenInv
  <2>2. ASSUME NEW c \in Commands, toServer' = Append(toServer, c), Begins(c, Wanted(m))
        PROVE  AllBegin(toServer', Wanted(m))
    BY <1>1, <1>2, <1>4, <2>1, <2>2, BeginAppended
  <2> QED  BY <1>4, <2>1, <2>2
<1>9. Clean /\ pausing = 0 /\ Output # <<>> => epoch' = unpauses'
  BY <1>1 DEF OpenInv
<1>10. Clean' <=> Clean  BY DEF Clean
<1>11. OpenInv(m)'  BY <1>7, <1>8, <1>9, <1>10, OpenKept
<1>12. pc' # "done" => mediaStamp' <= m /\ channelStamp' <= m /\ pauseStamp' <= m
                       /\ timestamp' <= m
  BY DEF FrameInv
<1> QED  BY <1>10, <1>11, <1>12, FramesKept

\* A step of the server.
LEMMA ServerKept ==
  ASSUME TypeInv, NEW m \in Times, FrameInv(m), Open, ClientUnchanged,
         AllBegin(toServer', Wanted(m)), InLine(Line', Waiting, Wanted(m), unpauses, Floor),
         epoch' = epoch \/ ~(Clean /\ pausing = 0 /\ Output # <<>>)
  PROVE  FrameInv(m)'
<1> USE DEF ClientUnchanged, mainVars, rtmpVars, mediaVars, readVars, historyVars
<1>1. Wanted(m)' = Wanted(m) /\ (Waiting' <=> Waiting) /\ (Clean' <=> Clean)
  BY DEF Wanted, Output, Waiting, Clean
<1>2. InLine(Line', Waiting', Wanted(m)', unpauses', Floor)
  <2>1. InLine(Line', Waiting', Wanted(m), unpauses, Floor)  BY <1>1, InLineSame
  <2> QED  BY <1>1, <2>1
<1>3. Clean /\ pausing = 0 /\ Output # <<>> => epoch' = unpauses'
  BY DEF FrameInv, OpenInv
<1>4. OpenInv(m)'
  <2>1. AllBegin(toServer', Wanted(m)')  BY <1>1
  <2> QED  BY <1>1, <1>2, <1>3, <2>1, OpenKept
<1>5. pc' # "done" => mediaStamp' <= m /\ channelStamp' <= m /\ pauseStamp' <= m
                      /\ timestamp' <= m
  BY DEF FrameInv
<1> QED  BY <1>1, <1>4, <1>5, FramesKept

-----------------------------------------------------------------------------
(* The frames, step by step: the server.                                   *)

\* The frame that the server would send after a step.
NextFrame == [type |-> "frame", time |-> pos', epoch |-> epoch']

LEMMA NextFrameTyped ==
  ASSUME TypeInv'
  PROVE  /\ NextFrame \in Media /\ NextFrame.type = "frame"
         /\ NextFrame.time = pos' /\ NextFrame.epoch = epoch'
         /\ Line' = Append(toClient', NextFrame)
<1>1. pos' \in 0..(LastTime + 1) /\ epoch' \in Nat  BY DEF TypeInv, Numbers
<1>2. pos' \in Nat  BY <1>1, StreamAssumption
<1> QED  BY <1>1, <1>2 DEF NextFrame, Media, MessageTypes, Line, Frame

LEMMA MessageMedia ==
  ASSUME NEW x \in MessageTypes
  PROVE  Message(x) \in Media /\ Message(x).type = x
  BY MessageTyped, TimesTyped DEF Messages, Media

\* A play or an unpause lets the server go on from a frame that is not behind what is wanted.
LEMMA FramesServerCommand ==
  ASSUME TypeInv, TypeInv', ControlInv, CallInv, EpochInv, NEW m \in Times, FrameInv(m),
         ServerCommand
  PROVE  FrameInv(m)'
<1> DEFINE c == Head(toServer)
           n == Wanted(m)
           q == Append(toClient, Frame(pos))
           f == NextFrame
<1>1. /\ Queues /\ toServer # <<>> /\ toServer' = Tail(toServer) /\ ClientUnchanged /\ Open
      /\ epoch' = IF c.type = "unpause" THEN epoch + 1 ELSE epoch
      /\ c.type = "play" => pos' \in 0..c.time
      /\ c.type = "unpause" => pos' \in 0..(c.time + 1)
      /\ c.type \notin {"play", "unpause"} => pos' = pos
  BY DEF ServerCommand, TypeInv, MaySend, Open
<1>2. OpenInv(m) /\ UpTo(Output, m) /\ toServer \in Seq(Commands) /\ toClient \in Seq(Media)
  BY <1>1, LineFacts DEF FrameInv, Queues
<1>3. /\ n \in Nat /\ Floor \in Int /\ epoch \in Nat /\ unpauses \in Nat
      /\ Floor = -1 \/ (Clean /\ pausing = 0 /\ Output # <<>>)
  BY <1>2, OutputFacts, LineFacts
<1>4. AllBegin(toServer', n) /\ Begins(c, n)
  BY <1>1, <1>2, BeginDropped DEF OpenInv
<1>5. InLine(q, Waiting, n, unpauses, Floor)  BY <1>2 DEF OpenInv, Line
<1>6. /\ f \in Media /\ f.type = "frame" /\ f.time = pos' /\ f.epoch = epoch'
      /\ Line' = Append(toClient', f)
  BY NextFrameTyped
<1>7. c.time \in Nat  BY <1>1, HeadCommand, TimesTyped
<1>8. f.time \in Nat  BY <1>6 DEF Media
<1> HIDE DEF f
<1>9. CASE c.type = "play"
  <2>1. /\ Waiting /\ ~Has(toClient, {"start"})
    <3>1. Has(toServer, Calls)
      BY <1>1, <1>2, <1>9, DroppedTypes DEF Calls
    <3>2. Waiting /\ ~Has(toClient, Answers)  BY <1>1, <3>1 DEF CallInv
    <3> QED  BY <3>2, HasPart DEF Answers
  <2>2. Floor = -1
    <3>1. pausing = 3 \/ Output = <<>>
      BY <1>1, <2>1 DEF Waiting, Open, ControlInv
    <3> QED  BY <1>3, <3>1
  <2>3. f.time <= n /\ f.time > Floor
    <3>1. c.time <= n  BY <1>4, <1>9 DEF Begins
    <3>2. f.time <= c.time  BY <1>1, <1>6, <1>7, <1>9
    <3> QED  BY <1>3, <1>7, <1>8, <2>2, <3>1, <3>2
  <2>4. \E x \in Media : x.type # "frame" /\ toClient' = Append(toClient, x)
    <3>1. \E x \in {"start", "failed"} : toClient' = Append(toClient, Message(x))
      BY <1>1, <1>9, Answered DEF Calls
    <3> QED  BY <3>1, MessageMedia DEF MessageTypes
  <2>5. InLine(Line', TRUE, n, unpauses, Floor)
    BY <1>2, <1>6, <2>1, <2>3, <2>4, StartLine
  <2>6. InLine(Line', Waiting, n, unpauses, Floor)
    BY <2>1, <2>5, InLineSame
  <2>7. epoch' = epoch  BY <1>1, <1>9
  <2> QED  BY <1>1, <1>4, <2>6, <2>7, ServerKept
<1>10. CASE c.type = "unpause"
  <2>1. toClient' = toClient  BY <1>1, <1>10, Answered
  <2>2. epoch' = epoch + 1 /\ epoch # unpauses
    <3>1. IsUnpause(toServer[1]) /\ 1 \in 1..Len(toServer)
      BY <1>1, <1>10, HeadCommand DEF IsUnpause
    <3> QED  BY <1>1, <1>10, <3>1, LineEpochs
  <2>3. ~(Clean /\ pausing = 0 /\ Output # <<>>)  BY <1>2, <2>2 DEF OpenInv
  <2>4. f.time <= n
    <3>1. c.time + 1 <= n  BY <1>4, <1>10 DEF Begins
    <3>2. f.time <= c.time + 1  BY <1>1, <1>6, <1>7, <1>10
    <3> QED  BY <1>3, <1>7, <1>8, <3>1, <3>2
  <2>5. f.time > Floor  BY <1>3, <1>8, <2>3
  <2>6. \A a \in 1..Len(toClient) : toClient[a].epoch < f.epoch
    BY <1>6, <2>2, LineEpochs
  <2>7. InLine(Append(toClient, f), Waiting, n, unpauses, Floor)
    BY <1>2, <1>3, <1>5, <1>6, <2>4, <2>5, <2>6, LineFacts, MovedLine
  <2> QED  BY <1>1, <1>4, <1>6, <2>1, <2>3, <2>7, ServerKept
<1>11. CASE c.type \notin {"play", "unpause"}
  <2>1. f = Frame(pos) /\ epoch' = epoch  BY <1>1, <1>11 DEF f, NextFrame, Frame
  <2>2. \A x \in {"connected", "created", "notify", "eof", "empty"} :
           Message(x) \in Media /\ Message(x).type # "frame" /\ Message(x).type # "start"
    BY MessageMedia DEF MessageTypes
  <2>3. InLine(Append(toClient', f), Waiting, n, unpauses, Floor)
    <3>1. CASE toClient' = toClient  BY <1>5, <2>1, <3>1
    <3>2. ASSUME NEW x \in Media, x.type # "frame", x.type # "start",
                 toClient' = Append(toClient, x)
          PROVE  InLine(Append(toClient', f), Waiting, n, unpauses, Floor)
      BY <1>2, <1>5, <1>6, <2>1, <3>2, InsertLine
    <3>3. ASSUME NEW x \in Media, x.type # "frame", x.type # "start",
                 NEW y \in Media, y.type # "frame", y.type # "start",
                 toClient' = Append(Append(toClient, x), y)
          PROVE  InLine(Append(toClient', f), Waiting, n, unpauses, Floor)
      <4>1. InLine(Append(Append(toClient, x), f), Waiting, n, unpauses, Floor)
        BY <1>2, <1>5, <1>6, <2>1, <3>3, InsertLine
      <4>2. Append(toClient, x) \in Seq(Media)  BY <1>2
      <4> QED  BY <1>6, <3>3, <4>1, <4>2, InsertLine
    <3>4. \/ toClient' = toClient
          \/ toClient' = Append(toClient, Message("connected"))
          \/ toClient' = Append(toClient, Message("created"))
          \/ toClient' = Append(toClient, Message("notify"))
          \/ \E x \in {"notify", "empty"} :
                toClient' = Append(Append(toClient, Message("eof")), Message(x))
      BY <1>1, <1>11, Answered
    <3> QED  BY <2>2, <3>1, <3>2, <3>3, <3>4
  <2> QED  BY <1>1, <1>4, <1>6, <2>1, <2>3, ServerKept
<1> QED  BY <1>9, <1>10, <1>11

LEMMA FramesServer ==
  ASSUME TypeInv, TypeInv', NEW m \in Times, FrameInv(m),
         ServerFrame \/ ServerComplete \/ ServerChatter
  PROVE  FrameInv(m)'
<1> DEFINE n == Wanted(m)
           q == Append(toClient, Frame(pos))
           f == NextFrame
<1>1. Open /\ ClientUnchanged /\ toServer' = toServer /\ epoch' = epoch
  BY DEF ServerFrame, ServerComplete, ServerChatter, MaySend, Open, serverVars
<1>2. OpenInv(m) /\ toClient \in Seq(Media) /\ Frame(pos) \in Media
  BY <1>1, LineFacts DEF FrameInv
<1>3. AllBegin(toServer', n)  BY <1>1, <1>2 DEF OpenInv
<1>4. InLine(q, Waiting, n, unpauses, Floor)  BY <1>2 DEF OpenInv, Line
<1>5. /\ f \in Media /\ f.type = "frame" /\ f.time = pos' /\ f.epoch = epoch'
      /\ Line' = Append(toClient', f)
  BY NextFrameTyped
<1>6. Floor \in Int  BY OutputFacts DEF FrameInv
<1>7. CASE ServerFrame
  <2>1. toClient' = q /\ pos' = pos + 1  BY <1>7 DEF ServerFrame
  <2>2. /\ Frame(pos).type = "frame" /\ f.time = Frame(pos).time + 1
        /\ f.epoch = Frame(pos).epoch
    BY <1>1, <1>5, <2>1 DEF Frame
  <2>3. InLine(Append(q, f), Waiting, n, unpauses, Floor)
    BY <1>2, <1>4, <1>5, <1>6, <2>2, NextLine
  <2> QED  BY <1>1, <1>3, <1>5, <2>1, <2>3, ServerKept
<1>8. CASE ServerComplete \/ ServerChatter
  <2>1. \E x \in {"complete", "empty", "ping"} : toClient' = Append(toClient, Message(x))
    <3>1. \A x \in {"empty", "ping"} : Append(<<>>, Message(x)) = <<Message(x)>>
      <4>1. ASSUME NEW y \in Media PROVE Append(<<>>, y) = <<y>>  OBVIOUS
      <4> QED  BY <4>1, MessageMedia DEF MessageTypes
    <3> QED  BY <1>8, <3>1 DEF ServerComplete, ServerChatter
  <2>2. \E x \in Media : /\ x.type # "frame" /\ x.type # "start"
                         /\ toClient' = Append(toClient, x)
    BY <2>1, MessageMedia DEF MessageTypes
  <2>3. f = Frame(pos)
    BY <1>1, <1>8 DEF NextFrame, Frame, ServerComplete, ServerChatter, serverVars
  <2>4. InLine(Append(toClient', f), Waiting, n, unpauses, Floor)
    BY <1>2, <1>4, <2>2, <2>3, InsertLine
  <2> QED  BY <1>1, <1>3, <1>5, <2>4, ServerKept
<1> QED  BY <1>7, <1>8

-----------------------------------------------------------------------------
(* The frames, step by step: RTMP_ClientPacket.                            *)

\* The client reads a message that carries no frame, and may send one command.
LEMMA FramesHandled ==
  ASSUME TypeInv, EpochInv, NEW m \in Times, FrameInv(m),
         HandleResult \/ HandlePauseNotify \/ HandleCtrl \/ IgnoreFrame,
         pausing = 0 => pausing' = 0
  PROVE  FrameInv(m)'
<1> USE DEF mainVars, rtmpVars, mediaVars, readVars, serverVars, historyVars
<1>1. Queues /\ toServer \in Seq(Commands)  BY DEF TypeInv, Queues
<1>2. \E type \in MessageTypes \ {"start"} :
         Receive(type) /\ (type = "frame" => pc = "connect")
  BY DEF HandleResult, HandlePauseNotify, HandleCtrl, IgnoreFrame, MessageTypes
<1>3. PICK type \in MessageTypes \ {"start"} :
         Receive(type) /\ (type = "frame" => pc = "connect")
  BY <1>2
<1>4. /\ Open /\ toClient # <<>> /\ toClient' = Tail(toClient) /\ Head(toClient).type = type
      /\ type = "frame" => Waiting
      /\ UNCHANGED <<file, gotHeader, mediaStamp, channelStamp, timestamp, ended, pos, epoch, pc>>
  BY <1>1, <1>3, Received DEF Receive, Reading, Waiting
<1>5. UNCHANGED <<buffer, connected, late, lagging, early>>
  BY DEF HandleResult, HandlePauseNotify, HandleCtrl, IgnoreFrame, SendUnpause
<1>6. UpTo(Output, m) /\ OpenInv(m)  BY <1>4 DEF FrameInv
<1>7. m \in Nat /\ Wanted(m) \in Nat /\ m <= Wanted(m)
      /\ (early \/ Output # <<>> => Wanted(m) = m + 1)
  BY <1>6, OutputFacts
<1>8. pauseStamp \in Times /\ pauseStamp \in Nat /\ pauseStamp <= m
  BY <1>4, TimesTyped DEF TypeInv, Numbers, FrameInv, Open
<1>9. pausing # 0 => pauseStamp + 1 <= Wanted(m)
  BY <1>6, <1>7, <1>8 DEF OpenInv
<1>10. CASE HandleResult
  <2>1. UNCHANGED <<bPlaying, pauseStamp, pausing, unpauses>>
    BY <1>10 DEF HandleResult
  <2>2. \/ toServer' = Append(toServer, Command("createStream", 0))
        \/ \E t \in {0, pauseStamp} : toServer' = Append(toServer, Command("play", t))
    BY <1>10 DEF HandleResult
  <2>3. /\ Command("createStream", 0) \in Commands
        /\ Begins(Command("createStream", 0), Wanted(m))
    BY CommandTyped, TimesTyped DEF CommandTypes, Begins
  <2>4. ASSUME NEW t \in {0, pauseStamp}
        PROVE  Command("play", t) \in Commands /\ Begins(Command("play", t), Wanted(m))
    <3>1. t \in Times /\ t <= Wanted(m)  BY <1>7, <1>8, TimesTyped
    <3> QED  BY <3>1, CommandTyped DEF CommandTypes, Begins
  <2>5. \E c \in Commands : toServer' = Append(toServer, c) /\ Begins(c, Wanted(m))
    BY <2>2, <2>3, <2>4
  <2> QED  BY <1>3, <1>4, <1>5, <2>1, <2>5, ReadKept
<1>11. CASE HandlePauseNotify \/ HandleCtrl \/ IgnoreFrame
  <2>1. UNCHANGED bPlaying  BY <1>11 DEF HandlePauseNotify, HandleCtrl, IgnoreFrame
  <2>2. /\ pauseStamp' = pauseStamp
        /\ pausing' = pausing \/ (pausing # 0 /\ pausing' # 0)
        /\ \/ toServer' = toServer /\ unpauses' = unpauses
           \/ /\ toServer' = Append(toServer, Command("unpause", pauseStamp))
              /\ unpauses' = unpauses + 1 /\ pausing # 0
    <3>1. CASE HandlePauseNotify  BY <3>1 DEF HandlePauseNotify, SendUnpause
    <3>2. CASE HandleCtrl
      BY <3>2 DEF HandleCtrl, SendUnpause, AfterEof
    <3>3. CASE IgnoreFrame  BY <3>3 DEF IgnoreFrame
    <3> QED  BY <1>11, <3>1, <3>2, <3>3
  <2>3. pausing # 0 => /\ Command("unpause", pauseStamp) \in Commands
                       /\ Begins(Command("unpause", pauseStamp), Wanted(m))
    BY <1>8, <1>9, CommandTyped DEF CommandTypes, Begins
  <2>4. \/ toServer' = toServer /\ unpauses' = unpauses
        \/ \E c \in Commands :
              /\ toServer' = Append(toServer, c) /\ Begins(c, Wanted(m))
              /\ unpauses' = unpauses + 1 /\ pausing # 0
    BY <2>2, <2>3
  <2> QED  BY <1>3, <1>4, <1>5, <2>1, <2>2, <2>4, ReadKept
<1> QED  BY <1>10, <1>11

\* The pause that RTMP_ClientPacket sends when the server's buffer is empty.
LEMMA FramesPause ==
  ASSUME TypeInv, NEW m \in Times, FrameInv(m), HandleCtrl, pausing = 0, pausing' # 0
  PROVE  FrameInv(m)'
<1> USE DEF mainVars, rtmpVars, mediaVars, readVars, serverVars, historyVars
<1>1. Queues /\ toServer \in Seq(Commands) /\ toClient \in Seq(Media)
  BY LineFacts DEF TypeInv, Queues
<1>2. /\ Receive("empty") /\ SendPause(channelStamp)
      /\ pauseStamp' = channelStamp /\ pausing' = 1
      /\ UNCHANGED <<connected, bPlaying, streamOpen, buffer, late>>
  BY DEF HandleCtrl, AfterEof
<1>3. /\ Open /\ toClient # <<>> /\ toClient' = Tail(toClient) /\ Head(toClient).type = "empty"
      /\ UNCHANGED <<file, gotHeader, mediaStamp, channelStamp, timestamp, ended, pos, epoch, pc>>
  BY <1>1, <1>2, Received DEF Receive
<1>4. /\ toServer' = Append(toServer, Command("pause", channelStamp))
      /\ lagging' = (lagging \/ mediaStamp < LastFrame) /\ early' = (early \/ ~gotHeader)
      /\ unpauses' = unpauses
  BY <1>2 DEF SendPause
<1>5. UpTo(Output, m) /\ OpenInv(m)  BY <1>3 DEF FrameInv
<1>6. /\ m \in Nat /\ Wanted(m) \in Nat /\ Floor \in Int /\ LastFrame \in Nat
      /\ unpauses \in Nat
  BY <1>5, OutputFacts, LineFacts
<1>7. /\ Output' = Output /\ LastFrame' = LastFrame
      /\ Wanted(m)' \in Nat /\ Wanted(m) <= Wanted(m)'
  BY <1>2, <1>3, <1>4, OutputKept
<1>8. /\ Command("pause", channelStamp) \in Commands
      /\ Begins(Command("pause", channelStamp), Wanted(m)')
  BY CommandTyped DEF CommandTypes, Begins, TypeInv, Numbers
<1>9. AllBegin(toServer', Wanted(m)')
  <2>1. AllBegin(toServer, Wanted(m))  BY <1>5 DEF OpenInv
  <2> QED  BY <1>1, <1>4, <1>6, <1>7, <1>8, <2>1, BeginAppended
<1>10. InLine(Line', Waiting', Wanted(m)', unpauses', -1)
  <2>1. InLine(Line, Waiting, Wanted(m), unpauses, Floor)  BY <1>5 DEF OpenInv
  <2>2. InLine(Line', Waiting, Wanted(m)', unpauses, -1)
    <3> DEFINE n == Wanted(m)
               k == Wanted(m)'
               l == -1
    <3>1. /\ n \in Nat /\ k \in Nat /\ n <= k /\ l \in Int /\ l = -1
          /\ InLine(Line, Waiting, n, unpauses, Floor)
          /\ Head(toClient).type # "start" /\ Head(toClient).type # "frame"
      BY <1>3, <1>6, <1>7, <2>1
    <3> HIDE DEF n, k, l
    <3>2. InLine(Line', Waiting, k, unpauses, l)
      BY <1>3, <1>6, <3>1, LinePopped
    <3> QED  BY <3>2 DEF k, l
  <2>3. Waiting' <=> Waiting  BY <1>2, <1>3 DEF Waiting
  <2> QED  BY <1>4, <2>2, <2>3, InLineSame
<1>11. Floor' = -1  BY <1>2 DEF Floor
<1>12. (m > 0 => gotHeader)' /\ (gotHeader => Output # <<>>)'  BY <1>3, <1>5, <1>7 DEF OpenInv
<1>13. (pausing # 0 => early \/ gotHeader)'  BY <1>3, <1>4
<1>14. (Clean /\ pausing # 0 => LastFrame <= mediaStamp)'
  <2>1. mediaStamp \in Nat  BY TimesTyped DEF TypeInv, Numbers
  <2>2. Clean' => ~(mediaStamp < LastFrame)  BY <1>4 DEF Clean
  <2>3. mediaStamp' = mediaStamp /\ LastFrame' = LastFrame  BY <1>3, <1>7
  <2>4. Clean' => LastFrame' <= mediaStamp'  BY <1>6, <2>1, <2>2, <2>3
  <2> QED  BY <2>4
<1>15. (Clean /\ pausing = 0 /\ Output # <<>> => epoch = unpauses)'  BY <1>2
<1>16. OpenInv(m)'
  <2>1. InLine(Line', Waiting', Wanted(m)', unpauses', Floor')  BY <1>10, <1>11
  <2> QED  BY <1>9, <1>12, <1>13, <1>14, <1>15, <2>1 DEF OpenInv
<1>17. (Clean' => Clean) /\ (early => early') /\ UNCHANGED <<file, buffer>>
  BY <1>2, <1>3, <1>4 DEF Clean
<1>18. pc' # "done" => mediaStamp' <= m /\ channelStamp' <= m /\ pauseStamp' <= m
                       /\ timestamp' <= m
  BY <1>2, <1>3 DEF FrameInv
<1> QED  BY <1>16, <1>17, <1>18, FramesKept

\* Play has started.
LEMMA FramesStarted ==
  ASSUME TypeInv, ControlInv, CallInv, NEW m \in Times, FrameInv(m), HandlePlayStart
  PROVE  FrameInv(m)'
<1> USE DEF mainVars, rtmpVars, mediaVars, readVars, serverVars, historyVars
<1>1. Queues  BY DEF TypeInv
<1>2. /\ Open /\ toClient # <<>> /\ toClient' = Tail(toClient) /\ Head(toClient).type = "start"
      /\ Has(toClient, Answers) /\ bPlaying'
      /\ UNCHANGED <<file, buffer, gotHeader, mediaStamp, channelStamp, pauseStamp, timestamp,
                     ended, pos, epoch, pc, pausing, toServer, unpauses, late, lagging, early>>
  BY <1>1, Received DEF HandlePlayStart, Receive, Answers
<1>3. Waiting /\ ~Waiting'  BY <1>2 DEF CallInv, Waiting
<1>4. UpTo(Output, m) /\ OpenInv(m)  BY <1>2 DEF FrameInv
<1>5. Wanted(m) \in Nat /\ Floor \in Int /\ unpauses \in Nat
  BY <1>4, OutputFacts, LineFacts
<1>6. Wanted(m)' = Wanted(m)  BY <1>2 DEF Wanted, Output
<1>7. InLine(Line, TRUE, Wanted(m), unpauses, Floor)
  <2>1. InLine(Line, Waiting, Wanted(m), unpauses, Floor)  BY <1>4 DEF OpenInv
  <2> QED  BY <1>3, <2>1, InLineSame
<1>8. InLine(Line', FALSE, Wanted(m), unpauses, Floor)
  BY <1>2, <1>5, <1>7, LineStarted
<1>9. InLine(Line', Waiting', Wanted(m)', unpauses', Floor)
  <2>1. InLine(Line', Waiting', Wanted(m), unpauses, Floor)  BY <1>3, <1>8, InLineSame
  <2> QED  BY <1>2, <1>6, <2>1
<1>10. Clean' <=> Clean  BY <1>2 DEF Clean
<1>11. OpenInv(m)'
  <2>1. AllBegin(toServer', Wanted(m)')  BY <1>2, <1>4, <1>6 DEF OpenInv
  <2>2. Clean /\ pausing = 0 /\ Output # <<>> => epoch' = unpauses'
    BY <1>2, <1>4 DEF OpenInv
  <2> QED  BY <1>2, <1>9, <1>10, <2>1, <2>2, OpenKept
<1>12. pc' # "done" => mediaStamp' <= m /\ channelStamp' <= m /\ pauseStamp' <= m
                       /\ timestamp' <= m
  BY <1>2 DEF FrameInv
<1> QED  BY <1>2, <1>10, <1>11, <1>12, FramesKept

-----------------------------------------------------------------------------
(* The frames, step by step: main_rtmpdump, and reads that fail.           *)

\* The loops of main_rtmpdump and Download, where they send nothing.
LEMMA FramesMain ==
  ASSUME TypeInv, NEW m \in Times, FrameInv(m),
         \/ Stopped \/ Read \/ Check \/ ConnectStreamReturns \/ Stop \/ ServerLost
         \/ (Resume /\ GiveUp) \/ UNCHANGED streamVars
  PROVE  FrameInv(m)'
<1> USE DEF mainVars, rtmpVars, mediaVars, readVars, serverVars, historyVars
<1>1. /\ pc # "done" => timestamp <= m /\ pauseStamp <= m /\ 0 <= m
  BY TimesTyped DEF FrameInv, Times
<1>2. CASE Stopped \/ (Resume /\ GiveUp)
  <2>1. /\ UNCHANGED <<file, buffer, mediaStamp, channelStamp, pauseStamp, ended, gotHeader,
                       pausing, toServer, toClient, pos, epoch, unpauses, late, lagging, early>>
        /\ pc' = "done"
    BY <1>2 DEF Stopped, Resume, GiveUp
  <2> QED  BY <2>1, SameFrames DEF Open
<1>3. CASE Read \/ Check
  <2>1. /\ UNCHANGED <<file, buffer, mediaStamp, channelStamp, pauseStamp, ended, gotHeader,
                       pausing, toServer, toClient, pos, epoch, unpauses, late, lagging, early>>
        /\ UNCHANGED <<timestamp, connected>>
        /\ pc \in {"read", "check"} /\ pc' # "connect"
    BY <1>3 DEF Read, Check
  <2>2. /\ pc' # "done" => pc # "done" /\ timestamp' <= m
        /\ Open' => Open /\ (Waiting' <=> Waiting)
    BY <1>1, <2>1 DEF Open, Waiting
  <2> QED  BY <2>1, <2>2, SameFrames
<1>4. CASE ConnectStreamReturns
  <2>1. /\ UNCHANGED <<file, buffer, mediaStamp, channelStamp, pauseStamp, ended, gotHeader,
                       pausing, toServer, toClient, pos, epoch, unpauses, late, lagging, early>>
        /\ UNCHANGED <<connected, bPlaying>> /\ pc = "connect"
        /\ pc' = "done" \/ (bPlaying /\ timestamp' \in {0, pauseStamp})
    BY <1>4 DEF ConnectStreamReturns
  <2>2. /\ pc' # "done" => pc # "done" /\ timestamp' <= m
        /\ Open' => Open /\ (Waiting' <=> Waiting)
    BY <1>1, <2>1 DEF Open, Waiting
  <2> QED  BY <2>1, <2>2, SameFrames
<1>5. CASE Stop \/ ServerLost \/ UNCHANGED streamVars
  <2>1. /\ UNCHANGED <<file, buffer, mediaStamp, channelStamp, pauseStamp, ended, gotHeader,
                       pausing, toServer, toClient, pos, epoch, unpauses, late, lagging, early>>
        /\ UNCHANGED <<pc, timestamp, connected, bPlaying>>
    BY <1>5 DEF Stop, ServerLost, ClientUnchanged, streamVars
  <2>2. /\ pc' # "done" => pc # "done" /\ timestamp' <= m
        /\ Open' => Open /\ (Waiting' <=> Waiting)
    BY <1>1, <2>1 DEF Open, Waiting
  <2> QED  BY <2>1, <2>2, SameFrames
<1> QED  BY <1>2, <1>3, <1>4, <1>5

\* A connection begins with an empty file.
LEMMA FramesConnect ==
  ASSUME TypeInv, TypeInv', ControlInv, NEW m \in Times, FrameInv(m), Connect
  PROVE  FrameInv(m)'
<1> USE DEF mainVars, rtmpVars, mediaVars, readVars, serverVars, historyVars
<1>1. /\ UNCHANGED <<file, buffer, mediaStamp, channelStamp, pauseStamp, timestamp, gotHeader,
                     pausing, toClient, bPlaying, late, lagging, early>>
      /\ first /\ pc = "loop" /\ pc' \in {"connect", "done"}
  BY DEF Connect
<1>2. /\ file = <<>> /\ buffer = <<>> /\ toClient = <<>> /\ ~bPlaying /\ ~gotHeader
      /\ pausing = 0
  BY <1>1 DEF ControlInv, NotBegun
<1>3. UpTo(Output, m)  BY DEF FrameInv
<1>4. Output = <<>> /\ Output' = <<>> /\ m = 0
  <2>1. <<>> \o <<>> = <<>>  OBVIOUS
  <2>2. Output = <<>> /\ Output' = <<>>  BY <1>1, <1>2, <2>1 DEF Output
  <2> QED  BY <1>3, <2>2, OutputFacts
<1>5. ASSUME Open' PROVE OpenInv(m)'
  <2>1. pc' = "connect"  BY <1>1, <1>5 DEF Open
  <2>2. Waiting'  BY <1>1, <1>2, <2>1 DEF Waiting
  <2>3. toServer' = <<Command("connect", 0)>>  BY <2>1 DEF Connect
  <2>4. AllBegin(toServer', Wanted(m)')
    <3> DEFINE c == Command("connect", 0)
    <3>1. c.type = "connect"  BY DEF Command
    <3> HIDE DEF c
    <3>2. \A a \in 1..Len(<<c>>) : <<c>>[a] = c  OBVIOUS
    <3>3. toServer' = <<c>>  BY <2>3 DEF c
    <3> QED  BY <3>1, <3>2, <3>3 DEF AllBegin, Begins
  <2>5. InLine(Line', Waiting', Wanted(m)', unpauses', Floor')
    <3> DEFINE f == NextFrame
    <3>1. /\ f \in Media /\ f.type = "frame" /\ Line' = Append(<<>>, f)
      BY <1>1, <1>2, NextFrameTyped
    <3> HIDE DEF f
    <3> DEFINE s == <<>>
    <3>2. s \in Seq(Media) /\ ~Has(s, {"start"}) /\ f.type \notin {"start"}
      BY <3>1 DEF Has
    <3>5. Line' = Append(s, f)  BY <3>1
    <3> HIDE DEF s
    <3>6. ~Has(Line', {"start"})  BY <3>1, <3>2, <3>5, AppendedTypes
    <3>7. Len(Line') \in Nat  BY <3>1, <3>2, <3>5, Appended
    <3>3. ~Has(Line', {"start"}) /\ Len(Line') \in Nat  BY <3>6, <3>7
    <3>4. InLine(Line', TRUE, Wanted(m)', unpauses', Floor')  BY <3>3, UnheardLine
    <3> QED  BY <2>2, <3>4, InLineSame
  <2>6. (m > 0 => gotHeader)' /\ (gotHeader => Output # <<>>)'  BY <1>1, <1>2, <1>4
  <2>7. (pausing = 0 /\ Output = <<>>)'  BY <1>1, <1>2, <1>4
  <2> QED  BY <2>4, <2>5, <2>6, <2>7 DEF OpenInv
<1>6. pc' # "done" => mediaStamp' <= m /\ channelStamp' <= m /\ pauseStamp' <= m
                      /\ timestamp' <= m
  BY <1>1 DEF FrameInv
<1>7. (Clean' => Clean) /\ (early => early')  BY <1>1 DEF Clean
<1> QED  BY <1>1, <1>5, <1>6, <1>7, FramesKept

\* RTMP_ToggleStream lets the server go on at the pause stamp, which is at most m.
LEMMA FramesToggle ==
  ASSUME TypeInv, TypeInv', EpochInv, NEW m \in Times, FrameInv(m), Resume, Toggle
  PROVE  FrameInv(m)'
<1> USE DEF mainVars, rtmpVars, mediaVars, readVars, serverVars, historyVars
<1>1. /\ UNCHANGED <<file, buffer, gotHeader, mediaStamp, channelStamp, pauseStamp, toClient,
                     connected, pos, epoch, late>>
      /\ pc = "loop" /\ pc' = "read" /\ timestamp' = 0 /\ pausing' = 3 /\ pausing # 3
      /\ ended' = (ended /\ pausing # 0) /\ unpauses' = unpauses + 1
      /\ lagging' = (lagging \/ (pausing = 0 /\ mediaStamp < LastFrame))
      /\ early' = (early \/ ~gotHeader)
  BY DEF Resume, Toggle
<1>2. UpTo(Output, m)  BY DEF FrameInv
<1>3. /\ m \in Nat /\ Wanted(m) \in Nat /\ LastFrame \in Nat /\ Floor \in Int
      /\ (Output # <<>> => Wanted(m) = m + 1)
  BY <1>2, OutputFacts
<1>4. (Clean' => Clean) /\ (early => early')  BY <1>1 DEF Clean
<1>5. pc' # "done" => mediaStamp' <= m /\ channelStamp' <= m /\ pauseStamp' <= m
                      /\ timestamp' <= m
  BY <1>1, <1>3 DEF FrameInv
<1>6. ASSUME Open' PROVE OpenInv(m)'
  <2>1. Open /\ OpenInv(m)  BY <1>1, <1>6 DEF Open, FrameInv
  <2>2. early' \/ (gotHeader /\ Output # <<>>)  BY <1>1, <2>1 DEF OpenInv
  <2>3. ended => ended' \/ early' \/ Output # <<>>
    BY <1>3, <2>2
  <2>4. /\ Output' = Output /\ LastFrame' = LastFrame
        /\ Wanted(m)' \in Nat /\ Wanted(m) <= Wanted(m)'
        /\ early' => Wanted(m)' = m + 1
    BY <1>1, <1>4, <2>3, OutputKept
  <2>5. AllBegin(toServer', Wanted(m)')
    <3> DEFINE p == Command("pause", pauseStamp)
               u == Command("unpause", pauseStamp)
               k == Wanted(m)'
    <3>1. pauseStamp \in Times /\ pauseStamp \in Nat /\ pauseStamp <= m
      BY <1>1, TimesTyped DEF TypeInv, Numbers, FrameInv
    <3>2. pauseStamp + 1 <= k  BY <1>3, <2>2, <2>4, <3>1
    <3>3. p \in Commands /\ u \in Commands /\ Begins(p, k) /\ Begins(u, k)
      BY <3>1, <3>2, CommandTyped DEF CommandTypes, Begins
    <3>4. toServer' = IF pausing = 0 THEN Append(Append(toServer, p), u)
                      ELSE Append(toServer, u)
      BY Toggled DEF TypeInv
    <3>5. toServer \in Seq(Commands) /\ AllBegin(toServer, Wanted(m))
          /\ k \in Nat /\ Wanted(m) <= k /\ k <= k
      BY <2>1, <2>4 DEF TypeInv, Queues, OpenInv
    <3> HIDE DEF p, u, k
    <3>6. AllBegin(toServer, k)  BY <1>3, <3>5, BeginWider
    <3>7. Append(toServer, p) \in Seq(Commands) /\ AllBegin(Append(toServer, p), k)
      BY <3>3, <3>5, <3>6, BeginAppended
    <3>8. AllBegin(toServer', k)  BY <3>3, <3>4, <3>5, <3>6, <3>7, BeginAppended
    <3> QED  BY <3>8 DEF k
  <2>6. InLine(Line', Waiting', Wanted(m)', unpauses', Floor')
    <3>1. Line' = Line /\ (Waiting' <=> Waiting)
      BY <1>1 DEF Line, Frame, Waiting
    <3>2. InLine(Line, Waiting, Wanted(m), unpauses, Floor)  BY <2>1 DEF OpenInv
    <3>3. /\ Line \in Seq(Media) /\ unpauses + 1 \in Nat
          /\ \A a \in 1..Len(Line) : Line[a].epoch < unpauses + 1
      BY LineFacts, LineEpochs
    <3>4. InLine(Line, Waiting, Wanted(m)', unpauses + 1, Floor')
      BY <1>3, <2>4, <3>2, <3>3, FreshLine
    <3> QED  BY <1>1, <3>1, <3>4, InLineSame
  <2>7. (Clean /\ pausing # 0 => LastFrame <= mediaStamp)'
    <3>1. mediaStamp \in Nat  BY TimesTyped DEF TypeInv, Numbers
    <3>2. Clean' => Clean /\ ~(pausing = 0 /\ mediaStamp < LastFrame)  BY <1>1 DEF Clean
    <3>3. Clean /\ pausing # 0 => LastFrame <= mediaStamp  BY <2>1 DEF OpenInv
    <3>4. Clean' => LastFrame <= mediaStamp  BY <1>3, <3>1, <3>2, <3>3
    <3> QED  BY <1>1, <2>4, <3>4
  <2>8. (m > 0 => gotHeader)' /\ (gotHeader => Output # <<>>)'  BY <1>1, <2>1, <2>4 DEF OpenInv
  <2>9. early' \/ gotHeader'  BY <1>1, <2>2
  <2> QED  BY <2>5, <2>6, <2>7, <2>8, <2>9, <1>1 DEF OpenInv
<1> QED  BY <1>1, <1>4, <1>5, <1>6, FramesKept

\* RTMP_ReconnectStream leaves the stream: no frame is heard until another one starts.
LEMMA FramesReconnect ==
  ASSUME TypeInv, TypeInv', ControlInv, CallInv, NEW m \in Times, FrameInv(m), Resume, Reconnect
  PROVE  FrameInv(m)'
<1> USE DEF mainVars, rtmpVars, mediaVars, readVars, serverVars, historyVars
<1>1. /\ UNCHANGED <<file, buffer, gotHeader, mediaStamp, pauseStamp, timestamp, toClient,
                     connected, pos, epoch, unpauses, pausing, ended, late, lagging, early>>
      /\ pc = "loop" /\ pc' = "connect" /\ channelStamp' = 0 /\ pausing = 3
      /\ bPlaying' = (bPlaying /\ ~streamOpen)
  BY DEF Resume, Reconnect
<1>2. UpTo(Output, m)  BY DEF FrameInv
<1>3. m \in Nat /\ Wanted(m) \in Nat  BY <1>2, OutputFacts
<1>4. (Clean' <=> Clean) /\ Wanted(m)' = Wanted(m)  BY <1>1 DEF Clean, Wanted, Output
<1>5. pc' # "done" => mediaStamp' <= m /\ channelStamp' <= m /\ pauseStamp' <= m
                      /\ timestamp' <= m
  BY <1>1, <1>3 DEF FrameInv
<1>6. ASSUME Open' PROVE OpenInv(m)'
  <2>1. Open /\ OpenInv(m) /\ ~Waiting  BY <1>1, <1>6 DEF Open, FrameInv, Waiting
  <2>2. AllBegin(toServer', Wanted(m)')
    <3> DEFINE p == Command("deleteStream", 0)
               u == Command("createStream", 0)
               k == Wanted(m)
    <3>1. p \in Commands /\ u \in Commands /\ Begins(p, k) /\ Begins(u, k)
      BY TimesTyped, CommandTyped DEF CommandTypes, Begins
    <3>2. toServer' = IF streamOpen THEN Append(Append(toServer, p), u)
                      ELSE Append(toServer, u)
      BY Reconnected DEF TypeInv
    <3>3. toServer \in Seq(Commands) /\ AllBegin(toServer, k) /\ k \in Nat /\ k <= k
      BY <1>3, <2>1 DEF TypeInv, Queues, OpenInv
    <3> HIDE DEF p, u, k
    <3>4. Append(toServer, p) \in Seq(Commands) /\ AllBegin(Append(toServer, p), k)
      BY <3>1, <3>3, BeginAppended
    <3>5. AllBegin(toServer', k)  BY <3>1, <3>2, <3>3, <3>4, BeginAppended
    <3> QED  BY <1>4, <3>5 DEF k
  <2>3. InLine(Line', Waiting', Wanted(m)', unpauses', Floor)
    <3> DEFINE f == Frame(pos)
    <3>1. Line' = Append(toClient, f) /\ f \in Media /\ toClient \in Seq(Media)
          /\ f.type \notin {"start"}
      BY <1>1, LineFacts DEF Line, Frame
    <3> HIDE DEF f
    <3>2. ~Has(toClient, {"start"})
      BY <2>1, HasPart DEF CallInv, Answers
    <3>3. ~Has(Line', {"start"}) /\ Len(Line') \in Nat
      BY <3>1, <3>2, AppendedTypes, Appended
    <3>4. InLine(Line', TRUE, Wanted(m)', unpauses', Floor)  BY <3>3, UnheardLine
    <3>5. Waiting'  BY <1>1 DEF Waiting, ControlInv
    <3> QED  BY <3>4, <3>5, InLineSame
  <2>4. Clean /\ pausing = 0 /\ Output # <<>> => epoch' = unpauses'  BY <1>1
  <2> QED  BY <1>1, <1>4, <2>1, <2>2, <2>3, <2>4, OpenKept
<1> QED  BY <1>1, <1>4, <1>5, <1>6, FramesKept

LEMMA EmptyOutput ==
  /\ UpTo(<<>>, 0) /\ InOrder(<<>>)
<1>1. Len(<<>>) = 0 /\ 1..0 = {} /\ 1..(0 - 1) = {}  OBVIOUS
<1> QED  BY <1>1 DEF UpTo, InOrder

\* RTMP_Read returns with what it has, or throws it away, or the write fails.
LEMMA OutputCut ==
  ASSUME TypeInv, ControlInv, NEW m \in Times, FrameInv(m), Open, ReadFails
  PROVE  \/ Output' = Output
         \/ Output' = <<>> /\ m = 0 /\ ~gotHeader
         \/ Output' = <<>> /\ pc' = "done"
<1>6. buffer' = <<>>  BY DEF ReadFails, Write
<1>1. /\ file \o buffer \in Seq(Times) /\ file \in Seq(Times) /\ m \in Nat
      /\ buffer' = <<>>
  BY <1>6, TimesTyped DEF TypeInv, Queues
<1>2. \A s \in Seq(Times) : s \o <<>> = s  OBVIOUS
<1>3. CASE gotHeader /\ buffer # <<>>
  <2>1. file = <<>>  BY <1>3 DEF ControlInv
  <2>2. file' = file \o buffer \/ (file' = <<>> /\ pc' = "done")
    BY <1>3, <2>1 DEF ReadFails, Write
  <2>3. Output' = file' \o <<>>  BY <1>1 DEF Output
  <2>4. file' \in Seq(Times)  BY <1>1, <2>1, <2>2
  <2>5. Output' = file'  BY <1>2, <2>3, <2>4
  <2> QED  BY <2>2, <2>5 DEF Output
<1>4. CASE gotHeader /\ buffer = <<>>
  <2>1. file' = file  BY <1>4 DEF ReadFails
  <2> QED  BY <1>1, <1>4, <2>1 DEF Output
<1>5. CASE ~gotHeader
  <2>1. file = <<>> /\ file' = file  BY <1>5 DEF ReadFails, ControlInv, Open
  <2>2. Output' = <<>> \o <<>>  BY <1>1, <2>1 DEF Output
  <2>3. <<>> \o <<>> = <<>>  OBVIOUS
  <2>4. m = 0  BY <1>1, <1>5 DEF FrameInv, OpenInv
  <2> QED  BY <1>5, <2>2, <2>3, <2>4
<1> QED  BY <1>3, <1>4, <1>5

\* An empty file in the end.
LEMMA FramesDropped ==
  ASSUME Output' = <<>>, pc' = "done"
  PROVE  FrameInv(0)'
<1>1. Len(<<>>) = 0 /\ 1..0 = {}  OBVIOUS
<1>2. UpTo(Output, 0)'  BY <1>1 DEF UpTo
<1>3. (Clean => InOrder(Output))'  BY EmptyOutput
<1>4. ~Open'  BY DEF Open
<1> QED  BY <1>2, <1>3, <1>4 DEF FrameInv

\* What is left to show of a step that may cut the output.
LEMMA FramesCut ==
  ASSUME TypeInv, NEW m \in Times, FrameInv(m),
         Output' = Output \/ (Output' = <<>> /\ m = 0),
         UNCHANGED <<late, lagging, early>>,
         pc' # "done" => mediaStamp' <= m /\ channelStamp' <= m /\ pauseStamp' <= m
                         /\ timestamp' <= m,
         Open' => OpenInv(m)'
  PROVE  FrameInv(m)'
<1>1. Clean' <=> Clean  BY DEF Clean
<1>2. UpTo(Output, m)'
  <2>1. CASE Output' = Output  BY <2>1 DEF FrameInv, UpTo
  <2>2. CASE Output' = <<>> /\ m = 0
    <3>1. Len(<<>>) = 0 /\ 1..0 = {}  OBVIOUS
    <3> QED  BY <2>2, <3>1 DEF UpTo
  <2> QED  BY <2>1, <2>2
<1>3. (Clean => InOrder(Output))'
  <2>1. CASE Output' = Output  BY <1>1, <2>1 DEF FrameInv
  <2>2. CASE Output' = <<>>  BY <2>2, EmptyOutput
  <2> QED  BY <2>1, <2>2
<1> QED  BY <1>2, <1>3 DEF FrameInv

\* The connection is closed, so nothing under way matters any more.
LEMMA FramesClosed ==
  ASSUME TypeInv, ControlInv, NEW m \in Times, FrameInv(m), HandleEnd \/ ReadClosed
  PROVE  \E k \in Times : FrameInv(k)'
<1> USE DEF mainVars, rtmpVars, mediaVars, readVars, serverVars, historyVars
<1>1. /\ Reading /\ ~connected'
      /\ UNCHANGED <<late, lagging, early, mediaStamp, channelStamp, pauseStamp, timestamp>>
      /\ ReadFails \/ UNCHANGED <<file, buffer>>
  BY DEF HandleEnd, ReadClosed, Close
<1>2. Open  BY <1>1 DEF Reading, Open
<1>3. Output' = Output \/ (Output' = <<>> /\ (m = 0 \/ pc' = "done"))
  BY <1>1, <1>2, OutputCut DEF Output
<1>4. pc' # "done" => mediaStamp' <= m /\ channelStamp' <= m /\ pauseStamp' <= m
                      /\ timestamp' <= m
  BY <1>1, <1>2 DEF FrameInv, Open
<1>5. ~Open'  BY <1>1 DEF Open
<1>6. CASE Output' = Output \/ (Output' = <<>> /\ m = 0)
  <2>1. FrameInv(m)'  BY <1>1, <1>4, <1>5, <1>6, FramesCut
  <2> QED  BY <2>1
<1>7. CASE Output' = <<>> /\ pc' = "done"  BY <1>7, FramesDropped, TimesTyped
<1> QED  BY <1>3, <1>6, <1>7

\* A read times out, and the pause stamp may become the stamp of the channel.
LEMMA FramesTimedOut ==
  ASSUME TypeInv, ControlInv, NEW m \in Times, FrameInv(m), ReadTimesOut
  PROVE  \E k \in Times : FrameInv(k)'
<1> USE DEF mainVars, rtmpVars, mediaVars, readVars, serverVars, historyVars
<1>1. /\ UNCHANGED <<late, lagging, early, mediaStamp, channelStamp, timestamp, connected,
                     bPlaying, pausing, gotHeader, toServer, toClient, pos, epoch, unpauses>>
      /\ pauseStamp' \in {pauseStamp, channelStamp}
  BY DEF ReadTimesOut
<1>2. Open  BY DEF ReadTimesOut, Reading, Open
<1>3. pc' # "done" => mediaStamp' <= m /\ channelStamp' <= m /\ pauseStamp' <= m
                      /\ timestamp' <= m
  BY <1>1, <1>2 DEF FrameInv, Open
<1>6. CASE Output' = <<>> /\ pc' = "done"  BY <1>6, FramesDropped, TimesTyped
<1>4. CASE pc = "packet" /\ ~(Output' = <<>> /\ pc' = "done")
  <2>1. ReadFails  BY <1>4 DEF ReadTimesOut
  <2>2. Output' = Output \/ (Output' = <<>> /\ m = 0 /\ ~gotHeader)
    BY <1>2, <1>4, <2>1, OutputCut
  <2>3. OpenInv(m) /\ UpTo(Output, m)  BY <1>2 DEF FrameInv
  <2>4. /\ m \in Nat /\ Wanted(m) \in Nat /\ Floor \in Int /\ LastFrame \in Nat
        /\ Wanted(m)' = m + 1 /\ Wanted(m) <= m + 1
    <3>1. m \in Nat /\ Wanted(m) \in Nat /\ Floor \in Int /\ LastFrame \in Nat
      BY <2>3, OutputFacts
    <3>2. ended'  BY <2>1 DEF ReadFails
    <3> QED  BY <3>1, <3>2 DEF Wanted
  <2>5. /\ (m > 0 => gotHeader)' /\ (gotHeader => Output # <<>>)'
        /\ (pausing # 0 => early \/ gotHeader)'
    BY <1>1, <2>2, <2>3 DEF OpenInv
  <2>6. AllBegin(toServer', Wanted(m)')
    <3>1. toServer \in Seq(Commands) /\ AllBegin(toServer, Wanted(m)) /\ Wanted(m)' \in Nat
      BY <2>3, <2>4 DEF TypeInv, Queues, OpenInv
    <3>2. AllBegin(toServer, Wanted(m)')  BY <2>4, <3>1, BeginWider
    <3> QED  BY <1>1, <3>2
  <2>7. LastFrame' = LastFrame \/ (LastFrame' = 0 /\ Output' = <<>>)
    BY <2>2 DEF LastFrame, Output
  <2>8. InLine(Line', Waiting', Wanted(m)', unpauses', Floor')
    <3>1. Floor' = Floor \/ Floor' = -1
      <4>1. CASE Output' = Output
        <5>1. LastFrame' = LastFrame  BY <4>1 DEF LastFrame, Output
        <5> QED  BY <1>1, <4>1, <5>1 DEF Floor, Clean
      <4>2. CASE Output' = <<>>  BY <4>2 DEF Floor
      <4> QED  BY <2>2, <4>1, <4>2
    <3>2. Line' = Line  BY <1>1 DEF Line, Frame
    <3>3. Waiting' <=> Waiting
      BY <1>4, <2>1 DEF Waiting, ReadFails, Write
    <3>4. InLine(Line, Waiting, Wanted(m), unpauses, Floor) /\ Line \in Seq(Media)
      BY <2>3, LineFacts DEF OpenInv
    <3>5. InLine(Line, Waiting, Wanted(m)', unpauses, Floor')
      <4> DEFINE k == Wanted(m)'
                 l == Floor'
      <4>1. k \in Nat /\ Wanted(m) <= k /\ l \in Int /\ (l <= Floor \/ l = -1)
        BY <2>4, <3>1
      <4> HIDE DEF k, l
      <4>2. InLine(Line, Waiting, k, unpauses, l)
        BY <2>4, <3>4, <4>1, WiderLine
      <4> QED  BY <4>2 DEF k, l
    <3> QED  BY <1>1, <3>2, <3>3, <3>5, InLineSame
  <2>9. (Clean /\ pausing # 0 => LastFrame <= mediaStamp)'
    <3>1. mediaStamp \in Nat  BY TimesTyped DEF TypeInv, Numbers
    <3>2. Clean /\ pausing # 0 => LastFrame <= mediaStamp  BY <2>3 DEF OpenInv
    <3> QED  BY <1>1, <2>4, <2>7, <3>1, <3>2 DEF Clean
  <2>10. (Clean /\ pausing = 0 /\ Output # <<>> => epoch = unpauses)'
    BY <1>1, <2>2, <2>3 DEF Clean, OpenInv
  <2>11. OpenInv(m)'  BY <2>5, <2>6, <2>8, <2>9, <2>10 DEF OpenInv
  <2>12. FrameInv(m)'  BY <1>1, <1>3, <2>2, <2>11, FramesCut
  <2> QED  BY <2>12
<1>5. CASE pc # "packet"
  <2>1. pc' = "done" /\ UNCHANGED <<file, buffer>>  BY <1>5 DEF ReadTimesOut
  <2>2. Output' = Output  BY <2>1 DEF Output
  <2>3. ~Open'  BY <2>1 DEF Open
  <2>4. FrameInv(m)'  BY <1>1, <1>3, <2>2, <2>3, FramesCut
  <2> QED  BY <2>4
<1> QED  BY <1>4, <1>5, <1>6

-----------------------------------------------------------------------------
(* The frames, step by step: a frame arrives.                              *)

\* A frame that arrives is wanted or older, and, in the last epoch, new.
LEMMA FrameArrives ==
  ASSUME TypeInv, EpochInv, ControlInv, NEW m \in Times, FrameInv(m), MediaFrame
  PROVE  LET u == Head(toClient) IN
         /\ Open /\ OpenInv(m) /\ ~Waiting /\ ~Waiting' /\ ~ended
         /\ toClient # <<>> /\ toClient' = Tail(toClient) /\ u.type = "frame"
         /\ u.time \in Times /\ u.epoch \in Nat /\ u.epoch <= epoch /\ epoch <= unpauses
         /\ u.time <= Wanted(m)
         /\ u.epoch = unpauses => u.time > Floor
<1> DEFINE u == Head(toClient)
<1>1. /\ pc = "packet" /\ connected /\ toClient # <<>> /\ u.type = "frame"
      /\ toClient' = Tail(toClient) /\ pc' \in {"packet", "check", "done"}
  BY DEF MediaFrame, FirstFrame, Write
<1>2. Open /\ ~Waiting /\ ~Waiting' /\ ~ended
  BY <1>1 DEF Open, Waiting, ControlInv
<1>3. OpenInv(m)  BY <1>2 DEF FrameInv
<1>4. /\ u = toClient[1] /\ 1 \in 1..Len(toClient) /\ u.time \in Times /\ u.epoch \in Nat
  BY <1>1, HeadMessage DEF TypeInv
<1>5. u.epoch <= epoch /\ epoch <= unpauses
  BY <1>4, LineEpochs DEF EpochInv
<1>6. Line[1] = u /\ 1 \in 1..Len(Line)
  <2>1. /\ Line \in Seq(Media) /\ Line # <<>> /\ Line[1] = u  BY <1>1, LineFacts
  <2> QED  BY <2>1
<1>7. Heard(Line, Waiting, 1)  BY <1>1, <1>2, <1>6 DEF Heard
<1>8. ~ \E b \in 1..(1 - 1) : TRUE  OBVIOUS
<1>9. /\ u.time <= Wanted(m)
      /\ u.epoch = unpauses => u.time > Floor
  <2>1. InLine(Line, Waiting, Wanted(m), unpauses, Floor)  BY <1>3 DEF OpenInv
  <2> HIDE DEF u
  <2> QED  BY <1>6, <1>7, <1>8, <2>1 DEF InLine
<1> QED  BY <1>1, <1>2, <1>3, <1>4, <1>5, <1>9

\* What was sent before and is there already is passed over.
LEMMA FramesSkipped ==
  ASSUME TypeInv, EpochInv, ControlInv, NEW m \in Times, FrameInv(m), MediaFrame,
         Skipped(Head(toClient).time)
  PROVE  FrameInv(m)'
<1> DEFINE u == Head(toClient)
           t == u.time
           n == Wanted(m)
<1>1. /\ Open /\ OpenInv(m) /\ ~Waiting /\ ~Waiting'
      /\ toClient # <<>> /\ toClient' = Tail(toClient) /\ u.type = "frame" /\ t \in Times
  BY FrameArrives
<1>2. /\ UNCHANGED <<pc, pausing, file, buffer, gotHeader, timestamp, ended, late, lagging, early,
                     mediaStamp, pauseStamp, toServer, pos, epoch, unpauses>>
      /\ channelStamp' = t /\ pausing = 3 /\ t <= mediaStamp
  BY DEF MediaFrame, Skipped, serverVars
<1>3. /\ n \in Nat /\ Floor \in Int /\ unpauses \in Nat /\ m \in Nat
      /\ (early \/ Output # <<>> => n = m + 1)
  BY OutputFacts, LineFacts DEF FrameInv
<1>4. mediaStamp \in Nat /\ mediaStamp <= m /\ t \in Nat
  BY <1>1, TimesTyped DEF TypeInv, Numbers, FrameInv, Open
<1>5. n = m + 1  BY <1>1, <1>2, <1>3 DEF OpenInv
<1>6. t + 1 <= n /\ t <= m  BY <1>2, <1>3, <1>4, <1>5
<1>7. InLine(Line', Waiting', Wanted(m)', unpauses', Floor)
  <2>1. InLine(Line, Waiting, n, unpauses, Floor)  BY <1>1 DEF OpenInv
  <2>2. n <= n /\ Floor <= Floor  BY <1>3
  <2> HIDE DEF n, u
  <2>3. InLine(Line', Waiting, n, unpauses, Floor)
    BY <1>1, <1>2, <1>3, <1>6, <2>1, <2>2, LinePopped DEF u
  <2>4. Wanted(m)' = Wanted(m)  BY <1>2 DEF Wanted, Output
  <2> QED  BY <1>1, <1>2, <2>3, <2>4, InLineSame DEF n
<1>8. Clean' <=> Clean  BY <1>2 DEF Clean
<1>9. AllBegin(toServer', Wanted(m)')
  BY <1>1, <1>2 DEF OpenInv, Wanted, Output
<1>10. Clean /\ pausing = 0 /\ Output # <<>> => epoch' = unpauses'  BY <1>2
<1>11. OpenInv(m)'  BY <1>1, <1>2, <1>7, <1>8, <1>9, <1>10, OpenKept
<1>12. pc' # "done" => mediaStamp' <= m /\ channelStamp' <= m /\ pauseStamp' <= m
                       /\ timestamp' <= m
  BY <1>2, <1>6 DEF FrameInv
<1> QED  BY <1>2, <1>8, <1>11, <1>12, FramesKept

\* The output with one more frame.
LEMMA TakenFits ==
  ASSUME NEW s \in Seq(Times), NEW m \in Times, NEW t \in Times, UpTo(s, m),
         NEW n, n = (IF s = <<>> /\ ~early THEN 0 ELSE m + 1), t <= n,
         NEW k \in Times, k = IF t > m THEN t ELSE m
  PROVE  UpTo(Append(s, t), k)
<1> DEFINE r == Append(s, t)
<1>1. /\ Len(s) \in Nat /\ Len(r) = Len(s) + 1 /\ r[Len(s) + 1] = t
      /\ \A i \in 1..Len(s) : r[i] = s[i] /\ i \in 1..Len(r) /\ s[i] \in Nat
      /\ Len(s) + 1 \in 1..Len(r)
  <2>1. /\ Len(s) \in Nat /\ Len(r) = Len(s) + 1 /\ r[Len(s) + 1] = t
        /\ \A i \in 1..Len(s) : r[i] = s[i]
    BY Appended
  <2>2. \A i \in 1..Len(s) : s[i] \in Nat
    <3>1. \A i \in 1..Len(s) : s[i] \in Times  OBVIOUS
    <3> QED  BY <3>1, TimesTyped
  <2> HIDE DEF r
  <2> QED  BY <2>1, <2>2
<1> HIDE DEF r
<1>2. m \in Nat /\ t \in Nat /\ k \in Nat  BY TimesTyped
<1>3. \A i \in 1..Len(r) : r[i] <= k
  <2>1. ASSUME NEW i \in 1..Len(r) PROVE r[i] <= k
    <3>1. CASE i \in 1..Len(s)
      <4>1. s[i] <= m /\ s[i] \in Nat /\ r[i] = s[i]  BY <1>1, <3>1 DEF UpTo
      <4> QED  BY <1>2, <4>1
    <3>2. CASE i = Len(s) + 1  BY <1>1, <1>2, <3>2
    <3> QED  BY <1>1, <3>1, <3>2
  <2> QED  BY <2>1
<1>4. \A x \in 1..k : \E i \in 1..Len(r) : r[i] = x
  <2>1. ASSUME NEW x \in 1..k PROVE \E i \in 1..Len(r) : r[i] = x
    <3>1. CASE x \in 1..m
      <4>1. PICK i \in 1..Len(s) : s[i] = x  BY <3>1 DEF UpTo
      <4> QED  BY <1>1, <4>1
    <3>2. CASE x \notin 1..m
      <4>1. x = t  BY <1>2, <3>2
      <4> QED  BY <1>1, <4>1
    <3> QED  BY <3>1, <3>2
  <2> QED  BY <2>1
<1>5. early \/ \E i \in 1..Len(r) : r[i] = 0
  <2>1. CASE s = <<>> /\ ~early
    <3>1. t = 0  BY <1>2, <2>1
    <3> QED  BY <1>1, <3>1
  <2>2. CASE s # <<>> /\ ~early
    <3>1. PICK i \in 1..Len(s) : s[i] = 0  BY <2>2 DEF UpTo
    <3> QED  BY <1>1, <3>1
  <2> QED  BY <2>1, <2>2
<1> QED  BY <1>3, <1>4, <1>5 DEF UpTo, r

\* A frame newer than the last one keeps the order.
LEMMA TakenOrdered ==
  ASSUME NEW s \in Seq(Times), NEW t \in Times, InOrder(s),
         s # <<>> => s[Len(s)] < t
  PROVE  InOrder(Append(s, t))
<1> DEFINE r == Append(s, t)
<1>1. /\ Len(s) \in Nat /\ Len(r) = Len(s) + 1 /\ r[Len(s) + 1] = t
      /\ \A i \in 1..Len(s) : r[i] = s[i]
  OBVIOUS
<1> HIDE DEF r
<1>2. ASSUME NEW i \in 1..(Len(r) - 1) PROVE r[i] < r[i + 1]
  <2>1. CASE i \in 1..(Len(s) - 1)
    <3>1. i \in 1..Len(s) /\ i + 1 \in 1..Len(s)  BY <1>1, <2>1
    <3> QED  BY <1>1, <2>1, <3>1 DEF InOrder
  <2>2. CASE i = Len(s)
    <3>1. s # <<>> /\ i \in 1..Len(s)  BY <1>1, <2>2
    <3> QED  BY <1>1, <2>2, <3>1
  <2> QED  BY <1>1, <2>1, <2>2
<1> QED  BY <1>2 DEF InOrder, r

\* A frame is taken: the file goes on without a hole.
LEMMA FramesTaken ==
  ASSUME TypeInv, TypeInv', EpochInv, ControlInv, NEW m \in Times, FrameInv(m), MediaFrame,
         ~Skipped(Head(toClient).time)
  PROVE  \E k \in Times : FrameInv(k)'
<1> DEFINE u == Head(toClient)
           t == u.time
           n == Wanted(m)
<1>1. /\ Open /\ OpenInv(m) /\ ~Waiting /\ ~Waiting' /\ ~ended
      /\ toClient # <<>> /\ toClient' = Tail(toClient) /\ u.type = "frame" /\ t \in Times
      /\ u.epoch \in Nat /\ u.epoch <= epoch /\ epoch <= unpauses
      /\ t <= n /\ (u.epoch = unpauses => t > Floor)
  BY FrameArrives
<1>2. /\ UNCHANGED <<ended, lagging, early, pauseStamp, toServer, pos, epoch, unpauses, connected>>
      /\ channelStamp' = t /\ timestamp' = t
      /\ mediaStamp' = (IF pausing = 0 THEN t ELSE mediaStamp)
      /\ pausing' = (IF pausing = 3 THEN 0 ELSE pausing)
      /\ (gotHeader \/ t > 0) => gotHeader'
      /\ late' = (late \/ pausing \in {1, 2} \/ u.epoch < unpauses)
  BY DEF MediaFrame, FirstFrame, serverVars
<1>3. \/ /\ buffer' = <<>> /\ file' = file \o Append(buffer, t)
      \/ /\ buffer' = <<>> /\ file' = file /\ pc' = "done"
      \/ /\ buffer' = Append(buffer, t) /\ file' = file
  BY DEF MediaFrame, FirstFrame, Write
<1>10. m \in Nat /\ t \in Nat  BY <1>1, TimesTyped
<1>11. PICK k \in Times : k = IF t > m THEN t ELSE m  BY <1>1, <1>10
<1>4. /\ m \in Nat /\ t \in Nat /\ k \in Nat /\ m <= k /\ t <= k
      /\ mediaStamp \in Nat /\ pauseStamp \in Nat /\ pausing \in 0..3
  <2>1. mediaStamp \in Nat /\ pauseStamp \in Nat /\ pausing \in 0..3
    BY TimesTyped DEF TypeInv, Numbers
  <2>2. k \in Nat  BY TimesTyped
  <2> HIDE DEF u
  <2> QED  BY <1>10, <1>11, <2>1, <2>2
<1>5. /\ Output \in Seq(Times) /\ n \in Nat /\ Floor \in Int /\ LastFrame \in Nat
      /\ unpauses \in Nat /\ epoch \in Nat /\ UpTo(Output, m)
  BY OutputFacts, LineFacts DEF FrameInv
<1>6. mediaStamp <= m /\ pauseStamp <= m  BY <1>1 DEF FrameInv, Open
<1>7. file \in Seq(Times) /\ buffer \in Seq(Times)  BY DEF TypeInv, Queues
<1> HIDE DEF u, n
\* The write has failed: nothing is read any more.
<1>8. CASE buffer' = <<>> /\ file' = file /\ pc' = "done"
  <2>1. Output' = file
    <3>1. file \o <<>> = file  BY <1>7
    <3> QED  BY <1>8, <3>1 DEF Output
  <2>2. ~Open'  BY <1>8 DEF Open
  <2>3. CASE buffer = <<>>
    <3>1. Output' = Output
      <4>1. file \o <<>> = file  BY <1>7
      <4> QED  BY <2>1, <2>3, <4>1 DEF Output
    <3>2. UpTo(Output, m)' /\ (Clean => InOrder(Output))'
      BY <1>2, <3>1 DEF FrameInv, UpTo, Clean
    <3>3. FrameInv(m)'  BY <1>8, <2>2, <3>2 DEF FrameInv
    <3> QED  BY <3>3
  <2>4. CASE buffer # <<>>
    <3>1. Output' = <<>>  BY <2>1, <2>4 DEF ControlInv
    <3> QED  BY <1>8, <3>1, FramesDropped, TimesTyped
  <2> QED  BY <2>3, <2>4
<1>9. CASE ~(buffer' = <<>> /\ file' = file /\ pc' = "done")
  <2>1. Output' = Append(Output, t)
    <3>1. Append(buffer, t) \in Seq(Times) /\ file \o Append(buffer, t) = Append(file \o buffer, t)
      BY <1>1, <1>7
    <3>2. Append(file \o buffer, t) \o <<>> = Append(file \o buffer, t)
      BY <1>1, <1>7
    <3> QED  BY <1>3, <1>9, <3>1, <3>2 DEF Output
  <2>2. UpTo(Output, k)'
    <3>1. n = IF Output = <<>> /\ ~early THEN 0 ELSE m + 1
      BY <1>1 DEF Wanted, n
    <3>2. UpTo(Append(Output, t), k)
      BY <1>1, <1>5, <1>11, <3>1, TakenFits
    <3> QED  BY <1>2, <2>1, <3>2 DEF UpTo
  <2>3. Output' # <<>> /\ LastFrame' = t
    <3>1. t \in Times  BY <1>1
    <3>2. /\ Append(Output, t) # <<>>
          /\ Append(Output, t)[Len(Append(Output, t))] = t
      BY <1>5, <3>1, Appended
    <3> QED  BY <2>1, <3>2 DEF LastFrame, Output
  <2>4. Clean' => Clean /\ pausing \notin {1, 2} /\ u.epoch = unpauses /\ epoch = unpauses
    <3>1. Clean' => ~late /\ ~lagging /\ pausing \notin {1, 2} /\ ~(u.epoch < unpauses)
      BY <1>2 DEF Clean
    <3>2. u.epoch \in Nat /\ u.epoch <= epoch /\ epoch <= unpauses  BY <1>1 DEF u
    <3>3. ~(u.epoch < unpauses) => u.epoch = unpauses /\ epoch = unpauses
      BY <1>5, <3>2
    <3> QED  BY <3>1, <3>3 DEF Clean
  <2>5. (Clean => InOrder(Output))'
    <3> SUFFICES ASSUME Clean' PROVE InOrder(Output')
      OBVIOUS
    <3>1. InOrder(Output)  BY <2>4 DEF FrameInv
    <3>2. ASSUME Output # <<>> PROVE LastFrame < t
      <4>1. CASE pausing = 0
        <5>1. Floor = LastFrame  BY <2>4, <3>2, <4>1 DEF Floor
        <5> QED  BY <1>1, <1>4, <1>5, <2>4, <5>1 DEF u
      <4>2. CASE pausing = 3
        <5>1. LastFrame <= mediaStamp  BY <1>1, <2>4, <4>2 DEF OpenInv
        <5>2. ~(t <= mediaStamp)  BY <4>2 DEF Skipped, u
        <5> QED  BY <1>4, <1>5, <5>1, <5>2
      <4> QED  BY <1>4, <2>4, <4>1, <4>2
    <3>3. Output # <<>> => Output[Len(Output)] < t
      BY <3>2 DEF LastFrame, Output
    <3> QED  BY <1>1, <1>5, <2>1, <3>1, <3>3, TakenOrdered
  <2>6. pc' # "done" => mediaStamp' <= k /\ channelStamp' <= k /\ pauseStamp' <= k
                        /\ timestamp' <= k
    <3>1. mediaStamp' \in {t, mediaStamp}  BY <1>2
    <3> QED  BY <1>2, <1>4, <1>6, <3>1
  <2>7. OpenInv(k)'
    <3>1. Wanted(k)' = k + 1  BY <2>3 DEF Wanted
    <3>2. n <= k + 1 /\ t + 1 <= k + 1 /\ k + 1 \in Nat
      <4>1. n <= m + 1  BY <1>4 DEF n, Wanted
      <4> QED  BY <1>4, <1>5, <4>1
    <3>3. (k > 0 => gotHeader)' /\ (gotHeader => Output # <<>>)'
      <4>1. m > 0 => gotHeader  BY <1>1 DEF OpenInv
      <4>2. k > 0 => m > 0 \/ t > 0  BY <1>10, <1>11
      <4> QED  BY <1>2, <2>3, <4>1, <4>2
    <3>4. (pausing # 0 => early \/ gotHeader)'
      <4>1. pausing' # 0 => pausing # 0  BY <1>2
      <4>2. pausing # 0 => early \/ gotHeader  BY <1>1 DEF OpenInv
      <4> QED  BY <1>2, <4>1, <4>2
    <3>5. AllBegin(toServer', Wanted(k)')
      <4>1. toServer \in Seq(Commands) /\ AllBegin(toServer, n)
        BY <1>1 DEF TypeInv, Queues, OpenInv, n
      <4>2. AllBegin(toServer, k + 1)  BY <1>5, <3>2, <4>1, BeginWider
      <4> QED  BY <1>2, <3>1, <4>2
    <3>6. Clean' => pausing' = 0
      BY <1>2, <1>4, <2>4
    <3>7. InLine(Line', Waiting', Wanted(k)', unpauses', Floor')
      <4> DEFINE l == Floor'
                 j == k + 1
      <4>1. l = -1 \/ (l = t /\ u.epoch = unpauses)
        BY <2>3, <2>4 DEF Floor
      <4>2. l \in Int /\ j \in Nat /\ n <= j /\ t + 1 <= j  BY <1>4, <3>2, <4>1
      <4>3. InLine(Line, Waiting, n, unpauses, Floor)  BY <1>1 DEF OpenInv, n
      <4> HIDE DEF l, j
      <4>4. InLine(Line', Waiting, j, unpauses, l)
        BY <1>1, <1>2, <1>5, <4>1, <4>2, <4>3, LinePopped DEF u
      <4>5. InLine(Line', Waiting', j, unpauses, l)
        BY <1>1, <4>4, InLineSame
      <4> QED  BY <1>2, <3>1, <4>5 DEF l, j
    <3>8. (Clean /\ pausing # 0 => LastFrame <= mediaStamp)'  BY <3>6
    <3>9. (Clean /\ pausing = 0 /\ Output # <<>> => epoch = unpauses)'
      BY <1>2, <2>4
    <3> QED  BY <3>3, <3>4, <3>5, <3>7, <3>8, <3>9 DEF OpenInv
  <2>8. FrameInv(k)'  BY <2>2, <2>5, <2>6, <2>7 DEF FrameInv
  <2> QED  BY <1>4, <2>8
<1> QED  BY <1>8, <1>9

\* Each step leads from a file up to m to a file up to m or to the next frame.
LEMMA FrameStep ==
  ASSUME TypeInv, TypeInv', ControlInv, CallInv, EpochInv, NEW m \in Times, FrameInv(m),
         [StreamNext]_streamVars
  PROVE  \E k \in Times : FrameInv(k)'
<1>1. CASE Main
  <2>1. CASE Connect  BY <2>1, FramesConnect
  <2>2. CASE Resume
    <3>1. CASE GiveUp  BY <2>2, <3>1, FramesMain
    <3>2. CASE Toggle  BY <2>2, <3>2, FramesToggle
    <3>3. CASE Reconnect  BY <2>2, <3>3, FramesReconnect
    <3> QED  BY <2>2, <3>1, <3>2, <3>3 DEF Resume
  <2>3. CASE Stopped \/ ConnectStreamReturns \/ Read \/ Check  BY <2>3, FramesMain
  <2> QED  BY <1>1, <2>1, <2>2, <2>3 DEF Main
<1>2. CASE Packet
  <2>1. CASE HandleResult \/ HandlePauseNotify \/ IgnoreFrame
    <3>1. pausing = 0 => pausing' = 0
      BY <2>1 DEF HandleResult, HandlePauseNotify, IgnoreFrame, rtmpVars
    <3> QED  BY <2>1, <3>1, FramesHandled
  <2>2. CASE HandleCtrl  BY <2>2, FramesHandled, FramesPause
  <2>3. CASE HandlePlayStart  BY <2>3, FramesStarted
  <2>4. CASE HandleEnd \/ ReadClosed  BY <2>4, FramesClosed
  <2>5. CASE ReadTimesOut  BY <2>5, FramesTimedOut
  <2>6. CASE MediaFrame  BY <2>6, FramesSkipped, FramesTaken
  <2> QED  BY <1>2, <2>1, <2>2, <2>3, <2>4, <2>5, <2>6 DEF Packet
<1>3. CASE Server
  <2>1. CASE ServerCommand  BY <2>1, FramesServerCommand
  <2>2. CASE ServerFrame \/ ServerComplete \/ ServerChatter  BY <2>2, FramesServer
  <2>3. CASE ServerLost  BY <2>3, FramesMain
  <2> QED  BY <1>3, <2>1, <2>2, <2>3 DEF Server
<1>4. CASE Stop \/ UNCHANGED streamVars  BY <1>4, FramesMain
<1> QED  BY <1>1, <1>2, <1>3, <1>4 DEF StreamNext

-----------------------------------------------------------------------------
(* The end of a download.                                                  *)

\* A step that ends a call ends it for good.
LEMMA DoneStays ==
  ASSUME pc = "done", [StreamNext]_streamVars
  PROVE  UNCHANGED <<pc, nStatus, known, first, file, buffer, early>>
<1>1. ~Main  BY DEF Main, Connect, Resume, Stopped, ConnectStreamReturns, Read, Check
<1>2. ~Packet
  BY DEF Packet, HandleResult, HandlePlayStart, HandlePauseNotify, HandleCtrl, HandleEnd,
         ReadClosed, ReadTimesOut, IgnoreFrame, MediaFrame, Receive, Reading
<1>3. ~Server
  BY DEF Server, ServerCommand, ServerFrame, ServerComplete, ServerChatter, ServerLost, MaySend
<1>4. ~Stop  BY DEF Stop
<1> QED
  BY <1>1, <1>2, <1>3, <1>4 DEF StreamNext, streamVars, mainVars, readVars, historyVars

\* Only Check ends a call with RD_SUCCESS once it has begun.
LEMMA SucceedsInCheck ==
  ASSUME ControlInv, pc # "done", pc' = "done", nStatus' = "SUCCESS", ~first',
         [StreamNext]_streamVars
  PROVE  Check
<1> USE DEF mainVars, rtmpVars, mediaVars, readVars, serverVars, historyVars
<1>1. ~Connect /\ ~Read  BY DEF Connect, Read
<1>2. ~Resume  BY DEF Resume, GiveUp, Toggle, Reconnect
<1>3. ~Stopped
  <2>1. Stopped => pc = "loop" /\ ~first /\ nStatus = "SUCCESS"  BY DEF Stopped
  <2> QED  BY <2>1 DEF ControlInv
<1>4. ~ConnectStreamReturns  BY DEF ConnectStreamReturns
<1>5. ~(HandleResult \/ HandlePlayStart \/ HandlePauseNotify \/ HandleCtrl \/ IgnoreFrame)
  BY DEF HandleResult, HandlePlayStart, HandlePauseNotify, HandleCtrl, IgnoreFrame, Receive
<1>6. ~(HandleEnd \/ ReadClosed \/ ReadTimesOut)
  BY DEF HandleEnd, ReadClosed, ReadTimesOut, ReadFails, Write
<1>7. ~MediaFrame  BY DEF MediaFrame, FirstFrame, Write
<1>8. ~(Server \/ Stop \/ UNCHANGED streamVars)
  BY DEF Server, ServerCommand, ServerFrame, ServerComplete, ServerChatter, ServerLost,
         ClientUnchanged, Stop, streamVars
<1> QED  BY <1>1, <1>2, <1>3, <1>4, <1>5, <1>6, <1>7, <1>8 DEF StreamNext, Main, Packet

\* Enough whole parts of the duration.
LEMMA PartsReached ==
  ASSUME NEW a \in Nat, NEW b \in Nat \ {0}, NEW c \in Nat, ~(a \div b < c)
  PROVE  c * b <= a
<1> DEFINE q == a \div b
<1>1. q \in Nat /\ b * q <= a  OBVIOUS
<1>2. c <= q  BY <1>1
<1> HIDE DEF q
<1>3. b * c <= b * q  BY <1>1, <1>2
<1>4. b * c \in Nat /\ b * q \in Nat /\ c * b = b * c  BY <1>1
<1> QED  BY <1>1, <1>3, <1>4

LEMMA PartsOrdered ==
  ASSUME NEW a \in Nat, NEW b \in Nat, NEW p \in Nat \ {0}, a * p <= b * p
  PROVE  a <= b
<1> SUFFICES ASSUME b + 1 <= a PROVE FALSE
  OBVIOUS
<1>1. (b + 1) * p <= a * p  OBVIOUS
<1>2. (b + 1) * p = b * p + p  OBVIOUS
<1>3. b * p \in Nat /\ a * p \in Nat  OBVIOUS
<1> QED  BY <1>1, <1>2, <1>3

\* A file up to m as a set of times.
LEMMA WrittenFacts ==
  ASSUME TypeInv, NEW m \in Times, UpTo(Output, m)
  PROVE  /\ Written \subseteq Times /\ (\A t \in Written : t <= m)
         /\ 1..m \subseteq Written
         /\ Output = <<>> \/ early \/ 0 \in Written
<1>1. Output \in Seq(Times)  BY OutputFacts
<1>2. DOMAIN Output = 1..Len(Output) /\ \A i \in 1..Len(Output) : Output[i] \in Times
  BY <1>1
<1>3. Written = {Output[i] : i \in 1..Len(Output)}  BY <1>2 DEF Written
<1> QED  BY <1>2, <1>3 DEF UpTo

\* RD_SUCCESS is decided by Check, with the file up to the last frame.
LEMMA SuccessStep ==
  ASSUME TypeInv, ControlInv, SuccessIsWhole, NEW m \in Times, FrameInv(m),
         [StreamNext]_streamVars
  PROVE  SuccessIsWhole'
<1>1. CASE pc = "done"
  <2>1. UNCHANGED <<pc, nStatus, known, first, file, buffer, early>>  BY <1>1, DoneStays
  <2>2. Written' = Written  BY <2>1 DEF Written, Output
  <2> QED  BY <2>1, <2>2 DEF SuccessIsWhole
<1>2. CASE pc # "done"
  <2> SUFFICES ASSUME pc' = "done", nStatus' = "SUCCESS", known', ~first'
               PROVE  /\ buffer' = <<>>
                      /\ \A t \in 1..LastTime :
                            t * Parts <= Enough * LastTime => t \in Written'
                      /\ 0 \in Written' \/ early'
    BY DEF SuccessIsWhole
  <2>2. Check  BY <1>2, SucceedsInCheck
  <2>3. /\ pc = "check" /\ UNCHANGED <<file, buffer, early, known>>
        /\ nStatus' = StatusOf(known)
    BY <2>2 DEF Check, readVars, historyVars
  <2>1. /\ timestamp \in Nat /\ m \in Nat /\ LastTime \in Nat \ {0}
        /\ Parts \in Nat \ {0} /\ Enough \in Nat \ {0}
    BY TimesTyped, StreamAssumption DEF TypeInv, Numbers
  <2>4. Enough * LastTime <= timestamp * Parts
    <3>1. ~((timestamp * Parts) \div LastTime < Enough)  BY <2>3 DEF StatusOf
    <3>2. timestamp * Parts \in Nat  BY <2>1
    <3> QED  BY <2>1, <3>1, <3>2, PartsReached
  <2>5. UpTo(Output, m) /\ timestamp <= m  BY <1>2 DEF FrameInv
  <2>6. ASSUME NEW t \in 1..LastTime, t * Parts <= Enough * LastTime
        PROVE  t \in 1..m
    <3>1. t \in Nat /\ t * Parts \in Nat /\ Enough * LastTime \in Nat
          /\ timestamp * Parts \in Nat
      BY <2>1
    <3>2. t * Parts <= timestamp * Parts  BY <2>4, <2>6, <3>1
    <3>3. t <= timestamp  BY <2>1, <3>1, <3>2, PartsOrdered
    <3> QED  BY <2>1, <2>5, <3>3
  <2>7. Output # <<>>
    <3>1. timestamp # 0
      <4>1. Enough * LastTime # 0  BY <2>1
      <4>2. 0 * Parts = 0  BY <2>1
      <4> QED  BY <2>1, <2>4, <4>1, <4>2
    <3>2. m > 0  BY <2>1, <2>5, <3>1
    <3> QED  BY <2>5, <3>2, OutputFacts
  <2>8. /\ \A t \in 1..LastTime : t * Parts <= Enough * LastTime => t \in Written
        /\ 0 \in Written \/ early
    BY <2>5, <2>6, <2>7, WrittenFacts
  <2>9. Written' = Written  BY <2>3 DEF Written, Output
  <2>10. buffer = <<>>  BY <2>3 DEF ControlInv
  <2> QED  BY <2>3, <2>8, <2>9, <2>10
<1> QED  BY <1>1, <1>2

-----------------------------------------------------------------------------
(* The theorems.                                                           *)

LEMMA InitInv == StreamInit => StreamInv
<1> SUFFICES ASSUME StreamInit PROVE StreamInv
  OBVIOUS
<1>1. TypeInv  BY InitTyped
<1>2. /\ pc = "loop" /\ first /\ ~connected /\ ~known /\ ~bPlaying /\ ~gotHeader
      /\ file = <<>> /\ buffer = <<>> /\ toServer = <<>> /\ toClient = <<>>
      /\ pausing = 0 /\ epoch = 0 /\ unpauses = 0
      /\ mediaStamp = 0 /\ channelStamp = 0 /\ pauseStamp = 0 /\ timestamp = 0
  BY DEF StreamInit
<1>3. ControlInv  BY <1>2 DEF ControlInv, NotBegun
<1>4. CallInv  BY <1>2 DEF CallInv, Open
<1>5. EpochInv
  <2>1. Len(<<>>) = 0 /\ 1..0 = {} /\ 0 \in Nat  OBVIOUS
  <2>2. Counts(<<>>, 0, 0)  BY <2>1, CountsEmpty
  <2> QED  BY <1>2, <2>1, <2>2 DEF EpochInv
<1>6. SuccessIsWhole  BY <1>2 DEF SuccessIsWhole
<1>7. FrameInv(0)
  <2>1. Output = <<>>
    <3>1. <<>> \o <<>> = <<>>  OBVIOUS
    <3> QED  BY <1>2, <3>1 DEF Output
  <2>2. UpTo(Output, 0) /\ InOrder(Output)  BY <2>1, EmptyOutput
  <2>3. ~Open  BY <1>2 DEF Open
  <2>4. mediaStamp <= 0 /\ channelStamp <= 0 /\ pauseStamp <= 0 /\ timestamp <= 0  BY <1>2
  <2> QED  BY <2>2, <2>3, <2>4 DEF FrameInv
<1> QED  BY <1>1, <1>3, <1>4, <1>5, <1>6, <1>7, TimesTyped DEF StreamInv

LEMMA InvStep == StreamInv /\ [StreamNext]_streamVars => StreamInv'
<1> SUFFICES ASSUME StreamInv, [StreamNext]_streamVars PROVE StreamInv'
  OBVIOUS
<1>1. TypeInv /\ ControlInv /\ CallInv /\ EpochInv /\ SuccessIsWhole  BY DEF StreamInv
<1>2. PICK m \in Times : FrameInv(m)  BY DEF StreamInv
<1>3. TypeInv'  BY <1>1, TypeStep
<1>4. ControlInv'  BY <1>1, ControlStep
<1>5. CallInv'  BY <1>1, CallStep
<1>6. EpochInv'  BY <1>1, EpochStep
<1>7. SuccessIsWhole'  BY <1>1, <1>2, SuccessStep
<1>8. \E k \in Times : FrameInv(k)'  BY <1>1, <1>2, <1>3, FrameStep
<1> QED  BY <1>3, <1>4, <1>5, <1>6, <1>7, <1>8 DEF StreamInv

\* The strengthened invariant: what the file holds goes up to some time m without a hole,
\* every stamp of the client (m_mediaStamp, m_pauseStamp, m_channelTimestamp, timestamp)
\* is at most m, one call at a time is under way, and the frames under way go on from m.
THEOREM StreamInvariance == StreamSpec => []StreamInv
<1>1. StreamInit => StreamInv  BY InitInv
<1>2. StreamInv /\ [StreamNext]_streamVars => StreamInv'  BY InvStep
<1> QED  BY <1>1, <1>2, PTL DEF StreamSpec

\* The stamps of RTMP stay within the stream and pausing within its four values, and the
\* server has never handled more unpauses than RTMP_SendPause has sent.
THEOREM StreamTypeCorrect == StreamSpec => []StreamTypeOK
<1>1. StreamInv => StreamTypeOK
  <2> SUFFICES ASSUME StreamInv PROVE StreamTypeOK
    OBVIOUS
  <2>1. Flags /\ Numbers /\ TypeInv /\ EpochInv  BY DEF StreamInv, TypeInv
  <2>2. epoch \in 0..unpauses  BY <2>1, LineEpochs
  <2>3. /\ first \in BOOLEAN /\ ctrlC \in BOOLEAN /\ known \in BOOLEAN
        /\ connected \in BOOLEAN /\ timedout \in BOOLEAN /\ bPlaying \in BOOLEAN
    BY <2>1 DEF Flags
  <2>4. /\ pc \in {"loop", "connect", "read", "packet", "check", "done"}
        /\ nStatus \in {"SUCCESS", "FAILED", "INCOMPLETE", "NO_CONNECT"}
        /\ retries \in 0..1 /\ pausing \in 0..3
        /\ pauseStamp \in 0..LastTime /\ mediaStamp \in 0..LastTime
        /\ channelStamp \in 0..LastTime /\ timestamp \in 0..LastTime
        /\ nSent \in 0..MaxSent
    BY <2>1 DEF Numbers, Times
  <2> QED  BY <2>2, <2>3, <2>4 DEF StreamTypeOK
<1> QED  BY <1>1, StreamInvariance, PTL

\* Whatever RTMP_ToggleStream and RTMP_ReconnectStream do and wherever the server starts
\* again, the file has no hole: each frame follows the one before it, but for the frames
\* of time 0 when RTMP_SendPause came before anything else had.
THEOREM NoGapEver == StreamSpec => []NoGap
<1>1. StreamInv => NoGap
  <2> SUFFICES ASSUME StreamInv, NEW t \in Written
               PROVE  t = 0 \/ t - 1 \in Written \/ (t = 1 /\ early)
    BY DEF NoGap
  <2>1. PICK m \in Times : FrameInv(m)  BY DEF StreamInv
  <2>2. TypeInv /\ UpTo(Output, m)  BY <2>1 DEF StreamInv, FrameInv
  <2>3. /\ t \in Nat /\ m \in Nat /\ t <= m /\ 1..m \subseteq Written
        /\ Output = <<>> \/ early \/ 0 \in Written
        /\ Output = <<>> => m = 0
    BY <2>2, WrittenFacts, OutputFacts, TimesTyped
  <2>4. CASE t > 1
    <3>1. t - 1 \in 1..m  BY <2>3, <2>4
    <3> QED  BY <2>3, <3>1
  <2>5. CASE t = 1
    <3>1. early \/ 0 \in Written  BY <2>3, <2>5
    <3>2. t - 1 = 0  BY <2>5
    <3> QED  BY <2>5, <3>1, <3>2
  <2> QED  BY <2>3, <2>4, <2>5
<1> QED  BY <1>1, StreamInvariance, PTL

\* No frame is written twice although the server may send any again after an unpause: the
\* skip in RTMP_GetNextMediaPacket is enough, unless frames crossed with an unpause or a
\* pause went out before a second frame had come since the last unpause.
THEOREM WrittenOnceEver == StreamSpec => []WrittenOnce
<1>1. StreamInv => WrittenOnce
  <2> SUFFICES ASSUME StreamInv, ~late, ~lagging, NEW i \in 1..(Len(Output) - 1)
               PROVE  Output[i + 1] > Output[i]
    BY DEF WrittenOnce
  <2>1. PICK m \in Times : FrameInv(m)  BY DEF StreamInv
  <2>2. InOrder(Output)  BY <2>1 DEF FrameInv, Clean
  <2> QED  BY <2>2 DEF InOrder
<1> QED  BY <1>1, StreamInvariance, PTL

\* A download that ends with RD_SUCCESS and a known duration has all of the stream in its
\* file, for any stream and however often it was paused, resumed or repeated.
THEOREM SuccessMeansWhole == StreamSpec => []SuccessIsWhole
<1>1. StreamInv => SuccessIsWhole  BY DEF StreamInv
<1> QED  BY <1>1, StreamInvariance, PTL
=============================================================================
