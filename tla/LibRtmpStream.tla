---------------------------- MODULE LibRtmpStream ----------------------------
(***************************************************************************)
(* One download inside the native library: the loops of main_rtmpdump and  *)
(* Download, and what librtmp does to keep a stream moving: a pause and an *)
(* unpause when the server reports its buffer sent or nothing arrives in   *)
(* time (RTMP_ToggleStream), and one new stream on the same connection     *)
(* when that did not help (RTMP_ReconnectStream).                          *)
(*                                                                         *)
(* NativeRTMP has the calls and their globals, with reads of any outcome;  *)
(* here it is one call, and what its reads do.  A frame is its timestamp   *)
(* and stands for all that is sent at that time; packets too small to have *)
(* content are left out.  The download is neither live nor resumed from a  *)
(* file, as the application starts it.                                     *)
(*                                                                         *)
(* The server and the connection are external: bytes arrive in order, late *)
(* or never, and a server that is told to go on from a time may send what  *)
(* it has sent before.                                                     *)
(***************************************************************************)
EXTENDS Integers, Sequences

CONSTANTS
    LastTime,   \* the time of the last frame, and the duration when it is known
    Parts,      \* the parts the duration is counted in: 1000 in the code
    Enough,     \* those that make a download complete: 999 in the code
    MaxSent,    \* bound: frames the server sends, repetitions included
    MaxQueue    \* bound: messages on their way to the client

ASSUME StreamAssumption ==
    /\ LastTime \in Nat \ {0} /\ MaxSent \in Nat /\ MaxQueue \in Nat \ {0}
    /\ Parts \in Nat \ {0} /\ Enough \in 1..Parts

VARIABLES
    \* main_rtmpdump and Download
    pc, first, retries, nStatus, ctrlC,
    known,         \* is duration > 0 in this call of Download?
    file,          \* the frames that were written
    \* RTMP
    connected,     \* m_sb.sb_socket != -1
    timedout,      \* m_sb.sb_timedout
    bPlaying, streamOpen, pausing, pauseStamp, mediaStamp,
    channelStamp,  \* m_channelTimestamp[m_mediaChannel]
    \* RTMP.m_read
    ended,         \* status is RTMP_READ_EOF or RTMP_READ_COMPLETE
    gotHeader,     \* RTMP_READ_HEADER, or its loop has ended
    timestamp,
    buffer,        \* frames that were read and not yet written
    \* the server and the connection
    toServer, toClient, mode, pos, lost, nSent, epoch,
    \* history
    unpauses,      \* unpauses sent; the server's epoch counts those it has handled
    late,          \* a frame was taken that a pause or an unpause should have stopped
    lagging,       \* a pause was sent with mediaStamp behind the last frame
    early          \* a pause was sent before that loop had ended

mainVars == <<first, retries, nStatus, known>>
rtmpVars == <<connected, bPlaying, streamOpen, pausing, pauseStamp>>
mediaVars == <<mediaStamp, channelStamp>>
readVars == <<ended, gotHeader, timestamp, buffer>>
serverVars == <<mode, pos, lost, nSent, epoch>>
historyVars == <<unpauses, late, lagging, early>>
streamVars == <<pc, mainVars, ctrlC, file, rtmpVars, timedout, mediaVars, readVars,
                toServer, toClient, serverVars, historyVars>>

Frame(t) == [type |-> "frame", time |-> t, epoch |-> epoch]
Message(type) == [type |-> type, time |-> 0, epoch |-> 0]
Command(type, t) == [type |-> type, time |-> t]

StreamInit ==
    /\ pc = "loop" /\ first = TRUE /\ retries = 0
    /\ nStatus = "SUCCESS" /\ ctrlC = FALSE
    /\ known = FALSE
    /\ file = <<>>
    /\ connected = FALSE /\ timedout = FALSE
    /\ bPlaying = FALSE /\ streamOpen = FALSE
    /\ pausing = 0 /\ pauseStamp = 0 /\ mediaStamp = 0 /\ channelStamp = 0
    /\ ended = FALSE /\ gotHeader = FALSE /\ timestamp = 0 /\ buffer = <<>>
    /\ toServer = <<>> /\ toClient = <<>>
    /\ mode = "idle" /\ pos = 0 /\ lost = FALSE /\ nSent = 0 /\ epoch = 0
    /\ unpauses = 0 /\ late = FALSE /\ lagging = FALSE /\ early = FALSE

-----------------------------------------------------------------------------
(* Pausing.  pausing is 0, 1 after a pause, 2 after the server's end of     *)
(* stream, 3 after the unpause.                                            *)

LastFrame == IF file \o buffer = <<>> THEN 0 ELSE (file \o buffer)[Len(file \o buffer)]

\* RTMP_SendPause(TRUE, stamp)
SendPause(stamp) ==
    /\ toServer' = Append(toServer, Command("pause", stamp))
    /\ lagging' = (lagging \/ mediaStamp < LastFrame)
    /\ early' = (early \/ ~gotHeader)
    /\ UNCHANGED unpauses

\* RTMP_SendPause(FALSE, stamp)
SendUnpause(stamp) ==
    /\ toServer' = Append(toServer, Command("unpause", stamp))
    /\ unpauses' = unpauses + 1
    /\ UNCHANGED <<lagging, early>>

\* RTMP_ToggleStream; an end of file is forgotten only if nothing was paused.
Toggle ==
    /\ pausing # 3
    /\ ended' = (ended /\ pausing # 0)
    /\ toServer' = toServer \o
          (IF pausing = 0 THEN <<Command("pause", pauseStamp)>> ELSE <<>>)
            \o <<Command("unpause", pauseStamp)>>
    /\ lagging' = (lagging \/ (pausing = 0 /\ mediaStamp < LastFrame))
    /\ early' = (early \/ ~gotHeader)
    /\ unpauses' = unpauses + 1
    /\ pausing' = 3
    /\ pc' = "read"
    /\ timestamp' = 0
    /\ known' = FALSE
    /\ UNCHANGED <<retries, nStatus, connected, bPlaying, streamOpen, pauseStamp, channelStamp>>

\* RTMP_ReconnectStream: RTMP_DeleteStream, RTMP_SendCreateStream.
Reconnect ==
    /\ pausing = 3
    /\ retries' = 1
    /\ bPlaying' = (bPlaying /\ ~streamOpen)
    /\ streamOpen' = FALSE
    /\ toServer' = toServer \o
          (IF streamOpen THEN <<Command("deleteStream", 0)>> ELSE <<>>)
            \o <<Command("createStream", 0)>>
    /\ channelStamp' = 0
    /\ pc' = "connect"
    /\ known' = FALSE
    /\ UNCHANGED <<nStatus, connected, pausing, pauseStamp, ended, timestamp, unpauses, lagging,
                   early>>

-----------------------------------------------------------------------------
(* main_rtmpdump                                                           *)

\* RTMP_Connect, which sends the connect call.
Connect ==
    /\ pc = "loop" /\ ~ctrlC /\ first
    /\ first' = FALSE
    /\ \/ /\ pc' = "connect" /\ connected' = TRUE
          /\ toServer' = <<Command("connect", 0)>>
          /\ UNCHANGED nStatus
       \/ /\ pc' = "done" /\ nStatus' = "NO_CONNECT"
          /\ UNCHANGED <<connected, toServer>>
    /\ UNCHANGED <<retries, known, ctrlC, file, timedout, bPlaying, streamOpen, pausing,
                   pauseStamp, mediaVars, readVars, toClient, serverVars, historyVars>>

\* "Failed to resume the stream": the second time round, or nothing can be sent.
GiveUp ==
    /\ retries = 1 \/ lost
    /\ pc' = "done"
    /\ nStatus' = IF timedout THEN "INCOMPLETE" ELSE "FAILED"
    /\ UNCHANGED <<retries, known, rtmpVars, channelStamp, ended, timestamp, toServer,
                   unpauses, lagging, early>>

Resume ==
    /\ pc = "loop" /\ ~ctrlC /\ ~first
    /\ \/ GiveUp
       \/ retries = 0 /\ Toggle
       \/ retries = 0 /\ Reconnect
    /\ UNCHANGED <<first, ctrlC, file, timedout, mediaStamp, gotHeader, buffer,
                   toClient, serverVars, late>>

Stopped ==
    /\ pc = "loop" /\ ctrlC
    /\ pc' = "done"
    /\ UNCHANGED <<mainVars, ctrlC, file, rtmpVars, timedout, mediaVars, readVars, toServer,
                   toClient, serverVars, historyVars>>

\* RTMP_ConnectStream returns m_bPlaying; Download begins.
ConnectStreamReturns ==
    /\ pc = "connect" /\ (bPlaying \/ ~connected)
    /\ IF bPlaying
       THEN /\ pc' = "read"
            /\ timestamp' = IF retries = 1 THEN pauseStamp ELSE 0
            /\ UNCHANGED nStatus
       ELSE /\ pc' = "done"
            /\ nStatus' = IF retries = 1 /\ timedout THEN "INCOMPLETE" ELSE "FAILED"
            /\ UNCHANGED timestamp
    /\ UNCHANGED <<first, retries, known, ctrlC, file, rtmpVars, timedout, mediaVars, ended,
                   gotHeader, buffer, toServer, toClient, serverVars, historyVars>>

-----------------------------------------------------------------------------
(* Download                                                                *)

\* RTMP_Read, which returns at once when the stream has ended.
Read ==
    /\ pc = "read"
    /\ pc' = IF ended THEN "check" ELSE "packet"
    /\ UNCHANGED <<mainVars, ctrlC, file, rtmpVars, timedout, mediaVars, readVars, toServer,
                   toClient, serverVars, historyVars>>

\* Mutant: the flag is looked at in main_rtmpdump only.
GoOnStopped == connected /\ ~timedout

\* The condition of Download's loop.
GoOn == ~ctrlC /\ connected /\ ~timedout

\* Mutant: the duration is not compared.
StatusOfAny(k) == "SUCCESS"

\* The percentage of the duration k is cut to a tenth, and 99.9 is enough.
StatusOf(k) ==
    IF k /\ (timestamp * Parts) \div LastTime < Enough THEN "INCOMPLETE" ELSE "SUCCESS"

\* The end of Download, and of the loop of main_rtmpdump.
Check ==
    /\ pc = "check"
    /\ \/ /\ GoOn
          /\ pc' = "read"
          /\ UNCHANGED nStatus
       \/ /\ ctrlC \/ timedout
          /\ nStatus' = "INCOMPLETE"
          /\ pc' = IF timedout THEN "loop" ELSE "done"
       \/ /\ ~ctrlC /\ ~connected /\ ~timedout
          /\ nStatus' = StatusOf(known)
          /\ pc' = "done"
    /\ UNCHANGED <<first, retries, known, ctrlC, file, rtmpVars, timedout, mediaVars, readVars,
                   toServer, toClient, serverVars, historyVars>>

-----------------------------------------------------------------------------
(* RTMP_ReadPacket and RTMP_ClientPacket, in RTMP_ConnectStream ("connect") *)
(* or in RTMP_GetNextMediaPacket ("packet").                               *)

Reading ==
    /\ connected
    /\ pc = "packet" \/ (pc = "connect" /\ ~bPlaying)

\* A message of a type was read.
Receive(type) ==
    /\ Reading
    /\ toClient # <<>> /\ Head(toClient).type = type
    /\ toClient' = Tail(toClient)
    /\ timedout' = FALSE
    /\ UNCHANGED <<pc, mainVars, ctrlC, file, mediaVars, gotHeader, timestamp, ended, serverVars>>

\* HandleInvoke: _result of connect and createStream.
HandleResult ==
    \/ /\ Receive("connected")
       /\ toServer' = Append(toServer, Command("createStream", 0))
       /\ UNCHANGED <<rtmpVars, buffer, historyVars>>
    \/ /\ Receive("created")
       /\ streamOpen' = TRUE
       /\ toServer' = Append(toServer, Command("play", IF retries = 1 THEN pauseStamp ELSE 0))
       /\ UNCHANGED <<connected, bPlaying, pausing, pauseStamp, buffer, historyVars>>

\* HandleInvoke: onStatus of a play that has started.
HandlePlayStart ==
    /\ Receive("start")
    /\ bPlaying' = TRUE
    /\ UNCHANGED <<connected, streamOpen, pausing, pauseStamp, buffer, toServer, historyVars>>

\* HandleInvoke: onStatus of a pause.
HandlePauseNotify ==
    /\ Receive("notify")
    /\ IF pausing \in {1, 2}
       THEN SendUnpause(pauseStamp) /\ pausing' = 3
       ELSE UNCHANGED <<toServer, unpauses, lagging, early, pausing>>
    /\ UNCHANGED <<connected, bPlaying, streamOpen, pauseStamp, buffer, late>>

\* Mutant: any end of stream counts.
AfterAnyEof(p) == p + 1

\* Only the end of stream that answers a pause counts.
AfterEof(p) == IF p = 1 THEN 2 ELSE p

\* HandleCtrl: end of stream, buffer empty, ping.
HandleCtrl ==
    \/ /\ Receive("eof")
       /\ pausing' = AfterEof(pausing)
       /\ UNCHANGED <<connected, bPlaying, streamOpen, pauseStamp, buffer, toServer, historyVars>>
    \/ /\ Receive("empty")
       /\ \/ /\ pausing = 0
             /\ SendPause(channelStamp)
             /\ pauseStamp' = channelStamp /\ pausing' = 1
          \/ /\ pausing = 2
             /\ SendUnpause(pauseStamp)
             /\ pausing' = 3
             /\ UNCHANGED pauseStamp
          \/ /\ pausing \in {1, 3}
             /\ UNCHANGED <<toServer, unpauses, lagging, early, pauseStamp, pausing>>
       /\ UNCHANGED <<connected, bPlaying, streamOpen, buffer, late>>
    \/ /\ Receive("ping")
       /\ UNCHANGED <<rtmpVars, buffer, toServer, historyVars>>

\* RTMP_Close
Close ==
    /\ connected' = FALSE /\ bPlaying' = FALSE /\ streamOpen' = FALSE
    /\ UNCHANGED <<pausing, pauseStamp>>

\* Download writes what RTMP_Read returned, and looks for the duration if it has none yet;
\* a write may fail.
Write(frames) ==
    /\ buffer' = <<>>
    /\ \/ /\ file' = file \o frames
          /\ pc' = "check"
          /\ known' \in {known, TRUE}
          /\ UNCHANGED nStatus
       \/ /\ pc' = "done" /\ nStatus' = "FAILED"
          /\ UNCHANGED <<file, known>>

\* Read_1_Packet fails, so RTMP_Read returns what it has: before the end of the loop that
\* waits for the header, that is thrown away.
ReadFails ==
    /\ ended' = TRUE
    /\ IF gotHeader /\ buffer # <<>>
       THEN Write(buffer)
       ELSE /\ pc' = "check" /\ buffer' = <<>>
            /\ UNCHANGED <<nStatus, known, file>>

\* HandleInvoke: the stream is complete, or play has failed.
HandleEnd ==
    /\ Reading
    /\ toClient # <<>> /\ Head(toClient).type \in {"complete", "failed"}
    /\ toClient' = Tail(toClient)
    /\ timedout' = FALSE
    /\ Close
    /\ IF pc = "packet" THEN ReadFails
       ELSE UNCHANGED <<pc, nStatus, known, ended, file, buffer>>
    /\ gotHeader' = FALSE
    /\ UNCHANGED <<first, retries, ctrlC, mediaVars, timestamp, toServer, serverVars,
                   historyVars>>

\* ReadN: the connection has been closed.
ReadClosed ==
    /\ Reading
    /\ lost /\ toClient = <<>>
    /\ timedout' = FALSE
    /\ Close
    /\ IF pc = "packet" THEN ReadFails
       ELSE UNCHANGED <<pc, nStatus, known, ended, file, buffer>>
    /\ gotHeader' = FALSE
    /\ UNCHANGED <<first, retries, ctrlC, mediaVars, timestamp, toServer, toClient, serverVars,
                   historyVars>>

\* ReadN: nothing has arrived in time.
ReadTimesOut ==
    /\ Reading
    /\ timedout' = TRUE
    /\ IF pc = "packet"
       THEN /\ ReadFails
            /\ pauseStamp' = IF pausing = 0 THEN channelStamp ELSE pauseStamp
       ELSE /\ pc' = "done"
            /\ nStatus' = IF retries = 1 THEN "INCOMPLETE" ELSE "FAILED"
            /\ UNCHANGED <<known, ended, file, buffer, pauseStamp>>
    /\ UNCHANGED <<first, retries, ctrlC, connected, bPlaying, streamOpen, pausing,
                   mediaVars, gotHeader, timestamp, toServer, toClient, serverVars, historyVars>>

\* Media before play is ignored.
IgnoreFrame ==
    /\ pc = "connect"
    /\ Receive("frame")
    /\ UNCHANGED <<rtmpVars, buffer, toServer, historyVars>>

\* Mutant: frames up to the last one before the pause, without that one, are skipped.
SkippedBefore(t) == pausing = 3 /\ t < mediaStamp

\* Mutant: one frame too many is skipped.
SkippedBeyond(t) == pausing = 3 /\ t <= mediaStamp + 1

\* After an unpause the server may send again what was there before it.
Skipped(t) == pausing = 3 /\ t <= mediaStamp

\* Before it returns for the first time, RTMP_Read waits for a time, or for both audio and
\* video, and then for one more packet; what is sent at time 0 may be enough for all this.
FirstFrame(t) ==
    /\ gotHeader' \in IF t > 0 THEN {TRUE} ELSE BOOLEAN
    /\ \/ /\ buffer' = Append(buffer, t)
          /\ UNCHANGED <<pc, nStatus, known, file>>
       \/ t = 0 /\ gotHeader' /\ Write(Append(buffer, t))

\* A frame in RTMP_GetNextMediaPacket, Read_1_Packet and RTMP_Read.
MediaFrame ==
    /\ pc = "packet" /\ connected
    /\ toClient # <<>> /\ Head(toClient).type = "frame"
    /\ toClient' = Tail(toClient)
    /\ timedout' = FALSE
    /\ LET u == Head(toClient)
           t == u.time
       IN /\ channelStamp' = t
          /\ mediaStamp' = IF pausing = 0 THEN t ELSE mediaStamp
          /\ IF Skipped(t)
             THEN UNCHANGED <<pc, nStatus, known, bPlaying, pausing, file, gotHeader, timestamp,
                              buffer, late>>
             ELSE /\ bPlaying' = TRUE
                  /\ pausing' = IF pausing = 3 THEN 0 ELSE pausing
                  /\ timestamp' = t
                  /\ IF gotHeader
                     THEN Write(Append(buffer, t)) /\ UNCHANGED gotHeader
                     ELSE FirstFrame(t)
                  /\ late' = (late \/ pausing \in {1, 2} \/ u.epoch < unpauses)
    /\ UNCHANGED <<first, retries, ctrlC, connected, streamOpen, pauseStamp, ended,
                   toServer, serverVars, unpauses, lagging, early>>

-----------------------------------------------------------------------------
(* The user and the server                                                 *)

\* native stop
Stop ==
    /\ pc # "done" /\ ~ctrlC
    /\ ctrlC' = TRUE
    /\ UNCHANGED <<pc, mainVars, file, rtmpVars, timedout, mediaVars, readVars, toServer,
                   toClient, serverVars, historyVars>>

ClientUnchanged ==
    UNCHANGED <<pc, mainVars, ctrlC, file, rtmpVars, timedout, mediaVars, readVars, historyVars>>

MaySend == ~lost /\ connected /\ pc # "done" /\ Len(toClient) < MaxQueue

Replies(command) ==
    CASE command = "connect"      -> {<<"connected">>}
      [] command = "createStream" -> {<<"created">>}
      [] command = "play"         -> {<<"start">>, <<"failed">>}
      [] command = "pause"        -> {<<>>, <<"notify">>, <<"eof", "notify">>, <<"eof", "empty">>}
      [] OTHER                    -> {<<>>}

ServerCommand ==
    /\ MaySend /\ toServer # <<>>
    /\ LET c == Head(toServer) IN
       /\ toServer' = Tail(toServer)
       /\ \E reply \in Replies(c.type) :
             /\ toClient' = toClient \o [i \in DOMAIN reply |-> Message(reply[i])]
             /\ mode' =
                  CASE reply = <<"start">> -> "playing"
                    [] c.type = "pause" -> IF mode = "playing" THEN "paused" ELSE mode
                    [] c.type = "unpause" -> IF mode = "paused" THEN "playing" ELSE mode
                    [] c.type = "deleteStream" -> "idle"
                    [] OTHER -> mode
       /\ pos' \in CASE c.type = "play"    -> 0..c.time
                     [] c.type = "unpause" -> 0..(c.time + 1)
                     [] OTHER              -> {pos}
       /\ epoch' = IF c.type = "unpause" THEN epoch + 1 ELSE epoch
    /\ ClientUnchanged /\ UNCHANGED <<lost, nSent>>

ServerFrame ==
    /\ MaySend /\ mode = "playing" /\ pos <= LastTime /\ nSent < MaxSent
    /\ toClient' = Append(toClient, Frame(pos))
    /\ pos' = pos + 1
    /\ nSent' = nSent + 1
    /\ ClientUnchanged /\ UNCHANGED <<toServer, mode, lost, epoch>>

ServerComplete ==
    /\ MaySend /\ mode = "playing" /\ pos > LastTime
    /\ toClient' = Append(toClient, Message("complete"))
    /\ mode' = "idle"
    /\ ClientUnchanged /\ UNCHANGED <<toServer, pos, lost, nSent, epoch>>

\* The server says that its buffer is sent, or that it is there.
ServerChatter ==
    /\ MaySend /\ toClient = <<>>
    /\ \/ mode = "playing" /\ toClient' = <<Message("empty")>>
       \/ toClient' = <<Message("ping")>>
    /\ ClientUnchanged /\ UNCHANGED <<toServer, serverVars>>

ServerLost ==
    /\ ~lost /\ connected /\ pc # "done"
    /\ lost' = TRUE
    /\ ClientUnchanged /\ UNCHANGED <<toServer, toClient, mode, pos, nSent, epoch>>

-----------------------------------------------------------------------------

Main == Connect \/ Resume \/ Stopped \/ ConnectStreamReturns \/ Read \/ Check

Packet ==
    \/ HandleResult \/ HandlePlayStart \/ HandlePauseNotify \/ HandleCtrl
    \/ HandleEnd \/ ReadClosed \/ ReadTimesOut \/ IgnoreFrame \/ MediaFrame

Server == ServerCommand \/ ServerFrame \/ ServerComplete \/ ServerChatter \/ ServerLost

StreamNext == Main \/ Packet \/ Stop \/ Server

\* The thread runs, and a read that gets nothing times out.
StreamSpec == StreamInit /\ [][StreamNext]_streamVars /\ WF_streamVars(Main \/ Packet)

-----------------------------------------------------------------------------

StreamTypeOK ==
    /\ pc \in {"loop", "connect", "read", "packet", "check", "done"}
    /\ first \in BOOLEAN /\ retries \in 0..1 /\ ctrlC \in BOOLEAN /\ known \in BOOLEAN
    /\ nStatus \in {"SUCCESS", "FAILED", "INCOMPLETE", "NO_CONNECT"}
    /\ pausing \in 0..3
    /\ pauseStamp \in 0..LastTime /\ mediaStamp \in 0..LastTime
    /\ channelStamp \in 0..LastTime /\ timestamp \in 0..LastTime
    /\ connected \in BOOLEAN /\ timedout \in BOOLEAN /\ bPlaying \in BOOLEAN
    /\ nSent \in 0..MaxSent
    /\ epoch \in 0..unpauses

\* The frames the file will have once RTMP_Read returns.
Output == file \o buffer

Written == {Output[i] : i \in DOMAIN Output}

\* Pausing, resuming and a server that starts again elsewhere leave no hole in the file;
\* only what was sent at time 0 may be missing, if a pause was sent before more came.
NoGap == \A t \in Written : t = 0 \/ t - 1 \in Written \/ (t = 1 /\ early)

\* No frame is written a second time, although the server may repeat any after an unpause:
\* unless frames from before the unpause arrived after it, or a pause was sent before
\* a second frame had come since the last unpause.
WrittenOnce ==
    \A i \in 1..(Len(Output) - 1) : Output[i + 1] > Output[i] \/ late \/ lagging

\* A download that counts as complete has the stream in its file, but for the part of it
\* that its status forgives (the last 0.1 %), if its last call of Download learnt the
\* duration and it was not stopped before it had connected.
SuccessIsWhole ==
    pc = "done" /\ nStatus = "SUCCESS" /\ known /\ ~first =>
        /\ buffer = <<>>
        /\ \A t \in 1..LastTime : t * Parts <= Enough * LastTime => t \in Written
        /\ 0 \in Written \/ early

\* A stop ends the download, once the server stops sending messages without media, which
\* keep RTMP_Read from returning.
StopEnds ==
    <>[][~ServerChatter]_streamVars => (ctrlC ~> pc = "done")

\* A session that gets no more data times out, however far it has got.
SessionTimesOut == lost ~> pc = "done"
=============================================================================
