----------------------------- MODULE MusicService -----------------------------
(***************************************************************************)
(* The background music of HBKSugar: HBKMusicService, a started service of *)
(* the main process that owns a MediaPlayer.  Everything in it runs on the *)
(* main looper: the commands of HBKMediaPlayerActivity and                 *)
(* HBKDownloadActivity, which asks for information twice a second, and the *)
(* completion listener of the player.                                      *)
(*                                                                         *)
(* The looper and the activity manager are external, as in DownloadService *)
(* but without stopService, and so is the MediaPlayer: it plays in threads *)
(* of its own, posts its completion to the looper, drops the completions   *)
(* of a released player, and can be started again when it has completed.   *)
(***************************************************************************)
EXTENDS Integers, Sequences

CONSTANTS
    MaxCommands,  \* bound: commands of the user
    MaxInst,      \* bound: service objects
    MaxPlayers,   \* bound: media players
    MaxKills      \* bound: process kills

ASSUME MusicAssumption ==
    /\ MaxCommands \in Nat /\ MaxInst \in Nat /\ MaxPlayers \in Nat
    /\ MaxKills \in Nat

None == 0
Inst == 1..MaxInst
Player == 1..MaxPlayers

UserCommands == {"FOREGROUND", "STOP", "GETINFO", "PLAYPAUSE"}
Commands == UserCommands \cup {"NULL"}

VARIABLES
    \* the activity manager and the user (external)
    looper,        \* queue of the main looper
    rec,           \* the object of the started record, None if stopped
    lastId,        \* last start id of the record
    starts,        \* start commands of the record not handled yet
    fg,            \* the record's foreground notification is shown
    commands, kills,
    asked,         \* the last command that asked for more than information
    \* the service objects
    nInst, life,
    player,        \* field player
    notification,  \* is the field notification set?
    \* the media players
    nPlayers, media, home, startId,
    \* history
    late           \* players whose completion was handled after a new start

amVars == <<looper, rec, lastId, starts, fg, commands, kills, asked>>
objVars == <<nInst, life, player, notification>>
mediaVars == <<nPlayers, media, home, startId, late>>
musicVars == <<amVars, objVars, mediaVars>>

Message == [what : Commands \cup {"CREATE", "DESTROY", "COMPLETE"}, to : Inst,
            id : Nat, of : Player \cup {None}]

Msg(w, i, n) == [what |-> w, to |-> i, id |-> n, of |-> None]

MusicInit ==
    /\ looper = <<>> /\ rec = None /\ lastId = 0 /\ starts = <<>> /\ fg = FALSE
    /\ commands = 0 /\ kills = 0 /\ asked = "NULL"
    /\ nInst = 0
    /\ life = [i \in Inst |-> "none"]
    /\ player = [i \in Inst |-> None]
    /\ notification = [i \in Inst |-> FALSE]
    /\ nPlayers = 0
    /\ media = [p \in Player |-> "none"]
    /\ home = [p \in Player |-> None]
    /\ startId = [p \in Player |-> 0]
    /\ late = {}

-----------------------------------------------------------------------------
(* The activity manager.                                                   *)

\* startService(c), the one call the activities make.
Command(c) ==
    /\ commands < MaxCommands
    /\ commands' = commands + 1
    /\ asked' = IF c = "GETINFO" THEN asked ELSE c
    /\ IF rec = None
       THEN /\ nInst < MaxInst
            /\ nInst' = nInst + 1
            /\ rec' = nInst + 1
            /\ lastId' = 1
            /\ looper' = looper \o <<Msg("CREATE", nInst + 1, 0), Msg(c, nInst + 1, 1)>>
       ELSE /\ lastId' = lastId + 1
            /\ looper' = Append(looper, Msg(c, rec, lastId + 1))
            /\ UNCHANGED <<nInst, rec>>
    /\ starts' = Append(starts, <<c, lastId'>>)
    /\ UNCHANGED <<fg, kills, life, player, notification, mediaVars>>

\* Mutant: whatever was started since, the service stops.
StopSelfAlways(i, n, f, s) ==
    IF rec = i
    THEN /\ looper' = Append(Tail(looper), Msg("DESTROY", i, 0))
         /\ rec' = None /\ starts' = <<>> /\ fg' = FALSE
    ELSE /\ looper' = Tail(looper)
         /\ fg' = f /\ starts' = s
         /\ UNCHANGED rec

\* Service.stopSelf(n) by object i at the end of a handler, that else leaves
\* the notification as f and the pending commands as s.
StopSelf(i, n, f, s) ==
    IF rec = i /\ lastId = n
    THEN /\ looper' = Append(Tail(looper), Msg("DESTROY", i, 0))
         /\ rec' = None /\ starts' = <<>> /\ fg' = FALSE
    ELSE /\ looper' = Tail(looper)
         /\ fg' = f /\ starts' = s
         /\ UNCHANGED rec

StopForeground(i) == fg /\ rec # i

\* log(str) of an object whose notification is set, or not.
Log(i, set) == fg \/ (rec = i /\ set)

Handled == IF rec = Head(looper).to THEN SubSeq(starts, 2, Len(starts)) ELSE starts

-----------------------------------------------------------------------------
(* The service object.                                                     *)

Dispatch(w) == looper # <<>> /\ Head(looper).what = w

\* player != null && player.isPlaying()
IsPlaying(i) == player[i] # None /\ media[player[i]] = "playing"

OnCreate ==
    /\ Dispatch("CREATE")
    /\ life' = [life EXCEPT ![Head(looper).to] = "live"]
    /\ looper' = Tail(looper)
    /\ UNCHANGED <<rec, lastId, starts, fg, commands, kills, asked, nInst, player,
                   notification, mediaVars>>

\* The player is left to the garbage collector.
OnDestroy ==
    /\ Dispatch("DESTROY")
    /\ life' = [life EXCEPT ![Head(looper).to] = "gone"]
    /\ fg' = StopForeground(Head(looper).to)
    /\ looper' = Tail(looper)
    /\ UNCHANGED <<rec, lastId, starts, commands, kills, asked, nInst, player,
                   notification, mediaVars>>

\* A handler that changes no more than the foreground notification, to f.
Answer(f) ==
    /\ looper' = Tail(looper)
    /\ fg' = f
    /\ starts' = Handled
    /\ UNCHANGED <<rec, lastId, commands, kills, asked>>

\* A toast: the music has not finished.
RefuseForeground ==
    /\ Dispatch("FOREGROUND")
    /\ IsPlaying(Head(looper).to)
    /\ Answer(fg)
    /\ UNCHANGED <<objVars, mediaVars>>

\* media without the player that object i has.
Released(i) ==
    [p \in Player |-> IF p = player[i] THEN "released" ELSE media[p]]

\* playMusic(n): a new player, its listener bound to n.
PlayMusic(i, n) ==
    LET p == nPlayers + 1 IN
    /\ p \in Player
    /\ nPlayers' = p
    /\ player' = [player EXCEPT ![i] = p]
    /\ media' = [Released(i) EXCEPT ![p] = "playing"]
    /\ home' = [home EXCEPT ![p] = i]
    /\ startId' = [startId EXCEPT ![p] = n]

\* playMusic throws: the file is missing or cannot be played.
PlayFails(i) ==
    /\ player' = [player EXCEPT ![i] = None]
    /\ media' = Released(i)
    /\ UNCHANGED <<nPlayers, home, startId>>

\* The old player is released; either way there is something to log.
HandleForeground ==
    /\ Dispatch("FOREGROUND")
    /\ LET i == Head(looper).to IN
       /\ ~IsPlaying(i)
       /\ notification' = [notification EXCEPT ![i] = TRUE]
       /\ PlayMusic(i, Head(looper).id) \/ PlayFails(i)
       /\ Answer(Log(i, TRUE))
    /\ UNCHANGED <<nInst, life, late>>

\* Mutant: the player is released but the field keeps it.
ReleasePlayingOnly(i) ==
    /\ media' = IF IsPlaying(i) THEN Released(i) ELSE media
    /\ UNCHANGED player

\* Mutant: the field is cleared, the player plays on.
ForgetPlaying(i) ==
    /\ player' = IF IsPlaying(i) THEN [player EXCEPT ![i] = None] ELSE player
    /\ UNCHANGED media

\* Only a player that plays is released: one that is paused or has completed stays.
ReleasePlaying(i) ==
    IF IsPlaying(i)
    THEN /\ media' = Released(i)
         /\ player' = [player EXCEPT ![i] = None]
    ELSE UNCHANGED <<media, player>>

\* Mutant: a stop drops the notification, also when the player stays.
HandleStopDropping ==
    /\ Dispatch("STOP")
    /\ LET i == Head(looper).to IN
       /\ ReleasePlaying(i)
       /\ notification' = [notification EXCEPT ![i] = FALSE]
       /\ StopSelf(i, Head(looper).id, StopForeground(i), Handled)
    /\ UNCHANGED <<lastId, commands, kills, asked, nInst, life, nPlayers, home, startId, late>>

HandleStop ==
    /\ Dispatch("STOP")
    /\ LET i == Head(looper).to IN
       /\ ReleasePlaying(i)
       /\ StopSelf(i, Head(looper).id, StopForeground(i), Handled)
    /\ UNCHANGED <<lastId, commands, kills, asked, nInst, life, notification, nPlayers, home,
                   startId, late>>

HandleGetInfo ==
    /\ Dispatch("GETINFO")
    /\ LET i == Head(looper).to IN
       IF player[i] = None
       THEN /\ StopSelf(i, Head(looper).id, fg, Handled)
            /\ UNCHANGED <<lastId, commands, kills, asked>>
       ELSE Answer(fg)
    /\ UNCHANGED <<objVars, mediaVars>>

\* Mutant: the notification is refreshed only for a pause.
ResumeLog(i) == IF IsPlaying(i) THEN Log(i, notification[i]) ELSE fg

PlayPauseLog(i) == Log(i, notification[i])

\* Pause, or start: also one that has completed.
HandlePlayPause ==
    /\ Dispatch("PLAYPAUSE")
    /\ LET i == Head(looper).to IN
       IF player[i] = None
       THEN /\ Answer(fg)
            /\ UNCHANGED <<media, late>>
       ELSE /\ Answer(PlayPauseLog(i))
            /\ media' = [media EXCEPT ![player[i]] =
                            IF @ = "playing" THEN "paused" ELSE "playing"]
            /\ late' = late \ {player[i]}
    /\ UNCHANGED <<objVars, nPlayers, home, startId>>

\* The null intent of a recreated sticky service.
HandleNull ==
    /\ Dispatch("NULL")
    /\ Answer(fg)
    /\ UNCHANGED <<objVars, mediaVars>>

\* onCompletion, with the start id of the command that began to play.
OnCompletion ==
    /\ Dispatch("COMPLETE")
    /\ LET m == Head(looper) IN
       IF media[m.of] = "released"
       THEN /\ looper' = Tail(looper)
            /\ UNCHANGED <<rec, starts, fg, late>>
       ELSE /\ StopSelf(m.to, m.id, StopForeground(m.to), starts)
            /\ late' = IF media[m.of] = "playing" THEN late \cup {m.of} ELSE late
    /\ UNCHANGED <<lastId, commands, kills, asked, objVars, nPlayers, media, home, startId>>

-----------------------------------------------------------------------------

\* The player gets to the end, and posts its completion.
MediaEnds(p) ==
    /\ media[p] = "playing"
    /\ media' = [media EXCEPT ![p] = "completed"]
    /\ looper' = Append(looper, [Msg("COMPLETE", home[p], startId[p]) EXCEPT !.of = p])
    /\ UNCHANGED <<rec, lastId, starts, fg, commands, kills, asked, objVars, nPlayers, home,
                   startId, late>>

\* The process dies with its players; a started service is recreated with the
\* commands that it had not handled, or with a null intent.
ProcessKill ==
    /\ kills < MaxKills /\ nInst > 0
    /\ kills' = kills + 1
    /\ fg' = FALSE
    /\ life' = [i \in Inst |-> IF i <= nInst THEN "gone" ELSE "none"]
    /\ player' = [i \in Inst |-> None]
    /\ notification' = [i \in Inst |-> FALSE]
    /\ media' = [p \in Player |-> IF p <= nPlayers THEN "released" ELSE "none"]
    /\ IF rec = None
       THEN looper' = <<>> /\ UNCHANGED <<rec, lastId, starts, nInst>>
       ELSE /\ nInst < MaxInst
            /\ nInst' = nInst + 1
            /\ rec' = nInst + 1
            /\ IF starts = <<>>
               THEN lastId' = lastId + 1 /\ starts' = <<<<"NULL", lastId + 1>>>>
               ELSE UNCHANGED <<lastId, starts>>
            /\ looper' = <<Msg("CREATE", nInst + 1, 0)>> \o
                  [k \in 1..Len(starts') |-> Msg(starts'[k][1], nInst + 1, starts'[k][2])]
    /\ UNCHANGED <<commands, asked, nPlayers, home, startId, late>>

-----------------------------------------------------------------------------

MainLooper ==
    \/ OnCreate \/ OnDestroy
    \/ RefuseForeground \/ HandleForeground \/ HandleStop \/ HandleGetInfo
    \/ HandlePlayPause \/ HandleNull \/ OnCompletion

MusicNext ==
    \/ \E c \in UserCommands : Command(c)
    \/ MainLooper
    \/ \E p \in Player : MediaEnds(p)
    \/ ProcessKill

\* The looper is not starved.  Nothing makes a piece of music end.
MusicSpec == MusicInit /\ [][MusicNext]_musicVars

FairMusicSpec == MusicSpec /\ WF_musicVars(MainLooper)

-----------------------------------------------------------------------------

FieldTypes ==
    /\ looper \in Seq(Message)
    /\ rec \in 0..nInst /\ lastId \in Nat /\ starts \in Seq(Commands \X Nat)
    /\ fg \in BOOLEAN
    /\ commands \in 0..MaxCommands /\ kills \in 0..MaxKills /\ asked \in Commands
    /\ nInst \in 0..MaxInst /\ life \in [Inst -> {"none", "live", "gone"}]
    /\ player \in [Inst -> 0..nPlayers] /\ notification \in [Inst -> BOOLEAN]
    /\ nPlayers \in 0..MaxPlayers
    /\ media \in [Player -> {"none", "playing", "paused", "completed", "released"}]
    /\ home \in [Player -> Inst \cup {None}] /\ startId \in [Player -> Nat]
    /\ late \subseteq Player

\* Types; and whoever keeps a player keeps the notification that log shows for it.
MusicTypeOK ==
    /\ FieldTypes
    /\ \A i \in Inst : player[i] # None => notification[i]

\* No music plays that the buttons cannot reach: a player that plays is the one of the
\* service's present object, although its completion carries an old start id, may be
\* handled after it was started again, and the object may be stopped by any information poll.
PlayerReachable ==
    \A p \in Player :
        media[p] = "playing" => rec # None /\ life[rec] = "live" /\ player[rec] = p

\* The player field never holds a released player: every handler but that of PLAYPAUSE
\* would throw on it and take the main process down.
NoReleasedPlayer ==
    \A i \in Inst : player[i] # None => media[player[i]] # "released"

\* While music plays the service is in the foreground, which is what keeps the process;
\* except after a completion that was handled when the player had been started again.
NotificationShown ==
    \A p \in Player : media[p] = "playing" => fg \/ p \in late

Silent == \A p \in Player : media[p] # "playing"

\* Stop means stop: when it is the user's last word, whatever was playing, paused, completing
\* or being restarted at the time, there is silence in the end.
StopSilences == <>[](asked = "STOP") => <>[]Silent
=============================================================================
