--------------------------- MODULE DownloadService ---------------------------
(***************************************************************************)
(* The download services of HBKSugar, HBKDownloadRTMPService and its older *)
(* twin HBKDownloadService: two classes with the same code, of which the   *)
(* first is compiled with ENABLE_RETRY = false and the second retries when *)
(* the user's preference says so.  A service object lives on the main      *)
(* looper of the process ":download"; it owns a notification, a wake lock  *)
(* and a worker thread, which reports back through a Handler on the same   *)
(* looper.                                                                 *)
(*                                                                         *)
(* The Android side is external and modelled from how the code uses it:    *)
(* the looper is one FIFO queue that carries both the lifecycle calls sent *)
(* by the activity manager and the messages of the threads; the activity   *)
(* manager keeps one record of the started service (rec, lastId, starts,   *)
(* fg), ignores calls made by an object that is no longer the record's,    *)
(* and recreates a START_STICKY service whose process it killed.           *)
(***************************************************************************)
EXTENDS Integers, Sequences

CONSTANTS
    EnableRetry,  \* ENABLE_RETRY: may the handler restart a closed download?
    MaxClicks,    \* bound: button clicks of the user
    MaxInst,      \* bound: service objects created in a behaviour
    MaxRetries,   \* bound: retries in a behaviour
    MaxThreads,   \* bound: worker threads created in a behaviour
    MaxKills,     \* bound: process kills
    MaxQueue,     \* bound: a worker reports only while the looper is shorter
    Readings,     \* bound: the progress values a worker reports
    DurationNews  \* bound: may a report bring a new duration?

ASSUME BoundsAssumption ==
    /\ EnableRetry \in BOOLEAN
    /\ MaxClicks \in Nat /\ MaxInst \in Nat /\ MaxThreads \in Nat
    /\ MaxRetries \in Nat /\ MaxKills \in Nat /\ MaxQueue \in Nat
    /\ Readings \subseteq {"part", "other"} /\ DurationNews \subseteq BOOLEAN
    /\ MaxThreads >= MaxClicks + MaxRetries

None == 0
Inst == 1..MaxInst
Thread == 1..MaxThreads

Commands == {"FOREGROUND", "STOP", "UPDATE", "NULL"}
Lifecycle == Commands \cup {"CREATE", "DESTROY"}
Reports == {"START_THREAD", "DURATION", "PROGRESS", "CLOSE_THREAD"}

\* currentProgress as CLOSE_THREAD tells it apart: strictly between 0 and the
\* duration, or not.
Progress == {"part", "other"}

VARIABLES
    \* the activity manager and the user interface (external)
    looper,   \* queue of the main looper of the process
    rec,      \* the service object of the started record, None if stopped
    lastId,   \* last start id of the record
    starts,   \* start commands of the record not handled yet
    fg,       \* the record's foreground notification is shown
    uiStop,   \* the click listener still has to call stopService
    clicks, kills, retries,
    \* the fields of the service objects
    nInst, life, downloadThread, wakeLock, isShowLog, progress, duration,
    held,     \* wake locks that are acquired and not released
    \* the worker threads
    nThreads, pc, isStop, home, startId

counters == <<clicks, kills, retries>>
amVars == <<looper, rec, lastId, starts, fg, uiStop, counters>>
objVars == <<nInst, life, downloadThread, wakeLock, isShowLog, progress,
             duration, held>>
threadVars == <<nThreads, pc, isStop, home, startId>>
vars == <<amVars, objVars, threadVars>>

Message == [what : Lifecycle \cup Reports, to : Inst, id : Nat, prog : Progress]

\* A message of the looper: its kind, the object it is for and its start id.
Msg(w, i, n) == [what |-> w, to |-> i, id |-> n, prog |-> "other"]

Init ==
    /\ looper = <<>> /\ rec = None /\ lastId = 0 /\ starts = <<>>
    /\ fg = FALSE /\ uiStop = FALSE /\ clicks = 0 /\ kills = 0
    /\ retries = 0
    /\ nInst = 0
    /\ life = [i \in Inst |-> "none"]
    /\ downloadThread = [i \in Inst |-> None]
    /\ wakeLock = [i \in Inst |-> None]
    /\ isShowLog = [i \in Inst |-> FALSE]
    /\ progress = [i \in Inst |-> "other"]
    /\ duration = [i \in Inst |-> FALSE]
    /\ held = {}
    /\ nThreads = 0
    /\ pc = [t \in Thread |-> "none"]
    /\ isStop = [t \in Thread |-> FALSE]
    /\ home = [t \in Thread |-> None]
    /\ startId = [t \in Thread |-> 0]

-----------------------------------------------------------------------------
(* The activity manager's calls, as effects on the queue q the looper has. *)

\* Context.startService: the command goes to the record's object, which is
\* created first when the service is not started.
StartService(c) ==
    IF rec = None
    THEN /\ nInst < MaxInst
         /\ nInst' = nInst + 1
         /\ rec' = nInst + 1
         /\ lastId' = 1
         /\ starts' = <<<<c, 1>>>>
         /\ looper' = looper \o <<Msg("CREATE", nInst + 1, 0),
                                  Msg(c, nInst + 1, 1)>>
    ELSE /\ lastId' = lastId + 1
         /\ starts' = Append(starts, <<c, lastId + 1>>)
         /\ looper' = Append(looper, Msg(c, rec, lastId + 1))
         /\ UNCHANGED <<nInst, rec>>

\* Bringing the record down drops its notification and its commands; the
\* object is destroyed when the looper gets to it.
BringDown(q) ==
    /\ looper' = Append(q, Msg("DESTROY", rec, 0))
    /\ rec' = None
    /\ starts' = <<>>
    /\ fg' = FALSE

\* The pending commands once the object of the head message has handled it.
Handled == IF rec = Head(looper).to THEN SubSeq(starts, 2, Len(starts))
                                    ELSE starts

\* Service.stopSelf(n) called by object i, the last thing a handler does:
\* stopped only if n is the most recent start id.  Otherwise the handler's
\* effect on the notification is f and the pending commands become s.
StopSelf(i, n, f, s) ==
    IF rec = i /\ lastId = n
    THEN BringDown(Tail(looper))
    ELSE /\ looper' = Tail(looper)
         /\ fg' = f
         /\ starts' = s
         /\ rec' = rec

\* Service.stopForeground and startForeground by object i.
StopForeground(i) == IF rec = i THEN FALSE ELSE fg
Log(i) == IF rec = i /\ isShowLog[i] THEN TRUE ELSE fg

-----------------------------------------------------------------------------
(* The user: the three buttons of HBKDownloadActivity.                     *)

ClickStart ==
    /\ clicks < MaxClicks /\ ~uiStop
    /\ clicks' = clicks + 1
    /\ StartService("FOREGROUND")
    /\ UNCHANGED <<fg, uiStop, kills, retries, life, downloadThread, wakeLock, isShowLog,
                   progress, duration, held, threadVars>>

\* "Stop" and "Update" send their command and then stop the service.
ClickStopOrUpdate(c) ==
    /\ clicks < MaxClicks /\ ~uiStop
    /\ clicks' = clicks + 1
    /\ uiStop' = TRUE
    /\ StartService(c)
    /\ UNCHANGED <<fg, kills, retries, life, downloadThread, wakeLock, isShowLog,
                   progress, duration, held, threadVars>>

\* Mutant: stopService is not a no-op on a stopped service.
ClickStopServiceUnchecked ==
    /\ uiStop
    /\ uiStop' = FALSE
    /\ BringDown(looper)
    /\ UNCHANGED <<lastId, counters, objVars, threadVars>>

ClickStopService ==
    /\ uiStop
    /\ uiStop' = FALSE
    /\ IF rec = None THEN UNCHANGED <<looper, rec, starts, fg>>
                     ELSE BringDown(looper)
    /\ UNCHANGED <<lastId, counters, objVars, threadVars>>

-----------------------------------------------------------------------------
(* The service object: what the main looper dispatches.                    *)

Dispatch(w) == looper # <<>> /\ Head(looper).what = w

OnCreate ==
    /\ Dispatch("CREATE")
    /\ LET i == Head(looper).to IN
       /\ life' = [life EXCEPT ![i] = "live"]
       /\ isShowLog' = [isShowLog EXCEPT ![i] = FALSE]
    /\ looper' = Tail(looper)
    /\ UNCHANGED <<rec, lastId, starts, fg, uiStop, counters, nInst,
                   downloadThread, wakeLock, progress, duration, held, threadVars>>

\* if (wakeLock != null) { wakeLock.release(); wakeLock = null; }
ReleaseWakeLock(i) ==
    /\ held' = held \ {wakeLock[i]}
    /\ wakeLock' = [wakeLock EXCEPT ![i] = None]

\* Mutant: the wake lock is not released.
OnDestroyKeepingLock ==
    /\ Dispatch("DESTROY")
    /\ LET i == Head(looper).to IN
       /\ life' = [life EXCEPT ![i] = "gone"]
       /\ fg' = StopForeground(i)
       /\ isShowLog' = [isShowLog EXCEPT ![i] = FALSE]
    /\ looper' = Tail(looper)
    /\ UNCHANGED <<rec, lastId, starts, uiStop, counters, nInst, held, wakeLock,
                   downloadThread, progress, duration, threadVars>>

\* The thread is left alone: it goes on downloading without its service.
OnDestroy ==
    /\ Dispatch("DESTROY")
    /\ LET i == Head(looper).to IN
       /\ life' = [life EXCEPT ![i] = "gone"]
       /\ ReleaseWakeLock(i)
       /\ fg' = StopForeground(i)
       /\ isShowLog' = [isShowLog EXCEPT ![i] = FALSE]
    /\ looper' = Tail(looper)
    /\ UNCHANGED <<rec, lastId, starts, uiStop, counters, nInst,
                   downloadThread, progress, duration, threadVars>>

\* downloadThread = new DownloadThread(n, ...); downloadThread.start();
StartThread(i, n) ==
    LET t == nThreads + 1 IN
    /\ nThreads < MaxThreads
    /\ nThreads' = t
    /\ pc' = [pc EXCEPT ![t] = "new"]
    /\ isStop' = [isStop EXCEPT ![t] = FALSE]
    /\ home' = [home EXCEPT ![t] = i]
    /\ startId' = [startId EXCEPT ![t] = n]
    /\ downloadThread' = [downloadThread EXCEPT ![i] = t]

\* Mutant: no check for a running thread.
AlwaysFree(i) == TRUE

\* The download slot is free: no thread, or one that has been stopped.
Free(i) == downloadThread[i] # None => isStop[downloadThread[i]]

\* startDownload: notification, a fresh wake lock (named after the thread it
\* is for) in place of the old one, and the thread.
StartDownload(i, n) ==
    /\ isShowLog' = [isShowLog EXCEPT ![i] = TRUE]
    /\ fg' = IF rec = i THEN TRUE ELSE fg
    /\ held' = (held \ {wakeLock[i]}) \cup {nThreads + 1}
    /\ wakeLock' = [wakeLock EXCEPT ![i] = nThreads + 1]
    /\ StartThread(i, n)

HandleForeground ==
    /\ Dispatch("FOREGROUND")
    /\ Free(Head(looper).to)
    /\ StartDownload(Head(looper).to, Head(looper).id)
    /\ looper' = Tail(looper)
    /\ starts' = Handled
    /\ UNCHANGED <<rec, lastId, uiStop, counters, nInst, life, progress,
                   duration>>

\* The toast that the download service has not stopped.
RefuseForeground ==
    /\ Dispatch("FOREGROUND")
    /\ ~Free(Head(looper).to)
    /\ looper' = Tail(looper)
    /\ starts' = Handled
    /\ UNCHANGED <<rec, lastId, fg, uiStop, counters, objVars, threadVars>>

HandleStop ==
    /\ Dispatch("STOP")
    /\ LET i == Head(looper).to IN
       /\ ReleaseWakeLock(i)
       /\ isShowLog' = [isShowLog EXCEPT ![i] = FALSE]
       /\ IF Free(i)
          THEN UNCHANGED <<isStop, downloadThread>>
          ELSE /\ isStop' = [isStop EXCEPT ![downloadThread[i]] = TRUE]
               /\ downloadThread' = [downloadThread EXCEPT ![i] = None]
       /\ StopSelf(i, Head(looper).id, StopForeground(i), Handled)
    /\ UNCHANGED <<lastId, uiStop, counters, nInst, life, progress, duration,
                   nThreads, pc, home, startId>>

HandleUpdate ==
    /\ Dispatch("UPDATE")
    /\ LET i == Head(looper).to IN
       IF downloadThread[i] = None
       THEN StopSelf(i, Head(looper).id, fg, Handled)
       ELSE /\ looper' = Tail(looper)
            /\ starts' = Handled
            /\ UNCHANGED <<rec, fg>>
    /\ UNCHANGED <<lastId, uiStop, counters, objVars, threadVars>>

\* The null intent of a recreated sticky service.
HandleNull ==
    /\ Dispatch("NULL")
    /\ looper' = Tail(looper)
    /\ starts' = Handled
    /\ UNCHANGED <<rec, lastId, fg, uiStop, counters, objVars, threadVars>>

-----------------------------------------------------------------------------
(* DownloadHandler.handleMessage: the reports of the threads.              *)

HandleStartThread ==
    /\ Dispatch("START_THREAD")
    /\ fg' = Log(Head(looper).to)
    /\ looper' = Tail(looper)
    /\ UNCHANGED <<rec, lastId, starts, uiStop, counters, objVars, threadVars>>

HandleDuration ==
    /\ Dispatch("DURATION")
    /\ LET i == Head(looper).to IN
       /\ progress' = [progress EXCEPT ![i] = "other"]
       /\ duration' = [duration EXCEPT ![i] = TRUE]
       /\ fg' = Log(i)
    /\ looper' = Tail(looper)
    /\ UNCHANGED <<rec, lastId, starts, uiStop, counters, nInst, life,
                   downloadThread, wakeLock, isShowLog, held, threadVars>>

\* The notification is refreshed at most once a second.
HandleProgress ==
    /\ Dispatch("PROGRESS")
    /\ LET i == Head(looper).to IN
       /\ progress' = [progress EXCEPT ![i] = Head(looper).prog]
       /\ fg' \in {fg, Log(i)}
    /\ looper' = Tail(looper)
    /\ UNCHANGED <<rec, lastId, starts, uiStop, counters, nInst, life,
                   downloadThread, wakeLock, isShowLog, duration, held, threadVars>>

\* getIsRetry() and the download is known to be incomplete.
CloseRetry ==
    /\ Dispatch("CLOSE_THREAD")
    /\ EnableRetry
    /\ retries < MaxRetries
    /\ retries' = retries + 1
    /\ LET i == Head(looper).to IN
       /\ progress[i] = "part" /\ duration[i]
       /\ StartThread(i, Head(looper).id)
    /\ looper' = Tail(looper)
    /\ UNCHANGED <<rec, lastId, starts, fg, uiStop, clicks, kills, nInst, life,
                   wakeLock, isShowLog, progress, duration, held>>

\* Mutant: the wake lock is left to onDestroy.
CloseFinishKeepingLock ==
    /\ Dispatch("CLOSE_THREAD")
    /\ LET i == Head(looper).to IN
       /\ isShowLog' = [isShowLog EXCEPT ![i] = FALSE]
       /\ StopSelf(i, Head(looper).id, StopForeground(i), starts)
    /\ UNCHANGED <<lastId, uiStop, counters, nInst, life, held, wakeLock, downloadThread,
                   progress, duration, threadVars>>

\* Mutant: the log stays switched on.
CloseFinishKeepingLog ==
    /\ Dispatch("CLOSE_THREAD")
    /\ LET i == Head(looper).to IN
       /\ ReleaseWakeLock(i)
       /\ StopSelf(i, Head(looper).id, StopForeground(i), starts)
    /\ UNCHANGED <<lastId, uiStop, counters, nInst, life, isShowLog, downloadThread,
                   progress, duration, threadVars>>

\* The other branch; with retries compiled in, the preference may be off.
CloseFinish ==
    /\ Dispatch("CLOSE_THREAD")
    /\ LET i == Head(looper).to IN
       /\ ReleaseWakeLock(i)
       /\ isShowLog' = [isShowLog EXCEPT ![i] = FALSE]
       /\ StopSelf(i, Head(looper).id, StopForeground(i), starts)
    /\ UNCHANGED <<lastId, uiStop, counters, nInst, life, downloadThread,
                   progress, duration, threadVars>>

-----------------------------------------------------------------------------
(* The worker thread: RTMPDownloadThread.run and the callbacks of the       *)
(* library it runs in, whose own steps are abstract here.                  *)

Post(m) == looper' = Append(looper, m)

Goto(t, l) == pc' = [pc EXCEPT ![t] = l]

amRest == <<rec, lastId, starts, fg, uiStop, counters>>

\* setStop(false)
RunBegin(t) ==
    /\ pc[t] = "new"
    /\ isStop' = [isStop EXCEPT ![t] = FALSE]
    /\ Goto(t, "run")
    /\ UNCHANGED <<amVars, objVars, nThreads, home, startId>>

RunPostStart(t) ==
    /\ pc[t] = "run"
    /\ Goto(t, "library")
    /\ Post(Msg("START_THREAD", home[t], 0))
    /\ UNCHANGED <<amRest, objVars, nThreads, isStop, home, startId>>

\* RTMP.progress of thread o's object: the timestamp, after the duration if
\* that has changed.
Report(o) ==
    /\ Len(looper) < MaxQueue
    /\ \E p \in Readings, changed \in DurationNews :
          LET reading == [Msg("PROGRESS", home[o], 0) EXCEPT !.prog = p] IN
          looper' = IF changed
                    THEN looper \o <<Msg("DURATION", home[o], 0), reading>>
                    ELSE Append(looper, reading)

\* The library keeps the object to call back in a global: of the threads that
\* have entered it in this process, it need not be the one that is inside.
LibraryReport(t) ==
    /\ pc[t] = "library"
    /\ \E o \in Thread :
          pc[o] \in {"library", "returned", "closing", "done"} /\ Report(o)
    /\ UNCHANGED <<amRest, objVars, threadVars>>

\* The stream ended, failed, or noticed a stop.
LibraryReturn(t) ==
    /\ pc[t] = "library"
    /\ Goto(t, "returned")
    /\ UNCHANGED <<amVars, objVars, nThreads, isStop, home, startId>>

\* Mutant: run ends without setStop(true).
RunEndUnmarked(t) ==
    /\ pc[t] = "returned"
    /\ Goto(t, "closing")
    /\ UNCHANGED <<amVars, objVars, nThreads, isStop, home, startId>>

\* setStop(true)
RunEnd(t) ==
    /\ pc[t] = "returned"
    /\ isStop' = [isStop EXCEPT ![t] = TRUE]
    /\ Goto(t, "closing")
    /\ UNCHANGED <<amVars, objVars, nThreads, home, startId>>

RunPostClose(t) ==
    /\ pc[t] = "closing"
    /\ Goto(t, "done")
    /\ Post(Msg("CLOSE_THREAD", home[t], startId[t]))
    /\ UNCHANGED <<amRest, objVars, nThreads, isStop, home, startId>>

-----------------------------------------------------------------------------
(* The process dies: its threads, wake locks and queue are gone.  A sticky *)
(* service that was started is recreated with the commands it had not      *)
(* handled, or with a null intent.                                         *)

ProcessDeath ==
    /\ fg' = FALSE
    /\ held' = {}
    /\ downloadThread' = [i \in Inst |-> None]
    /\ wakeLock' = [i \in Inst |-> None]
    /\ isShowLog' = [i \in Inst |-> FALSE]
    /\ progress' = [i \in Inst |-> "other"]
    /\ duration' = [i \in Inst |-> FALSE]
    /\ life' = [i \in Inst |-> IF i <= nInst THEN "gone" ELSE "none"]
    /\ pc' = [t \in Thread |-> IF t <= nThreads THEN "dead" ELSE "none"]
    /\ IF rec = None
       THEN looper' = <<>> /\ UNCHANGED <<rec, lastId, starts, nInst>>
       ELSE /\ nInst < MaxInst
            /\ nInst' = nInst + 1
            /\ rec' = nInst + 1
            /\ IF starts = <<>>
               THEN lastId' = lastId + 1 /\ starts' = <<<<"NULL", lastId + 1>>>>
               ELSE UNCHANGED <<lastId, starts>>
            /\ looper' = <<Msg("CREATE", nInst + 1, 0)>> \o
                  [k \in 1..Len(starts') |->
                      Msg(starts'[k][1], nInst + 1, starts'[k][2])]
    /\ UNCHANGED <<uiStop, clicks, retries, nThreads, isStop, home, startId>>

ProcessKill ==
    /\ kills < MaxKills
    /\ nInst > 0
    /\ kills' = kills + 1
    /\ ProcessDeath

-----------------------------------------------------------------------------

User ==
    \/ ClickStart
    \/ \E c \in {"STOP", "UPDATE"} : ClickStopOrUpdate(c)

Looper ==
    \/ OnCreate \/ OnDestroy
    \/ HandleForeground \/ RefuseForeground \/ HandleStop
    \/ HandleUpdate \/ HandleNull
    \/ HandleStartThread \/ HandleDuration \/ HandleProgress
    \/ CloseRetry \/ CloseFinish

\* Steps a thread takes by itself.
ThreadStep(t) ==
    \/ RunBegin(t) \/ RunPostStart(t)
    \/ LibraryReturn(t) \/ RunEnd(t) \/ RunPostClose(t)

Next ==
    \/ User \/ ClickStopService \/ Looper \/ ProcessKill
    \/ \E t \in Thread : ThreadStep(t) \/ LibraryReport(t)

Spec == Init /\ [][Next]_vars

\* The looper, the click listener and the code of run are never starved.  The
\* call of the library is not fair: a stream without an end never returns.
Fairness ==
    /\ WF_vars(Looper)
    /\ WF_vars(ClickStopService)
    /\ \A t \in Thread : WF_vars(ThreadStep(t) /\ pc[t] # "library")

FairSpec == Spec /\ Fairness

-----------------------------------------------------------------------------
(* Properties.                                                             *)

TypeOK ==
    /\ looper \in Seq(Message)
    /\ rec \in Inst \cup {None}
    /\ lastId \in Nat
    /\ starts \in Seq(Commands \X Nat)
    /\ fg \in BOOLEAN /\ uiStop \in BOOLEAN
    /\ clicks \in 0..MaxClicks /\ kills \in 0..MaxKills /\ retries \in 0..MaxRetries
    /\ nInst \in 0..MaxInst
    /\ life \in [Inst -> {"none", "live", "gone"}]
    /\ downloadThread \in [Inst -> Thread \cup {None}]
    /\ wakeLock \in [Inst -> Thread \cup {None}]
    /\ isShowLog \in [Inst -> BOOLEAN]
    /\ progress \in [Inst -> Progress]
    /\ duration \in [Inst -> BOOLEAN]
    /\ held \in SUBSET Thread
    /\ nThreads \in 0..MaxThreads
    /\ pc \in [Thread -> {"none", "new", "run", "library", "returned", "closing",
                          "done", "dead"}]
    /\ isStop \in [Thread -> BOOLEAN]
    /\ home \in [Thread -> Inst \cup {None}]
    /\ startId \in [Thread -> Nat]

\* No wake lock leaks: every acquired lock is in the wakeLock field of an
\* object that still has its onDestroy to come, although the field is
\* overwritten by startDownload, objects are replaced, and reports of old
\* threads reach objects that are gone.
WakeLockOwned ==
    \A l \in held : \E i \in Inst : wakeLock[i] = l /\ life[i] = "live"

\* A "downloading" notification always stands for a held wake lock: whatever
\* report arrives late, no log() puts the notification of a stopped download
\* back on the screen.
NotificationBacked ==
    fg => /\ rec # None
          /\ isShowLog[rec]
          /\ wakeLock[rec] \in held

\* A command is never refused because of a thread that has left the library
\* for good: the slot is taken only by a thread that is yet to call
\* setStop(true) itself.
RefusedOnlyWhileRunning ==
    \A i \in Inst : ~Free(i) =>
        pc[downloadThread[i]] \in {"new", "run", "library", "returned"}

\* What the user has no say in: each call of the library returns, and some
\* restart of CLOSE_THREAD is the last.  The code has no bound for either.
LibraryReturns == \A t \in Thread : []<>(pc[t] # "library")
RetriesEnd == <>[][~CloseRetry]_vars

\* A download left to itself gives its wake lock back once the library has
\* returned and the retries are over, whatever late reports, refused starts
\* and kills it went through: the release of CLOSE_THREAD reaches the lock
\* even where its stopSelf is ignored.
WakeLockReleased ==
    LibraryReturns /\ RetriesEnd => (held # {} ~> held = {})

\* Stop and refresh give the lock back by themselves: even if no call of the
\* library ever returns, the command and the stopService behind it, in
\* whatever order they meet starts, late reports and kills, reach the object
\* that holds the lock.
StopReleasesLock == uiStop ~> held = {}
=============================================================================
