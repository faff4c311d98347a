--------------------------- MODULE DownloadSystem ---------------------------
(***************************************************************************)
(* HBKDownloadRTMPService on top of the native library: the composition of *)
(* DownloadService and NativeRTMP.  A worker thread is a caller of the     *)
(* library: its run method stops the library (setStop), enters init, and   *)
(* sets the stop flag again when init is back.  Progress is delivered to   *)
(* the object whose globals the library holds, which need not be the one   *)
(* of the thread that makes it.                                            *)
(***************************************************************************)
EXTENDS DownloadService

VARIABLES ctrlC, obj, file, opened, npc, fp, misuse

Native == INSTANCE NativeRTMP WITH
    Callers <- Thread, NULL <- None, MayResume <- EnableRetry

VARIABLES
    stopUsed,   \* history: Stop or Refresh has been pressed
    overlap,    \* history, of this process: a thread entered init while another was inside
    cancelled   \* history: where a thread was when the user cancelled it

nativeVars == <<ctrlC, obj, file, opened, npc, fp, misuse>>
history == <<stopUsed, overlap, cancelled>>
sysVars == <<vars, nativeVars, history>>

SysInit ==
    /\ Init
    /\ Native!NativeInit
    /\ stopUsed = FALSE
    /\ overlap = FALSE
    /\ cancelled = [t \in Thread |-> "no"]

-----------------------------------------------------------------------------

Quiet == UNCHANGED <<nativeVars, history>>

SysClick ==
    \/ ClickStart /\ Quiet
    \/ /\ \E c \in {"STOP", "UPDATE"} : ClickStopOrUpdate(c)
       /\ stopUsed' = TRUE
       /\ UNCHANGED <<nativeVars, overlap, cancelled>>

\* The command STOP: setStop(true) of the current thread stops the library.
SysHandleStop ==
    LET i == Head(looper).to
        t == downloadThread[i]
    IN /\ HandleStop
       /\ IF Free(i)
          THEN UNCHANGED <<nativeVars, cancelled>>
          ELSE /\ Native!Stop
               /\ cancelled' = [cancelled EXCEPT ![t] =
                     IF npc[t] \in Native!Loop THEN "loop" ELSE "early"]
       /\ UNCHANGED <<stopUsed, overlap>>

SysLooper ==
    \/ SysHandleStop
    \/ (\/ OnCreate \/ OnDestroy
        \/ HandleForeground \/ RefuseForeground \/ HandleUpdate \/ HandleNull
        \/ HandleStartThread \/ HandleDuration \/ HandleProgress
        \/ CloseRetry \/ CloseFinish) /\ Quiet

\* Mutant: setStop(true) at the start of run.
SysRunBeginStopped(t) ==
    /\ pc[t] = "new"
    /\ isStop' = [isStop EXCEPT ![t] = TRUE]
    /\ Goto(t, "run")
    /\ Native!Stop
    /\ UNCHANGED <<amVars, objVars, nThreads, home, startId, history>>

\* setStop(false), which calls stop as well
SysRunBegin(t) == RunBegin(t) /\ Native!Stop /\ UNCHANGED history

\* Reports that it has started and calls init.
SysEnter(t) ==
    /\ RunPostStart(t)
    /\ Native!Enter(t)
    /\ overlap' = (overlap \/ \E u \in Thread : npc[u] # "idle")
    /\ UNCHANGED <<stopUsed, cancelled>>

SysSilent(t) ==
    /\ Native!Silent(t)
    /\ IF npc'[t] = "idle" THEN LibraryReturn(t) ELSE UNCHANGED vars
    /\ UNCHANGED history

\* A callback: the message goes to the handler of the global object.
SysReport(t) ==
    /\ Native!Report(t) \/ Native!Final(t)
    /\ Report(obj)
    /\ UNCHANGED <<amRest, objVars, threadVars, history>>

\* setStop(true)
SysRunEnd(t) == RunEnd(t) /\ Native!Stop /\ UNCHANGED history

SysPostClose(t) == RunPostClose(t) /\ Quiet

SysThreadStep(t) ==
    \/ SysRunBegin(t) \/ SysEnter(t) \/ SysSilent(t) \/ SysReport(t)
    \/ SysRunEnd(t) \/ SysPostClose(t)

\* The library is loaded afresh into a new process.  A crash caused by misuse
\* is one of the deaths ProcessKill allows at any point.
Reloaded ==
    /\ ctrlC' = FALSE /\ obj' = None /\ file' = None /\ opened' = {}
    /\ npc' = [t \in Thread |-> "idle"]
    /\ fp' = [t \in Thread |-> None]
    /\ misuse' = FALSE
    /\ UNCHANGED stopUsed /\ overlap' = FALSE
    /\ cancelled' = [t \in Thread |-> "no"]

SysKill == ProcessKill /\ Reloaded

SysNext ==
    \/ SysClick
    \/ ClickStopService /\ Quiet
    \/ SysLooper
    \/ SysKill
    \/ \E t \in Thread : SysThreadStep(t)

SysSpec == SysInit /\ [][SysNext]_sysVars

SysFairSpec ==
    /\ SysSpec
    /\ WF_sysVars(SysLooper)
    /\ WF_sysVars(ClickStopService /\ Quiet)
    /\ \A t \in Thread :
          WF_sysVars(SysThreadStep(t) /\ npc[t] \notin Native!Waiting)

\* No call of the library waits for the server for ever.
ServerAnswers(t) == []<>(npc[t] \notin Native!Waiting)

-----------------------------------------------------------------------------

SysTypeOK ==
    /\ TypeOK
    /\ Native!NativeTypeOK
    /\ stopUsed \in BOOLEAN /\ overlap \in BOOLEAN
    /\ cancelled \in [Thread -> {"no", "early", "loop"}]

\* The service on the real library behaves as the service specification says:
\* every order of callbacks, early returns and stops of main_rtmpdump is one
\* that DownloadService allows, so what holds of it holds of the system.
ServiceSpec == Spec

\* At most one thread is inside the library, which is what its globals need.
OneNativeDownload ==
    \A t, u \in Thread : npc[t] # "idle" /\ npc[u] # "idle" => t = u

\* The slot check of handleCommand does serialise the library, across objects,
\* refused starts, stale closes and process kills, for a user who only ever
\* starts downloads.
SerialUntilStopped == ~stopUsed => OneNativeDownload /\ ~misuse

\* Overlapping downloads are the only source of undefined behaviour: no order
\* of stops, late callbacks and early returns of a single download causes it.
MisuseOnlyByOverlap == misuse => overlap

\* A download cancelled while it streams ends, even if the server would send
\* frames for ever, unless another one is started over it, and provided that
\* it is not left inside one call that waits for the server: there the stop
\* flag is not looked at.
CancelledStreamEnds ==
    \A t \in Thread : ServerAnswers(t) =>
        (cancelled[t] = "loop" ~> npc[t] = "idle" \/ overlap)

\* Every download the user cancelled ends, if the server answers.
CancelledDownloadEnds ==
    \A t \in Thread : ServerAnswers(t) =>
        (cancelled[t] # "no" ~> npc[t] = "idle" /\ pc[t] # "new")
=============================================================================
