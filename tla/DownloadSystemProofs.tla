------------------------ MODULE DownloadSystemProofs ------------------------
(***************************************************************************)
(* The service on the native library implements the service specification, *)
(* so the invariants proved of DownloadService hold of the composition.    *)
(* What has to be known is that the library is entered and left by threads *)
(* that are in their run method, and that the object it calls back belongs *)
(* to a thread of the same process that has entered it.                    *)
(***************************************************************************)
EXTENDS DownloadSystem, DownloadServiceProofs

Entered == {"library", "returned", "closing", "done"}

LinkInv ==
    /\ \A t \in Thread : npc[t] # "idle" => pc[t] = "library"
    /\ \A t \in Thread : npc[t] \notin {"idle", "init"} => obj # None
    /\ obj # None => pc[obj] \in Entered
    /\ \A t \in Thread : t > nThreads => pc[t] = "none"

HistoryOK ==
    /\ stopUsed \in BOOLEAN /\ overlap \in BOOLEAN
    /\ cancelled \in [Thread -> {"no", "early", "loop"}]

SysInv == TypeInv /\ Native!NativeTypeOK /\ HistoryOK /\ LinkInv

-----------------------------------------------------------------------------

LEMMA SysInitInv == SysInit => SysInv
<1> SUFFICES ASSUME SysInit PROVE SysInv
  OBVIOUS
<1>1. TypeInv  BY InitInv DEF SysInit, IInv
<1>2. Native!NativeTypeOK
  BY DEF SysInit, Native!NativeInit, Native!NativeTypeOK, Native!Labels, Native!Loop
<1>3. HistoryOK  BY DEF SysInit, HistoryOK
<1>4. LinkInv
  <2>1. obj = None /\ npc = [t \in Thread |-> "idle"] /\ pc = [t \in Thread |-> "none"]
    BY DEF SysInit, Native!NativeInit, Init
  <2> QED  BY <2>1 DEF LinkInv
<1> QED  BY <1>1, <1>2, <1>3, <1>4 DEF SysInv

\* A step inside the library, seen from the Java side: it moves one caller
\* and gives the callback object to a caller only.
LEMMA NativeStepLink ==
  ASSUME Native!NativeTypeOK, NEW t \in Thread, Native!NativeStep(t)
  PROVE  /\ npc[t] # "idle"
         /\ \A u \in Thread : u # t => npc'[u] = npc[u]
         /\ obj' = obj \/ obj' = t
         /\ npc[t] = "init" => obj' = t
         /\ npc'[t] # "init"
         /\ Native!NativeTypeOK'
         /\ npc[t] \in {"report", "final"} => npc'[t] # "idle" /\ obj' = obj
<1> USE DEF Native!NativeTypeOK, Native!At, Native!Go, Native!Callback,
            Native!Labels, Native!Loop
<1>1. CASE Native!SetCallback(t)  BY <1>1 DEF Native!SetCallback
<1>2. CASE Native!ClearCtrlC(t)  BY <1>2 DEF Native!ClearCtrlC
<1>3. CASE Native!ParseArgs(t)  BY <1>3 DEF Native!ParseArgs
<1>4. CASE Native!OpenFile(t)  BY <1>4 DEF Native!OpenFile, Native!OpenStream
<1>5. CASE Native!LoopTest(t)  BY <1>5 DEF Native!LoopTest
<1>6. CASE Native!Connect(t)  BY <1>6 DEF Native!Connect
<1>7. CASE Native!Read(t)  BY <1>7 DEF Native!Read
<1>8. CASE Native!Report(t)  BY <1>8 DEF Native!Report
<1>9. CASE Native!Check(t)  BY <1>9 DEF Native!Check
<1>10. CASE Native!Final(t)  BY <1>10 DEF Native!Final
<1>11. CASE Native!Clean(t)  BY <1>11 DEF Native!Clean
<1> QED
  BY <1>1, <1>2, <1>3, <1>4, <1>5, <1>6, <1>7, <1>8, <1>9, <1>10, <1>11
  DEF Native!NativeStep, Native!Silent

\* Every step of the system is a step of the service, or none.
LEMMA SysStepIsStep ==
  ASSUME SysInv, [SysNext]_sysVars
  PROVE  [Next]_vars
<1>1. CASE SysClick
  BY <1>1 DEF SysClick, Next, User
<1>2. CASE SysLooper
  BY <1>2 DEF SysLooper, SysHandleStop, Next, Looper
<1>3. CASE SysKill \/ (ClickStopService /\ Quiet)
  BY <1>3 DEF SysKill, Next
<1>4. ASSUME NEW t \in Thread, SysThreadStep(t)
      PROVE  [Next]_vars
  <2>1. CASE SysRunBegin(t) \/ SysEnter(t) \/ SysRunEnd(t) \/ SysPostClose(t)
    BY <2>1 DEF SysRunBegin, SysEnter, SysRunEnd, SysPostClose, Next, ThreadStep
  <2>2. CASE SysSilent(t)
    BY <2>2 DEF SysSilent, Next, ThreadStep
  <2>3. CASE SysReport(t)
    <3>1. Report(obj) /\ UNCHANGED <<amRest, objVars, threadVars>>
      BY <2>3 DEF SysReport
    <3>2. npc[t] \in {"report", "final"}
      BY <2>3 DEF SysReport, Native!Report, Native!Final, Native!At
    <3>3. obj # None /\ pc[t] = "library"
      BY <3>2 DEF SysInv, LinkInv
    <3>4. obj \in Thread /\ pc[obj] \in Entered
      BY <3>3 DEF SysInv, LinkInv, Native!NativeTypeOK
    <3>5. LibraryReport(t)  BY <3>1, <3>3, <3>4 DEF LibraryReport, Entered
    <3> QED  BY <3>5 DEF Next
  <2> QED  BY <1>4, <2>1, <2>2, <2>3 DEF SysThreadStep
<1>5. CASE UNCHANGED sysVars
  BY <1>5 DEF sysVars
<1> QED  BY <1>1, <1>2, <1>3, <1>4, <1>5 DEF SysNext

\* Steps of the service that leave the library alone.
LEMMA QuietLink ==
  ASSUME SysInv, UNCHANGED <<npc, obj>>,
         \/ UNCHANGED <<pc, nThreads>>
         \/ \E i \in Inst, n \in Nat : StartThread(i, n)
  PROVE  LinkInv'
<1>1. pc \in [Thread -> {"none", "new", "run", "library", "returned", "closing",
                         "done", "dead"}]
      /\ nThreads \in Nat /\ obj \in Thread \cup {None}
  BY BoundsAssumption DEF SysInv, TypeInv, TypeOK, Native!NativeTypeOK
<1>2. CASE UNCHANGED <<pc, nThreads>>
  BY <1>2 DEF SysInv, LinkInv
<1>3. ASSUME NEW i \in Inst, NEW n, StartThread(i, n) PROVE LinkInv'
  <2>1. /\ nThreads' = nThreads + 1 /\ nThreads + 1 \in Thread
        /\ pc' = [pc EXCEPT ![nThreads + 1] = "new"]
    BY <1>1, <1>3, BoundsAssumption DEF StartThread, Thread
  <2>2. pc[nThreads + 1] = "none"  BY <1>1, <2>1 DEF SysInv, LinkInv
  <2>3. \A t \in Thread : t # nThreads + 1 => pc'[t] = pc[t]  BY <1>1, <2>1
  <2>4. \A t \in Thread : npc[t] # "idle" => pc'[t] = "library"
    BY <2>2, <2>3 DEF SysInv, LinkInv
  <2>5. obj # None => pc'[obj] \in Entered
    BY <1>1, <2>2, <2>3 DEF SysInv, LinkInv, Entered
  <2>6. \A t \in Thread : t > nThreads' => pc'[t] = "none"
    BY <1>1, <2>1, <2>3 DEF SysInv, LinkInv, Thread
  <2> QED  BY <2>4, <2>5, <2>6 DEF SysInv, LinkInv
<1> QED  BY <1>2, <1>3

\* Steps of a thread that is outside the library, before or after it.
LEMMA RunLink ==
  ASSUME SysInv, NEW t \in Thread, NEW l, UNCHANGED <<npc, obj, nThreads>>,
         pc[t] \notin {"library", "none"}, Goto(t, l), pc[t] \in Entered => l \in Entered
  PROVE  LinkInv'
<1>1. pc \in [Thread -> {"none", "new", "run", "library", "returned", "closing",
                         "done", "dead"}] /\ obj \in Thread \cup {None}
  BY DEF SysInv, TypeInv, TypeOK, Native!NativeTypeOK
<1> QED  BY <1>1 DEF SysInv, LinkInv, Goto

LEMMA SysLinkStep ==
  ASSUME SysInv, [SysNext]_sysVars
  PROVE  Native!NativeTypeOK' /\ HistoryOK' /\ LinkInv'
<1>1. /\ pc \in [Thread -> {"none", "new", "run", "library", "returned", "closing",
                            "done", "dead"}]
      /\ obj \in Thread \cup {None} /\ npc \in [Thread -> Native!Labels]
      /\ cancelled \in [Thread -> {"no", "early", "loop"}] /\ nThreads \in Nat
  BY BoundsAssumption DEF SysInv, TypeInv, TypeOK, Native!NativeTypeOK, HistoryOK
<1>2. Quiet => Native!NativeTypeOK' /\ HistoryOK' /\ UNCHANGED <<npc, obj>>
  BY DEF Quiet, nativeVars, history, SysInv, HistoryOK, Native!NativeTypeOK
<1>3. ASSUME Native!Stop
      PROVE  Native!NativeTypeOK' /\ UNCHANGED <<npc, obj>>
  BY <1>3 DEF Native!Stop, SysInv, Native!NativeTypeOK
<1>4. CASE SysClick
  <2>1. UNCHANGED <<pc, nThreads>>
    BY <1>4 DEF SysClick, ClickStart, ClickStopOrUpdate, threadVars
  <2>2. Native!NativeTypeOK' /\ HistoryOK' /\ UNCHANGED <<npc, obj>>
    BY <1>2, <1>4
    DEF SysClick, nativeVars, SysInv, HistoryOK, Native!NativeTypeOK
  <2> QED  BY <2>1, <2>2, QuietLink
<1>5. CASE ClickStopService /\ Quiet
  <2>1. UNCHANGED <<pc, nThreads>>  BY <1>5 DEF ClickStopService, threadVars
  <2>2. Native!NativeTypeOK' /\ HistoryOK' /\ UNCHANGED <<npc, obj>>  BY <1>2, <1>5
  <2> QED  BY <2>1, <2>2, QuietLink
<1>6. CASE SysHandleStop
  <2>1. UNCHANGED <<pc, nThreads>>  BY <1>6 DEF SysHandleStop, HandleStop
  <2>2. Native!NativeTypeOK' /\ UNCHANGED <<npc, obj>>
    BY <1>3, <1>6 DEF SysHandleStop, nativeVars, SysInv, Native!NativeTypeOK
  <2>3. HistoryOK'
    BY <1>1, <1>6 DEF SysHandleStop, SysInv, HistoryOK
  <2> QED  BY <2>1, <2>2, <2>3, QuietLink
<1>7. ASSUME Quiet,
             OnCreate \/ OnDestroy \/ HandleForeground \/ RefuseForeground \/ HandleUpdate
             \/ HandleNull \/ HandleStartThread \/ HandleDuration \/ HandleProgress
             \/ CloseRetry \/ CloseFinish
      PROVE  Native!NativeTypeOK' /\ HistoryOK' /\ LinkInv'
  <2>1. looper # <<>>
    BY <1>7 DEF OnCreate, OnDestroy, HandleForeground, RefuseForeground, HandleUpdate,
                HandleNull, HandleStartThread, HandleDuration, HandleProgress, CloseRetry,
                CloseFinish, Dispatch
  <2>2. Head(looper).to \in Inst /\ Head(looper).id \in Nat
    BY <2>1, HeadTyped DEF SysInv, TypeInv
  <2>3. UNCHANGED <<pc, nThreads>> \/ \E i \in Inst, n \in Nat : StartThread(i, n)
    BY <1>7, <2>2 DEF OnCreate, OnDestroy, HandleForeground, StartDownload,
       RefuseForeground, HandleUpdate, HandleNull, HandleStartThread, HandleDuration,
       HandleProgress, CloseRetry, CloseFinish, threadVars
  <2>4. Native!NativeTypeOK' /\ HistoryOK' /\ UNCHANGED <<npc, obj>>  BY <1>2, <1>7
  <2> QED  BY <2>3, <2>4, QuietLink
<1>8. CASE SysLooper
  BY <1>6, <1>7, <1>8 DEF SysLooper
<1>9. CASE SysKill
  <2>1. /\ Native!NativeTypeOK' /\ HistoryOK'
        /\ obj' = None /\ npc' = [t \in Thread |-> "idle"]
    BY <1>9 DEF SysKill, Reloaded, SysInv, Native!NativeTypeOK, Native!Labels,
                Native!Loop, HistoryOK
  <2>2. /\ pc' = [t \in Thread |-> IF t <= nThreads THEN "dead" ELSE "none"]
        /\ nThreads' = nThreads
    BY <1>9 DEF SysKill, ProcessKill, ProcessDeath
  <2>3. LinkInv'  BY <1>1, <2>1, <2>2 DEF LinkInv, Thread
  <2> QED  BY <2>1, <2>3
<1>10. ASSUME NEW t \in Thread, SysThreadStep(t)
       PROVE  Native!NativeTypeOK' /\ HistoryOK' /\ LinkInv'
  <2>1. CASE SysRunBegin(t) \/ SysRunEnd(t)
    <3>1. Native!Stop /\ HistoryOK' /\ UNCHANGED nThreads
      BY <2>1 DEF SysRunBegin, SysRunEnd, RunBegin, RunEnd, history, SysInv, HistoryOK
    <3>2. \/ pc[t] = "new" /\ Goto(t, "run")
          \/ pc[t] = "returned" /\ Goto(t, "closing")
      BY <2>1 DEF SysRunBegin, SysRunEnd, RunBegin, RunEnd
    <3> QED  BY <1>3, <3>1, <3>2, RunLink DEF Entered
  <2>2. CASE SysPostClose(t)
    <3>1. Quiet /\ UNCHANGED nThreads /\ pc[t] = "closing" /\ Goto(t, "done")
      BY <2>2 DEF SysPostClose, RunPostClose
    <3>2. Native!NativeTypeOK' /\ HistoryOK' /\ UNCHANGED <<npc, obj>>  BY <1>2, <3>1
    <3> QED  BY <3>1, <3>2, RunLink DEF Entered
  <2>3. CASE SysEnter(t)
    <3>1. /\ pc[t] = "run" /\ pc' = [pc EXCEPT ![t] = "library"]
          /\ npc' = [npc EXCEPT ![t] = "init"] /\ obj' = obj /\ nThreads' = nThreads
      BY <2>3 DEF SysEnter, RunPostStart, Goto, Native!Enter, Native!Go
    <3>2. Native!NativeTypeOK' /\ HistoryOK'
      BY <2>3 DEF SysEnter, Native!Enter, Native!Go, Native!NativeTypeOK, Native!Labels,
                  SysInv, HistoryOK
    <3>3. LinkInv'
      BY <1>1, <3>1 DEF SysInv, LinkInv, Entered
    <3> QED  BY <3>2, <3>3
  <2>4. CASE SysSilent(t) \/ SysReport(t)
    <3>1. Native!NativeStep(t) /\ UNCHANGED history
      BY <2>4 DEF SysSilent, SysReport, Native!NativeStep
    <3>2. /\ npc[t] # "idle" /\ npc'[t] # "init"
          /\ \A u \in Thread : u # t => npc'[u] = npc[u]
          /\ obj' = obj \/ obj' = t
          /\ npc[t] = "init" => obj' = t
          /\ Native!NativeTypeOK'
      BY <3>1, NativeStepLink DEF SysInv
    <3>3. HistoryOK'  BY <3>1 DEF history, SysInv, HistoryOK
    <3>4. /\ nThreads' = nThreads
          /\ \/ pc' = pc /\ npc'[t] # "idle"
             \/ pc[t] = "library" /\ pc' = [pc EXCEPT ![t] = "returned"] /\ npc'[t] = "idle"
      <4>1. CASE SysSilent(t)
        BY <4>1 DEF SysSilent, LibraryReturn, Goto, vars, threadVars
      <4>2. CASE SysReport(t)
        <5>1. npc'[t] # "idle"
          BY <3>1, <4>2, NativeStepLink
          DEF SysReport, Native!Report, Native!Final, Native!At, SysInv
        <5> QED  BY <4>2, <5>1 DEF SysReport, threadVars
      <4> QED  BY <2>4, <4>1, <4>2
    <3>5. \A u \in Thread : npc'[u] # "idle" => pc'[u] = "library"
      BY <1>1, <3>2, <3>4 DEF SysInv, LinkInv
    <3>6. \A u \in Thread : npc'[u] \notin {"idle", "init"} => obj' # None
      BY <3>2 DEF SysInv, LinkInv, Thread, None
    <3>7. obj' # None => pc'[obj'] \in Entered
      BY <1>1, <3>2, <3>4 DEF SysInv, LinkInv, Entered
    <3>8. \A u \in Thread : u > nThreads' => pc'[u] = "none"
      BY <1>1, <3>4 DEF SysInv, LinkInv
    <3> QED  BY <3>2, <3>3, <3>5, <3>6, <3>7, <3>8 DEF LinkInv
  <2> QED  BY <2>1, <2>2, <2>3, <2>4, <1>10 DEF SysThreadStep
<1>11. CASE UNCHANGED sysVars
  <2>1. Quiet /\ UNCHANGED <<pc, nThreads>>
    BY <1>11 DEF sysVars, vars, threadVars, Quiet, nativeVars
  <2>2. Native!NativeTypeOK' /\ HistoryOK' /\ UNCHANGED <<npc, obj>>  BY <1>2, <2>1
  <2> QED  BY <2>1, <2>2, QuietLink
<1> QED
  BY <1>4, <1>5, <1>8, <1>9, <1>10, <1>11 DEF SysNext

LEMMA SysInvariance == SysSpec => []SysInv
<1>1. SysInv /\ [SysNext]_sysVars => SysInv'
  <2> SUFFICES ASSUME SysInv, [SysNext]_sysVars PROVE SysInv'
    OBVIOUS
  <2>1. TypeInv'  BY SysStepIsStep, TypeStep DEF SysInv
  <2> QED  BY <2>1, SysLinkStep DEF SysInv
<1> QED  BY <1>1, SysInitInv, PTL DEF SysSpec

-----------------------------------------------------------------------------
(* The theorems.                                                           *)

\* Every variable of the composed system keeps its type.
THEOREM SysTypeCorrect == SysSpec => []SysTypeOK
<1>1. SysInv => SysTypeOK  BY DEF SysInv, TypeInv, HistoryOK, SysTypeOK
<1> QED  BY <1>1, SysInvariance, PTL

\* The service on the native library (DownloadThread.run, RTMP.init and the
\* callbacks of main_rtmpdump) is an implementation of the service
\* specification, undefined behaviour of overlapping downloads included.
THEOREM SystemImplementsService == SysSpec => ServiceSpec
<1>1. SysInit => Init  BY DEF SysInit
<1>2. SysInv /\ [SysNext]_sysVars => [Next]_vars
  BY SysStepIsStep
<1> QED  BY <1>1, <1>2, SysInvariance, PTL DEF SysSpec, ServiceSpec, Spec

\* What the service guarantees therefore holds of the system: no wake lock is
\* lost and every notification is backed by one, whatever the library does.
THEOREM SystemOwnsItsLocks == SysSpec => [](WakeLockOwned /\ NotificationBacked)
BY SystemImplementsService, WakeLockIsOwned, NotificationIsBacked, PTL DEF ServiceSpec

-----------------------------------------------------------------------------
(* Misuse.                                                                 *)

Contract == INSTANCE NativeRTMPProofs WITH
    Callers <- Thread, NULL <- None, MayResume <- EnableRetry

\* As long as no call has overlapped another, the library's contract is kept, and
\* with it its invariant.
ContractInv == overlap \/ Contract!NativeInv

\* The object that is none is no thread.
LEMMA NoneIsNoThread == None \notin Thread
  BY DEF None, Thread

\* A step inside the library keeps the library's invariant.
LEMMA ContractStep ==
  ASSUME Contract!NativeInv, NEW t \in Thread, Native!NativeStep(t)
  PROVE  Contract!NativeInv'
<1>1. Contract!NativeStep(t)
  BY DEF Contract!NativeStep, Native!NativeStep, Contract!Silent, Native!Silent,
     Contract!SetCallback, Native!SetCallback, Contract!ClearCtrlC, Native!ClearCtrlC,
     Contract!ParseArgs, Native!ParseArgs, Contract!OpenFile, Native!OpenFile,
     Contract!OpenStream, Native!OpenStream, Contract!LoopTest, Native!LoopTest,
     Contract!Connect, Native!Connect, Contract!Read, Native!Read, Contract!Report,
     Native!Report, Contract!Check, Native!Check, Contract!Final, Native!Final,
     Contract!Clean, Native!Clean, Contract!At, Native!At, Contract!Go, Native!Go,
     Contract!Callback, Native!Callback
<1>2. QED  BY <1>1, NoneIsNoThread, Contract!StepInv

\* A stop, a call into the free library, and a step that leaves it alone.
LEMMA ContractCalls ==
  ASSUME Contract!NativeInv
  PROVE  /\ Native!Stop => Contract!NativeInv'
         /\ UNCHANGED nativeVars => Contract!NativeInv'
         /\ \A t \in Thread :
               (\A u \in Thread : npc[u] = "idle") /\ Native!Enter(t) => Contract!NativeInv'
<1>1. ASSUME Native!Stop PROVE Contract!NativeInv'
  <2>1. [Contract!SerialNext]_(Contract!nativeVars)
    BY <1>1 DEF Contract!SerialNext, Contract!Stop, Native!Stop
  <2>2. QED  BY <2>1, NoneIsNoThread, Contract!SerialInv
<1>2. ASSUME UNCHANGED nativeVars PROVE Contract!NativeInv'
  <2>1. [Contract!SerialNext]_(Contract!nativeVars)
    BY <1>2 DEF nativeVars, Contract!nativeVars
  <2>2. QED  BY <2>1, NoneIsNoThread, Contract!SerialInv
<1>3. ASSUME NEW t \in Thread, \A u \in Thread : npc[u] = "idle", Native!Enter(t)
      PROVE  Contract!NativeInv'
  <2>1. (\A u \in Thread : Contract!At(u, "idle")) /\ Contract!Enter(t)
    BY <1>3 DEF Contract!At, Contract!Enter, Contract!Go, Native!Enter, Native!At, Native!Go
  <2>2. QED  BY <2>1, NoneIsNoThread, Contract!EnterInv
<1>4. QED  BY <1>1, <1>2, <1>3

\* Every step of the system keeps the library's invariant, until calls overlap.
LEMMA ContractInvStep ==
  ASSUME ContractInv, [SysNext]_sysVars
  PROVE  ContractInv'
<1>1. CASE SysClick \/ (ClickStopService /\ Quiet) \/ UNCHANGED sysVars
  <2>1. UNCHANGED <<nativeVars, overlap>>
    BY <1>1 DEF SysClick, Quiet, sysVars, history, nativeVars
  <2>2. QED  BY <2>1, ContractCalls DEF ContractInv
<1>2. CASE SysLooper
  <2>1. (Native!Stop \/ UNCHANGED nativeVars) /\ UNCHANGED overlap
    BY <1>2 DEF SysLooper, SysHandleStop, Quiet, history
  <2>2. QED  BY <2>1, ContractCalls DEF ContractInv
<1>3. CASE SysKill
  <2>1. /\ ctrlC' = FALSE /\ obj' = None /\ file' = None /\ opened' = {}
        /\ npc' = [t \in Thread |-> "idle"] /\ fp' = [t \in Thread |-> None]
        /\ misuse' = FALSE
    BY <1>3 DEF SysKill, Reloaded
  <2>2. Contract!NativeInv'
    BY <2>1, NoneIsNoThread
    DEF Contract!NativeInv, Contract!NativeTypeOK, Contract!OneInside,
        Contract!StreamFollows, Contract!NoStreamLeft, Contract!CallbackFollows,
        Contract!Labels, Contract!Loop, Contract!At
  <2>3. QED  BY <2>2 DEF ContractInv
<1>4. ASSUME NEW t \in Thread, SysThreadStep(t) PROVE ContractInv'
  <2>1. CASE SysRunBegin(t) \/ SysRunEnd(t)
    <3>1. Native!Stop /\ UNCHANGED overlap
      BY <2>1 DEF SysRunBegin, SysRunEnd, history
    <3>2. QED  BY <3>1, ContractCalls DEF ContractInv
  <2>2. CASE SysPostClose(t)
    <3>1. UNCHANGED <<nativeVars, overlap>>
      BY <2>2 DEF SysPostClose, Quiet, history, nativeVars
    <3>2. QED  BY <3>1, ContractCalls DEF ContractInv
  <2>3. CASE SysEnter(t)
    <3>1. Native!Enter(t) /\ overlap' = (overlap \/ \E u \in Thread : npc[u] # "idle")
      BY <2>3 DEF SysEnter
    <3>2. QED  BY <3>1, ContractCalls DEF ContractInv
  <2>4. CASE SysSilent(t) \/ SysReport(t)
    <3>1. Native!NativeStep(t) /\ UNCHANGED overlap
      BY <2>4 DEF SysSilent, SysReport, Native!NativeStep, history
    <3>2. QED  BY <3>1, ContractStep DEF ContractInv
  <2>5. QED  BY <1>4, <2>1, <2>2, <2>3, <2>4 DEF SysThreadStep
<1>5. QED  BY <1>1, <1>2, <1>3, <1>4 DEF SysNext

\* So it is kept for as long as calls do not overlap.
LEMMA ContractInvariance == SysSpec => []ContractInv
<1>1. SysInit => ContractInv
  BY NoneIsNoThread, Contract!NativeInitInv
  DEF SysInit, ContractInv, Native!NativeInit, Contract!NativeInit
<1>2. ContractInv /\ [SysNext]_sysVars => ContractInv'
  BY ContractInvStep
<1>3. QED  BY <1>1, <1>2, PTL DEF SysSpec

\* Whatever a user stops and however late callbacks come: as long as no thread
\* calls RTMP.init while another is inside, the library uses no closed stream
\* and no environment of another thread.
THEOREM MisuseNeedsOverlap == SysSpec => []MisuseOnlyByOverlap
<1>1. ContractInv => MisuseOnlyByOverlap
  BY DEF ContractInv, MisuseOnlyByOverlap, Contract!NativeInv
<1>2. QED  BY <1>1, ContractInvariance, PTL

-----------------------------------------------------------------------------
(* The slot, for a user who only starts downloads.                         *)

\* A thread that has not marked itself stopped.
Busy(t) == pc[t] \in {"new", "run", "library", "returned"}

Done == {t \in Thread : pc[t] = "done"}

\* The record's object r has the last start id l; the n threads of objects h have
\* start ids s and the ones in d are done.  A start is for the record's object, with
\* a start id that no thread of it has had; a close stands for a thread that is done.
Fits(m, r, l, n, h, s, d) ==
    /\ m.what \notin {"STOP", "UPDATE"}
    /\ m.what = "FOREGROUND" =>
          /\ m.to = r /\ m.id <= l
          /\ \A t \in 1..n : h[t] = r => s[t] < m.id
    /\ m.what = "CLOSE_THREAD" =>
          \E t \in 1..n : t \in d /\ h[t] = m.to /\ s[t] = m.id

Rising(q) ==
    \A a, b \in 1..Len(q) :
        a < b /\ q[a].what = "FOREGROUND" /\ q[b].what = "FOREGROUND" => q[a].id < q[b].id

Waiting(q, r, l, n, h, s, d) ==
    (\A a \in 1..Len(q) : Fits(q[a], r, l, n, h, s, d)) /\ Rising(q)

\* The commands c that would be delivered again.
Redelivered(c, l) ==
    /\ \A a \in 1..Len(c) : c[a][1] \notin {"STOP", "UPDATE"} /\ c[a][2] <= l
    /\ \A a, b \in 1..Len(c) : a < b => c[a][2] < c[b][2]

\* Of two threads of one object the later one has the greater start id, up to that of
\* the record r.
Started(n, r, l, i, h, s) ==
    \A t \in 1..n :
        /\ h[t] \in 1..i
        /\ h[t] = r => s[t] <= l
        /\ \A u \in 1..n : u < t /\ h[u] = h[t] => s[u] < s[t]

\* A busy thread is the last one, and in the slot of the record's object.
BusyInSlot ==
    \A t \in Thread : Busy(t) =>
        t = nThreads /\ rec # None /\ home[t] = rec /\ downloadThread[rec] = t /\ ~isStop[t]

SlotInv ==
    /\ ~uiStop /\ ~overlap /\ rec <= nInst
    /\ Waiting(looper, rec, lastId, nThreads, home, startId, Done)
    /\ Redelivered(starts, lastId)
    /\ Started(nThreads, rec, lastId, nInst, home, startId)
    /\ BusyInSlot

SlotUntilStopped == stopUsed \/ SlotInv

-----------------------------------------------------------------------------

\* How the queue is read and written.
LEMMA WaitingPop ==
  ASSUME NEW q \in Seq(Message), q # <<>>, NEW r, NEW l, NEW n, NEW h, NEW s, NEW d,
         Waiting(q, r, l, n, h, s, d)
  PROVE  Waiting(Tail(q), r, l, n, h, s, d)
<1>1. Len(Tail(q)) = Len(q) - 1 /\ \A a \in 1..Len(Tail(q)) : Tail(q)[a] = q[a + 1]
  OBVIOUS
<1>2. \A a \in 1..Len(Tail(q)) : a + 1 \in 1..Len(q)
  BY <1>1
<1>3. \A a \in 1..Len(Tail(q)) : Fits(Tail(q)[a], r, l, n, h, s, d)
  BY <1>1, <1>2 DEF Waiting
<1>4. Rising(Tail(q))
  BY <1>1, <1>2 DEF Waiting, Rising
<1> QED  BY <1>3, <1>4 DEF Waiting

LEMMA WaitingPush ==
  ASSUME NEW q \in Seq(Message), NEW m \in Message,
         NEW r, NEW l, NEW n, NEW h, NEW s, NEW d,
         Waiting(q, r, l, n, h, s, d), Fits(m, r, l, n, h, s, d),
         m.what = "FOREGROUND" =>
            \A a \in 1..Len(q) : q[a].what = "FOREGROUND" => q[a].id < m.id
  PROVE  Waiting(Append(q, m), r, l, n, h, s, d)
<1>1. /\ Len(Append(q, m)) = Len(q) + 1 /\ Append(q, m)[Len(q) + 1] = m
      /\ \A a \in 1..Len(q) : Append(q, m)[a] = q[a]
  OBVIOUS
<1>2. \A a \in 1..Len(Append(q, m)) : a \in 1..Len(q) \/ a = Len(q) + 1
  BY <1>1
<1>3. \A a \in 1..Len(Append(q, m)) : Fits(Append(q, m)[a], r, l, n, h, s, d)
  BY <1>1, <1>2 DEF Waiting
<1>4. Rising(Append(q, m))
  <2>1. \A a \in 1..Len(Append(q, m)) : a # Len(q) + 1 => a \in 1..Len(q)
    BY <1>2
  <2> QED  BY <1>1, <2>1 DEF Waiting, Rising
<1> QED  BY <1>3, <1>4 DEF Waiting

\* Other messages fit whatever the threads are.
LEMMA OtherFits ==
  ASSUME NEW m, m.what \notin {"STOP", "UPDATE", "FOREGROUND", "CLOSE_THREAD"},
         NEW r, NEW l, NEW n, NEW h, NEW s, NEW d
  PROVE  Fits(m, r, l, n, h, s, d)
  BY DEF Fits

\* The types the argument needs.
LEMMA SlotTypes ==
  ASSUME SysInv
  PROVE  /\ looper \in Seq(Message) /\ starts \in Seq(Commands \X Nat)
         /\ rec \in Inst \cup {None} /\ lastId \in Nat /\ nInst \in Nat
         /\ nThreads \in 0..MaxThreads /\ nThreads \in Nat
         /\ downloadThread \in [Inst -> Thread \cup {None}]
         /\ pc \in [Thread -> Active \cup {"none", "dead"}]
         /\ isStop \in [Thread -> BOOLEAN]
         /\ home \in [Thread -> Inst \cup {None}] /\ startId \in [Thread -> Nat]
         /\ Inst \subseteq Nat /\ Thread \subseteq Nat /\ None \notin Inst
         /\ \A t \in 1..nThreads : t \in Thread
         /\ \A t \in Thread : t > nThreads => pc[t] = "none"
  BY BoundsAssumption
  DEF SysInv, LinkInv, TypeInv, TypeOK, Active, Inst, Thread, None

\* The message being dispatched fits.
LEMMA HeadFits ==
  ASSUME SysInv, SlotInv, looper # <<>>
  PROVE  /\ Head(looper) = looper[1] /\ 1 \in 1..Len(looper)
         /\ Head(looper).to \in Inst /\ Head(looper).id \in Nat
         /\ Tail(looper) \in Seq(Message)
         /\ Fits(Head(looper), rec, lastId, nThreads, home, startId, Done)
         /\ Waiting(Tail(looper), rec, lastId, nThreads, home, startId, Done)
<1>1. looper \in Seq(Message)  BY SlotTypes
<1>2. Waiting(looper, rec, lastId, nThreads, home, startId, Done)  BY DEF SlotInv
<1>3. /\ Head(looper) = looper[1] /\ Head(looper).to \in Inst /\ Head(looper).id \in Nat
      /\ Tail(looper) \in Seq(Message)
  BY HeadTyped DEF SysInv, TypeInv
<1>4. 1 \in 1..Len(looper)  BY <1>1
<1>5. Waiting(Tail(looper), rec, lastId, nThreads, home, startId, Done)
  BY <1>1, <1>2, WaitingPop
<1> QED  BY <1>2, <1>3, <1>4, <1>5 DEF Waiting

\* A command that is handled is not delivered again.
LEMMA HandledAgain ==
  ASSUME SysInv, Redelivered(starts, lastId)
  PROVE  Redelivered(Handled, lastId)
<1>1. starts \in Seq(Commands \X Nat)  BY SlotTypes
<1>2. Redelivered(SubSeq(starts, 2, Len(starts)), lastId)
  <2> DEFINE c == SubSeq(starts, 2, Len(starts))
  <2>1. CASE Len(starts) <= 1
    BY <1>1, <2>1 DEF Redelivered
  <2>2. CASE Len(starts) > 1
    <3>1. Len(c) = Len(starts) - 1 /\ \A a \in 1..Len(c) : c[a] = starts[a + 1]
      BY <1>1, <2>2
    <3>2. \A a \in 1..Len(c) : a + 1 \in 1..Len(starts)
      BY <1>1, <3>1
    <3> HIDE DEF c
    <3>3. \A a \in 1..Len(c) : c[a][1] \notin {"STOP", "UPDATE"} /\ c[a][2] <= lastId
      BY <3>1, <3>2 DEF Redelivered
    <3>4. \A a, b \in 1..Len(c) : a < b => a + 1 < b + 1
      BY <1>1, <3>1
    <3>5. \A a, b \in 1..Len(c) : a < b => c[a][2] < c[b][2]
      BY <3>1, <3>2, <3>4 DEF Redelivered
    <3>6. Redelivered(c, lastId)  BY <3>3, <3>5 DEF Redelivered
    <3> QED  BY <3>6 DEF c
  <2> QED  BY <1>1, <2>1, <2>2
<1> QED  BY <1>2 DEF Handled

slotRest == <<uiStop, overlap, rec, lastId, nInst, nThreads, home, startId,
              downloadThread>>

\* A handler that leaves the record and the threads alone.
LEMMA SlotPop ==
  ASSUME SysInv, SlotInv, looper # <<>>, looper' = Tail(looper),
         starts' = starts \/ starts' = Handled, UNCHANGED <<slotRest, pc, isStop>>
  PROVE  SlotInv'
<1>1. Done' = Done  BY DEF Done
<1>2. Waiting(looper, rec, lastId, nThreads, home, startId, Done)'
  BY <1>1, HeadFits DEF slotRest
<1>3. Redelivered(starts, lastId)'
  BY HandledAgain DEF SlotInv, slotRest
<1>4. BusyInSlot'
  BY DEF SlotInv, BusyInSlot, Busy, slotRest
<1> QED  BY <1>2, <1>3, <1>4 DEF SlotInv, slotRest


\* The last close of the record's object: nothing is waiting or busy.
LEMMA SlotBringDown ==
  ASSUME SysInv, SlotInv, looper # <<>>, Dispatch("CLOSE_THREAD"),
         rec = Head(looper).to, lastId = Head(looper).id, BringDown(Tail(looper)),
         UNCHANGED <<uiStop, overlap, lastId, nInst, nThreads, home, startId,
                     downloadThread, pc, isStop>>
  PROVE  SlotInv'
<1> USE SlotTypes
<1>1. PICK t \in 1..nThreads :
         t \in Done /\ home[t] = rec /\ startId[t] = lastId
  BY HeadFits DEF Fits, Dispatch
<1>3. \A u \in Thread : ~Busy(u)
  <2> SUFFICES ASSUME NEW u \in Thread, Busy(u) PROVE FALSE
    OBVIOUS
  <2>1. u = nThreads /\ home[u] = rec  BY DEF SlotInv, BusyInSlot
  <2>2. t # u  BY <1>1 DEF Done, Busy
  <2>3. t \in Thread /\ t < u /\ u \in 1..nThreads
    BY <1>1, <2>1, <2>2 DEF Thread
  <2>4. startId[t] < startId[u] /\ startId[u] <= lastId
    BY <1>1, <2>1, <2>3 DEF SlotInv, Started
  <2> QED  BY <1>1, <2>3, <2>4
<1>4. \A a \in 1..Len(Tail(looper)) :
         /\ Fits(Tail(looper)[a], rec, lastId, nThreads, home, startId, Done)
         /\ Tail(looper)[a].what # "FOREGROUND"
  <2> TAKE a \in 1..Len(Tail(looper))
  <2>1. Tail(looper)[a] \in Message  BY HeadFits
  <2>2. Fits(Tail(looper)[a], rec, lastId, nThreads, home, startId, Done)
    BY HeadFits DEF Waiting
  <2>3. ASSUME Tail(looper)[a].what = "FOREGROUND" PROVE FALSE
    <3>1. startId[t] < Tail(looper)[a].id /\ Tail(looper)[a].id <= lastId
      BY <1>1, <2>2, <2>3 DEF Fits
    <3>2. Tail(looper)[a].id \in Nat  BY <2>1 DEF Message
    <3> QED  BY <1>1, <3>1, <3>2
  <2> QED  BY <2>2, <2>3
<1>5. rec' = None /\ starts' = <<>> /\ looper' = Append(Tail(looper), Msg("DESTROY", rec, 0))
  BY DEF BringDown
<1>6. Done' = Done  BY DEF Done
<1>7. Waiting(Tail(looper), None, lastId, nThreads, home, startId, Done)
  <2>1. \A a \in 1..Len(Tail(looper)) :
           Fits(Tail(looper)[a], None, lastId, nThreads, home, startId, Done)
    BY <1>4 DEF Fits
  <2> QED  BY <2>1, HeadFits DEF Waiting
<1>8. Waiting(looper', None, lastId, nThreads, home, startId, Done)
  <2>1. rec \in Inst  BY HeadFits
  <2>2. Msg("DESTROY", rec, 0) \in Message /\ Msg("DESTROY", rec, 0).what = "DESTROY"
    BY <2>1, MsgTyped DEF Lifecycle, Msg
  <2>3. Fits(Msg("DESTROY", rec, 0), None, lastId, nThreads, home, startId, Done)
    BY <2>2, OtherFits
  <2> QED  BY <1>5, <1>7, <2>2, <2>3, HeadFits, WaitingPush
<1>9. Started(nThreads, None, lastId, nInst, home, startId)
  <2>1. \A u \in 1..nThreads : home[u] # None
    BY DEF SlotInv, Started, None
  <2> QED  BY <2>1 DEF SlotInv, Started
<1>10. Redelivered(<<>>, lastId)  BY DEF Redelivered
<1>11. BusyInSlot'  BY <1>3 DEF BusyInSlot, Busy
<1> QED  BY <1>5, <1>6, <1>8, <1>9, <1>10, <1>11 DEF SlotInv, None


\* A download starts in the free slot of the record's object.
LEMMA SlotDownload ==
  ASSUME SysInv, SlotInv, HandleForeground, UNCHANGED overlap
  PROVE  SlotInv'
<1> USE SlotTypes
<1> DEFINE i == Head(looper).to
           k == Head(looper).id
           T == nThreads + 1
<1>1. /\ looper # <<>> /\ Head(looper).what = "FOREGROUND" /\ Free(i)
      /\ looper' = Tail(looper) /\ starts' = Handled /\ T \in Thread
      /\ nThreads' = T /\ pc' = [pc EXCEPT ![T] = "new"]
      /\ isStop' = [isStop EXCEPT ![T] = FALSE] /\ home' = [home EXCEPT ![T] = i]
      /\ startId' = [startId EXCEPT ![T] = k]
      /\ downloadThread' = [downloadThread EXCEPT ![i] = T]
      /\ UNCHANGED <<rec, lastId, uiStop, nInst>>
  <2>1. StartThread(i, k)
    BY DEF HandleForeground, StartDownload
  <2>2. T \in Thread
    BY <2>1, BoundsAssumption DEF StartThread, Thread
  <2>3. looper # <<>> /\ Head(looper).what = "FOREGROUND" /\ Free(i)
    BY DEF HandleForeground, Dispatch
  <2>4. /\ looper' = Tail(looper) /\ starts' = Handled
        /\ UNCHANGED <<rec, lastId, uiStop, nInst>>
    BY DEF HandleForeground
  <2> HIDE DEF i, k
  <2> QED  BY <2>1, <2>2, <2>3, <2>4 DEF StartThread
<1>2. /\ i = rec /\ i \in Inst /\ k \in Nat /\ k <= lastId
      /\ \A t \in 1..nThreads : home[t] = rec => startId[t] < k
      /\ Head(looper) = looper[1] /\ 1 \in 1..Len(looper)
  BY <1>1, HeadFits DEF Fits
<1>3. \A t \in Thread : ~Busy(t)
  <2> SUFFICES ASSUME NEW t \in Thread, Busy(t) PROVE FALSE
    OBVIOUS
  <2>1. downloadThread[rec] = t /\ ~isStop[t]  BY DEF SlotInv, BusyInSlot
  <2>2. t # None  BY DEF Thread, None
  <2> QED  BY <1>1, <1>2, <2>1, <2>2 DEF Free
<1> HIDE DEF i, k, T
<1>4. /\ home'[T] = rec /\ startId'[T] = k /\ pc'[T] = "new" /\ ~isStop'[T]
      /\ downloadThread'[rec] = T /\ T = nThreads + 1
      /\ \A t \in Thread : t # T =>
            home'[t] = home[t] /\ startId'[t] = startId[t] /\ pc'[t] = pc[t]
  BY <1>1, <1>2 DEF T
<1>5. \A t \in 1..nThreads : t \in Thread /\ t # T /\ t < T /\ t \in 1..T
  BY <1>4
<1>6. \A t \in 1..T : t = T \/ t \in 1..nThreads
  BY <1>4
<1>7. Done' = Done
  <2>1. pc[T] = "none"  BY <1>1, <1>4
  <2> QED  BY <1>4, <2>1 DEF Done
<1>8. \A a \in 1..Len(Tail(looper)) :
         Fits(Tail(looper)[a], rec, lastId, T, home', startId', Done)
  <2> SUFFICES ASSUME NEW a \in 1..Len(Tail(looper))
               PROVE  Fits(Tail(looper)[a], rec, lastId, T, home', startId', Done)
    OBVIOUS
  <2>1. Fits(Tail(looper)[a], rec, lastId, nThreads, home, startId, Done)
    BY <1>1, HeadFits DEF Waiting
  <2>2. Tail(looper)[a].what = "FOREGROUND" => k < Tail(looper)[a].id
    <3>1. Tail(looper)[a] = looper[a + 1] /\ a + 1 \in 1..Len(looper) /\ 1 < a + 1
      BY <1>1
    <3> QED  BY <1>1, <1>2, <3>1 DEF SlotInv, Waiting, Rising, k
  <2> QED  BY <1>4, <1>5, <1>6, <2>1, <2>2 DEF Fits
<1>9. Waiting(looper, rec, lastId, nThreads, home, startId, Done)'
  BY <1>1, <1>7, <1>8, HeadFits DEF Waiting
<1>10. Started(nThreads, rec, lastId, nInst, home, startId)'
  <2>1. rec \in 1..nInst  BY <1>2 DEF SlotInv, Inst
  <2>2. \A t \in 1..nThreads : /\ home[t] \in 1..nInst
                               /\ home[t] = rec => startId[t] <= lastId
                               /\ \A u \in 1..nThreads : u < t /\ home[u] = home[t] =>
                                     startId[u] < startId[t]
    BY DEF SlotInv, Started
  <2>3. \A t \in 1..nThreads : home'[t] = home[t] /\ startId'[t] = startId[t] /\ ~(T < t)
    BY <1>4, <1>5
  <2>4. ASSUME NEW t \in 1..T
        PROVE  /\ home'[t] \in 1..nInst
               /\ home'[t] = rec => startId'[t] <= lastId
               /\ \A u \in 1..T : u < t /\ home'[u] = home'[t] => startId'[u] < startId'[t]
    <3>1. CASE t = T
      <4>1. \A u \in 1..T : u < T => u \in 1..nThreads
        BY <1>4
      <4> QED  BY <1>2, <1>4, <2>1, <2>3, <3>1, <4>1
    <3>2. CASE t \in 1..nThreads
      <4>1. \A u \in 1..T : u < t => u \in 1..nThreads
        BY <1>6, <2>3, <3>2
      <4> QED  BY <2>2, <2>3, <3>2, <4>1
    <3> QED  BY <1>6, <3>1, <3>2
  <2> QED  BY <1>1, <2>4 DEF Started
<1>11. BusyInSlot'
  <2>1. rec # None  BY <1>2
  <2> QED  BY <1>1, <1>3, <1>4, <2>1 DEF BusyInSlot, Busy
<1> QED
  BY <1>1, <1>9, <1>10, <1>11, HandledAgain DEF SlotInv


\* A start is delivered to the record's object, with a new start id.
LEMMA SlotClick ==
  ASSUME SysInv, SlotInv, ClickStart, UNCHANGED overlap
  PROVE  SlotInv'
<1> USE SlotTypes
<1>1. /\ StartService("FOREGROUND")
      /\ UNCHANGED <<uiStop, nThreads, home, startId, downloadThread, pc, isStop>>
  BY DEF ClickStart, threadVars
<1>2. Done' = Done  BY <1>1 DEF Done
<1>3. /\ \A a \in 1..Len(looper) : looper[a] \in Message
      /\ \A a \in 1..Len(looper) : Fits(looper[a], rec, lastId, nThreads, home, startId, Done)
  BY DEF SlotInv, Waiting
<1>4. CASE rec = None
  <2> DEFINE r == nInst + 1
  <2>1. /\ nInst' = r /\ rec' = r /\ lastId' = 1 /\ starts' = <<<<"FOREGROUND", 1>>>>
        /\ looper' = looper \o <<Msg("CREATE", r, 0), Msg("FOREGROUND", r, 1)>>
    BY <1>1, <1>4 DEF StartService
  <2>2. r \in Inst /\ r > nInst
    BY <1>1, <1>4, BoundsAssumption DEF StartService, Inst
  <2> HIDE DEF r
  <2>3. \A t \in Thread : ~Busy(t)
    BY <1>4 DEF SlotInv, BusyInSlot
  <2>4. \A t \in 1..nThreads : home[t] \in 1..nInst /\ home[t] # r
    BY <2>2 DEF SlotInv, Started
  <2>5. \A a \in 1..Len(looper) :
           /\ looper[a].what # "FOREGROUND"
           /\ Fits(looper[a], r, 1, nThreads, home, startId, Done)
    <3> TAKE a \in 1..Len(looper)
    <3>1. looper[a].to # None  BY <1>3 DEF Message
    <3> QED  BY <1>3, <1>4, <3>1 DEF Fits
  <2>6. Waiting(looper, r, 1, nThreads, home, startId, Done)
    BY <2>5 DEF SlotInv, Waiting
  <2>7. /\ Msg("CREATE", r, 0) \in Message /\ Msg("CREATE", r, 0).what = "CREATE"
        /\ Msg("FOREGROUND", r, 1) \in Message
        /\ Msg("FOREGROUND", r, 1).what = "FOREGROUND"
        /\ Msg("FOREGROUND", r, 1).to = r /\ Msg("FOREGROUND", r, 1).id = 1
    BY <2>2, MsgTyped DEF Lifecycle, Commands, Msg
  <2> DEFINE q == Append(looper, Msg("CREATE", r, 0))
  <2>8. q \in Seq(Message) /\ looper' = Append(q, Msg("FOREGROUND", r, 1))
    BY <2>1, <2>7
  <2>9. Waiting(q, r, 1, nThreads, home, startId, Done)
    BY <2>6, <2>7, OtherFits, WaitingPush
  <2>10. \A a \in 1..Len(q) : q[a].what # "FOREGROUND"
    BY <2>5, <2>7
  <2> HIDE DEF q
  <2>11. Fits(Msg("FOREGROUND", r, 1), r, 1, nThreads, home, startId, Done)
    BY <2>4, <2>7 DEF Fits
  <2>12. Waiting(looper', r, 1, nThreads, home, startId, Done)
    BY <2>7, <2>8, <2>9, <2>10, <2>11, WaitingPush
  <2>13. Started(nThreads, r, 1, r, home, startId)
    <3>1. \A t \in 1..nThreads : home[t] \in 1..r
      BY <2>2, <2>4
    <3> QED  BY <2>4, <3>1 DEF SlotInv, Started
  <2>14. Redelivered(<<<<"FOREGROUND", 1>>>>, 1)
    BY DEF Redelivered
  <2>15. BusyInSlot'  BY <1>1, <2>3 DEF BusyInSlot, Busy
  <2> QED
    BY <1>1, <1>2, <2>1, <2>2, <2>12, <2>13, <2>14, <2>15 DEF SlotInv
<1>5. CASE rec # None
  <2> DEFINE l == lastId + 1
             m == Msg("FOREGROUND", rec, lastId + 1)
  <2>1. /\ lastId' = l /\ starts' = Append(starts, <<"FOREGROUND", l>>)
        /\ looper' = Append(looper, m) /\ nInst' = nInst /\ rec' = rec
    BY <1>1, <1>5 DEF StartService
  <2>2. m \in Message /\ m.what = "FOREGROUND" /\ m.to = rec /\ m.id = l
    BY <1>5, MsgTyped DEF Lifecycle, Commands, Msg
  <2>3. l \in Nat /\ lastId < l
    OBVIOUS
  <2> HIDE DEF l, m
  <2>4. \A t \in 1..nThreads : home[t] = rec => startId[t] <= lastId
    BY DEF SlotInv, Started
  <2>5. \A t \in 1..nThreads : home[t] = rec => startId[t] < l
    <3> TAKE t \in 1..nThreads
    <3>1. startId[t] \in Nat  OBVIOUS
    <3> QED  BY <2>3, <2>4, <3>1
  <2>6. \A a \in 1..Len(looper) :
           /\ looper[a].what = "FOREGROUND" => looper[a].id < m.id
           /\ Fits(looper[a], rec, l, nThreads, home, startId, Done)
    <3> TAKE a \in 1..Len(looper)
    <3>1. looper[a].id \in Nat  BY <1>3 DEF Message
    <3>2. looper[a].what = "FOREGROUND" => looper[a].id <= lastId
      BY <1>3 DEF Fits
    <3>3. looper[a].what = "FOREGROUND" => looper[a].id < l
      BY <2>3, <3>1, <3>2
    <3> QED  BY <1>3, <2>2, <2>3, <3>1, <3>3 DEF Fits
  <2>7. Waiting(looper, rec, l, nThreads, home, startId, Done)
    BY <2>6 DEF SlotInv, Waiting
  <2>8. Fits(m, rec, l, nThreads, home, startId, Done)
    BY <2>2, <2>3, <2>5 DEF Fits
  <2>9. Waiting(looper', rec, l, nThreads, home, startId, Done)
    BY <2>1, <2>2, <2>6, <2>7, <2>8, WaitingPush
  <2>10. Started(nThreads, rec, l, nInst, home, startId)
    <3>1. \A t \in 1..nThreads : home[t] = rec => startId[t] <= l
      <4> TAKE t \in 1..nThreads
      <4>1. startId[t] \in Nat  OBVIOUS
      <4> QED  BY <2>3, <2>5, <4>1
    <3> QED  BY <3>1 DEF SlotInv, Started
  <2>11. Redelivered(Append(starts, <<"FOREGROUND", l>>), l)
    <3> DEFINE c == Append(starts, <<"FOREGROUND", l>>)
    <3>1. /\ Len(c) = Len(starts) + 1 /\ c[Len(starts) + 1] = <<"FOREGROUND", l>>
          /\ \A a \in 1..Len(starts) : c[a] = starts[a]
      OBVIOUS
    <3>2. \A a \in 1..Len(c) : a = Len(starts) + 1 \/ a \in 1..Len(starts)
      BY <3>1
    <3>3. \A a \in 1..Len(starts) :
             /\ starts[a][1] \notin {"STOP", "UPDATE"}
             /\ starts[a][2] < l /\ starts[a][2] <= l
      <4> TAKE a \in 1..Len(starts)
      <4>1. starts[a] \in Commands \X Nat
        OBVIOUS
      <4>2. starts[a][2] \in Nat /\ starts[a][2] <= lastId
        BY <4>1 DEF SlotInv, Redelivered
      <4> QED  BY <2>3, <4>2 DEF SlotInv, Redelivered
    <3>4. \A a, b \in 1..Len(starts) : a < b => starts[a][2] < starts[b][2]
      BY DEF SlotInv, Redelivered
    <3> HIDE DEF c
    <3>5. \A a \in 1..Len(c) : c[a][1] \notin {"STOP", "UPDATE"} /\ c[a][2] <= l
      <4> TAKE a \in 1..Len(c)
      <4>1. CASE a = Len(starts) + 1
        <5>1. c[a] = <<"FOREGROUND", l>> /\ l <= l
          BY <2>3, <3>1, <4>1
        <5> QED  BY <5>1
      <4>2. CASE a \in 1..Len(starts)
        BY <3>1, <3>3, <4>2
      <4> QED  BY <3>2, <4>1, <4>2
    <3>6. ASSUME NEW a \in 1..Len(c), NEW b \in 1..Len(c), a < b PROVE c[a][2] < c[b][2]
      <4>1. a \in 1..Len(starts)  BY <3>1, <3>2, <3>6
      <4>2. CASE b = Len(starts) + 1
        <5>1. c[a] = starts[a] /\ c[b] = <<"FOREGROUND", l>>
          BY <3>1, <4>1, <4>2
        <5>2. starts[a][2] < l
          BY <3>3, <4>1
        <5> QED  BY <5>1, <5>2
      <4>3. CASE b \in 1..Len(starts)
        <5>1. c[a] = starts[a] /\ c[b] = starts[b]
          BY <3>1, <4>1, <4>3
        <5> QED  BY <3>4, <3>6, <4>1, <4>3, <5>1
      <4> QED  BY <3>2, <4>2, <4>3
    <3>7. Redelivered(c, l)  BY <3>5, <3>6 DEF Redelivered
    <3> QED  BY <3>7 DEF c
  <2>12. BusyInSlot'  BY <1>1, <2>1 DEF SlotInv, BusyInSlot, Busy
  <2> QED
    BY <1>1, <1>2, <2>1, <2>9, <2>10, <2>11, <2>12 DEF SlotInv
<1> QED  BY <1>4, <1>5


\* The commands of the record are delivered again, to a new object.
LEMMA SlotKill ==
  ASSUME SysInv, SlotInv, SysKill
  PROVE  SlotInv'
<1> USE SlotTypes
<1>1. /\ pc' = [t \in Thread |-> IF t <= nThreads THEN "dead" ELSE "none"]
      /\ UNCHANGED <<uiStop, nThreads, home, startId>> /\ overlap' = FALSE
      /\ ProcessDeath
  BY DEF SysKill, ProcessKill, ProcessDeath, Reloaded
<1>2. Done' = {} /\ BusyInSlot'
  BY <1>1 DEF Done, BusyInSlot, Busy
<1>3. CASE rec = None
  <2>1. looper' = <<>> /\ UNCHANGED <<rec, lastId, starts, nInst>>
    BY <1>1, <1>3 DEF ProcessDeath
  <2>2. Waiting(<<>>, rec, lastId, nThreads, home, startId, {})
    BY DEF Waiting, Rising
  <2> QED  BY <1>1, <1>2, <2>1, <2>2 DEF SlotInv
<1>4. CASE rec # None
  <2> DEFINE r == nInst + 1
             c == [k \in 1..Len(starts') |-> Msg(starts'[k][1], r, starts'[k][2])]
  <2>1. /\ nInst' = r /\ rec' = r /\ r \in Inst
        /\ looper' = <<Msg("CREATE", r, 0)>> \o c
        /\ IF starts = <<>>
           THEN lastId' = lastId + 1 /\ starts' = <<<<"NULL", lastId + 1>>>>
           ELSE UNCHANGED <<lastId, starts>>
    <3>1. nInst < MaxInst /\ nInst' = r /\ rec' = r
      BY <1>1, <1>4 DEF ProcessDeath
    <3>2. r \in Inst  BY <3>1, BoundsAssumption DEF Inst
    <3>3. looper' = <<Msg("CREATE", r, 0)>> \o c
      BY <1>1, <1>4 DEF ProcessDeath
    <3>4. IF starts = <<>>
          THEN lastId' = lastId + 1 /\ starts' = <<<<"NULL", lastId + 1>>>>
          ELSE UNCHANGED <<lastId, starts>>
      BY <1>1, <1>4 DEF ProcessDeath
    <3> QED  BY <3>1, <3>2, <3>3, <3>4
  <2>2. lastId <= lastId' /\ lastId' \in Nat
    BY <2>1
  <2>3. Redelivered(starts', lastId')
    <3>1. CASE starts = <<>>
      <4>1. Redelivered(<<<<"NULL", lastId + 1>>>>, lastId + 1)
        BY DEF Redelivered
      <4> QED  BY <2>1, <3>1, <4>1
    <3>2. CASE starts # <<>>
      BY <2>1, <3>2 DEF SlotInv
    <3> QED  BY <3>1, <3>2
  <2>4. starts' \in Seq(Commands \X Nat)  BY <1>1, DeathTyped DEF SysInv
  <2>5. \A t \in 1..nThreads : home[t] \in 1..nInst /\ home[t] # r /\ home[t] \in 1..r
    BY DEF SlotInv, Started
  <2>6. /\ Len(c) = Len(starts')
        /\ \A k \in 1..Len(starts') : c[k].what = starts'[k][1] /\ c[k].to = r
                                      /\ c[k].id = starts'[k][2]
    BY <2>4 DEF Msg
  <2>7. /\ Len(looper') = Len(starts') + 1 /\ looper'[1].what = "CREATE"
        /\ \A k \in 2..Len(looper') : looper'[k] = c[k - 1] /\ k - 1 \in 1..Len(starts')
    BY <2>1, <2>4, <2>6 DEF Msg
  <2> HIDE DEF r, c
  <2>8. \A a \in 1..Len(looper') : Fits(looper'[a], r, lastId', nThreads, home, startId, {})
    <3> SUFFICES ASSUME NEW a \in 1..Len(looper')
                 PROVE  Fits(looper'[a], r, lastId', nThreads, home, startId, {})
      OBVIOUS
    <3>1. CASE a = 1
      BY <2>7, <3>1 DEF Fits
    <3>2. CASE a \in 2..Len(looper')
      <4> DEFINE k == a - 1
      <4>1. /\ looper'[a].what = starts'[k][1] /\ looper'[a].to = r
            /\ looper'[a].id = starts'[k][2] /\ k \in 1..Len(starts')
        <5>1. k \in 1..Len(starts') /\ looper'[a] = c[k]
          BY <2>7, <3>2
        <5> QED  BY <2>6, <5>1
      <4>2. starts'[k] \in Commands \X Nat
        BY <2>4, <4>1
      <4> HIDE DEF k
      <4>3. starts'[k][1] \in Commands
        BY <4>2
      <4>4. starts'[k][1] \notin {"STOP", "UPDATE"} /\ starts'[k][2] <= lastId'
        BY <2>3, <4>1 DEF Redelivered
      <4> QED  BY <2>5, <4>1, <4>3, <4>4 DEF Fits, Commands
    <3>3. a = 1 \/ a \in 2..Len(looper')
      BY <2>4, <2>7
    <3> QED  BY <3>1, <3>2, <3>3
  <2>9. Rising(looper')
    <3> SUFFICES ASSUME NEW a \in 1..Len(looper'), NEW b \in 1..Len(looper'), a < b,
                        looper'[a].what = "FOREGROUND", looper'[b].what = "FOREGROUND"
                 PROVE  looper'[a].id < looper'[b].id
      BY DEF Rising
    <3>1. a \in 2..Len(looper') /\ b \in 2..Len(looper') /\ a - 1 < b - 1
      BY <2>4, <2>7
    <3>2. /\ a - 1 \in 1..Len(starts') /\ looper'[a].id = starts'[a - 1][2]
          /\ b - 1 \in 1..Len(starts') /\ looper'[b].id = starts'[b - 1][2]
      BY <2>6, <2>7, <3>1
    <3> QED  BY <2>3, <3>1, <3>2 DEF Redelivered
  <2>10. Waiting(looper', r, lastId', nThreads, home, startId, {})
    BY <2>8, <2>9 DEF Waiting
  <2>11. Started(nThreads, r, lastId', r, home, startId)
    BY <2>5 DEF SlotInv, Started
  <2> QED
    BY <1>1, <1>2, <2>1, <2>3, <2>10, <2>11 DEF SlotInv
<1> QED  BY <1>3, <1>4


\* A thread moves on, and the queue becomes one that fits the threads.
LEMMA SlotRun ==
  ASSUME SysInv, SlotInv, UNCHANGED <<slotRest, starts>>,
         Waiting(looper', rec, lastId, nThreads, home, startId, Done'),
         \A t \in Thread : Busy(t)' => Busy(t) /\ (~isStop[t] => ~isStop'[t])
  PROVE  SlotInv'
<1>1. BusyInSlot'
  BY DEF SlotInv, BusyInSlot, slotRest
<1> QED  BY <1>1 DEF SlotInv, slotRest

\* More threads are done, and a message is posted that fits.
LEMMA WaitingMore ==
  ASSUME NEW q \in Seq(Message), NEW r, NEW l, NEW n, NEW h, NEW s, NEW d, NEW e,
         d \subseteq e, Waiting(q, r, l, n, h, s, d)
  PROVE  /\ Waiting(q, r, l, n, h, s, e)
         /\ \A m \in Message : m.what # "FOREGROUND" /\ Fits(m, r, l, n, h, s, e) =>
               Waiting(Append(q, m), r, l, n, h, s, e)
<1>1. \A a \in 1..Len(q) : Fits(q[a], r, l, n, h, s, e)
  BY DEF Waiting, Fits
<1>2. Waiting(q, r, l, n, h, s, e)  BY <1>1 DEF Waiting
<1> QED  BY <1>2, WaitingPush

\* The messages of a progress report.
LEMMA SlotReport ==
  ASSUME SysInv, SlotInv, Report(obj), obj # None,
         UNCHANGED <<slotRest, starts, pc, isStop>>
  PROVE  SlotInv'
<1> USE SlotTypes
<1>1. obj \in Thread /\ home[obj] \in Inst
  BY DEF SysInv, LinkInv, TypeInv, ThreadInv, Native!NativeTypeOK, Entered, Active
<1>2. Done' = Done  BY DEF Done
<1> DEFINE D == Msg("DURATION", home[obj], 0)
<1>3. D \in Message /\ D.what = "DURATION"
  BY <1>1, MsgTyped DEF Reports, Msg
<1>4. PICK p \in Readings, changed \in DurationNews :
         looper' = IF changed
                   THEN looper \o <<D, [Msg("PROGRESS", home[obj], 0) EXCEPT !.prog = p]>>
                   ELSE Append(looper, [Msg("PROGRESS", home[obj], 0) EXCEPT !.prog = p])
  BY DEF Report
<1> DEFINE P == [Msg("PROGRESS", home[obj], 0) EXCEPT !.prog = p]
<1>5. P \in Message /\ P.what = "PROGRESS"
  <2>1. Msg("PROGRESS", home[obj], 0) \in Message
    BY <1>1, MsgTyped DEF Reports
  <2> QED  BY <2>1, BoundsAssumption DEF Message, Progress, Msg
<1>6. looper' = Append(Append(looper, D), P) \/ looper' = Append(looper, P)
  <2>1. looper' = looper \o <<D, P>> \/ looper' = Append(looper, P)
    BY <1>4
  <2> HIDE DEF D, P
  <2>2. looper \o <<D, P>> = Append(Append(looper, D), P)
    BY <1>3, <1>5
  <2> QED  BY <2>1, <2>2
<1> HIDE DEF D, P
<1>7. /\ Fits(D, rec, lastId, nThreads, home, startId, Done)
      /\ Fits(P, rec, lastId, nThreads, home, startId, Done)
  BY <1>3, <1>5, OtherFits
<1>8. Waiting(Append(looper, D), rec, lastId, nThreads, home, startId, Done)
  BY <1>3, <1>7, WaitingPush DEF SlotInv
<1>9. Waiting(looper', rec, lastId, nThreads, home, startId, Done)
  <2>1. Append(looper, D) \in Seq(Message)  BY <1>3
  <2>2. Waiting(Append(Append(looper, D), P), rec, lastId, nThreads, home, startId, Done)
    BY <1>5, <1>7, <1>8, <2>1, WaitingPush
  <2>3. Waiting(Append(looper, P), rec, lastId, nThreads, home, startId, Done)
    BY <1>5, <1>7, WaitingPush DEF SlotInv
  <2> QED  BY <1>6, <2>2, <2>3
<1>10. \A t \in Thread : Busy(t)' => Busy(t) /\ (~isStop[t] => ~isStop'[t])
  BY DEF Busy
<1> QED  BY <1>2, <1>9, <1>10, SlotRun

\* A thread leaves the slot only after it has marked itself stopped, and no other thread
\* is inside the library when it enters.
LEMMA SlotThread ==
  ASSUME SysInv, SlotInv, NEW t \in Thread, SysThreadStep(t)
  PROVE  SlotInv'
<1> USE SlotTypes
<1>1. Waiting(looper, rec, lastId, nThreads, home, startId, Done)
  BY DEF SlotInv
<1>2. ASSUME NEW l, Goto(t, l), pc[t] # "done"
      PROVE  /\ Done \subseteq Done' /\ (l = "done" => t \in Done')
             /\ \A u \in Thread : u # t => pc'[u] = pc[u]
             /\ pc'[t] = l
  BY <1>2 DEF Goto, Done
<1>3. CASE SysRunBegin(t)
  <2>1. /\ pc[t] = "new" /\ Goto(t, "run") /\ isStop' = [isStop EXCEPT ![t] = FALSE]
        /\ looper' = looper /\ UNCHANGED <<slotRest, starts>>
    BY <1>3 DEF SysRunBegin, RunBegin, amVars, objVars, history, slotRest
  <2>2. Waiting(looper', rec, lastId, nThreads, home, startId, Done')
    BY <1>1, <1>2, <2>1, WaitingMore
  <2>3. \A u \in Thread : Busy(u)' => Busy(u) /\ (~isStop[u] => ~isStop'[u])
    BY <1>2, <2>1 DEF Busy
  <2> QED  BY <2>1, <2>2, <2>3, SlotRun
<1>4. CASE SysEnter(t)
  <2> DEFINE m == Msg("START_THREAD", home[t], 0)
  <2>1. /\ pc[t] = "run" /\ Goto(t, "library") /\ isStop' = isStop
        /\ looper' = Append(looper, m)
        /\ overlap' = (overlap \/ \E u \in Thread : npc[u] # "idle")
        /\ UNCHANGED <<uiStop, rec, lastId, nInst, nThreads, home, startId, downloadThread,
                       starts>>
    BY <1>4 DEF SysEnter, RunPostStart, Post, amRest, objVars
  <2>2. \A u \in Thread : npc[u] = "idle"
    <3> SUFFICES ASSUME NEW u \in Thread, npc[u] # "idle" PROVE FALSE
      OBVIOUS
    <3>1. pc[u] = "library"  BY DEF SysInv, LinkInv
    <3>2. Busy(u) /\ Busy(t)  BY <2>1, <3>1 DEF Busy
    <3>3. u = nThreads /\ t = nThreads  BY <3>2 DEF SlotInv, BusyInSlot
    <3> QED  BY <2>1, <3>1, <3>3
  <2>3. m \in Message /\ m.what = "START_THREAD"
    <3>1. home[t] \in Inst
      BY <2>1 DEF SysInv, TypeInv, ThreadInv, Active
    <3> QED  BY <3>1, MsgTyped DEF Reports, Msg
  <2> HIDE DEF m
  <2>4. Fits(m, rec, lastId, nThreads, home, startId, Done')
    BY <2>3, OtherFits
  <2>5. Waiting(looper', rec, lastId, nThreads, home, startId, Done')
    BY <1>1, <1>2, <2>1, <2>3, <2>4, WaitingMore
  <2>6. \A u \in Thread : Busy(u)' => Busy(u) /\ (~isStop[u] => ~isStop'[u])
    BY <1>2, <2>1 DEF Busy
  <2>7. overlap' = overlap
    <3>1. overlap' = (overlap \/ FALSE)  BY <2>1, <2>2
    <3> QED  BY <3>1 DEF SysInv, HistoryOK
  <2>8. UNCHANGED <<slotRest, starts>>  BY <2>1, <2>7 DEF slotRest
  <2> QED  BY <2>5, <2>6, <2>8, SlotRun
<1>5. CASE SysSilent(t)
  <2>1. /\ looper' = looper /\ isStop' = isStop /\ UNCHANGED <<slotRest, starts>>
        /\ \/ pc' = pc
           \/ pc[t] = "library" /\ Goto(t, "returned")
    BY <1>5 DEF SysSilent, LibraryReturn, vars, amVars, objVars, threadVars, history, slotRest
  <2>2. CASE pc' = pc
    <3>1. Done' = Done  BY <2>2 DEF Done
    <3>2. \A u \in Thread : Busy(u)' => Busy(u) /\ (~isStop[u] => ~isStop'[u])
      BY <2>1, <2>2 DEF Busy
    <3>3. Waiting(looper', rec, lastId, nThreads, home, startId, Done')
      BY <1>1, <2>1, <3>1
    <3> QED  BY <2>1, <3>2, <3>3, SlotRun
  <2>3. CASE pc[t] = "library" /\ Goto(t, "returned")
    <3>1. Waiting(looper', rec, lastId, nThreads, home, startId, Done')
      BY <1>1, <1>2, <2>1, <2>3, WaitingMore
    <3>2. \A u \in Thread : Busy(u)' => Busy(u) /\ (~isStop[u] => ~isStop'[u])
      BY <1>2, <2>1, <2>3 DEF Busy
    <3> QED  BY <2>1, <3>1, <3>2, SlotRun
  <2> QED  BY <2>1, <2>2, <2>3
<1>6. CASE SysReport(t)
  <2>1. Report(obj) /\ UNCHANGED <<slotRest, starts, pc, isStop>>
    BY <1>6 DEF SysReport, amRest, objVars, threadVars, history, slotRest
  <2>2. obj # None
    BY <1>6 DEF SysReport, Native!Report, Native!Final, Native!At, SysInv, LinkInv
  <2> QED  BY <2>1, <2>2, SlotReport
<1>7. CASE SysRunEnd(t)
  <2>1. /\ pc[t] = "returned" /\ Goto(t, "closing") /\ isStop' = [isStop EXCEPT ![t] = TRUE]
        /\ looper' = looper /\ UNCHANGED <<slotRest, starts>>
    BY <1>7 DEF SysRunEnd, RunEnd, amVars, objVars, history, slotRest
  <2>2. Waiting(looper', rec, lastId, nThreads, home, startId, Done')
    BY <1>1, <1>2, <2>1, WaitingMore
  <2>3. \A u \in Thread : Busy(u)' => Busy(u) /\ (~isStop[u] => ~isStop'[u])
    BY <1>2, <2>1 DEF Busy
  <2> QED  BY <2>1, <2>2, <2>3, SlotRun
<1>8. CASE SysPostClose(t)
  <2> DEFINE m == Msg("CLOSE_THREAD", home[t], startId[t])
  <2>1. /\ pc[t] = "closing" /\ Goto(t, "done") /\ isStop' = isStop
        /\ looper' = Append(looper, m) /\ UNCHANGED <<slotRest, starts>>
    BY <1>8 DEF SysPostClose, RunPostClose, Post, amRest, objVars, Quiet, history, slotRest
  <2>2. home[t] \in Inst /\ t \in 1..nThreads
    <3>1. home[t] \in Inst
      BY <2>1 DEF SysInv, TypeInv, ThreadInv, Active
    <3>2. t \in Nat /\ t >= 1 /\ ~(t > nThreads)
      BY <2>1 DEF Thread
    <3> QED  BY <3>1, <3>2
  <2>3. m \in Message /\ m.what = "CLOSE_THREAD" /\ m.to = home[t] /\ m.id = startId[t]
    BY <2>2, MsgTyped DEF Reports, Msg
  <2> HIDE DEF m
  <2>4. Fits(m, rec, lastId, nThreads, home, startId, Done')
    BY <1>2, <2>1, <2>2, <2>3 DEF Fits
  <2>5. Waiting(looper', rec, lastId, nThreads, home, startId, Done')
    BY <1>1, <1>2, <2>1, <2>3, <2>4, WaitingMore
  <2>6. \A u \in Thread : Busy(u)' => Busy(u) /\ (~isStop[u] => ~isStop'[u])
    BY <1>2, <2>1 DEF Busy
  <2> QED  BY <2>1, <2>5, <2>6, SlotRun
<1> QED  BY <1>3, <1>4, <1>5, <1>6, <1>7, <1>8 DEF SysThreadStep


\* The main looper, retries compiled out.
LEMMA SlotLooper ==
  ASSUME SysInv, SlotInv, SysLooper, ~EnableRetry
  PROVE  SlotInv'
<1>1. ASSUME SysHandleStop \/ HandleUpdate \/ CloseRetry PROVE FALSE
  <2>1. looper # <<>> /\ Head(looper).what \in {"STOP", "UPDATE"}
    BY <1>1 DEF SysHandleStop, HandleStop, HandleUpdate, CloseRetry, Dispatch
  <2> QED  BY <2>1, HeadFits DEF Fits
<1>2. CASE HandleForeground /\ Quiet
  BY <1>2, SlotDownload DEF Quiet, history
<1>3. CASE /\ \/ OnCreate \/ OnDestroy \/ RefuseForeground \/ HandleNull
              \/ HandleStartThread \/ HandleDuration \/ HandleProgress
           /\ Quiet
  <2>1. looper # <<>> /\ looper' = Tail(looper)
    BY <1>3 DEF OnCreate, OnDestroy, RefuseForeground, HandleNull, HandleStartThread,
                HandleDuration, HandleProgress, Dispatch
  <2>2. starts' = starts \/ starts' = Handled
    BY <1>3 DEF OnCreate, OnDestroy, RefuseForeground, HandleNull, HandleStartThread,
                HandleDuration, HandleProgress
  <2>3. UNCHANGED <<slotRest, pc, isStop>>
    BY <1>3 DEF OnCreate, OnDestroy, RefuseForeground, HandleNull, HandleStartThread,
                HandleDuration, HandleProgress, objVars, threadVars, Quiet, history,
                slotRest
  <2> QED  BY <2>1, <2>2, <2>3, SlotPop
<1>4. CASE CloseFinish /\ Quiet
  <2>1. /\ Dispatch("CLOSE_THREAD") /\ looper # <<>>
        /\ StopSelf(Head(looper).to, Head(looper).id, StopForeground(Head(looper).to), starts)
        /\ UNCHANGED <<uiStop, overlap, lastId, nInst, nThreads, home, startId,
                       downloadThread, pc, isStop>>
    BY <1>4 DEF CloseFinish, Dispatch, threadVars, Quiet, history
  <2>2. CASE rec = Head(looper).to /\ lastId = Head(looper).id
    BY <2>1, <2>2, SlotBringDown DEF StopSelf
  <2>3. CASE ~(rec = Head(looper).to /\ lastId = Head(looper).id)
    <3>1. looper' = Tail(looper) /\ starts' = starts /\ rec' = rec
      BY <2>1, <2>3 DEF StopSelf
    <3> QED  BY <2>1, <3>1, SlotPop DEF slotRest
  <2> QED  BY <2>2, <2>3
<1> QED  BY <1>1, <1>2, <1>3, <1>4 DEF SysLooper

\* Every step keeps the slot until the user stops a download.
LEMMA SlotStep ==
  ASSUME SysInv, SlotUntilStopped, [SysNext]_sysVars, ~EnableRetry
  PROVE  SlotUntilStopped'
<1>1. stopUsed => stopUsed'
  BY DEF SysNext, SysClick, SysLooper, SysHandleStop, SysKill, Reloaded, SysThreadStep,
         SysRunBegin, SysEnter, SysSilent, SysReport, SysRunEnd, SysPostClose, Quiet, history,
         sysVars
<1>2. ASSUME SlotInv, ~stopUsed' PROVE SlotInv'
  <2>1. CASE SysClick
    BY <1>2, <2>1, SlotClick DEF SysClick, Quiet, history
  <2>2. CASE ClickStopService /\ Quiet
    BY <1>2, <2>2 DEF ClickStopService, SlotInv
  <2>3. CASE SysLooper
    BY <1>2, <2>3, SlotLooper
  <2>4. CASE SysKill
    BY <1>2, <2>4, SlotKill
  <2>5. CASE \E t \in Thread : SysThreadStep(t)
    BY <1>2, <2>5, SlotThread
  <2>6. CASE UNCHANGED sysVars
    BY <1>2, <2>6 DEF sysVars, vars, amVars, objVars, threadVars, nativeVars, history,
                      SlotInv, BusyInSlot, Busy, Done
  <2> QED  BY <2>1, <2>2, <2>3, <2>4, <2>5, <2>6 DEF SysNext
<1> QED  BY <1>1, <1>2 DEF SlotUntilStopped

LEMMA SlotInit == SysInit => SlotInv
<1> SUFFICES ASSUME SysInit PROVE SlotInv
  OBVIOUS
<1>1. /\ looper = <<>> /\ starts = <<>> /\ rec = 0 /\ nInst = 0 /\ nThreads = 0
      /\ ~uiStop /\ ~overlap /\ pc = [t \in Thread |-> "none"]
  BY DEF SysInit, Init, None
<1>2. Waiting(<<>>, rec, lastId, nThreads, home, startId, Done)
  BY DEF Waiting, Rising
<1>3. Redelivered(<<>>, lastId)  BY DEF Redelivered
<1>4. Started(nThreads, rec, lastId, nInst, home, startId)  BY <1>1 DEF Started
<1>5. BusyInSlot  BY <1>1 DEF BusyInSlot, Busy
<1> QED  BY <1>1, <1>2, <1>3, <1>4, <1>5 DEF SlotInv

\* HBKDownloadRTMPService, whose retry is compiled out, never lets two downloads
\* into the library while the user only starts them: not when a start waits
\* behind the close of the download before it, not when a stopped service is
\* started again, and not when a killed process has its commands delivered again.
THEOREM SerialByTheSlot ==
  ASSUME ~EnableRetry
  PROVE  SysSpec => []SerialUntilStopped
<1>1. SysInit => SlotUntilStopped
  BY SlotInit DEF SlotUntilStopped
<1>2. SysInv /\ SlotUntilStopped /\ [SysNext]_sysVars => SlotUntilStopped'
  BY SlotStep
<1>3. SysInv /\ SlotUntilStopped /\ ContractInv => SerialUntilStopped
  <2> SUFFICES ASSUME SysInv, SlotInv, ContractInv
               PROVE  OneNativeDownload /\ ~misuse
    BY DEF SerialUntilStopped, SlotUntilStopped
  <2>1. ~misuse
    BY DEF ContractInv, SlotInv, Contract!NativeInv
  <2>2. \A t \in Thread : npc[t] # "idle" => t = nThreads
    BY DEF SysInv, LinkInv, SlotInv, BusyInSlot, Busy
  <2> QED  BY <2>1, <2>2 DEF OneNativeDownload
<1> QED  BY <1>1, <1>2, <1>3, SysInvariance, ContractInvariance, PTL DEF SysSpec
=============================================================================
