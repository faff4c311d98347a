-------------------------- MODULE NativeRTMPProofs --------------------------
(***************************************************************************)
(* The library is correct under its contract, for any set of callers: if   *)
(* init is entered only while nobody is inside, nothing undefined happens  *)
(* and no stream is left behind, wherever stop strikes.                    *)
(***************************************************************************)
EXTENDS NativeRTMP, TLAPS

\* Nobody shares the library.
OneInside ==
    \A t, u \in Callers : npc[t] # "idle" /\ npc[u] # "idle" => t = u

\* The global stream follows the caller inside: none before it has opened its
\* own, its own from then on.
StreamFollows ==
    /\ NoStreamLeft
    /\ \A t \in Callers :
          /\ npc[t] \in {"init", "armed", "args", "open"} => opened = {} /\ file = NULL
          /\ npc[t] \in Loop \cup {"clean"} => opened = {t} /\ file = t
          /\ npc[t] \in {"read", "report", "check", "final"} => fp[t] = t
          /\ npc[t] # "fault"

\* So does the callback object.
CallbackFollows == \A t \in Callers : npc[t] \notin {"idle", "init"} => obj = t

NativeInv ==
    /\ NativeTypeOK
    /\ ~misuse
    /\ OneInside
    /\ StreamFollows
    /\ CallbackFollows

USE DEF At, Go, Loop, Labels

\* The initial state satisfies the invariant.
LEMMA NativeInitInv == NativeInit => NativeInv
  BY NullAssumption
  DEF NativeInit, NativeInv, NativeTypeOK, OneInside, StreamFollows, NoStreamLeft,
      CallbackFollows

\* A call into a free library keeps the invariant.
LEMMA EnterInv ==
  ASSUME NativeInv, NEW t \in Callers, \A u \in Callers : At(u, "idle"), Enter(t)
  PROVE  NativeInv'
  BY NullAssumption
  DEF Enter, NativeInv, NativeTypeOK, OneInside, StreamFollows, NoStreamLeft,
      CallbackFollows

\* So does every step a caller takes inside.
LEMMA StepInv ==
  ASSUME NativeInv, NEW t \in Callers, NativeStep(t)
  PROVE  NativeInv'
<1> USE NullAssumption
    DEF NativeInv, NativeTypeOK, OneInside, StreamFollows, NoStreamLeft, CallbackFollows
<1>1. CASE SetCallback(t)  BY <1>1 DEF SetCallback
<1>2. CASE ClearCtrlC(t)  BY <1>2 DEF ClearCtrlC, Callback
<1>3. CASE ParseArgs(t)  BY <1>3 DEF ParseArgs
<1>4. CASE OpenFile(t)  BY <1>4 DEF OpenFile, OpenStream
<1>5. CASE LoopTest(t)  BY <1>5 DEF LoopTest
<1>6. CASE Connect(t)  BY <1>6 DEF Connect
<1>7. CASE Read(t)  BY <1>7 DEF Read
<1>8. CASE Report(t)  BY <1>8 DEF Report, Callback
<1>9. CASE Check(t)  BY <1>9 DEF Check
<1>10. CASE Final(t)  BY <1>10 DEF Final, Callback
<1>11. CASE Clean(t)  BY <1>11 DEF Clean
<1> QED
  BY <1>1, <1>2, <1>3, <1>4, <1>5, <1>6, <1>7, <1>8, <1>9, <1>10, <1>11
  DEF NativeStep, Silent

\* The invariant is inductive.
LEMMA SerialInv == NativeInv /\ [SerialNext]_nativeVars => NativeInv'
<1> SUFFICES ASSUME NativeInv, [SerialNext]_nativeVars PROVE NativeInv'
  OBVIOUS
<1>1. CASE Stop
  BY <1>1
  DEF Stop, NativeInv, NativeTypeOK, OneInside, StreamFollows, NoStreamLeft,
      CallbackFollows
<1>2. ASSUME NEW t \in Callers, \A u \in Callers : At(u, "idle"), Enter(t)
      PROVE  NativeInv'
  BY <1>2, EnterInv
<1>3. ASSUME NEW t \in Callers, NativeStep(t) PROVE NativeInv'
  BY <1>3, StepInv
<1>4. CASE UNCHANGED nativeVars
  BY <1>4
  DEF nativeVars, NativeInv, NativeTypeOK, OneInside, StreamFollows, NoStreamLeft,
      CallbackFollows
<1> QED  BY <1>1, <1>2, <1>3, <1>4 DEF SerialNext

LEMMA SerialInvariance == SerialSpec => []NativeInv
<1>1. NativeInit => NativeInv  BY NativeInitInv
<1>2. NativeInv /\ [SerialNext]_nativeVars => NativeInv'  BY SerialInv
<1> QED  BY <1>1, <1>2, PTL DEF SerialSpec

\* Every variable of the library keeps its type.
THEOREM NativeTypeCorrect == SerialSpec => []NativeTypeOK
<1>1. NativeInv => NativeTypeOK  BY DEF NativeInv
<1> QED  BY <1>1, SerialInvariance, PTL

\* Callers that take turns never use a closed stream or another thread's JNI
\* environment, and each writes to the file it opened.
THEOREM SerialIsSafe == SerialSpec => []SerialSafe
<1>1. NativeInv => SerialSafe  BY DEF NativeInv, SerialSafe, StreamFollows
<1> QED  BY <1>1, SerialInvariance, PTL

\* Once the library is free again no stream is open and the global is NULL.
THEOREM SerialLeavesNoStream == SerialSpec => []NoStreamLeft
<1>1. NativeInv => NoStreamLeft  BY DEF NativeInv, StreamFollows
<1> QED  BY <1>1, SerialInvariance, PTL
=============================================================================
