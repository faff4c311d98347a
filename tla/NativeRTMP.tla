----------------------------- MODULE NativeRTMP -----------------------------
(***************************************************************************)
(* The native library behind br.com.belocodigo.rtmpdump.RTMP: the two JNI  *)
(* entry points init and stop, main_rtmpdump and Download.  rtmpdump was a *)
(* command-line program; as a library it keeps the program's state in      *)
(* globals: the stop flag RTMP_ctrlC, the output stream file and the Java  *)
(* object that gets the callbacks (RTMP_env, RTMP_obj).                    *)
(*                                                                         *)
(* A caller is a Java thread.  Its steps inside init are separate actions, *)
(* cut where a global is read or written.  The stream itself is abstract:  *)
(* reads and connection attempts have any outcome.  Using a stream that is *)
(* not open, or the JNI environment of another thread, is undefined; it is *)
(* recorded in misuse and execution goes on with any outcome, except that  *)
(* a NULL stream stops the thread for good (it faults).                    *)
(***************************************************************************)

CONSTANTS
    Callers,    \* the threads that may call init
    NULL,       \* no stream, no callback object
    MayResume   \* may init be called with resume = true?

ASSUME NullAssumption == NULL \notin Callers

VARIABLES
    ctrlC,      \* RTMP_ctrlC
    obj,        \* RTMP_env and RTMP_obj: the caller they belong to
    file,       \* the global FILE*, named after the caller that opened it
    opened,     \* the streams that are open
    npc,        \* where a caller is inside init
    fp,         \* the stream given to a caller's Download
    misuse      \* undefined behaviour has occurred

nativeVars == <<ctrlC, obj, file, opened, npc, fp, misuse>>

\* The while loop of main_rtmpdump, Download included.
Loop == {"loop", "connect", "read", "report", "check", "final"}

Labels == {"idle", "init", "armed", "args", "open", "clean", "fault"} \cup Loop

NativeInit ==
    /\ ctrlC = FALSE
    /\ obj = NULL
    /\ file = NULL
    /\ opened = {}
    /\ npc = [t \in Callers |-> "idle"]
    /\ fp = [t \in Callers |-> NULL]
    /\ misuse = FALSE

At(t, l) == npc[t] = l
Go(t, l) == npc' = [npc EXCEPT ![t] = l]

\* A callback made by t goes through the globals.
Callback(t) == misuse' = (misuse \/ obj # t)

-----------------------------------------------------------------------------
(* init                                                                    *)

Enter(t) ==
    /\ At(t, "idle")
    /\ Go(t, "init")
    /\ UNCHANGED <<ctrlC, obj, file, opened, fp, misuse>>

\* Mutant: the environment and object of the first caller are kept.
SetCallbackOnce(t) ==
    /\ At(t, "init")
    /\ Go(t, "armed")
    /\ obj' = IF obj = NULL THEN t ELSE obj
    /\ UNCHANGED <<ctrlC, file, opened, fp, misuse>>

SetCallback(t) ==
    /\ At(t, "init")
    /\ Go(t, "armed")
    /\ obj' = t
    /\ UNCHANGED <<ctrlC, file, opened, fp, misuse>>

\* The greeting is logged through the callback object first.
ClearCtrlC(t) ==
    /\ At(t, "armed")
    /\ Callback(t)
    /\ ctrlC' = FALSE
    /\ Go(t, "args")
    /\ UNCHANGED <<obj, file, opened, fp>>

-----------------------------------------------------------------------------
(* main_rtmpdump.                                                          *)

\* The globals are reset; an unusable URL returns at once.
ParseArgs(t) ==
    /\ At(t, "args")
    /\ file' = NULL
    /\ Go(t, "open") \/ Go(t, "idle")
    /\ UNCHANGED <<ctrlC, obj, opened, fp, misuse>>

OpenStream(t) == file' = t /\ opened' = opened \cup {t}

\* A resumed file that cannot be continued goes to clean; a stream that
\* cannot be created returns without it.
OpenFile(t) ==
    /\ At(t, "open")
    /\ \/ file = NULL /\ OpenStream(t) /\ Go(t, "loop")
       \/ file = NULL /\ Go(t, "idle") /\ UNCHANGED <<file, opened>>
       \/ file # NULL /\ Go(t, "loop") /\ UNCHANGED <<file, opened>>
       \/ MayResume /\ OpenStream(t) /\ (Go(t, "loop") \/ Go(t, "clean"))
    /\ UNCHANGED <<ctrlC, obj, fp, misuse>>

LoopTest(t) ==
    /\ At(t, "loop")
    /\ Go(t, IF ctrlC THEN "clean" ELSE "connect")
    /\ UNCHANGED <<ctrlC, obj, file, opened, fp, misuse>>

\* RTMP_Connect and RTMP_ConnectStream, or on a later round toggling or
\* reconnecting the stream; then Download is called with the global stream.
\* It returns at once when a resumed file is complete.
Connect(t) ==
    /\ At(t, "connect")
    /\ \/ Go(t, "clean") /\ UNCHANGED <<fp, misuse>>
       \/ /\ fp' = [fp EXCEPT ![t] = file]
          /\ misuse' = (misuse \/ file \notin opened)
          /\ \/ Go(t, IF file = NULL THEN "fault" ELSE "read")
             \/ MayResume /\ file # NULL /\ Go(t, "clean")
    /\ UNCHANGED <<ctrlC, obj, file, opened>>

\* One round of Download: RTMP_Read, fwrite and, every 200 ms, a callback.
\* A failed write leaves Download without its final callback.
Read(t) ==
    /\ At(t, "read")
    /\ \/ Go(t, "check") /\ UNCHANGED misuse
       \/ /\ misuse' = (misuse \/ fp[t] \notin opened)
          /\ Go(t, "report") \/ Go(t, "check") \/ Go(t, "clean")
    /\ UNCHANGED <<ctrlC, obj, file, opened, fp>>

Report(t) ==
    /\ At(t, "report")
    /\ Callback(t)
    /\ Go(t, "check")
    /\ UNCHANGED <<ctrlC, obj, file, opened, fp>>

\* Mutant: the loop condition without RTMP_ctrlC.
CheckWithoutStop(t) ==
    /\ At(t, "check")
    /\ Go(t, "read") \/ Go(t, "final")
    /\ UNCHANGED <<ctrlC, obj, file, opened, fp, misuse>>

\* The loop condition of Download.
Check(t) ==
    /\ At(t, "check")
    /\ \/ ~ctrlC /\ Go(t, "read")
       \/ Go(t, "final")
    /\ UNCHANGED <<ctrlC, obj, file, opened, fp, misuse>>

\* The final callback; a download that timed out goes round again.
Final(t) ==
    /\ At(t, "final")
    /\ Callback(t)
    /\ Go(t, "loop") \/ Go(t, "clean")
    /\ UNCHANGED <<ctrlC, obj, file, opened, fp>>

\* Mutant: the pointer is reset but the stream is not closed.
CleanWithoutClose(t) ==
    /\ At(t, "clean")
    /\ file' = NULL
    /\ Go(t, "idle")
    /\ UNCHANGED <<ctrlC, obj, opened, fp, misuse>>

Clean(t) ==
    /\ At(t, "clean")
    /\ IF file # NULL
       THEN /\ misuse' = (misuse \/ file \notin opened)
            /\ opened' = opened \ {file}
            /\ file' = NULL
       ELSE UNCHANGED <<file, opened, misuse>>
    /\ Go(t, "idle")
    /\ UNCHANGED <<ctrlC, obj, fp>>

\* RTMP_stop, by whatever thread.
Stop ==
    /\ ctrlC' = TRUE
    /\ UNCHANGED <<obj, file, opened, npc, fp, misuse>>

-----------------------------------------------------------------------------

Silent(t) ==
    \/ SetCallback(t) \/ ClearCtrlC(t) \/ ParseArgs(t) \/ OpenFile(t)
    \/ LoopTest(t) \/ Connect(t) \/ Read(t) \/ Check(t) \/ Clean(t)

NativeStep(t) == Silent(t) \/ Report(t) \/ Final(t)

\* The contract the globals need: a thread calls init only while no other
\* thread is inside.  stop may be called at any time.
SerialNext ==
    \/ Stop
    \/ \E t \in Callers :
          \/ (\A u \in Callers : At(u, "idle")) /\ Enter(t)
          \/ NativeStep(t)

SerialSpec == NativeInit /\ [][SerialNext]_nativeVars

\* The calls that loop over socket reads until the server has sent what they
\* want, RTMP_ConnectStream and RTMP_Read: each socket read is bounded by its
\* timeout, their number is not, and none of them looks at the stop flag.
Waiting == {"connect", "read"}

\* Code between those calls is never starved; they need not return.
SerialFairSpec ==
    SerialSpec
      /\ \A t \in Callers : WF_nativeVars(NativeStep(t) /\ npc[t] \notin Waiting)

-----------------------------------------------------------------------------

NativeTypeOK ==
    /\ ctrlC \in BOOLEAN
    /\ obj \in Callers \cup {NULL}
    /\ file \in Callers \cup {NULL}
    /\ opened \in SUBSET Callers
    /\ npc \in [Callers -> Labels]
    /\ fp \in [Callers -> Callers \cup {NULL}]
    /\ misuse \in BOOLEAN

\* Called one at a time, the library never uses a closed stream or a stale
\* JNI environment, and what a caller downloads goes to its own file.
SerialSafe ==
    /\ ~misuse
    /\ \A t \in Callers : npc[t] \in {"read", "report", "check"} => fp[t] = t

\* Every way out of init, early returns included, leaves no stream open and
\* the global pointer NULL for the next call.
NoStreamLeft ==
    (\A t \in Callers : At(t, "idle")) => opened = {} /\ file = NULL

\* A stop that arrives once the caller is in the download loop ends the call,
\* even if the server would send frames for ever, provided that each of the
\* calls that wait for the server returns (a server that sends nothing but
\* pings keeps one from returning, and the stop is not seen).
StopEndsLoop ==
    \A t \in Callers : []<>(npc[t] \notin Waiting) =>
        ((ctrlC /\ npc[t] \in Loop) ~> At(t, "idle"))
=============================================================================
