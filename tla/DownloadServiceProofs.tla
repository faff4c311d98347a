------------------------ MODULE DownloadServiceProofs ------------------------
(***************************************************************************)
(* Type correctness and the safety invariants of DownloadService, for all  *)
(* values of its bounds.  The argument rests on the order of the looper's  *)
(* queue: the activity manager's calls for successive service objects come *)
(* one after the other, so an object is destroyed before the next one is   *)
(* created, and no command reaches an object after its onDestroy.          *)
(***************************************************************************)
EXTENDS DownloadService, TLAPS

Active == {"new", "run", "library", "returned", "closing", "done"}

\* A thread that exists belongs to an object, and a service object only
\* refers to threads of its process.
ThreadInv ==
    /\ \A t \in Thread : pc[t] \in Active => home[t] # None
    /\ \A t \in Thread : pc[t] \in {"closing", "done"} => isStop[t]
    /\ \A i \in Inst : downloadThread[i] # None => pc[downloadThread[i]] \in Active

TypeInv == TypeOK /\ ThreadInv

-----------------------------------------------------------------------------
(* The queue q, the current object r, the number n of objects and their    *)
(* lives f.                                                                *)

IsLifecycle(m) == m.what \in Lifecycle

Ordered(q) ==
    \A a, b \in 1..Len(q) :
        a < b /\ IsLifecycle(q[a]) /\ IsLifecycle(q[b]) =>
            /\ q[a].to <= q[b].to
            /\ q[a].what = "DESTROY" \/ q[b].what = "CREATE" => q[a].to < q[b].to

Addressed(q, n, f) ==
    \A a \in 1..Len(q) : IsLifecycle(q[a]) =>
        /\ q[a].to <= n
        /\ f[q[a].to] # "gone"
        /\ q[a].what = "CREATE" => f[q[a].to] = "none"
        /\ \A i \in Inst : f[i] = "live" => i <= q[a].to

Pending(q, w, i) == \E a \in 1..Len(q) : q[a].what = w /\ q[a].to = i

Replaced(q, r, n, f) ==
    \A i \in Inst :
        /\ i > n => f[i] = "none"
        /\ i <= n /\ i # r /\ f[i] # "gone" => Pending(q, "DESTROY", i)
        /\ i <= n /\ f[i] = "none" => Pending(q, "CREATE", i)

Current(q, r, n, f) ==
    r # None => r = n /\ f[r] # "gone" /\ ~Pending(q, "DESTROY", r)

Single(f) == \A i, j \in Inst : f[i] = "live" /\ f[j] = "live" => i = j

QueueInv(q, r, n, f) ==
    /\ Ordered(q)
    /\ Addressed(q, n, f)
    /\ Replaced(q, r, n, f)
    /\ Current(q, r, n, f)
    /\ Single(f)

LifeInv == QueueInv(looper, rec, nInst, life)

\* Each service object's wake lock, its log switch and the notification.
LockInv ==
    /\ \A i \in Inst : wakeLock[i] # None => life[i] = "live" /\ wakeLock[i] \in held
    /\ \A l \in held : \E i \in Inst : wakeLock[i] = l
    /\ \A i \in Inst : isShowLog[i] => wakeLock[i] # None
    /\ fg => rec # None /\ isShowLog[rec]

IInv == TypeInv /\ LifeInv /\ LockInv

-----------------------------------------------------------------------------
(* How the queue's invariant survives the operations on the queue.         *)

\* The elements of a queue are messages.
LEMMA QueueElement ==
  ASSUME NEW q \in Seq(Message), NEW a \in 1..Len(q)
  PROVE  /\ q[a] \in Message
         /\ q[a].to \in Inst /\ q[a].to \in Nat
         /\ q[a].what \in Lifecycle \cup Reports /\ q[a].id \in Nat
         /\ q[a].prog \in Progress
<1>1. q[a] \in Message  OBVIOUS
<1>2. \A m \in Message : /\ m.to \in Inst /\ m.what \in Lifecycle \cup Reports
                         /\ m.id \in Nat /\ m.prog \in Progress
  BY DEF Message
<1> QED  BY <1>1, <1>2 DEF Inst

\* Dispatching anything but a lifecycle call of the activity manager.
LEMMA PopQueue ==
  ASSUME NEW q \in Seq(Message), q # <<>>, NEW r, NEW n, NEW f,
         q[1].what \notin {"CREATE", "DESTROY"}, QueueInv(q, r, n, f)
  PROVE  QueueInv(Tail(q), r, n, f)
<1>1. /\ Len(Tail(q)) = Len(q) - 1
      /\ \A a \in 1..Len(Tail(q)) : Tail(q)[a] = q[a + 1] /\ a + 1 \in 1..Len(q)
  OBVIOUS
<1>2. ASSUME NEW w \in {"CREATE", "DESTROY"}, NEW i
      PROVE  Pending(Tail(q), w, i) <=> Pending(q, w, i)
  <2>1. ASSUME NEW a \in 1..Len(q), q[a].what = w, q[a].to = i
        PROVE  Pending(Tail(q), w, i)
    <3>1. a # 1  BY <2>1
    <3>2. a - 1 \in 1..Len(Tail(q))  BY <1>1, <3>1
    <3>3. Tail(q)[a - 1] = q[a]  BY <1>1, <3>2
    <3> QED  BY <2>1, <3>2, <3>3 DEF Pending
  <2>2. ASSUME Pending(Tail(q), w, i) PROVE Pending(q, w, i)
    BY <1>1, <2>2 DEF Pending
  <2> QED  BY <2>1, <2>2 DEF Pending
<1>3. Ordered(Tail(q)) /\ Addressed(Tail(q), n, f)
  BY <1>1 DEF QueueInv, Ordered, Addressed
<1>4. Replaced(Tail(q), r, n, f) /\ Current(Tail(q), r, n, f) /\ Single(f)
  BY <1>2 DEF QueueInv, Replaced, Current
<1> QED  BY <1>3, <1>4 DEF QueueInv

\* A report of a thread is no lifecycle call.
LEMMA PushReport ==
  ASSUME NEW q \in Seq(Message), NEW m \in Message, m.what \in Reports,
         NEW r, NEW n, NEW f, QueueInv(q, r, n, f)
  PROVE  QueueInv(Append(q, m), r, n, f)
<1>1. /\ Len(Append(q, m)) = Len(q) + 1
      /\ \A a \in 1..Len(q) : Append(q, m)[a] = q[a]
      /\ Append(q, m)[Len(q) + 1] = m
  OBVIOUS
<1>2. ~IsLifecycle(m) /\ m.what \notin {"CREATE", "DESTROY"}
  BY DEF IsLifecycle, Reports, Lifecycle, Commands
<1>3. ASSUME NEW w \in {"CREATE", "DESTROY"}, NEW i
      PROVE  Pending(Append(q, m), w, i) <=> Pending(q, w, i)
  <2>1. \A a \in 1..Len(q) : a \in 1..Len(Append(q, m))
    BY <1>1
  <2>2. \A a \in 1..Len(Append(q, m)) : a \in 1..Len(q) \/ a = Len(q) + 1
    BY <1>1
  <2> QED  BY <1>1, <1>2, <2>1, <2>2 DEF Pending
<1>4. Ordered(Append(q, m)) /\ Addressed(Append(q, m), n, f)
  BY <1>1, <1>2 DEF QueueInv, Ordered, Addressed
<1>5. Replaced(Append(q, m), r, n, f) /\ Current(Append(q, m), r, n, f) /\ Single(f)
  BY <1>3 DEF QueueInv, Replaced, Current
<1> QED  BY <1>4, <1>5 DEF QueueInv

\* A command for the current object.
LEMMA PushCommand ==
  ASSUME NEW q \in Seq(Message), NEW m \in Message, m.what \in Commands,
         NEW r \in Inst, NEW n \in Nat, NEW f \in [Inst -> {"none", "live", "gone"}],
         m.to = r, QueueInv(q, r, n, f)
  PROVE  QueueInv(Append(q, m), r, n, f)
<1>1. /\ Len(Append(q, m)) = Len(q) + 1
      /\ \A a \in 1..Len(q) : Append(q, m)[a] = q[a]
      /\ Append(q, m)[Len(q) + 1] = m
  OBVIOUS
<1>2. m.what \notin {"CREATE", "DESTROY"}  BY DEF Commands
<1>3. ASSUME NEW w \in {"CREATE", "DESTROY"}, NEW i
      PROVE  Pending(Append(q, m), w, i) <=> Pending(q, w, i)
  <2>1. \A a \in 1..Len(q) : a \in 1..Len(Append(q, m))
    BY <1>1
  <2>2. \A a \in 1..Len(Append(q, m)) : a \in 1..Len(q) \/ a = Len(q) + 1
    BY <1>1
  <2> QED  BY <1>1, <1>2, <2>1, <2>2 DEF Pending
<1>4. r = n /\ f[r] # "gone" /\ ~Pending(q, "DESTROY", r)
  BY DEF QueueInv, Current, Inst, None
<1>5. \A a \in 1..Len(q) : IsLifecycle(q[a]) =>
         (q[a].to <= n /\ q[a].what # "DESTROY") \/ q[a].to < n
  <2> SUFFICES ASSUME NEW a \in 1..Len(q), IsLifecycle(q[a])
               PROVE  (q[a].to <= n /\ q[a].what # "DESTROY") \/ q[a].to < n
    OBVIOUS
  <2>1. q[a].to <= n  BY DEF QueueInv, Addressed
  <2>2. q[a].what = "DESTROY" => q[a].to # n  BY <1>4 DEF Pending
  <2>3. q[a].to \in Nat  BY QueueElement
  <2> QED  BY <2>1, <2>2, <2>3
<1>6. Ordered(Append(q, m))
  <2> SUFFICES ASSUME NEW a \in 1..Len(q) + 1, NEW b \in 1..Len(q) + 1, a < b,
                      IsLifecycle(Append(q, m)[a]), IsLifecycle(Append(q, m)[b])
               PROVE  /\ Append(q, m)[a].to <= Append(q, m)[b].to
                      /\ Append(q, m)[a].what = "DESTROY" \/ Append(q, m)[b].what = "CREATE"
                            => Append(q, m)[a].to < Append(q, m)[b].to
    BY <1>1 DEF Ordered
  <2>1. CASE b = Len(q) + 1
    <3>1. a \in 1..Len(q)  BY <2>1
    <3>2. q[a].to \in Nat  BY <3>1, QueueElement
    <3> QED  BY <1>1, <1>2, <1>4, <1>5, <2>1, <3>1, <3>2
  <2>2. CASE b \in 1..Len(q)
    <3>1. a \in 1..Len(q)  BY <2>2
    <3> QED  BY <1>1, <2>2, <3>1 DEF QueueInv, Ordered
  <2> QED  BY <2>1, <2>2
<1>7. \A i \in Inst : f[i] = "live" => i <= n
  BY DEF QueueInv, Replaced, Inst
<1>8. Addressed(Append(q, m), n, f)
  BY <1>1, <1>2, <1>4, <1>7 DEF QueueInv, Addressed
<1>9. Replaced(Append(q, m), r, n, f) /\ Current(Append(q, m), r, n, f) /\ Single(f)
  BY <1>3 DEF QueueInv, Replaced, Current
<1> QED  BY <1>6, <1>8, <1>9 DEF QueueInv

\* Bringing the record down: no command follows the call of onDestroy.
LEMMA PushDestroy ==
  ASSUME NEW q \in Seq(Message), NEW r \in Inst, NEW n \in Nat,
         NEW f \in [Inst -> {"none", "live", "gone"}], QueueInv(q, r, n, f)
  PROVE  QueueInv(Append(q, Msg("DESTROY", r, 0)), None, n, f)
<1> DEFINE m == Msg("DESTROY", r, 0)
<1>1. /\ Len(Append(q, m)) = Len(q) + 1
      /\ \A a \in 1..Len(q) : Append(q, m)[a] = q[a]
      /\ Append(q, m)[Len(q) + 1] = m
  OBVIOUS
<1>2. m.what = "DESTROY" /\ m.to = r  BY DEF Msg
<1> HIDE DEF m
<1>3. ASSUME NEW w \in {"CREATE", "DESTROY"}, NEW i, Pending(q, w, i)
      PROVE  Pending(Append(q, m), w, i)
  <2>1. \A a \in 1..Len(q) : a \in 1..Len(Append(q, m))
    BY <1>1
  <2> QED  BY <1>1, <1>3, <2>1 DEF Pending
<1>4. r = n /\ f[r] # "gone" /\ ~Pending(q, "DESTROY", r)
  BY DEF QueueInv, Current, Inst, None
<1>5. \A a \in 1..Len(q) : IsLifecycle(q[a]) =>
         (q[a].to <= n /\ q[a].what # "DESTROY") \/ q[a].to < n
  <2> SUFFICES ASSUME NEW a \in 1..Len(q), IsLifecycle(q[a])
               PROVE  (q[a].to <= n /\ q[a].what # "DESTROY") \/ q[a].to < n
    OBVIOUS
  <2>1. q[a].to <= n  BY DEF QueueInv, Addressed
  <2>2. q[a].what = "DESTROY" => q[a].to # n  BY <1>4 DEF Pending
  <2>3. q[a].to \in Nat  BY QueueElement
  <2> QED  BY <2>1, <2>2, <2>3
<1>6. Ordered(Append(q, m))
  <2> SUFFICES ASSUME NEW a \in 1..Len(q) + 1, NEW b \in 1..Len(q) + 1, a < b,
                      IsLifecycle(Append(q, m)[a]), IsLifecycle(Append(q, m)[b])
               PROVE  /\ Append(q, m)[a].to <= Append(q, m)[b].to
                      /\ Append(q, m)[a].what = "DESTROY" \/ Append(q, m)[b].what = "CREATE"
                            => Append(q, m)[a].to < Append(q, m)[b].to
    BY <1>1 DEF Ordered
  <2>1. CASE b = Len(q) + 1
    <3>1. a \in 1..Len(q)  BY <2>1
    <3>2. q[a].to \in Nat  BY <3>1, QueueElement
    <3> QED  BY <1>1, <1>2, <1>4, <1>5, <2>1, <3>1, <3>2
  <2>2. CASE b \in 1..Len(q)
    <3>1. a \in 1..Len(q)  BY <2>2
    <3> QED  BY <1>1, <2>2, <3>1 DEF QueueInv, Ordered
  <2> QED  BY <2>1, <2>2
<1>7. \A i \in Inst : f[i] = "live" => i <= n
  BY DEF QueueInv, Replaced, Inst
<1>8. Addressed(Append(q, m), n, f)
  BY <1>1, <1>2, <1>4, <1>7 DEF QueueInv, Addressed
<1>9. Pending(Append(q, m), "DESTROY", r)
  BY <1>1, <1>2 DEF Pending
<1>10. Replaced(Append(q, m), None, n, f)
  BY <1>3, <1>9 DEF QueueInv, Replaced
<1>11. Current(Append(q, m), None, n, f) /\ Single(f)
  BY DEF QueueInv, Current
<1> QED  BY <1>6, <1>8, <1>10, <1>11 DEF QueueInv, m

\* onCreate: the previous object has been destroyed by now.
LEMMA PopCreate ==
  ASSUME NEW q \in Seq(Message), q # <<>>, NEW r \in Inst \cup {None}, NEW n \in Nat,
         NEW f \in [Inst -> {"none", "live", "gone"}],
         q[1].what = "CREATE", QueueInv(q, r, n, f)
  PROVE  QueueInv(Tail(q), r, n, [f EXCEPT ![q[1].to] = "live"])
<1> DEFINE i == q[1].to
           g == [f EXCEPT ![i] = "live"]
<1>1. /\ Len(Tail(q)) = Len(q) - 1
      /\ \A a \in 1..Len(Tail(q)) : Tail(q)[a] = q[a + 1] /\ a + 1 \in 1..Len(q)
      /\ 1 \in 1..Len(q)
  OBVIOUS
<1>2. i \in Inst /\ i \in Nat /\ \A a \in 1..Len(q) : q[a].to \in Nat
  BY <1>1, QueueElement
<1>3. IsLifecycle(q[1])  BY DEF IsLifecycle, Lifecycle
<1>4. i <= n /\ f[i] = "none"  BY <1>1, <1>3 DEF QueueInv, Addressed
<1>5. \A a \in 2..Len(q) : IsLifecycle(q[a]) =>
         i <= q[a].to /\ (q[a].what = "CREATE" => i < q[a].to)
  BY <1>1, <1>3 DEF QueueInv, Ordered
<1>6. \A j \in Inst : f[j] # "live"
  <2> SUFFICES ASSUME NEW j \in Inst, f[j] = "live" PROVE FALSE
    OBVIOUS
  <2>1. j <= i /\ j # i  BY <1>1, <1>3, <1>4 DEF QueueInv, Addressed
  <2>2. j \in Nat /\ j <= n /\ j # n  BY <1>2, <1>4, <2>1 DEF Inst
  <2>3. j # r  BY <2>2 DEF QueueInv, Current, Inst, None
  <2>4. Pending(q, "DESTROY", j)  BY <2>2, <2>3 DEF QueueInv, Replaced
  <2>5. PICK a \in 1..Len(q) : q[a].what = "DESTROY" /\ q[a].to = j
    BY <2>4 DEF Pending
  <2>6. a \in 2..Len(q)  BY <2>5
  <2>7. IsLifecycle(q[a])  BY <2>5 DEF IsLifecycle, Lifecycle
  <2>8. i <= j  BY <1>5, <2>5, <2>6, <2>7
  <2> QED  BY <1>2, <2>1, <2>2, <2>8
<1>7. \A j \in Inst : g[j] = IF j = i THEN "live" ELSE f[j]  OBVIOUS
<1> HIDE DEF g
<1>8. Ordered(Tail(q))  BY <1>1 DEF QueueInv, Ordered
<1>9. Addressed(Tail(q), n, g)
  <2> SUFFICES ASSUME NEW a \in 1..Len(Tail(q)), IsLifecycle(q[a + 1])
               PROVE  /\ q[a + 1].to <= n
                      /\ g[q[a + 1].to] # "gone"
                      /\ q[a + 1].what = "CREATE" => g[q[a + 1].to] = "none"
                      /\ \A j \in Inst : g[j] = "live" => j <= q[a + 1].to
    BY <1>1 DEF Addressed
  <2>1. a + 1 \in 2..Len(q) /\ a + 1 \in 1..Len(q)  BY <1>1
  <2>2. q[a + 1].to \in Inst /\ q[a + 1].to \in Nat  BY <2>1, QueueElement
  <2>3. /\ q[a + 1].to <= n
        /\ f[q[a + 1].to] # "gone"
        /\ q[a + 1].what = "CREATE" => f[q[a + 1].to] = "none"
    BY <2>1 DEF QueueInv, Addressed
  <2>4. i <= q[a + 1].to /\ (q[a + 1].what = "CREATE" => i < q[a + 1].to)
    BY <1>5, <2>1
  <2> QED  BY <1>2, <1>6, <1>7, <2>2, <2>3, <2>4
<1>10. ASSUME NEW w \in {"CREATE", "DESTROY"}, NEW j, w = "CREATE" => j # i
       PROVE  Pending(Tail(q), w, j) <=> Pending(q, w, j)
  <2>1. ASSUME NEW a \in 1..Len(q), q[a].what = w, q[a].to = j
        PROVE  Pending(Tail(q), w, j)
    <3>1. a # 1  BY <1>10, <2>1
    <3>2. a - 1 \in 1..Len(Tail(q))  BY <1>1, <3>1
    <3>3. Tail(q)[a - 1] = q[a]  BY <1>1, <3>2
    <3> QED  BY <2>1, <3>2, <3>3 DEF Pending
  <2>2. ASSUME Pending(Tail(q), w, j) PROVE Pending(q, w, j)
    BY <1>1, <2>2 DEF Pending
  <2> QED  BY <2>1, <2>2 DEF Pending
<1>11. Replaced(Tail(q), r, n, g)
  <2> SUFFICES ASSUME NEW j \in Inst
               PROVE  /\ j > n => g[j] = "none"
                      /\ j <= n /\ j # r /\ g[j] # "gone" => Pending(Tail(q), "DESTROY", j)
                      /\ j <= n /\ g[j] = "none" => Pending(Tail(q), "CREATE", j)
    BY DEF Replaced
  <2>1. j > n => j # i  BY <1>2, <1>4 DEF Inst
  <2> QED  BY <1>4, <1>7, <1>10, <2>1 DEF QueueInv, Replaced
<1>12. Current(Tail(q), r, n, g)
  BY <1>4, <1>7, <1>10 DEF QueueInv, Current
<1>13. Single(g)  BY <1>6, <1>7 DEF Single
<1> QED  BY <1>8, <1>9, <1>11, <1>12, <1>13 DEF QueueInv, g

\* onDestroy: nothing is addressed to the object any more.
LEMMA PopDestroy ==
  ASSUME NEW q \in Seq(Message), q # <<>>, NEW r \in Inst \cup {None}, NEW n \in Nat,
         NEW f \in [Inst -> {"none", "live", "gone"}],
         q[1].what = "DESTROY", QueueInv(q, r, n, f)
  PROVE  QueueInv(Tail(q), r, n, [f EXCEPT ![q[1].to] = "gone"])
<1> DEFINE i == q[1].to
           g == [f EXCEPT ![i] = "gone"]
<1>1. /\ Len(Tail(q)) = Len(q) - 1
      /\ \A a \in 1..Len(Tail(q)) : Tail(q)[a] = q[a + 1] /\ a + 1 \in 1..Len(q)
      /\ 1 \in 1..Len(q)
  OBVIOUS
<1>2. i \in Inst /\ i \in Nat  BY <1>1, QueueElement
<1>3. IsLifecycle(q[1])  BY DEF IsLifecycle, Lifecycle
<1>4. i <= n  BY <1>1, <1>3 DEF QueueInv, Addressed
<1>5. \A a \in 2..Len(q) : IsLifecycle(q[a]) => i < q[a].to
  BY <1>1, <1>3 DEF QueueInv, Ordered
<1>6. i # r  BY <1>1, <1>2 DEF QueueInv, Current, Pending, Inst, None
<1>7. \A j \in Inst : g[j] = IF j = i THEN "gone" ELSE f[j]  OBVIOUS
<1> HIDE DEF g
<1>8. Ordered(Tail(q))  BY <1>1 DEF QueueInv, Ordered
<1>9. Addressed(Tail(q), n, g)
  <2> SUFFICES ASSUME NEW a \in 1..Len(Tail(q)), IsLifecycle(q[a + 1])
               PROVE  /\ q[a + 1].to <= n
                      /\ g[q[a + 1].to] # "gone"
                      /\ q[a + 1].what = "CREATE" => g[q[a + 1].to] = "none"
                      /\ \A j \in Inst : g[j] = "live" => j <= q[a + 1].to
    BY <1>1 DEF Addressed
  <2>1. a + 1 \in 2..Len(q) /\ a + 1 \in 1..Len(q)  BY <1>1
  <2>2. q[a + 1].to \in Inst /\ q[a + 1].to # i  BY <1>2, <1>5, <2>1, QueueElement
  <2>3. /\ q[a + 1].to <= n
        /\ f[q[a + 1].to] # "gone"
        /\ q[a + 1].what = "CREATE" => f[q[a + 1].to] = "none"
        /\ \A j \in Inst : f[j] = "live" => j <= q[a + 1].to
    BY <2>1 DEF QueueInv, Addressed
  <2> QED  BY <1>7, <2>2, <2>3
<1>10. ASSUME NEW w \in {"CREATE", "DESTROY"}, NEW j, j # i
       PROVE  Pending(Tail(q), w, j) <=> Pending(q, w, j)
  <2>1. ASSUME NEW a \in 1..Len(q), q[a].what = w, q[a].to = j
        PROVE  Pending(Tail(q), w, j)
    <3>1. a # 1  BY <1>10, <2>1
    <3>2. a - 1 \in 1..Len(Tail(q))  BY <1>1, <3>1
    <3>3. Tail(q)[a - 1] = q[a]  BY <1>1, <3>2
    <3> QED  BY <2>1, <3>2, <3>3 DEF Pending
  <2>2. ASSUME Pending(Tail(q), w, j) PROVE Pending(q, w, j)
    BY <1>1, <2>2 DEF Pending
  <2> QED  BY <2>1, <2>2 DEF Pending
<1>11. Replaced(Tail(q), r, n, g)
  <2> SUFFICES ASSUME NEW j \in Inst
               PROVE  /\ j > n => g[j] = "none"
                      /\ j <= n /\ j # r /\ g[j] # "gone" => Pending(Tail(q), "DESTROY", j)
                      /\ j <= n /\ g[j] = "none" => Pending(Tail(q), "CREATE", j)
    BY DEF Replaced
  <2>1. j > n => j # i  BY <1>2, <1>4 DEF Inst
  <2> QED  BY <1>7, <1>10, <2>1 DEF QueueInv, Replaced
<1>12. Current(Tail(q), r, n, g)
  BY <1>6, <1>7, <1>10 DEF QueueInv, Current
<1>13. Single(g)  BY <1>7 DEF QueueInv, Single
<1> QED  BY <1>8, <1>9, <1>11, <1>12, <1>13 DEF QueueInv, g

\* startService on a stopped service: a new object, after all the others.
LEMMA PushCreate ==
  ASSUME NEW q \in Seq(Message), NEW n \in Nat, n < MaxInst,
         NEW f \in [Inst -> {"none", "live", "gone"}], QueueInv(q, None, n, f)
  PROVE  QueueInv(Append(q, Msg("CREATE", n + 1, 0)), n + 1, n + 1, f)
<1> DEFINE m == Msg("CREATE", n + 1, 0)
<1>1. /\ Len(Append(q, m)) = Len(q) + 1
      /\ \A a \in 1..Len(q) : Append(q, m)[a] = q[a]
      /\ Append(q, m)[Len(q) + 1] = m
  OBVIOUS
<1>2. m.what = "CREATE" /\ m.to = n + 1  BY DEF Msg
<1> HIDE DEF m
<1>3. n + 1 \in Inst /\ \A i \in Inst : i \in Nat /\ i # None
  BY BoundsAssumption DEF Inst, None
<1>4. ASSUME NEW w \in {"CREATE", "DESTROY"}, NEW i, i # n + 1
      PROVE  Pending(Append(q, m), w, i) <=> Pending(q, w, i)
  <2>1. \A a \in 1..Len(q) : a \in 1..Len(Append(q, m))
    BY <1>1
  <2>2. \A a \in 1..Len(Append(q, m)) : a \in 1..Len(q) \/ a = Len(q) + 1
    BY <1>1
  <2> QED  BY <1>1, <1>2, <1>4, <2>1, <2>2 DEF Pending
<1>5. \A a \in 1..Len(q) : IsLifecycle(q[a]) => q[a].to < n + 1
  <2> SUFFICES ASSUME NEW a \in 1..Len(q), IsLifecycle(q[a]) PROVE q[a].to < n + 1
    OBVIOUS
  <2>1. q[a].to \in Nat  BY QueueElement
  <2> QED  BY <2>1 DEF QueueInv, Addressed
<1>6. \A i \in Inst : f[i] = "live" => i <= n + 1
  BY <1>3 DEF QueueInv, Replaced
<1>7. f[n + 1] = "none"  BY <1>3 DEF QueueInv, Replaced
<1>8. Ordered(Append(q, m))
  <2> SUFFICES ASSUME NEW a \in 1..Len(q) + 1, NEW b \in 1..Len(q) + 1, a < b,
                      IsLifecycle(Append(q, m)[a]), IsLifecycle(Append(q, m)[b])
               PROVE  /\ Append(q, m)[a].to <= Append(q, m)[b].to
                      /\ Append(q, m)[a].what = "DESTROY" \/ Append(q, m)[b].what = "CREATE"
                            => Append(q, m)[a].to < Append(q, m)[b].to
    BY <1>1 DEF Ordered
  <2>1. CASE b = Len(q) + 1
    <3>1. a \in 1..Len(q)  BY <2>1
    <3>2. q[a].to \in Nat  BY <3>1, QueueElement
    <3> QED  BY <1>1, <1>2, <1>5, <2>1, <3>1, <3>2
  <2>2. CASE b \in 1..Len(q)
    <3>1. a \in 1..Len(q)  BY <2>2
    <3> QED  BY <1>1, <2>2, <3>1 DEF QueueInv, Ordered
  <2> QED  BY <2>1, <2>2
<1>9. Addressed(Append(q, m), n + 1, f)
  <2> SUFFICES ASSUME NEW a \in 1..Len(q) + 1, IsLifecycle(Append(q, m)[a])
               PROVE  /\ Append(q, m)[a].to <= n + 1
                      /\ f[Append(q, m)[a].to] # "gone"
                      /\ Append(q, m)[a].what = "CREATE" => f[Append(q, m)[a].to] = "none"
                      /\ \A i \in Inst : f[i] = "live" => i <= Append(q, m)[a].to
    BY <1>1 DEF Addressed
  <2>1. CASE a = Len(q) + 1  BY <1>1, <1>2, <1>6, <1>7, <2>1
  <2>2. CASE a \in 1..Len(q)
    <3>1. q[a].to \in Nat /\ q[a].to <= n + 1  BY <1>1, <1>5, <2>2, QueueElement
    <3> QED  BY <1>1, <2>2, <3>1 DEF QueueInv, Addressed
  <2> QED  BY <2>1, <2>2
<1>10. Pending(Append(q, m), "CREATE", n + 1)
  BY <1>1, <1>2 DEF Pending
<1>11. Replaced(Append(q, m), n + 1, n + 1, f)
  <2> SUFFICES ASSUME NEW j \in Inst
               PROVE  /\ j > n + 1 => f[j] = "none"
                      /\ j <= n + 1 /\ j # n + 1 /\ f[j] # "gone"
                            => Pending(Append(q, m), "DESTROY", j)
                      /\ j <= n + 1 /\ f[j] = "none" => Pending(Append(q, m), "CREATE", j)
    BY DEF Replaced
  <2>1. CASE j = n + 1  BY <1>10, <2>1
  <2>2. CASE j # n + 1
    <3>1. (j <= n + 1 => j <= n) /\ (j > n + 1 => j > n) /\ j # None
      BY <1>3, <2>2
    <3> QED  BY <1>4, <2>2, <3>1 DEF QueueInv, Replaced
  <2> QED  BY <2>1, <2>2
<1>12. ~Pending(Append(q, m), "DESTROY", n + 1)
  <2> SUFFICES ASSUME NEW a \in 1..Len(q) + 1, Append(q, m)[a].what = "DESTROY",
                      Append(q, m)[a].to = n + 1
               PROVE  FALSE
    BY <1>1 DEF Pending
  <2>1. a \in 1..Len(q)  BY <1>1, <1>2
  <2>2. IsLifecycle(q[a])  BY <1>1, <2>1 DEF IsLifecycle, Lifecycle
  <2> QED  BY <1>1, <1>5, <2>1, <2>2, QueueElement
<1>13. Current(Append(q, m), n + 1, n + 1, f) /\ Single(f)
  BY <1>7, <1>12 DEF QueueInv, Current
<1> QED  BY <1>8, <1>9, <1>11, <1>13 DEF QueueInv, m

\* A recreated service has its commands behind its onCreate and nothing else.
LEMMA RecreateQueue ==
  ASSUME NEW s \in Seq(Commands \X Nat), NEW n \in Nat, n < MaxInst
  PROVE  LET q == <<Msg("CREATE", n + 1, 0)>> \o
                     [k \in 1..Len(s) |-> Msg(s[k][1], n + 1, s[k][2])]
             f == [i \in Inst |-> IF i <= n THEN "gone" ELSE "none"]
         IN  q \in Seq(Message) /\ QueueInv(q, n + 1, n + 1, f)
<1> DEFINE h == Msg("CREATE", n + 1, 0)
           t == [k \in 1..Len(s) |-> Msg(s[k][1], n + 1, s[k][2])]
           q == <<h>> \o t
           f == [i \in Inst |-> IF i <= n THEN "gone" ELSE "none"]
<1>1. n + 1 \in Inst /\ \A i \in Inst : i \in Nat
  BY BoundsAssumption DEF Inst
<1>2. h \in Message /\ h.what = "CREATE" /\ h.to = n + 1
  BY <1>1 DEF Message, Msg, Lifecycle, Progress
<1>3. ASSUME NEW k \in 1..Len(s)
      PROVE  t[k] \in Message /\ t[k].what \in Commands /\ t[k].to = n + 1
  <2>1. s[k][1] \in Commands /\ s[k][2] \in Nat  OBVIOUS
  <2> QED  BY <1>1, <2>1 DEF Message, Msg, Lifecycle, Progress
<1>4. t \in Seq(Message) /\ Len(t) = Len(s)
  <2>1. Len(s) \in Nat /\ t \in [1..Len(s) -> Message]  BY <1>3
  <2> QED  BY <2>1
<1>5. <<h>> \in Seq(Message)  BY <1>2
<1> HIDE DEF h, t
<1>6. /\ q \in Seq(Message) /\ Len(q) = Len(s) + 1 /\ q[1] = h
      /\ \A a \in 2..Len(q) : q[a] = t[a - 1] /\ a - 1 \in 1..Len(s)
  BY <1>4, <1>5
<1> HIDE DEF q
<1>7. \A a \in 1..Len(q) : /\ q[a].to = n + 1
                           /\ a # 1 => q[a].what \in Commands
  <2> SUFFICES ASSUME NEW a \in 1..Len(q)
               PROVE  q[a].to = n + 1 /\ (a # 1 => q[a].what \in Commands)
    OBVIOUS
  <2>1. CASE a = 1  BY <1>2, <1>6, <2>1
  <2>2. CASE a # 1
    <3>1. a \in 2..Len(q)  BY <2>2
    <3> QED  BY <1>3, <1>6, <3>1
  <2> QED  BY <2>1, <2>2
<1>8. \A a \in 1..Len(q) : q[a].what # "DESTROY" /\ (q[a].what = "CREATE" => a = 1)
  BY <1>2, <1>6, <1>7 DEF Commands
<1>9. Ordered(q)  BY <1>7, <1>8 DEF Ordered
<1>10. \A i \in Inst : (i <= n => f[i] = "gone") /\ (i > n => f[i] = "none")
  BY <1>1
<1> HIDE DEF f
<1>11. f[n + 1] = "none" /\ \A i \in Inst : f[i] # "live"
  BY <1>1, <1>10
<1>12. Addressed(q, n + 1, f)  BY <1>7, <1>11 DEF Addressed
<1>13. Pending(q, "CREATE", n + 1) /\ ~Pending(q, "DESTROY", n + 1)
  <2>1. 1 \in 1..Len(q)  BY <1>6
  <2> QED  BY <1>2, <1>6, <1>8, <2>1 DEF Pending
<1>14. Replaced(q, n + 1, n + 1, f)
  <2> SUFFICES ASSUME NEW i \in Inst
               PROVE  /\ i > n + 1 => f[i] = "none"
                      /\ i <= n + 1 /\ i # n + 1 /\ f[i] # "gone" => Pending(q, "DESTROY", i)
                      /\ i <= n + 1 /\ f[i] = "none" => Pending(q, "CREATE", i)
    BY DEF Replaced
  <2>1. i = n + 1 \/ i <= n \/ i > n + 1  BY <1>1
  <2> QED  BY <1>1, <1>10, <1>13, <2>1
<1>15. Current(q, n + 1, n + 1, f) /\ Single(f)
  BY <1>11, <1>13 DEF Current, Single
<1>16. q \in Seq(Message) /\ QueueInv(q, n + 1, n + 1, f)
  BY <1>6, <1>9, <1>12, <1>14, <1>15 DEF QueueInv
<1> QED  BY <1>16 DEF q, h, t, f

-----------------------------------------------------------------------------
(* Types.                                                                  *)

LEMMA MsgTyped ==
  ASSUME NEW w \in Lifecycle \cup Reports, NEW i \in Inst, NEW n \in Nat
  PROVE  Msg(w, i, n) \in Message
  BY DEF Msg, Message, Progress

\* The message being dispatched.
LEMMA HeadTyped ==
  ASSUME TypeOK, looper # <<>>
  PROVE  /\ Head(looper) = looper[1]
         /\ Head(looper).to \in Inst /\ Head(looper).id \in Nat
         /\ Head(looper).prog \in Progress
         /\ Tail(looper) \in Seq(Message)
         /\ Handled \in Seq(Commands \X Nat)
<1>1. looper \in Seq(Message) /\ starts \in Seq(Commands \X Nat)  BY DEF TypeOK
<1>2. 1 \in 1..Len(looper) /\ Head(looper) = looper[1] /\ Tail(looper) \in Seq(Message)
  BY <1>1
<1>3. SubSeq(starts, 2, Len(starts)) \in Seq(Commands \X Nat)  BY <1>1
<1> QED  BY <1>1, <1>2, <1>3, QueueElement DEF Handled

LEMMA StartServiceTyped ==
  ASSUME TypeOK, NEW c \in Commands, StartService(c)
  PROVE  /\ looper' \in Seq(Message) /\ starts' \in Seq(Commands \X Nat)
         /\ rec' \in Inst \cup {None} /\ lastId' \in Nat /\ nInst' \in 0..MaxInst
<1>1. c \in Lifecycle  BY DEF Lifecycle
<1>2. /\ looper \in Seq(Message) /\ starts \in Seq(Commands \X Nat)
      /\ rec \in Inst \cup {None} /\ lastId \in Nat /\ nInst \in 0..MaxInst
  BY DEF TypeOK
<1>3. CASE rec = None
  <2>1. nInst + 1 \in Inst /\ nInst + 1 \in 0..MaxInst
    BY <1>2, <1>3, BoundsAssumption DEF StartService, Inst
  <2>2. Msg("CREATE", nInst + 1, 0) \in Message /\ Msg(c, nInst + 1, 1) \in Message
    BY <1>1, <2>1, MsgTyped DEF Lifecycle
  <2>3. <<<<c, 1>>>> \in Seq(Commands \X Nat)  OBVIOUS
  <2>4. <<Msg("CREATE", nInst + 1, 0), Msg(c, nInst + 1, 1)>> \in Seq(Message)
    BY <2>2
  <2>5. looper \o <<Msg("CREATE", nInst + 1, 0), Msg(c, nInst + 1, 1)>> \in Seq(Message)
    BY <1>2, <2>4
  <2>6. /\ looper' = looper \o <<Msg("CREATE", nInst + 1, 0), Msg(c, nInst + 1, 1)>>
        /\ starts' = <<<<c, 1>>>> /\ rec' = nInst + 1 /\ lastId' = 1 /\ nInst' = nInst + 1
    BY <1>3 DEF StartService
  <2>7. looper' \in Seq(Message) /\ starts' \in Seq(Commands \X Nat)
    BY <2>3, <2>5, <2>6
  <2> QED  BY <2>1, <2>6, <2>7
<1>4. CASE rec # None
  <2>1. Msg(c, rec, lastId + 1) \in Message  BY <1>1, <1>2, <1>4, MsgTyped
  <2>2. Append(looper, Msg(c, rec, lastId + 1)) \in Seq(Message)  BY <1>2, <2>1
  <2>3. Append(starts, <<c, lastId + 1>>) \in Seq(Commands \X Nat)  BY <1>2
  <2>4. lastId + 1 \in Nat  BY <1>2
  <2> QED  BY <1>2, <1>4, <2>2, <2>3, <2>4 DEF StartService
<1> QED  BY <1>3, <1>4

LEMMA BringDownTyped ==
  ASSUME TypeOK, rec # None, NEW q \in Seq(Message), BringDown(q)
  PROVE  /\ looper' \in Seq(Message) /\ starts' \in Seq(Commands \X Nat)
         /\ rec' \in Inst \cup {None} /\ fg' \in BOOLEAN
<1>1. Msg("DESTROY", rec, 0) \in Message
  BY MsgTyped DEF TypeOK, Lifecycle
<1>2. Append(q, Msg("DESTROY", rec, 0)) \in Seq(Message)  BY <1>1
<1>3. <<>> \in Seq(Commands \X Nat)  OBVIOUS
<1> QED  BY <1>2, <1>3 DEF BringDown

LEMMA StopSelfTyped ==
  ASSUME TypeOK, looper # <<>>, NEW i \in Inst, NEW n, NEW f \in BOOLEAN,
         NEW s \in Seq(Commands \X Nat), StopSelf(i, n, f, s)
  PROVE  /\ looper' \in Seq(Message) /\ starts' \in Seq(Commands \X Nat)
         /\ rec' \in Inst \cup {None} /\ fg' \in BOOLEAN
<1>1. Tail(looper) \in Seq(Message)  BY HeadTyped
<1>2. CASE rec = i /\ lastId = n
  <2>1. rec # None  BY <1>2 DEF Inst, None
  <2> QED  BY <1>1, <1>2, <2>1, BringDownTyped DEF StopSelf
<1>3. CASE ~(rec = i /\ lastId = n)
  BY <1>1, <1>3 DEF StopSelf, TypeOK
<1> QED  BY <1>2, <1>3

LEMMA StartThreadTyped ==
  ASSUME TypeInv, NEW i \in Inst, NEW n \in Nat, StartThread(i, n)
  PROVE  /\ nThreads' \in 0..MaxThreads
         /\ pc' \in [Thread -> Active \cup {"none", "dead"}]
         /\ isStop' \in [Thread -> BOOLEAN]
         /\ home' \in [Thread -> Inst \cup {None}]
         /\ startId' \in [Thread -> Nat]
         /\ downloadThread' \in [Inst -> Thread \cup {None}]
         /\ ThreadInv'
         /\ nThreads + 1 \in Thread
<1> USE BoundsAssumption
<1>1. nThreads + 1 \in Thread  BY DEF TypeInv, TypeOK, StartThread, Thread
<1>2. i # None  BY DEF Inst, None
<1> QED  BY <1>1, <1>2 DEF TypeInv, TypeOK, ThreadInv, StartThread, Active, Thread

LEMMA ReportTyped ==
  ASSUME TypeOK, NEW o \in Thread, home[o] # None, Report(o)
  PROVE  looper' \in Seq(Message)
<1>1. home[o] \in Inst  BY DEF TypeOK
<1>2. Msg("DURATION", home[o], 0) \in Message /\ Msg("PROGRESS", home[o], 0) \in Message
  BY <1>1, MsgTyped DEF Reports
<1>3. PICK p \in Readings, changed \in DurationNews :
         looper' = IF changed
                   THEN looper \o <<Msg("DURATION", home[o], 0),
                                    [Msg("PROGRESS", home[o], 0) EXCEPT !.prog = p]>>
                   ELSE Append(looper, [Msg("PROGRESS", home[o], 0) EXCEPT !.prog = p])
  BY DEF Report
<1>4. [Msg("PROGRESS", home[o], 0) EXCEPT !.prog = p] \in Message
  BY <1>2, BoundsAssumption DEF Message, Progress
<1> QED  BY <1>2, <1>3, <1>4 DEF TypeOK

\* The death of the process.
LEMMA DeathTyped ==
  ASSUME TypeInv, ProcessDeath
  PROVE  /\ looper' \in Seq(Message) /\ starts' \in Seq(Commands \X Nat)
         /\ rec' \in Inst \cup {None} /\ lastId' \in Nat /\ nInst' \in 0..MaxInst
<1>1. /\ looper \in Seq(Message) /\ starts \in Seq(Commands \X Nat)
      /\ rec \in Inst \cup {None} /\ lastId \in Nat /\ nInst \in 0..MaxInst
  BY DEF TypeInv, TypeOK
<1>2. CASE rec = None
  <2>1. <<>> \in Seq(Message)  OBVIOUS
  <2> QED  BY <1>1, <1>2, <2>1 DEF ProcessDeath
<1>3. CASE rec # None
  <2>1. nInst + 1 \in Inst /\ nInst + 1 \in 0..MaxInst /\ nInst < MaxInst /\ nInst \in Nat
    BY <1>1, <1>3, BoundsAssumption DEF ProcessDeath, Inst
  <2>2. <<"NULL", lastId + 1>> \in Commands \X Nat  BY <1>1 DEF Commands
  <2>3. starts' \in Seq(Commands \X Nat) /\ lastId' \in Nat
    <3>1. <<<<"NULL", lastId + 1>>>> \in Seq(Commands \X Nat)  BY <2>2
    <3> QED  BY <1>1, <1>3, <3>1 DEF ProcessDeath
  <2>4. looper' = <<Msg("CREATE", nInst + 1, 0)>> \o
                  [k \in 1..Len(starts') |-> Msg(starts'[k][1], nInst + 1, starts'[k][2])]
    BY <1>3 DEF ProcessDeath
  <2>5. looper' \in Seq(Message)  BY <2>1, <2>3, <2>4, RecreateQueue
  <2> QED  BY <1>3, <2>1, <2>3, <2>5 DEF ProcessDeath
<1> QED  BY <1>2, <1>3

-----------------------------------------------------------------------------
(* Init and type correctness of every step.                                *)

LEMMA InitInv == Init => IInv
<1> SUFFICES ASSUME Init PROVE IInv
  OBVIOUS
<1> USE BoundsAssumption
<1>1. looper = <<>> /\ starts = <<>>  BY DEF Init
<1>2. looper \in Seq(Message) /\ starts \in Seq(Commands \X Nat)
  <2>1. <<>> \in Seq(Message) /\ <<>> \in Seq(Commands \X Nat)  OBVIOUS
  <2> QED  BY <1>1, <2>1
<1>3. TypeOK
  <2>1. /\ rec \in Inst \cup {None} /\ lastId \in Nat /\ fg \in BOOLEAN /\ uiStop \in BOOLEAN
        /\ clicks \in 0..MaxClicks /\ kills \in 0..MaxKills /\ retries \in 0..MaxRetries
        /\ nInst \in 0..MaxInst /\ nThreads \in 0..MaxThreads /\ held \in SUBSET Thread
    <3>1. /\ rec = None /\ lastId = 0 /\ fg = FALSE /\ uiStop = FALSE /\ clicks = 0
          /\ kills = 0 /\ retries = 0 /\ nInst = 0 /\ nThreads = 0 /\ held = {}
      BY DEF Init
    <3>2. /\ clicks \in 0..MaxClicks /\ kills \in 0..MaxKills /\ retries \in 0..MaxRetries
          /\ nInst \in 0..MaxInst /\ nThreads \in 0..MaxThreads
      BY <3>1
    <3>3. fg \in BOOLEAN /\ uiStop \in BOOLEAN  BY <3>1
    <3>4. held \in SUBSET Thread BY <3>1
    <3> QED  BY <3>1, <3>2, <3>3, <3>4
  <2>2. /\ life \in [Inst -> {"none", "live", "gone"}]
        /\ downloadThread \in [Inst -> Thread \cup {None}]
        /\ wakeLock \in [Inst -> Thread \cup {None}]
        /\ isShowLog \in [Inst -> BOOLEAN]
        /\ progress \in [Inst -> Progress]
        /\ duration \in [Inst -> BOOLEAN]
    BY DEF Init, Progress
  <2>3. /\ pc \in [Thread -> {"none", "new", "run", "library", "returned", "closing",
                               "done", "dead"}]
        /\ isStop \in [Thread -> BOOLEAN]
        /\ home \in [Thread -> Inst \cup {None}]
        /\ startId \in [Thread -> Nat]
    BY DEF Init
  <2> QED  BY <1>2, <2>1, <2>2, <2>3 DEF TypeOK
<1>4. ThreadInv  BY DEF Init, ThreadInv, Active
<1>5. LifeInv
  <2>1. Len(looper) = 0  BY <1>1
  <2>2. Ordered(looper) /\ Addressed(looper, nInst, life)
    BY <2>1 DEF Ordered, Addressed
  <2>3. Replaced(looper, rec, nInst, life)  BY DEF Init, Replaced, Inst
  <2>4. Current(looper, rec, nInst, life) /\ Single(life)
    BY DEF Init, Current, Single
  <2> QED  BY <2>2, <2>3, <2>4 DEF LifeInv, QueueInv
<1>6. LockInv  BY DEF Init, LockInv
<1> QED  BY <1>3, <1>4, <1>5, <1>6 DEF IInv, TypeInv

\* The clicks of the user.
LEMMA UserTyped ==
  ASSUME TypeInv, User \/ ClickStopService
  PROVE  TypeInv'
<1> USE BoundsAssumption
<1>1. CASE ClickStart
  <2>1. "FOREGROUND" \in Commands  BY DEF Commands
  <2>2. /\ looper' \in Seq(Message) /\ starts' \in Seq(Commands \X Nat)
        /\ rec' \in Inst \cup {None} /\ lastId' \in Nat /\ nInst' \in 0..MaxInst
    BY <1>1, <2>1, StartServiceTyped DEF ClickStart, TypeInv
  <2>3. clicks' \in 0..MaxClicks  BY <1>1 DEF ClickStart, TypeInv, TypeOK
  <2> QED
    BY <1>1, <2>2, <2>3 DEF ClickStart, TypeInv, TypeOK, ThreadInv, threadVars
<1>2. ASSUME NEW c \in {"STOP", "UPDATE"}, ClickStopOrUpdate(c)
      PROVE  TypeInv'
  <2>1. c \in Commands  BY DEF Commands
  <2>2. /\ looper' \in Seq(Message) /\ starts' \in Seq(Commands \X Nat)
        /\ rec' \in Inst \cup {None} /\ lastId' \in Nat /\ nInst' \in 0..MaxInst
    BY <1>2, <2>1, StartServiceTyped DEF ClickStopOrUpdate, TypeInv
  <2>3. clicks' \in 0..MaxClicks  BY <1>2 DEF ClickStopOrUpdate, TypeInv, TypeOK
  <2> QED
    BY <1>2, <2>2, <2>3 DEF ClickStopOrUpdate, TypeInv, TypeOK, ThreadInv, threadVars
<1>3. CASE ClickStopService
  <2>1. /\ looper' \in Seq(Message) /\ starts' \in Seq(Commands \X Nat)
        /\ rec' \in Inst \cup {None} /\ fg' \in BOOLEAN
    <3>1. CASE rec = None
      BY <1>3, <3>1 DEF ClickStopService, TypeInv, TypeOK
    <3>2. CASE rec # None
      <4>1. BringDown(looper) /\ looper \in Seq(Message)
        BY <1>3, <3>2 DEF ClickStopService, TypeInv, TypeOK
      <4> QED  BY <3>2, <4>1, BringDownTyped DEF TypeInv
    <3> QED  BY <3>1, <3>2
  <2> QED
    BY <1>3, <2>1 DEF ClickStopService, TypeInv, TypeOK, ThreadInv, threadVars,
                      objVars, counters
<1> QED  BY <1>1, <1>2, <1>3 DEF User

\* What the main looper dispatches: a service's own handlers.
LEMMA CommandTyped ==
  ASSUME TypeInv,
         OnCreate \/ OnDestroy \/ HandleForeground \/ RefuseForeground
         \/ HandleStop \/ HandleUpdate \/ HandleNull
  PROVE  TypeInv'
<1> USE BoundsAssumption
<1> DEFINE i == Head(looper).to
<1>1. looper # <<>>
  BY DEF OnCreate, OnDestroy, HandleForeground, RefuseForeground, HandleStop,
         HandleUpdate, HandleNull, Dispatch
<1>2. /\ i \in Inst /\ Head(looper).id \in Nat
      /\ Tail(looper) \in Seq(Message) /\ Handled \in Seq(Commands \X Nat)
  BY <1>1, HeadTyped DEF TypeInv
<1> HIDE DEF i
<1>3. CASE OnCreate
  <2>1. /\ looper' = Tail(looper)
        /\ life' = [life EXCEPT ![i] = "live"]
        /\ isShowLog' = [isShowLog EXCEPT ![i] = FALSE]
    BY <1>3 DEF OnCreate, i
  <2>2. looper' \in Seq(Message)  BY <1>2, <2>1
  <2> QED
    BY <1>2, <1>3, <2>1, <2>2 DEF OnCreate, TypeInv, TypeOK, ThreadInv, threadVars, counters
<1>4. CASE OnDestroy
  <2>1. /\ looper' = Tail(looper)
        /\ life' = [life EXCEPT ![i] = "gone"]
        /\ isShowLog' = [isShowLog EXCEPT ![i] = FALSE]
        /\ wakeLock' = [wakeLock EXCEPT ![i] = None]
        /\ held' = held \ {wakeLock[i]}
        /\ fg' = IF rec = i THEN FALSE ELSE fg
    BY <1>4 DEF OnDestroy, ReleaseWakeLock, StopForeground, i
  <2>2. looper' \in Seq(Message)  BY <1>2, <2>1
  <2> QED
    BY <1>2, <1>4, <2>1, <2>2 DEF OnDestroy, TypeInv, TypeOK, ThreadInv, threadVars, counters
<1>5. CASE HandleForeground
  <2>1. /\ looper' = Tail(looper) /\ starts' = Handled
        /\ isShowLog' = [isShowLog EXCEPT ![i] = TRUE]
        /\ wakeLock' = [wakeLock EXCEPT ![i] = nThreads + 1]
        /\ held' = (held \ {wakeLock[i]}) \cup {nThreads + 1}
        /\ fg' = IF rec = i THEN TRUE ELSE fg
        /\ StartThread(i, Head(looper).id)
    BY <1>5 DEF HandleForeground, StartDownload, i
  <2>2. looper' \in Seq(Message) /\ starts' \in Seq(Commands \X Nat)  BY <1>2, <2>1
  <2>3. /\ nThreads' \in 0..MaxThreads
        /\ pc' \in [Thread -> Active \cup {"none", "dead"}]
        /\ isStop' \in [Thread -> BOOLEAN]
        /\ home' \in [Thread -> Inst \cup {None}]
        /\ startId' \in [Thread -> Nat]
        /\ downloadThread' \in [Inst -> Thread \cup {None}]
        /\ ThreadInv'
        /\ nThreads + 1 \in Thread
    BY <1>2, <2>1, StartThreadTyped
  <2>4. /\ isShowLog' \in [Inst -> BOOLEAN]
        /\ wakeLock' \in [Inst -> Thread \cup {None}]
        /\ held' \in SUBSET Thread
        /\ fg' \in BOOLEAN
    BY <1>2, <2>1, <2>3 DEF TypeInv, TypeOK
  <2> QED
    BY <1>5, <2>2, <2>3, <2>4 DEF HandleForeground, TypeInv, TypeOK, Active, counters
<1>6. CASE RefuseForeground
  <2>1. looper' \in Seq(Message) /\ starts' \in Seq(Commands \X Nat)
    BY <1>2, <1>6 DEF RefuseForeground
  <2> QED
    BY <1>6, <2>1 DEF RefuseForeground, TypeInv, TypeOK, ThreadInv, threadVars, objVars, counters
<1>7. CASE HandleStop
  <2>1. /\ isShowLog' = [isShowLog EXCEPT ![i] = FALSE]
        /\ wakeLock' = [wakeLock EXCEPT ![i] = None]
        /\ held' = held \ {wakeLock[i]}
        /\ IF Free(i)
           THEN UNCHANGED <<isStop, downloadThread>>
           ELSE /\ isStop' = [isStop EXCEPT ![downloadThread[i]] = TRUE]
                /\ downloadThread' = [downloadThread EXCEPT ![i] = None]
        /\ StopSelf(i, Head(looper).id, StopForeground(i), Handled)
    BY <1>7 DEF HandleStop, ReleaseWakeLock, i
  <2>2. StopForeground(i) \in BOOLEAN  BY DEF StopForeground, TypeInv, TypeOK
  <2>3. /\ looper' \in Seq(Message) /\ starts' \in Seq(Commands \X Nat)
        /\ rec' \in Inst \cup {None} /\ fg' \in BOOLEAN
    BY <1>1, <1>2, <2>1, <2>2, StopSelfTyped DEF TypeInv
  <2>4. /\ isStop' \in [Thread -> BOOLEAN]
        /\ downloadThread' \in [Inst -> Thread \cup {None}]
        /\ \A t \in Thread : isStop[t] => isStop'[t]
        /\ \A j \in Inst : downloadThread'[j] # None => downloadThread'[j] = downloadThread[j]
    BY <1>2, <2>1 DEF Free, TypeInv, TypeOK
  <2>5. ThreadInv'
    BY <1>7, <2>4 DEF HandleStop, TypeInv, ThreadInv
  <2> QED
    BY <1>2, <1>7, <2>1, <2>3, <2>4, <2>5 DEF HandleStop, TypeInv, TypeOK, counters
<1>8. CASE HandleUpdate
  <2>1. /\ looper' \in Seq(Message) /\ starts' \in Seq(Commands \X Nat)
        /\ rec' \in Inst \cup {None} /\ fg' \in BOOLEAN
    <3>1. CASE downloadThread[i] = None
      <4>1. StopSelf(i, Head(looper).id, fg, Handled) /\ fg \in BOOLEAN
        BY <1>8, <3>1 DEF HandleUpdate, i, TypeInv, TypeOK
      <4> QED  BY <1>1, <1>2, <4>1, StopSelfTyped DEF TypeInv
    <3>2. CASE downloadThread[i] # None
      BY <1>2, <1>8, <3>2 DEF HandleUpdate, i, TypeInv, TypeOK
    <3> QED  BY <3>1, <3>2
  <2> QED
    BY <1>8, <2>1 DEF HandleUpdate, TypeInv, TypeOK, ThreadInv, threadVars, objVars, counters
<1>9. CASE HandleNull
  <2>1. looper' \in Seq(Message) /\ starts' \in Seq(Commands \X Nat)
    BY <1>2, <1>9 DEF HandleNull
  <2> QED
    BY <1>9, <2>1 DEF HandleNull, TypeInv, TypeOK, ThreadInv, threadVars, objVars, counters
<1> QED  BY <1>3, <1>4, <1>5, <1>6, <1>7, <1>8, <1>9

\* What the main looper dispatches: the reports of the threads.
LEMMA ReportHandlerTyped ==
  ASSUME TypeInv,
         HandleStartThread \/ HandleDuration \/ HandleProgress \/ CloseRetry \/ CloseFinish
  PROVE  TypeInv'
<1> USE BoundsAssumption
<1> DEFINE i == Head(looper).to
<1>1. looper # <<>>
  BY DEF HandleStartThread, HandleDuration, HandleProgress, CloseRetry, CloseFinish, Dispatch
<1>2. /\ i \in Inst /\ Head(looper).id \in Nat /\ Head(looper).prog \in Progress
      /\ Tail(looper) \in Seq(Message) /\ starts \in Seq(Commands \X Nat)
  BY <1>1, HeadTyped DEF TypeInv, TypeOK
<1>3. Log(i) \in BOOLEAN /\ StopForeground(i) \in BOOLEAN /\ fg \in BOOLEAN
  BY DEF Log, StopForeground, TypeInv, TypeOK
<1> HIDE DEF i
<1>4. CASE HandleStartThread
  <2>1. looper' \in Seq(Message) /\ fg' \in BOOLEAN
    BY <1>2, <1>3, <1>4 DEF HandleStartThread, i
  <2> QED
    BY <1>4, <2>1 DEF HandleStartThread, TypeInv, TypeOK, ThreadInv, threadVars, objVars, counters
<1>5. CASE HandleDuration
  <2>1. looper' \in Seq(Message) /\ fg' \in BOOLEAN
    BY <1>2, <1>3, <1>5 DEF HandleDuration, i
  <2>2. progress' \in [Inst -> Progress] /\ duration' \in [Inst -> BOOLEAN]
    BY <1>2, <1>5 DEF HandleDuration, i, TypeInv, TypeOK, Progress
  <2> QED
    BY <1>5, <2>1, <2>2 DEF HandleDuration, TypeInv, TypeOK, ThreadInv, threadVars, counters
<1>6. CASE HandleProgress
  <2>1. looper' \in Seq(Message) /\ fg' \in BOOLEAN
    BY <1>2, <1>3, <1>6 DEF HandleProgress, i
  <2>2. progress' \in [Inst -> Progress]
    BY <1>2, <1>6 DEF HandleProgress, i, TypeInv, TypeOK
  <2> QED
    BY <1>6, <2>1, <2>2 DEF HandleProgress, TypeInv, TypeOK, ThreadInv, threadVars, counters
<1>7. CASE CloseRetry
  <2>1. StartThread(i, Head(looper).id) /\ looper' = Tail(looper)
    BY <1>7 DEF CloseRetry, i
  <2>2. /\ nThreads' \in 0..MaxThreads
        /\ pc' \in [Thread -> Active \cup {"none", "dead"}]
        /\ isStop' \in [Thread -> BOOLEAN]
        /\ home' \in [Thread -> Inst \cup {None}]
        /\ startId' \in [Thread -> Nat]
        /\ downloadThread' \in [Inst -> Thread \cup {None}]
        /\ ThreadInv'
    BY <1>2, <2>1, StartThreadTyped
  <2>3. looper' \in Seq(Message)  BY <1>2, <2>1
  <2>4. retries' \in 0..MaxRetries  BY <1>7 DEF CloseRetry, TypeInv, TypeOK
  <2> QED
    BY <1>7, <2>2, <2>3, <2>4 DEF CloseRetry, TypeInv, TypeOK, Active
<1>8. CASE CloseFinish
  <2>1. /\ isShowLog' = [isShowLog EXCEPT ![i] = FALSE]
        /\ wakeLock' = [wakeLock EXCEPT ![i] = None]
        /\ held' = held \ {wakeLock[i]}
        /\ StopSelf(i, Head(looper).id, StopForeground(i), starts)
    BY <1>8 DEF CloseFinish, ReleaseWakeLock, i
  <2>2. /\ looper' \in Seq(Message) /\ starts' \in Seq(Commands \X Nat)
        /\ rec' \in Inst \cup {None} /\ fg' \in BOOLEAN
    BY <1>1, <1>2, <1>3, <2>1, StopSelfTyped DEF TypeInv
  <2> QED
    BY <1>2, <1>8, <2>1, <2>2 DEF CloseFinish, TypeInv, TypeOK, ThreadInv, threadVars, counters
<1> QED  BY <1>4, <1>5, <1>6, <1>7, <1>8

\* The steps of a worker thread.
LEMMA ThreadTyped ==
  ASSUME TypeInv, NEW t \in Thread, ThreadStep(t) \/ LibraryReport(t)
  PROVE  TypeInv'
<1>1. /\ looper \in Seq(Message) /\ starts \in Seq(Commands \X Nat)
      /\ home[t] \in Inst \cup {None} /\ startId[t] \in Nat
      /\ pc[t] \in Active => home[t] \in Inst
  BY DEF TypeInv, TypeOK, ThreadInv
<1>2. CASE RunBegin(t)
  <2>1. pc' \in [Thread -> Active \cup {"none", "dead"}] /\ isStop' \in [Thread -> BOOLEAN]
    BY <1>2 DEF RunBegin, Goto, TypeInv, TypeOK, Active
  <2>2. ThreadInv'
    BY <1>2 DEF RunBegin, Goto, TypeInv, TypeOK, ThreadInv, Active, objVars
  <2> QED
    BY <1>2, <2>1, <2>2 DEF RunBegin, TypeInv, TypeOK, Active, amVars, objVars, counters
<1>3. CASE RunPostStart(t)
  <2>1. pc' \in [Thread -> Active \cup {"none", "dead"}]
    BY <1>3 DEF RunPostStart, Goto, TypeInv, TypeOK, Active
  <2>2. ThreadInv'
    BY <1>3 DEF RunPostStart, Goto, TypeInv, TypeOK, ThreadInv, Active, objVars
  <2>3. Msg("START_THREAD", home[t], 0) \in Message
    BY <1>1, <1>3, MsgTyped DEF RunPostStart, Active, Reports
  <2>4. looper' \in Seq(Message)  BY <1>1, <1>3, <2>3 DEF RunPostStart, Post
  <2> QED
    BY <1>3, <2>1, <2>2, <2>4 DEF RunPostStart, TypeInv, TypeOK, Active, amRest, objVars, counters
<1>4. CASE LibraryReturn(t)
  <2>1. pc' \in [Thread -> Active \cup {"none", "dead"}]
    BY <1>4 DEF LibraryReturn, Goto, TypeInv, TypeOK, Active
  <2>2. ThreadInv'
    BY <1>4 DEF LibraryReturn, Goto, TypeInv, TypeOK, ThreadInv, Active, objVars
  <2> QED
    BY <1>4, <2>1, <2>2 DEF LibraryReturn, TypeInv, TypeOK, Active, amVars, objVars, counters
<1>5. CASE RunEnd(t)
  <2>1. pc' \in [Thread -> Active \cup {"none", "dead"}] /\ isStop' \in [Thread -> BOOLEAN]
    BY <1>5 DEF RunEnd, Goto, TypeInv, TypeOK, Active
  <2>2. ThreadInv'
    BY <1>5 DEF RunEnd, Goto, TypeInv, TypeOK, ThreadInv, Active, objVars
  <2> QED
    BY <1>5, <2>1, <2>2 DEF RunEnd, TypeInv, TypeOK, Active, amVars, objVars, counters
<1>6. CASE RunPostClose(t)
  <2>1. pc' \in [Thread -> Active \cup {"none", "dead"}]
    BY <1>6 DEF RunPostClose, Goto, TypeInv, TypeOK, Active
  <2>2. ThreadInv'
    BY <1>6 DEF RunPostClose, Goto, TypeInv, TypeOK, ThreadInv, Active, objVars
  <2>3. Msg("CLOSE_THREAD", home[t], startId[t]) \in Message
    BY <1>1, <1>6, MsgTyped DEF RunPostClose, Active, Reports
  <2>4. looper' \in Seq(Message)  BY <1>1, <1>6, <2>3 DEF RunPostClose, Post
  <2> QED
    BY <1>6, <2>1, <2>2, <2>4 DEF RunPostClose, TypeInv, TypeOK, Active, amRest, objVars, counters
<1>7. CASE LibraryReport(t)
  <2>1. PICK o \in Thread : pc[o] \in Active /\ Report(o)
    BY <1>7 DEF LibraryReport, Active
  <2>2. looper' \in Seq(Message)
    BY <2>1, ReportTyped DEF TypeInv, ThreadInv
  <2> QED
    BY <1>7, <2>2 DEF LibraryReport, TypeInv, TypeOK, ThreadInv, amRest, objVars, threadVars,
                      counters
<1> QED  BY <1>2, <1>3, <1>4, <1>5, <1>6, <1>7 DEF ThreadStep

\* The death of the process.
LEMMA KillTyped ==
  ASSUME TypeInv, ProcessKill
  PROVE  TypeInv'
<1> USE BoundsAssumption
<1>1. ProcessDeath  BY DEF ProcessKill
<1>2. /\ looper' \in Seq(Message) /\ starts' \in Seq(Commands \X Nat)
      /\ rec' \in Inst \cup {None} /\ lastId' \in Nat /\ nInst' \in 0..MaxInst
  BY <1>1, DeathTyped
<1>3. kills' \in 0..MaxKills  BY DEF ProcessKill, TypeInv, TypeOK
<1>4. /\ life' \in [Inst -> {"none", "live", "gone"}]
      /\ downloadThread' \in [Inst -> Thread \cup {None}]
      /\ wakeLock' \in [Inst -> Thread \cup {None}]
      /\ isShowLog' \in [Inst -> BOOLEAN]
      /\ progress' \in [Inst -> Progress]
      /\ duration' \in [Inst -> BOOLEAN]
      /\ held' \in SUBSET Thread
      /\ fg' \in BOOLEAN
  BY <1>1 DEF ProcessDeath, Progress
<1>5. pc' \in [Thread -> {"none", "new", "run", "library", "returned", "closing",
                          "done", "dead"}]
  BY <1>1 DEF ProcessDeath
<1>6. ThreadInv'
  BY <1>1 DEF ProcessDeath, ThreadInv, Active
<1>7. UNCHANGED <<uiStop, clicks, retries, nThreads, isStop, home, startId>>
  BY <1>1 DEF ProcessDeath
<1> QED  BY <1>2, <1>3, <1>4, <1>5, <1>6, <1>7 DEF TypeInv, TypeOK

LEMMA TypeStep == TypeInv /\ [Next]_vars => TypeInv'
<1>1. ASSUME TypeInv, UNCHANGED vars PROVE TypeInv'
  BY <1>1 DEF TypeInv, TypeOK, ThreadInv, vars, amVars, objVars, threadVars, counters
<1> QED
  BY <1>1, UserTyped, CommandTyped, ReportHandlerTyped, ThreadTyped, KillTyped
  DEF Next, Looper

-----------------------------------------------------------------------------
(* The order of the queue and the lives of the objects.                    *)

\* startService.
LEMMA StartServiceLife ==
  ASSUME TypeInv, LifeInv, NEW c \in Commands, StartService(c), life' = life
  PROVE  LifeInv'
<1>1. /\ looper \in Seq(Message) /\ rec \in Inst \cup {None} /\ lastId \in Nat
      /\ nInst \in Nat /\ life \in [Inst -> {"none", "live", "gone"}]
  BY BoundsAssumption DEF TypeInv, TypeOK
<1>2. c \in Lifecycle  BY DEF Lifecycle
<1>3. CASE rec = None
  <2> DEFINE m1 == Msg("CREATE", nInst + 1, 0)
             m2 == Msg(c, nInst + 1, 1)
             q == Append(looper, m1)
  <2>1. nInst < MaxInst /\ nInst' = nInst + 1 /\ rec' = nInst + 1
        /\ looper' = looper \o <<m1, m2>>
    BY <1>3 DEF StartService
  <2>2. nInst + 1 \in Inst /\ nInst + 1 \in Nat  BY <1>1, <2>1, BoundsAssumption DEF Inst
  <2>3. m1 \in Message /\ m2 \in Message  BY <1>2, <2>2, MsgTyped DEF Lifecycle
  <2>4. m2.what \in Commands /\ m2.to = nInst + 1  BY DEF Msg
  <2>5. QueueInv(q, nInst + 1, nInst + 1, life)
    BY <1>1, <1>3, <2>1, PushCreate DEF LifeInv
  <2> HIDE DEF m1, m2
  <2>6. q \in Seq(Message) /\ looper' = Append(q, m2)
    BY <1>1, <2>1, <2>3
  <2> HIDE DEF q
  <2>7. QueueInv(Append(q, m2), nInst + 1, nInst + 1, life)
    BY <1>1, <2>2, <2>3, <2>4, <2>5, <2>6, PushCommand
  <2> QED  BY <2>1, <2>6, <2>7 DEF LifeInv
<1>4. CASE rec # None
  <2> DEFINE m == Msg(c, rec, lastId + 1)
  <2>1. looper' = Append(looper, m) /\ UNCHANGED <<nInst, rec>>
    BY <1>4 DEF StartService
  <2>2. m \in Message  BY <1>1, <1>2, <1>4, MsgTyped
  <2>3. m.what \in Commands /\ m.to = rec  BY DEF Msg
  <2> HIDE DEF m
  <2>4. rec \in Inst  BY <1>1, <1>4
  <2>5. QueueInv(Append(looper, m), rec, nInst, life)
    BY <1>1, <2>2, <2>3, <2>4, PushCommand DEF LifeInv
  <2> QED  BY <2>1, <2>5 DEF LifeInv
<1> QED  BY <1>3, <1>4

\* The record brought down after the looper took q from its queue.
LEMMA BringDownLife ==
  ASSUME TypeInv, NEW q \in Seq(Message), QueueInv(q, rec, nInst, life),
         rec # None, BringDown(q), UNCHANGED <<nInst, life>>
  PROVE  LifeInv'
<1>1. rec \in Inst /\ nInst \in Nat /\ life \in [Inst -> {"none", "live", "gone"}]
  BY BoundsAssumption DEF TypeInv, TypeOK
<1>2. QueueInv(Append(q, Msg("DESTROY", rec, 0)), None, nInst, life)
  BY <1>1, PushDestroy
<1> QED  BY <1>2 DEF BringDown, LifeInv

\* A handler that ends with stopSelf.
LEMMA StopSelfLife ==
  ASSUME TypeInv, LifeInv, looper # <<>>, Head(looper).what \notin {"CREATE", "DESTROY"},
         NEW i \in Inst, NEW n, NEW f, NEW s, StopSelf(i, n, f, s),
         UNCHANGED <<nInst, life>>
  PROVE  LifeInv'
<1>1. Head(looper) = looper[1] /\ Tail(looper) \in Seq(Message) /\ looper \in Seq(Message)
  BY HeadTyped DEF TypeInv, TypeOK
<1>2. QueueInv(Tail(looper), rec, nInst, life)
  BY <1>1, PopQueue DEF LifeInv
<1>3. CASE rec = i /\ lastId = n
  <2>1. rec # None /\ BringDown(Tail(looper))  BY <1>3 DEF Inst, None, StopSelf
  <2> QED  BY <1>1, <1>2, <2>1, BringDownLife
<1>4. CASE ~(rec = i /\ lastId = n)
  <2>1. looper' = Tail(looper) /\ rec' = rec  BY <1>4 DEF StopSelf
  <2> QED  BY <1>2, <2>1 DEF LifeInv
<1> QED  BY <1>3, <1>4

\* A handler that leaves the record alone.
LEMMA PopLife ==
  ASSUME TypeInv, LifeInv, looper # <<>>, Head(looper).what \notin {"CREATE", "DESTROY"},
         looper' = Tail(looper), UNCHANGED <<rec, nInst, life>>
  PROVE  LifeInv'
<1>1. Head(looper) = looper[1] /\ looper \in Seq(Message)
  BY HeadTyped DEF TypeInv, TypeOK
<1> QED  BY <1>1, PopQueue DEF LifeInv

LEMMA LooperLife ==
  ASSUME TypeInv, LifeInv, Looper
  PROVE  LifeInv'
<1>1. looper # <<>>
  BY DEF Looper, OnCreate, OnDestroy, HandleForeground, RefuseForeground, HandleStop,
         HandleUpdate, HandleNull, HandleStartThread, HandleDuration, HandleProgress,
         CloseRetry, CloseFinish, Dispatch
<1>2. /\ looper \in Seq(Message) /\ rec \in Inst \cup {None} /\ nInst \in Nat
      /\ life \in [Inst -> {"none", "live", "gone"}]
      /\ Head(looper) = looper[1] /\ Head(looper).to \in Inst
  BY <1>1, HeadTyped, BoundsAssumption DEF TypeInv, TypeOK
<1>3. CASE OnCreate
  <2>1. QueueInv(Tail(looper), rec, nInst, [life EXCEPT ![Head(looper).to] = "live"])
    BY <1>1, <1>2, <1>3, PopCreate DEF LifeInv, OnCreate, Dispatch
  <2> QED  BY <1>3, <2>1 DEF OnCreate, LifeInv
<1>4. CASE OnDestroy
  <2>1. QueueInv(Tail(looper), rec, nInst, [life EXCEPT ![Head(looper).to] = "gone"])
    BY <1>1, <1>2, <1>4, PopDestroy DEF LifeInv, OnDestroy, Dispatch
  <2> QED  BY <1>4, <2>1 DEF OnDestroy, LifeInv
<1>5. CASE HandleForeground \/ RefuseForeground \/ HandleNull \/ HandleStartThread
           \/ HandleDuration \/ HandleProgress \/ CloseRetry
  <2>1. /\ looper' = Tail(looper) /\ UNCHANGED <<rec, nInst, life>>
        /\ Head(looper).what \notin {"CREATE", "DESTROY"}
    BY <1>5 DEF HandleForeground, RefuseForeground, HandleNull, HandleStartThread,
                HandleDuration, HandleProgress, CloseRetry, Dispatch, objVars
  <2> QED  BY <1>1, <2>1, PopLife
<1>6. CASE HandleStop
  <2>1. /\ StopSelf(Head(looper).to, Head(looper).id, StopForeground(Head(looper).to), Handled)
        /\ UNCHANGED <<nInst, life>> /\ Head(looper).what \notin {"CREATE", "DESTROY"}
    BY <1>6 DEF HandleStop, Dispatch
  <2> QED  BY <1>1, <1>2, <2>1, StopSelfLife
<1>7. CASE HandleUpdate
  <2>1. UNCHANGED <<nInst, life>> /\ Head(looper).what \notin {"CREATE", "DESTROY"}
    BY <1>7 DEF HandleUpdate, Dispatch, objVars
  <2>2. CASE downloadThread[Head(looper).to] = None
    <3>1. StopSelf(Head(looper).to, Head(looper).id, fg, Handled)
      BY <1>7, <2>2 DEF HandleUpdate
    <3> QED  BY <1>1, <1>2, <2>1, <3>1, StopSelfLife
  <2>3. CASE downloadThread[Head(looper).to] # None
    <3>1. looper' = Tail(looper) /\ UNCHANGED rec
      BY <1>7, <2>3 DEF HandleUpdate
    <3> QED  BY <1>1, <2>1, <3>1, PopLife
  <2> QED  BY <2>2, <2>3
<1>8. CASE CloseFinish
  <2>1. /\ StopSelf(Head(looper).to, Head(looper).id, StopForeground(Head(looper).to), starts)
        /\ UNCHANGED <<nInst, life>> /\ Head(looper).what \notin {"CREATE", "DESTROY"}
    BY <1>8 DEF CloseFinish, Dispatch
  <2> QED  BY <1>1, <1>2, <2>1, StopSelfLife
<1> QED  BY <1>3, <1>4, <1>5, <1>6, <1>7, <1>8 DEF Looper

\* The reports a thread posts.
LEMMA PostLife ==
  ASSUME TypeInv, LifeInv, NEW m \in Message, m.what \in Reports,
         looper' = Append(looper, m), UNCHANGED <<rec, nInst, life>>
  PROVE  LifeInv'
  BY PushReport DEF TypeInv, TypeOK, LifeInv

LEMMA ThreadLife ==
  ASSUME TypeInv, LifeInv, NEW t \in Thread, ThreadStep(t) \/ LibraryReport(t)
  PROVE  LifeInv'
<1>1. /\ looper \in Seq(Message)
      /\ home[t] \in Inst \cup {None} /\ startId[t] \in Nat
      /\ pc[t] \in Active => home[t] \in Inst
  BY DEF TypeInv, TypeOK, ThreadInv
<1>2. CASE RunBegin(t) \/ LibraryReturn(t) \/ RunEnd(t)
  BY <1>2 DEF RunBegin, LibraryReturn, RunEnd, amVars, objVars, LifeInv
<1>3. CASE RunPostStart(t)
  <2> DEFINE m == Msg("START_THREAD", home[t], 0)
  <2>1. m \in Message /\ m.what \in Reports
    BY <1>1, <1>3, MsgTyped DEF RunPostStart, Active, Reports, Msg
  <2>2. looper' = Append(looper, m) /\ UNCHANGED <<rec, nInst, life>>
    BY <1>3 DEF RunPostStart, Post, amRest, objVars
  <2> QED  BY <2>1, <2>2, PostLife
<1>4. CASE RunPostClose(t)
  <2> DEFINE m == Msg("CLOSE_THREAD", home[t], startId[t])
  <2>1. m \in Message /\ m.what \in Reports
    BY <1>1, <1>4, MsgTyped DEF RunPostClose, Active, Reports, Msg
  <2>2. looper' = Append(looper, m) /\ UNCHANGED <<rec, nInst, life>>
    BY <1>4 DEF RunPostClose, Post, amRest, objVars
  <2> QED  BY <2>1, <2>2, PostLife
<1>5. CASE LibraryReport(t)
  <2>0. PICK o \in Thread : pc[o] \in Active /\ Report(o)
    BY <1>5 DEF LibraryReport, Active
  <2>1. home[o] \in Inst  BY <2>0 DEF TypeInv, TypeOK, ThreadInv
  <2> DEFINE d == Msg("DURATION", home[o], 0)
             e == Msg("PROGRESS", home[o], 0)
  <2>2. UNCHANGED <<rec, nInst, life>>  BY <1>5 DEF LibraryReport, amRest, objVars
  <2>3. PICK p \in Readings, changed \in DurationNews :
           looper' = IF changed THEN looper \o <<d, [e EXCEPT !.prog = p]>>
                                ELSE Append(looper, [e EXCEPT !.prog = p])
    BY <2>0 DEF Report
  <2> DEFINE m == [e EXCEPT !.prog = p]
  <2>4. d \in Message /\ d.what \in Reports
    BY <2>1, MsgTyped DEF Reports, Msg
  <2>5. m \in Message /\ m.what \in Reports
    BY <2>1, BoundsAssumption DEF Reports, Msg, Message, Progress
  <2> HIDE DEF d, m
  <2>6. CASE changed
    <3>1. looper' = Append(Append(looper, d), m)
      <4>1. looper' = looper \o <<d, m>>  BY <2>3, <2>6 DEF m
      <4> QED  BY <1>1, <2>4, <2>5, <4>1
    <3>2. QueueInv(Append(looper, d), rec, nInst, life)
      BY <1>1, <2>4, PushReport DEF LifeInv
    <3>3. Append(looper, d) \in Seq(Message)  BY <1>1, <2>4
    <3>4. QueueInv(Append(Append(looper, d), m), rec, nInst, life)
      BY <2>5, <3>2, <3>3, PushReport
    <3> QED  BY <2>2, <3>1, <3>4 DEF LifeInv
  <2>7. CASE ~changed
    <3>1. looper' = Append(looper, m)  BY <2>3, <2>7 DEF m
    <3> QED  BY <2>2, <2>5, <3>1, PostLife
  <2> QED  BY <2>6, <2>7
<1> QED  BY <1>2, <1>3, <1>4, <1>5 DEF ThreadStep

\* After the death of the process only a recreated object is left.
LEMMA KillLife ==
  ASSUME TypeInv, LifeInv, ProcessKill
  PROVE  LifeInv'
<1>1. /\ ProcessDeath /\ nInst \in Nat /\ lastId \in Nat
      /\ starts \in Seq(Commands \X Nat)
      /\ life' = [i \in Inst |-> IF i <= nInst THEN "gone" ELSE "none"]
  <2>1. nInst \in Nat /\ lastId \in Nat /\ starts \in Seq(Commands \X Nat)
    BY BoundsAssumption DEF TypeInv, TypeOK
  <2>2. ProcessDeath  BY DEF ProcessKill
  <2>3. life' = [i \in Inst |-> IF i <= nInst THEN "gone" ELSE "none"]
    BY <2>2 DEF ProcessDeath
  <2> QED  BY <2>1, <2>2, <2>3
<1>2. CASE rec = None
  <2>1. looper' = <<>> /\ rec' = None /\ nInst' = nInst
    BY <1>1, <1>2 DEF ProcessDeath
  <2>2. Len(looper') = 0  BY <2>1
  <2>3. Ordered(looper') /\ Addressed(looper', nInst', life')
    BY <2>2 DEF Ordered, Addressed
  <2>4. \A i \in Inst : (i <= nInst => life'[i] = "gone") /\ (i > nInst => life'[i] = "none")
    BY <1>1 DEF Inst
  <2>5. Replaced(looper', rec', nInst', life')
    <3> SUFFICES ASSUME NEW i \in Inst
                 PROVE  /\ i > nInst => life'[i] = "none"
                        /\ i <= nInst => life'[i] = "gone"
      BY <2>1 DEF Replaced
    <3> QED  BY <2>4
  <2>6. Current(looper', rec', nInst', life') /\ Single(life')
    <3>1. \A i \in Inst : life'[i] # "live"  BY <1>1
    <3> QED  BY <2>1, <3>1 DEF Current, Single
  <2> QED  BY <2>3, <2>5, <2>6 DEF LifeInv, QueueInv
<1>3. CASE rec # None
  <2>1. nInst < MaxInst /\ nInst' = nInst + 1 /\ rec' = nInst + 1
        /\ looper' = <<Msg("CREATE", nInst + 1, 0)>> \o
              [k \in 1..Len(starts') |-> Msg(starts'[k][1], nInst + 1, starts'[k][2])]
    BY <1>1, <1>3 DEF ProcessDeath
  <2>2. starts' \in Seq(Commands \X Nat)  BY <1>1, DeathTyped
  <2>3. QueueInv(looper', nInst + 1, nInst + 1, life')
    BY <1>1, <2>1, <2>2, RecreateQueue
  <2> QED  BY <2>1, <2>3 DEF LifeInv
<1> QED  BY <1>2, <1>3

LEMMA LifeStep == TypeInv /\ LifeInv /\ [Next]_vars => LifeInv'
<1> SUFFICES ASSUME TypeInv, LifeInv, [Next]_vars PROVE LifeInv'
  OBVIOUS
<1>1. CASE ClickStart
  <2>1. StartService("FOREGROUND") /\ life' = life /\ "FOREGROUND" \in Commands
    BY <1>1 DEF ClickStart, Commands
  <2> QED  BY <2>1, StartServiceLife
<1>2. ASSUME NEW c \in {"STOP", "UPDATE"}, ClickStopOrUpdate(c)
      PROVE  LifeInv'
  <2>1. StartService(c) /\ life' = life /\ c \in Commands
    BY <1>2 DEF ClickStopOrUpdate, Commands
  <2> QED  BY <2>1, StartServiceLife
<1>3. CASE ClickStopService
  <2>1. UNCHANGED <<nInst, life>>  BY <1>3 DEF ClickStopService, objVars
  <2>2. CASE rec = None
    BY <1>3, <2>1, <2>2 DEF ClickStopService, LifeInv
  <2>3. CASE rec # None
    <3>1. BringDown(looper) /\ looper \in Seq(Message)
      BY <1>3, <2>3 DEF ClickStopService, TypeInv, TypeOK
    <3> QED  BY <2>1, <2>3, <3>1, BringDownLife DEF LifeInv
  <2> QED  BY <2>2, <2>3
<1>4. CASE UNCHANGED vars
  BY <1>4 DEF vars, amVars, objVars, LifeInv
<1> QED
  BY <1>1, <1>2, <1>3, <1>4, LooperLife, ThreadLife, KillLife DEF Next, User

-----------------------------------------------------------------------------
(* Wake locks and the notification.                                        *)

\* A command is dispatched to an object between its onCreate and onDestroy.
LEMMA HeadLive ==
  ASSUME TypeInv, LifeInv, looper # <<>>, Head(looper).what \in Commands
  PROVE  life[Head(looper).to] = "live"
<1> DEFINE i == Head(looper).to
<1>1. /\ looper \in Seq(Message) /\ 1 \in 1..Len(looper)
      /\ Head(looper) = looper[1] /\ i \in Inst /\ i \in Nat
      /\ life[i] \in {"none", "live", "gone"}
  BY HeadTyped DEF TypeInv, TypeOK, Inst
<1>2. IsLifecycle(looper[1])  BY <1>1 DEF IsLifecycle, Lifecycle
<1>3. i <= nInst /\ life[i] # "gone"
  BY <1>1, <1>2 DEF LifeInv, QueueInv, Addressed
<1>4. ASSUME life[i] = "none" PROVE FALSE
  <2>1. Pending(looper, "CREATE", i)
    BY <1>1, <1>3, <1>4 DEF LifeInv, QueueInv, Replaced
  <2>2. PICK a \in 1..Len(looper) : looper[a].what = "CREATE" /\ looper[a].to = i
    BY <2>1 DEF Pending
  <2>3. a # 1  BY <1>1, <2>2 DEF Commands
  <2>4. 1 < a /\ IsLifecycle(looper[a])  BY <2>2, <2>3 DEF IsLifecycle, Lifecycle
  <2>5. i < looper[a].to
    BY <1>1, <1>2, <2>2, <2>4 DEF LifeInv, QueueInv, Ordered
  <2> QED  BY <1>1, <2>2, <2>5
<1> QED  BY <1>1, <1>3, <1>4

\* Giving back the wake lock of object i, hiding its log and, if it is the
\* record's, its notification.
LEMMA ReleaseLocks ==
  ASSUME TypeInv, LifeInv, LockInv, NEW i \in Inst, ReleaseWakeLock(i),
         isShowLog' = [isShowLog EXCEPT ![i] = FALSE],
         UNCHANGED life \/ life' = [life EXCEPT ![i] = "gone"],
         fg' => fg /\ rec # i /\ rec' = rec
  PROVE  LockInv'
<1>1. /\ life \in [Inst -> {"none", "live", "gone"}]
      /\ wakeLock \in [Inst -> Thread \cup {None}]
      /\ isShowLog \in [Inst -> BOOLEAN] /\ rec \in Inst \cup {None}
  BY DEF TypeInv, TypeOK
<1>2. /\ held' = held \ {wakeLock[i]}
      /\ wakeLock' = [wakeLock EXCEPT ![i] = None]
  BY DEF ReleaseWakeLock
<1>3. \A j \in Inst : wakeLock[j] # None /\ wakeLock[j] = wakeLock[i] => j = i
  BY DEF LockInv, LifeInv, QueueInv, Single
<1>4. \A j \in Inst : j # i => life'[j] = life[j]  BY <1>1
<1>5. \A j \in Inst : wakeLock'[j] # None => life'[j] = "live" /\ wakeLock'[j] \in held'
  BY <1>1, <1>2, <1>3, <1>4 DEF LockInv
<1>6. \A l \in held' : \E j \in Inst : wakeLock'[j] = l
  BY <1>1, <1>2 DEF LockInv
<1>7. \A j \in Inst : isShowLog'[j] => wakeLock'[j] # None
  BY <1>1, <1>2 DEF LockInv
<1>8. fg' => rec' # None /\ isShowLog'[rec']
  BY <1>1 DEF LockInv
<1> QED  BY <1>5, <1>6, <1>7, <1>8 DEF LockInv

\* Steps that leave the locks alone and put no notification up but log()'s.
LEMMA KeepLocks ==
  ASSUME TypeInv, LockInv, UNCHANGED <<life, wakeLock, isShowLog, held>>,
         fg' => rec' # None /\ ((fg /\ rec' = rec) \/ isShowLog[rec'])
  PROVE  LockInv'
  BY DEF LockInv

\* stopSelf leaves the record alone or takes its notification away.
LEMMA StopSelfShown ==
  ASSUME NEW i, NEW n, NEW f, NEW s, StopSelf(i, n, f, s), fg'
  PROVE  f /\ rec' = rec
  BY DEF StopSelf, BringDown

LEMMA CommandLocks ==
  ASSUME TypeInv, LifeInv, LockInv,
         OnCreate \/ OnDestroy \/ HandleForeground \/ RefuseForeground
         \/ HandleStop \/ HandleUpdate \/ HandleNull
  PROVE  LockInv'
<1> DEFINE i == Head(looper).to
<1>1. looper # <<>>
  BY DEF OnCreate, OnDestroy, HandleForeground, RefuseForeground, HandleStop,
         HandleUpdate, HandleNull, Dispatch
<1>2. /\ i \in Inst /\ i # None
      /\ life \in [Inst -> {"none", "live", "gone"}]
      /\ wakeLock \in [Inst -> Thread \cup {None}]
      /\ isShowLog \in [Inst -> BOOLEAN] /\ rec \in Inst \cup {None}
  BY <1>1, HeadTyped DEF TypeInv, TypeOK, Inst, None
<1>3. CASE OnCreate
  <2>1. life[i] = "none"
    <3>1. looper \in Seq(Message) /\ Head(looper) = looper[1] /\ 1 \in 1..Len(looper)
      BY <1>1, HeadTyped DEF TypeInv, TypeOK
    <3>2. looper[1].what = "CREATE"  BY <1>3, <3>1 DEF OnCreate, Dispatch
    <3> QED  BY <3>1, <3>2 DEF LifeInv, QueueInv, Addressed, IsLifecycle, Lifecycle
  <2>2. /\ life' = [life EXCEPT ![i] = "live"]
        /\ isShowLog' = [isShowLog EXCEPT ![i] = FALSE]
        /\ UNCHANGED <<wakeLock, held, fg, rec>>
    BY <1>3 DEF OnCreate
  <2> HIDE DEF i
  <2>3. wakeLock[i] = None /\ ~isShowLog[i]  BY <1>2, <2>1 DEF LockInv
  <2> QED  BY <1>2, <2>2, <2>3 DEF LockInv
<1>4. CASE OnDestroy
  <2>1. /\ ReleaseWakeLock(i) /\ rec' = rec
        /\ life' = [life EXCEPT ![i] = "gone"]
        /\ isShowLog' = [isShowLog EXCEPT ![i] = FALSE]
        /\ fg' = IF rec = i THEN FALSE ELSE fg
    BY <1>4 DEF OnDestroy, StopForeground
  <2> QED  BY <1>2, <2>1, ReleaseLocks
<1>5. CASE HandleForeground
  <2>1. /\ isShowLog' = [isShowLog EXCEPT ![i] = TRUE]
        /\ wakeLock' = [wakeLock EXCEPT ![i] = nThreads + 1]
        /\ held' = (held \ {wakeLock[i]}) \cup {nThreads + 1}
        /\ fg' = IF rec = i THEN TRUE ELSE fg
        /\ UNCHANGED <<life, rec>>
        /\ nThreads + 1 # None
    BY <1>5 DEF HandleForeground, StartDownload, TypeInv, TypeOK, None
  <2>2. life[i] = "live"
    BY <1>1, <1>5, HeadLive DEF HandleForeground, Dispatch, Commands
  <2> HIDE DEF i
  <2>3. \A j \in Inst : j # i => wakeLock[j] = None
    BY <1>2, <2>2 DEF LockInv, LifeInv, QueueInv, Single
  <2>4. \A j \in Inst : wakeLock'[j] # None => life'[j] = "live" /\ wakeLock'[j] \in held'
    BY <1>2, <2>1, <2>2, <2>3
  <2>5. \A l \in held' : \E j \in Inst : wakeLock'[j] = l
    <3>1. wakeLock'[i] = nThreads + 1  BY <1>2, <2>1
    <3>2. \A l \in held \ {wakeLock[i]} : FALSE
      BY <1>2, <2>3 DEF LockInv, TypeInv, TypeOK, Thread, None
    <3> QED  BY <1>2, <2>1, <3>1, <3>2
  <2>6. \A j \in Inst : isShowLog'[j] => wakeLock'[j] # None
    BY <1>2, <2>1 DEF LockInv
  <2>7. fg' => rec' # None /\ isShowLog'[rec']
    BY <1>2, <2>1 DEF LockInv
  <2> QED  BY <2>4, <2>5, <2>6, <2>7 DEF LockInv
<1>6. CASE RefuseForeground \/ HandleNull
  BY <1>6, KeepLocks DEF RefuseForeground, HandleNull, objVars, LockInv
<1>7. CASE HandleStop
  <2>1. /\ ReleaseWakeLock(i) /\ UNCHANGED life
        /\ isShowLog' = [isShowLog EXCEPT ![i] = FALSE]
        /\ StopSelf(i, Head(looper).id, StopForeground(i), Handled)
    BY <1>7 DEF HandleStop
  <2>2. fg' => fg /\ rec # i /\ rec' = rec
    <3>1. fg' => StopForeground(i) /\ rec' = rec
      BY <2>1, StopSelfShown, Zenon
    <3>2. StopForeground(i) => fg /\ rec # i  BY DEF StopForeground
    <3> QED  BY <3>1, <3>2
  <2> QED  BY <1>2, <2>1, <2>2, ReleaseLocks
<1>8. CASE HandleUpdate
  <2>1. UNCHANGED <<life, wakeLock, isShowLog, held>>
    BY <1>8 DEF HandleUpdate, objVars
  <2>2. fg' => fg /\ rec' = rec
    <3>1. CASE downloadThread[i] = None
      BY <1>8, <3>1, StopSelfShown DEF HandleUpdate
    <3>2. CASE downloadThread[i] # None
      BY <1>8, <3>2 DEF HandleUpdate
    <3> QED  BY <3>1, <3>2
  <2> QED  BY <2>1, <2>2, KeepLocks DEF LockInv
<1> QED  BY <1>3, <1>4, <1>5, <1>6, <1>7, <1>8

LEMMA ReportHandlerLocks ==
  ASSUME TypeInv, LifeInv, LockInv,
         HandleStartThread \/ HandleDuration \/ HandleProgress \/ CloseRetry \/ CloseFinish
  PROVE  LockInv'
<1> DEFINE i == Head(looper).to
<1>1. looper # <<>>
  BY DEF HandleStartThread, HandleDuration, HandleProgress, CloseRetry, CloseFinish, Dispatch
<1>2. i \in Inst /\ i # None
  BY <1>1, HeadTyped DEF TypeInv, TypeOK, Inst, None
<1>3. CASE HandleStartThread \/ HandleDuration \/ HandleProgress
  <2>1. UNCHANGED <<life, wakeLock, isShowLog, held, rec>> /\ fg' \in {fg, Log(i)}
    BY <1>3 DEF HandleStartThread, HandleDuration, HandleProgress, objVars
  <2>2. fg' => rec' # None /\ ((fg /\ rec' = rec) \/ isShowLog[rec'])
    BY <1>2, <2>1 DEF Log, LockInv
  <2> QED  BY <2>1, <2>2, KeepLocks
<1>4. CASE CloseRetry
  BY <1>4, KeepLocks DEF CloseRetry, LockInv
<1>5. CASE CloseFinish
  <2>1. /\ ReleaseWakeLock(i) /\ UNCHANGED life
        /\ isShowLog' = [isShowLog EXCEPT ![i] = FALSE]
        /\ StopSelf(i, Head(looper).id, StopForeground(i), starts)
    BY <1>5 DEF CloseFinish
  <2>2. fg' => fg /\ rec # i /\ rec' = rec
    <3>1. fg' => StopForeground(i) /\ rec' = rec
      BY <2>1, StopSelfShown, Zenon
    <3>2. StopForeground(i) => fg /\ rec # i  BY DEF StopForeground
    <3> QED  BY <3>1, <3>2
  <2> QED  BY <1>2, <2>1, <2>2, ReleaseLocks
<1> QED  BY <1>3, <1>4, <1>5

LEMMA LockStep == TypeInv /\ LifeInv /\ LockInv /\ [Next]_vars => LockInv'
<1> SUFFICES ASSUME TypeInv, LifeInv, LockInv, [Next]_vars PROVE LockInv'
  OBVIOUS
<1>1. ASSUME NEW c, StartService(c), UNCHANGED <<life, wakeLock, isShowLog, held, fg>>
      PROVE  LockInv'
  <2>1. rec # None => rec' = rec  BY <1>1 DEF StartService
  <2> QED  BY <1>1, <2>1, KeepLocks DEF LockInv
<1>2. CASE User
  BY <1>1, <1>2 DEF User, ClickStart, ClickStopOrUpdate
<1>3. CASE ClickStopService
  <2>1. UNCHANGED <<life, wakeLock, isShowLog, held>> /\ (fg' => fg /\ rec' = rec)
    BY <1>3 DEF ClickStopService, BringDown, objVars
  <2> QED  BY <2>1, KeepLocks DEF LockInv
<1>4. CASE ProcessKill
  BY <1>4 DEF ProcessKill, ProcessDeath, LockInv
<1>5. ASSUME NEW t \in Thread, ThreadStep(t) \/ LibraryReport(t)
      PROVE  LockInv'
  BY <1>5, KeepLocks DEF ThreadStep, RunBegin, RunPostStart, LibraryReturn, RunEnd,
     RunPostClose, LibraryReport, amVars, amRest, objVars, LockInv
<1>6. CASE UNCHANGED vars
  BY <1>6, KeepLocks DEF vars, amVars, objVars, LockInv
<1> QED
  BY <1>2, <1>3, <1>4, <1>5, <1>6, CommandLocks, ReportHandlerLocks DEF Next, Looper

-----------------------------------------------------------------------------
(* The theorems.                                                           *)

LEMMA IInvStep == IInv /\ [Next]_vars => IInv'
  BY TypeStep, LifeStep, LockStep DEF IInv

\* The inductive invariant holds in every reachable state.
THEOREM Invariance == Spec => []IInv
  BY InitInv, IInvStep, PTL DEF Spec

\* Every variable keeps its type, whatever the user, the threads and the
\* activity manager do (HBKDownloadRTMPService, RTMPDownloadThread).
THEOREM TypeCorrect == Spec => []TypeOK
<1>1. IInv => TypeOK  BY DEF IInv, TypeInv
<1> QED  BY <1>1, Invariance, PTL

\* No wake lock is lost: a lock that is acquired is in the field of an object
\* whose onDestroy is still to come.
THEOREM WakeLockIsOwned == Spec => []WakeLockOwned
<1>1. IInv => WakeLockOwned
  BY DEF IInv, LockInv, WakeLockOwned, TypeInv, TypeOK, Thread, None
<1> QED  BY <1>1, Invariance, PTL

\* A shown notification stands for a held wake lock.
THEOREM NotificationIsBacked == Spec => []NotificationBacked
<1>1. IInv => NotificationBacked
  BY DEF IInv, LockInv, NotificationBacked, TypeInv, TypeOK
<1> QED  BY <1>1, Invariance, PTL

\* A start command is only refused while the thread that has the slot is in
\* its run method before its setStop(true).
THEOREM RefusedOnlyByRunning == Spec => []RefusedOnlyWhileRunning
<1>1. IInv => RefusedOnlyWhileRunning
  BY DEF IInv, TypeInv, TypeOK, ThreadInv, RefusedOnlyWhileRunning, Free, Active
<1> QED  BY <1>1, Invariance, PTL

=============================================================================
