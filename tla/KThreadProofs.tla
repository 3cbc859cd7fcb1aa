--------------------------- MODULE KThreadProofs ---------------------------
(***************************************************************************)
(* Proofs about KThread, for every set of threads, processes and locks,    *)
(* every slice length and every nesting bound: first the types, the locks  *)
(* and the interrupt flag, then the lists.                                 *)
(***************************************************************************)
EXTENDS KThread, Integers, TLAPS

----------------------------------------------------------------------------
(* Lists *)

Queues == [QId -> Seq(Thread)]

\* list_remove yields a list of threads again.
LEMMA UnlinkType ==
    ASSUME NEW s \in Seq(Thread), NEW t
    PROVE  Unlink(s, t) \in Seq(Thread)
<1>1. CASE ~In(t, s)
  BY <1>1 DEF Unlink
<1>2. CASE In(t, s)
  <2> DEFINE k == CHOOSE i \in DOMAIN s : s[i] = t
             r == [j \in 1..(Len(s) - 1) |-> IF j < k THEN s[j] ELSE s[j + 1]]
  <2>1. k \in 1..Len(s) /\ Len(s) \in Nat /\ DOMAIN s = 1..Len(s)
    BY <1>2 DEF In
  <2>2. Len(s) - 1 \in Nat
    BY <2>1
  <2>3. \A j \in 1..(Len(s) - 1) : r[j] \in Thread
    BY <2>1
  <2>4. r \in [1..(Len(s) - 1) -> Thread]
    BY <2>3
  <2>5. r \in Seq(Thread)
    BY <2>2, <2>4
  <2> QED
    BY <1>2, <2>5 DEF Unlink
<1> QED
  BY <1>1, <1>2

LEMMA ListTypes ==
    ASSUME NEW q \in Queues, NEW x \in QId, NEW t \in Thread
    PROVE  /\ list_append(q, x, t) \in Queues
           /\ list_push(q, x, t) \in Queues
           /\ list_remove(q, t) \in Queues
           /\ q[x] # <<>> => /\ Head(q[x]) \in Thread
                             /\ [q EXCEPT ![x] = Tail(@)] \in Queues
<1>1. q[x] \in Seq(Thread)
  BY DEF Queues
<1>2. Append(q[x], t) \in Seq(Thread) /\ <<t>> \o q[x] \in Seq(Thread)
  BY <1>1
<1>3. q[x] # <<>> => Head(q[x]) \in Thread /\ Tail(q[x]) \in Seq(Thread)
  BY <1>1
<1>4. list_remove(q, t) \in Queues
  BY UnlinkType DEF list_remove, Queues
<1> QED
  BY <1>2, <1>3, <1>4 DEF list_append, list_push, Queues

LEMMA InIndex ==
    ASSUME NEW s \in Seq(Thread), NEW u
    PROVE  In(u, s) <=> \E i \in 1..Len(s) : s[i] = u
BY DEF In

\* Removing another thread, adding one, or taking the head of a list leaves
\* the rest of the list's members in place.
LEMMA UnlinkKeeps ==
    ASSUME NEW s \in Seq(Thread), NEW t, NEW u, In(u, s), u # t
    PROVE  In(u, Unlink(s, t))
<1>1. CASE ~In(t, s)
  BY <1>1 DEF Unlink
<1>2. CASE In(t, s)
  <2> DEFINE k == CHOOSE i \in DOMAIN s : s[i] = t
             r == [j \in 1..(Len(s) - 1) |-> IF j < k THEN s[j] ELSE s[j + 1]]
  <2>1. k \in 1..Len(s) /\ Len(s) \in Nat /\ DOMAIN s = 1..Len(s) /\ s[k] = t
    BY <1>2 DEF In
  <2>2. PICK i \in 1..Len(s) : s[i] = u
    BY <2>1 DEF In
  <2>3. i # k
    BY <2>1, <2>2
  <2>6. Unlink(s, t) = r
    BY <1>2 DEF Unlink
  <2>7. In(u, r) <=> \E j \in 1..(Len(s) - 1) : r[j] = u
    BY DEF In
  <2>4. CASE i < k
    <3>1. i \in 1..(Len(s) - 1) /\ r[i] = u
      BY <2>1, <2>2, <2>4
    <3> QED
      BY <1>2, <3>1, <2>6, <2>7
  <2>5. CASE i > k
    <3>1. i - 1 \in 1..(Len(s) - 1) /\ ~(i - 1 < k) /\ (i - 1) + 1 = i
      BY <2>1, <2>2, <2>5
    <3>2. r[i - 1] = u
      BY <2>2, <3>1
    <3> QED
      BY <1>2, <3>1, <3>2, <2>6, <2>7
  <2> QED
    BY <2>1, <2>2, <2>3, <2>4, <2>5
<1> QED
  BY <1>1, <1>2

LEMMA AddKeeps ==
    ASSUME NEW s \in Seq(Thread), NEW t \in Thread, NEW u
    PROVE  /\ In(u, Append(s, t)) <=> (In(u, s) \/ u = t)
           /\ In(u, <<t>> \o s) <=> (In(u, s) \/ u = t)
<1> DEFINE a == Append(s, t)
           b == <<t>> \o s
<1>1. /\ a \in Seq(Thread) /\ Len(a) = Len(s) + 1 /\ Len(s) \in Nat
      /\ \A i \in 1..Len(s) : a[i] = s[i]
      /\ a[Len(s) + 1] = t
  OBVIOUS
<1>2. /\ b \in Seq(Thread) /\ Len(b) = Len(s) + 1 /\ Len(s) \in Nat
      /\ \A i \in 1..Len(s) : b[i + 1] = s[i]
      /\ b[1] = t
  OBVIOUS
<1> HIDE DEF a, b
<1>3. In(u, s) <=> \E i \in 1..Len(s) : s[i] = u
  BY InIndex
<1>4. In(u, a) <=> \E i \in 1..(Len(s) + 1) : a[i] = u
  BY <1>1, InIndex
<1>5. In(u, b) <=> \E i \in 1..(Len(s) + 1) : b[i] = u
  BY <1>2, InIndex
<1>6. In(u, a) <=> (In(u, s) \/ u = t)
  BY <1>1, <1>3, <1>4
<1>7. In(u, b) => (In(u, s) \/ u = t)
  <2> SUFFICES ASSUME NEW i \in 1..(Len(s) + 1), b[i] = u, u # t
               PROVE  \E j \in 1..Len(s) : s[j] = u
    BY <1>3, <1>5
  <2>1. i - 1 \in 1..Len(s) /\ (i - 1) + 1 = i
    BY <1>2
  <2> QED
    BY <1>2, <2>1
<1>8. ASSUME NEW i \in 1..Len(s), s[i] = u PROVE In(u, b)
  <2>1. i + 1 \in 1..(Len(s) + 1) /\ b[i + 1] = u
    BY <1>2, <1>8
  <2> QED
    BY <1>5, <2>1
<1>9. u = t => In(u, b)
  <2>1. 1 \in 1..(Len(s) + 1)
    BY <1>2
  <2> QED
    BY <1>2, <1>5, <2>1
<1> QED
  BY <1>3, <1>6, <1>7, <1>8, <1>9 DEF a, b

LEMMA TailKeeps ==
    ASSUME NEW s \in Seq(Thread), s # <<>>, NEW u
    PROVE  /\ In(u, s) /\ u # Head(s) => In(u, Tail(s))
           /\ In(u, Tail(s)) => In(u, s)
           /\ In(Head(s), s)
<1> DEFINE r == Tail(s)
<1>1. /\ r \in Seq(Thread) /\ Len(r) = Len(s) - 1 /\ Len(s) \in Nat
      /\ Len(s) > 0 /\ Head(s) = s[1]
      /\ \A i \in 1..(Len(s) - 1) : r[i] = s[i + 1]
  OBVIOUS
<1> HIDE DEF r
<1>2. In(u, s) <=> \E i \in 1..Len(s) : s[i] = u
  BY InIndex
<1>3. In(u, r) <=> \E i \in 1..(Len(s) - 1) : r[i] = u
  BY <1>1, InIndex
<1>4. In(Head(s), s)
  <2>1. 1 \in 1..Len(s)
    BY <1>1
  <2> QED
    BY <1>1, <2>1, InIndex
<1>5. ASSUME NEW i \in 1..Len(s), s[i] = u, u # Head(s) PROVE In(u, r)
  <2>1. i # 1
    BY <1>1, <1>5
  <2>2. i - 1 \in 1..(Len(s) - 1) /\ (i - 1) + 1 = i
    BY <1>1, <2>1
  <2> QED
    BY <1>1, <1>3, <1>5, <2>2
<1>6. ASSUME NEW i \in 1..(Len(s) - 1), r[i] = u PROVE In(u, s)
  <2>1. i + 1 \in 1..Len(s) /\ s[i + 1] = u
    BY <1>1, <1>6
  <2> QED
    BY <1>2, <2>1
<1> QED
  BY <1>2, <1>3, <1>4, <1>5, <1>6 DEF r
----------------------------------------------------------------------------
(* schedule() always finds a thread: if no ready list has one, idle is not *)
(* marked READY, so thread_unblock_idle puts it on the third list.  This   *)
(* is what keeps list_pop from returning the tail of an empty list.        *)

IdleListed(q, st) == st[Idle] = "READY" => \E p \in Prio : In(Idle, q[p])

LEMMA PrioQId == Prio \subseteq QId /\ Lock \subseteq QId /\ Thread \subseteq QId
BY DEF QId, Sema

LEMMA SchedulePicks ==
    ASSUME NEW q \in Queues, NEW st \in [Thread -> Status], IdleListed(q, st)
    PROVE  /\ QueueWithIdle(q, st) \in Queues
           /\ StatusWithIdle(q, st) \in [Thread -> Status]
           /\ PickLevel(QueueWithIdle(q, st)) \in Prio
           /\ QueueWithIdle(q, st)[PickLevel(QueueWithIdle(q, st))] # <<>>
           /\ IdleNeeded(q, st) => Picked(QueueWithIdle(q, st)) = Idle
<1> USE PrioQId, ThreadAssumption
<1> DEFINE q1 == QueueWithIdle(q, st)
<1>1. THIRD_PRIO \in QId /\ Idle \in Thread
  BY DEF Prio
<1>2. q1 \in Queues
  BY <1>1, ListTypes DEF QueueWithIdle
<1>3. StatusWithIdle(q, st) \in [Thread -> Status]
  BY DEF StatusWithIdle, Status
<1>4. PickLevel(q1) \in Prio
  BY DEF PickLevel, Prio
<1>5. CASE IdleNeeded(q, st)
  <2>1. \A p \in Prio : q[p] = <<>>
    BY <1>5 DEF IdleNeeded, ReadyEmpty
  <2>2. q[THIRD_PRIO] = <<>> /\ q[FIRST_PRIO] = <<>> /\ q[SECOND_PRIO] = <<>>
    BY <2>1 DEF Prio
  <2>3. <<Idle>> \o <<>> = <<Idle>>
    OBVIOUS
  <2>4. q1 = [q EXCEPT ![THIRD_PRIO] = <<Idle>>]
    BY <1>5, <2>2, <2>3 DEF QueueWithIdle, list_push
  <2>5. /\ q1[THIRD_PRIO] = <<Idle>>
        /\ q1[FIRST_PRIO] = <<>>
        /\ q1[SECOND_PRIO] = <<>>
    BY <1>1, <2>2, <2>4 DEF Queues, FIRST_PRIO, SECOND_PRIO, THIRD_PRIO
  <2>6. PickLevel(q1) = THIRD_PRIO
    BY <2>5 DEF PickLevel
  <2>7. <<Idle>> # <<>> /\ Head(<<Idle>>) = Idle
    OBVIOUS
  <2> QED
    BY <1>2, <1>3, <1>4, <2>5, <2>6, <2>7 DEF Picked
<1>6. CASE ~IdleNeeded(q, st)
  <2>1. q1 = q
    BY <1>6 DEF QueueWithIdle
  <2>2. ~ReadyEmpty(q)
    <3>1. CASE st[Idle] # "READY"
      BY <1>6, <3>1 DEF IdleNeeded
    <3>2. CASE st[Idle] = "READY"
      <4>1. PICK p \in Prio : In(Idle, q[p])
        BY <3>2 DEF IdleListed
      <4>2. q[p] # <<>>
        BY <4>1 DEF In
      <4> QED
        BY <4>2 DEF ReadyEmpty
    <3> QED
      BY <3>1, <3>2
  <2>3. q[PickLevel(q)] # <<>>
    BY <2>2 DEF ReadyEmpty, PickLevel, Prio
  <2> QED
    BY <1>2, <1>3, <1>4, <1>6, <2>1, <2>3
<1> QED
  BY <1>5, <1>6
\* Whatever state its caller has built up, schedule() leaves well-typed
\* scheduler data and a READY idle thread on a ready list.
LEMMA ScheduleType ==
    ASSUME NEW q \in Queues, NEW st \in [Thread -> Status],
           NEW pr \in [Thread -> Prio], NEW tk \in [Thread -> 0..UINT32_MAX],
           NEW dn \in [Thread -> Sema \cup {NULL}],
           NEW os \in [Thread -> BOOLEAN],
           cur \in Thread, IdleListed(q, st), schedule(q, st, pr, tk, dn, os)
    PROVE  /\ cur' \in Thread
           /\ queue' \in Queues
           /\ status' \in [Thread -> Status]
           /\ priority' \in [Thread -> Prio]
           /\ ticks' \in [Thread -> 0..UINT32_MAX]
           /\ downing' = dn
           /\ old_status' = os
           /\ intr' = IF dn[cur'] = NULL THEN os[cur'] ELSE FALSE
           /\ IdleListed(queue', status')
           /\ status'[cur'] = "RUNNING"
<1> USE PrioQId, ThreadAssumption
<1> DEFINE q1 == QueueWithIdle(q, st)
           st1 == StatusWithIdle(q, st)
           lvl == LevelAfter(pr, tk)
           q2 == Popped(q1)
<1>1. /\ q1 \in Queues
      /\ st1 \in [Thread -> Status]
      /\ PickLevel(q1) \in Prio
      /\ q1[PickLevel(q1)] # <<>>
      /\ IdleNeeded(q, st) => Picked(q1) = Idle
  BY SchedulePicks
<1>2. /\ cur' = Picked(q1)
      /\ queue' = IF st1[cur] = "RUNNING" THEN list_append(q2, lvl, cur)
                  ELSE IF st1[cur] = "DIED" THEN list_remove(q2, cur)
                  ELSE q2
      /\ status' = [st1 EXCEPT ![cur] = IF st1[cur] = "RUNNING" THEN "READY" ELSE @,
                               ![Picked(q1)] = "RUNNING"]
      /\ priority' = [pr EXCEPT ![cur] =
                          IF st1[cur] = "RUNNING" THEN lvl
                          ELSE IF st1[cur] = "BLOCKED" THEN THIRD_PRIO ELSE @]
      /\ ticks' = [tk EXCEPT ![cur] =
                          IF st1[cur] = "RUNNING" /\ SlicedOut(tk) THEN Slice[lvl] ELSE @]
      /\ downing' = dn
      /\ old_status' = os
      /\ intr' = IF dn[Picked(q1)] = NULL THEN os[Picked(q1)] ELSE FALSE
  BY DEF schedule
<1>3. lvl \in Prio
  BY DEF LevelAfter, Demoted, Prio
<1>4. Picked(q1) \in Thread /\ q2 \in Queues
  BY <1>1, ListTypes DEF Picked, Popped
<1>5. st1[Idle] = "READY" /\ Picked(q1) # Idle => \E p \in Prio : In(Idle, q2[p])
  <2> SUFFICES ASSUME st1[Idle] = "READY", Picked(q1) # Idle
               PROVE  \E p \in Prio : In(Idle, q2[p])
    OBVIOUS
  <2>1. ~IdleNeeded(q, st) /\ q1 = q /\ st1 = st
    BY <1>1 DEF QueueWithIdle, StatusWithIdle
  <2>2. PICK p \in Prio : In(Idle, q1[p])
    BY <2>1 DEF IdleListed
  <2>3. CASE p = PickLevel(q1)
    <3>1. q1[p] \in Seq(Thread) /\ q1[p] # <<>> /\ Idle # Head(q1[p])
      BY <1>1, <2>3 DEF Picked, Queues
    <3>2. In(Idle, Tail(q1[p]))
      BY <2>2, <3>1, TailKeeps
    <3>3. q2[p] = Tail(q1[p])
      BY <1>1, <2>3 DEF Popped, Queues
    <3> QED
      BY <3>2, <3>3
  <2>4. CASE p # PickLevel(q1)
    <3>1. q2[p] = q1[p]
      BY <1>1, <2>4 DEF Popped, Queues
    <3> QED
      BY <2>2, <3>1
  <2> QED
    BY <2>3, <2>4
<1> HIDE DEF q1, st1, lvl, q2
<1>6. cur' \in Thread
  BY <1>2, <1>4
<1>7. queue' \in Queues
  BY <1>2, <1>3, <1>4, ListTypes
<1>8. status' \in [Thread -> Status]
  BY <1>1, <1>2, <1>4 DEF Status
<1>9. priority' \in [Thread -> Prio]
  BY <1>2, <1>3 DEF Prio
<1>10. ticks' \in [Thread -> 0..UINT32_MAX]
  <2>1. Slice[lvl] \in 0..UINT32_MAX
    BY <1>3, NumberAssumption
  <2> QED
    BY <1>2, <2>1
<1>11. IdleListed(queue', status')
  <2> SUFFICES ASSUME status'[Idle] = "READY"
               PROVE  \E p \in Prio : In(Idle, queue'[p])
    BY DEF IdleListed
  <2>1. Picked(q1) # Idle
    BY <1>1, <1>2, <1>4
  <2>2. CASE st1[cur] = "RUNNING" /\ cur = Idle
    <3>1. queue'[lvl] = Append(q2[lvl], cur) /\ q2[lvl] \in Seq(Thread)
      BY <1>2, <1>3, <1>4, <2>2 DEF list_append, Queues
    <3>2. In(Idle, Append(q2[lvl], cur))
      BY <3>1, <2>2, AddKeeps
    <3>3. In(Idle, queue'[lvl])
      BY <3>1, <3>2
    <3> QED
      BY <1>3, <3>3
  <2>3. CASE ~(st1[cur] = "RUNNING" /\ cur = Idle)
    <3>1. st1[Idle] = "READY"
      BY <1>1, <1>2, <1>4, <2>1, <2>3
    <3>2. PICK p \in Prio : In(Idle, q2[p])
      BY <1>5, <2>1, <3>1
    <3>3. q2[p] \in Seq(Thread) /\ p \in QId
      BY <1>4 DEF Queues
    <3>4. CASE st1[cur] = "RUNNING"
      <4>1. queue'[p] = q2[p] \/ queue'[p] = Append(q2[p], cur)
        BY <1>2, <1>3, <1>4, <3>3, <3>4 DEF list_append, Queues
      <4>2. In(Idle, Append(q2[p], cur))
        BY <3>2, <3>3, AddKeeps
      <4> QED
        BY <3>2, <4>1, <4>2
    <3>5. CASE st1[cur] = "DIED"
      <4>1. queue'[p] = Unlink(q2[p], cur)
        BY <1>2, <3>3, <3>5 DEF list_remove
      <4>2. cur # Idle
        BY <3>1, <3>5
      <4>3. In(Idle, queue'[p])
        BY <3>2, <3>3, <4>1, <4>2, UnlinkKeeps
      <4> QED
        BY <4>3
    <3>6. CASE st1[cur] # "RUNNING" /\ st1[cur] # "DIED"
      BY <1>2, <3>2, <3>6
    <3> QED
      BY <3>4, <3>5, <3>6
  <2> QED
    BY <2>2, <2>3
<1>12. status'[cur'] = "RUNNING"
  BY <1>1, <1>2, <1>4
<1> QED
  BY <1>2, <1>6, <1>7, <1>8, <1>9, <1>10, <1>11, <1>12
----------------------------------------------------------------------------
(* The inductive invariant *)

\* The flag a thread will resume with is off only if it was off when the
\* thread called the kernel, which only a leak explains.
IntrInv ==
    /\ IntrRestored
    /\ downing[cur] # NULL => ~intr
    /\ \A t \in Thread : (t # cur \/ downing[t] # NULL) /\ ~old_status[t] => leaked[t]

SchedInv ==
    /\ cur \in Thread
    /\ status \in [Thread -> Status]
    /\ priority \in [Thread -> Prio]
    /\ ticks \in [Thread -> 0..UINT32_MAX]
    /\ queue \in Queues
    /\ downing \in [Thread -> Sema \cup {NULL}]
    /\ intr \in BOOLEAN
    /\ old_status \in [Thread -> BOOLEAN]
    /\ leaked \in [Thread -> BOOLEAN]
    /\ IntrInv
    /\ IdleListed(queue, status)
    /\ downing[Idle] = NULL
    /\ status[cur] \notin {"NONE", "DIED"}

\* LockInv is what keeps the counters within their types: a first acquire
\* starts from depth 0, a nested one stops at MAX_NEST.
SyncInv ==
    /\ parent \in [Thread -> Thread \cup {NULL}]
    /\ value \in [Sema -> 0..(SEMA_MOD - 1)]
    /\ holder \in [Lock -> Thread \cup {NULL}]
    /\ holder_repeat_nr \in [Lock -> 0..MAX_NEST]
    /\ depth \in [Thread -> [Lock -> 0..MAX_NEST]]
    /\ LockInv

IInv == SchedInv /\ SyncInv

LEMMA IInvTypeOK == IInv => TypeOK
BY DEF IInv, SchedInv, SyncInv, TypeOK, Queues

\* The states reached by thread_init satisfy the invariant.
LEMMA InitIInv == Init => IInv
<1> SUFFICES ASSUME Init PROVE IInv
  OBVIOUS
<1> USE ThreadAssumption, QueueAssumption, NumberAssumption, PrioQId
<1>1. TypeOK
  <2>1. queue \in [QId -> Seq(Thread)]
    <3>1. <<Idle>> \in Seq(Thread) /\ <<>> \in Seq(Thread)
      OBVIOUS
    <3> QED
      BY <3>1 DEF Init
  <2>2. ticks \in [Thread -> 0..UINT32_MAX]
    <3>1. PrioTicks[FIRST_PRIO] \in 0..UINT32_MAX /\ PrioTicks[THIRD_PRIO] \in 0..UINT32_MAX
      BY DEF Prio
    <3> QED
      BY <3>1 DEF Init
  <2>3. value \in [Sema -> 0..(SEMA_MOD - 1)]
    BY DEF Init
  <2>4. status \in [Thread -> Status] /\ priority \in [Thread -> Prio]
    BY DEF Init, Status, Prio
  <2>5. /\ holder \in [Lock -> Thread \cup {NULL}]
        /\ holder_repeat_nr \in [Lock -> 0..MAX_NEST]
        /\ depth \in [Thread -> [Lock -> 0..MAX_NEST]]
    BY DEF Init
  <2> QED
    BY <2>1, <2>2, <2>3, <2>4, <2>5 DEF Init, TypeOK
<1>2. LockInv
  BY DEF Init, LockInv, Sema
<1>3. IntrInv
  BY DEF Init, IntrInv, IntrRestored
<1>4. IdleListed(queue, status)
  <2>1. queue[THIRD_PRIO] = <<Idle>> /\ THIRD_PRIO \in Prio
    BY DEF Init, Prio
  <2>2. In(Idle, <<Idle>>)
    BY DEF In
  <2> QED
    BY <2>1, <2>2 DEF IdleListed
<1>5. downing[Idle] = NULL /\ status[cur] = "RUNNING"
  BY DEF Init
<1> QED
  BY <1>1, <1>2, <1>3, <1>4, <1>5 DEF IInv, SchedInv, SyncInv, TypeOK, Queues
\* An action that ends in schedule() keeps the scheduler's part of the
\* invariant if the state it hands over is sound.
LEMMA ScheduleInv ==
    ASSUME SchedInv,
           NEW q \in Queues, NEW st \in [Thread -> Status],
           NEW pr \in [Thread -> Prio], NEW tk \in [Thread -> 0..UINT32_MAX],
           NEW dn \in [Thread -> Sema \cup {NULL}],
           NEW os \in [Thread -> BOOLEAN],
           IdleListed(q, st), dn[Idle] = NULL,
           \A t \in Thread : ~os[t] => leaked[t],
           schedule(q, st, pr, tk, dn, os),
           leaked' = leaked
    PROVE  SchedInv'
<1>1. cur \in Thread /\ leaked \in [Thread -> BOOLEAN]
  BY DEF SchedInv
<1>2. /\ cur' \in Thread
      /\ queue' \in Queues
      /\ status' \in [Thread -> Status]
      /\ priority' \in [Thread -> Prio]
      /\ ticks' \in [Thread -> 0..UINT32_MAX]
      /\ downing' = dn
      /\ old_status' = os
      /\ intr' = IF dn[cur'] = NULL THEN os[cur'] ELSE FALSE
      /\ IdleListed(queue', status')
      /\ status'[cur'] = "RUNNING"
  BY <1>1, ScheduleType
<1>3. intr' \in BOOLEAN
  BY <1>2
<1>4. IntrInv'
  BY <1>2 DEF IntrInv, IntrRestored
<1>5. Queues' = Queues /\ IdleListed(queue, status)' = IdleListed(queue', status')
  BY DEF Queues, IdleListed, In
<1> QED
  BY <1>1, <1>2, <1>3, <1>4, <1>5 DEF SchedInv

\* The flag saved at a kernel call is off only for a thread that leaked it.
LEMMA SavedFlags ==
    ASSUME SchedInv
    PROVE  /\ SavedIntr \in [Thread -> BOOLEAN]
           /\ downing[cur] = NULL \/ intr => \A t \in Thread : ~SavedIntr[t] => leaked[t]
           /\ downing[cur] # NULL => \A t \in Thread : ~old_status[t] => leaked[t]
<1>1. SavedIntr \in [Thread -> BOOLEAN]
  BY DEF SchedInv, SavedIntr
<1>2. ASSUME downing[cur] = NULL \/ intr, NEW t \in Thread, ~SavedIntr[t]
      PROVE  leaked[t]
  <2>1. CASE t = cur
    <3>1. SavedIntr[t] = intr
      BY <2>1 DEF SchedInv, SavedIntr
    <3> QED
      BY <1>2, <2>1, <3>1 DEF SchedInv, IntrInv, IntrRestored
  <2>2. CASE t # cur
    <3>1. SavedIntr[t] = old_status[t]
      BY <2>2 DEF SchedInv, SavedIntr
    <3> QED
      BY <1>2, <2>2, <3>1 DEF SchedInv, IntrInv
  <2> QED
    BY <2>1, <2>2
<1>3. ASSUME downing[cur] # NULL, NEW t \in Thread, ~old_status[t]
      PROVE  leaked[t]
  BY <1>3 DEF SchedInv, IntrInv
<1> QED
  BY <1>1, <1>2, <1>3
\* The list operations leave idle where it is on the ready lists.
LEMMA IdleKept ==
    ASSUME NEW q \in Queues, NEW x \in QId, NEW t \in Thread,
           NEW p \in Prio, In(Idle, q[p])
    PROVE  /\ In(Idle, list_append(q, x, t)[p])
           /\ In(Idle, list_push(q, x, t)[p])
           /\ t # Idle => In(Idle, list_remove(q, t)[p])
           /\ x \notin Prio => In(Idle, [q EXCEPT ![x] = Tail(@)][p])
<1>1. q[p] \in Seq(Thread) /\ p \in QId
  BY PrioQId DEF Queues
<1>2. In(Idle, Append(q[p], t)) /\ In(Idle, <<t>> \o q[p])
  BY <1>1, AddKeeps
<1>3. In(Idle, list_append(q, x, t)[p])
  <2>1. list_append(q, x, t)[p] \in {q[p], Append(q[p], t)}
    BY <1>1 DEF list_append, Queues
  <2> QED
    BY <1>2, <2>1
<1>4. In(Idle, list_push(q, x, t)[p])
  <2>1. list_push(q, x, t)[p] \in {q[p], <<t>> \o q[p]}
    BY <1>1 DEF list_push, Queues
  <2> QED
    BY <1>2, <2>1
<1>5. ASSUME t # Idle PROVE In(Idle, list_remove(q, t)[p])
  <2>1. list_remove(q, t)[p] = Unlink(q[p], t)
    BY <1>1 DEF list_remove
  <2> QED
    BY <1>1, <1>5, <2>1, UnlinkKeeps
<1>6. x \notin Prio => [q EXCEPT ![x] = Tail(@)][p] = q[p]
  BY <1>1 DEF Queues
<1> QED
  BY <1>3, <1>4, <1>5, <1>6

\* The same for what an action does to the lists and to status together.
LEMMA IdleListedKept ==
    ASSUME NEW q \in Queues, NEW x \in QId, NEW t \in Thread,
           NEW st, NEW st2, IdleListed(q, st),
           st2[Idle] = "READY" => st[Idle] = "READY"
    PROVE  /\ IdleListed(q, st2)
           /\ IdleListed(list_append(q, x, t), st2)
           /\ IdleListed(list_push(q, x, t), st2)
           /\ t # Idle => IdleListed(list_remove(q, t), st2)
           /\ x \notin Prio => IdleListed([q EXCEPT ![x] = Tail(@)], st2)
<1>1. CASE st2[Idle] # "READY"
  BY <1>1 DEF IdleListed
<1>2. CASE st2[Idle] = "READY"
  <2>1. PICK p \in Prio : In(Idle, q[p])
    BY <1>2 DEF IdleListed
  <2>2. /\ In(Idle, list_append(q, x, t)[p])
        /\ In(Idle, list_push(q, x, t)[p])
        /\ t # Idle => In(Idle, list_remove(q, t)[p])
        /\ x \notin Prio => In(Idle, [q EXCEPT ![x] = Tail(@)][p])
    BY <2>1, IdleKept
  <2> QED
    BY <2>1, <2>2 DEF IdleListed
<1> QED
  BY <1>1, <1>2

\* thread_unblock lists the thread it makes READY.
LEMMA UnblockedListed ==
    ASSUME NEW q \in Queues, NEW t \in Thread, NEW st \in [Thread -> Status],
           IdleListed(q, st)
    PROVE  /\ list_push(list_remove(q, t), FIRST_PRIO, t) \in Queues
           /\ list_push(q, FIRST_PRIO, t) \in Queues
           /\ IdleListed(list_push(list_remove(q, t), FIRST_PRIO, t),
                         [st EXCEPT ![t] = "READY"])
           /\ IdleListed(list_push(q, FIRST_PRIO, t), [st EXCEPT ![t] = "READY"])
<1> DEFINE r == list_remove(q, t)
           st2 == [st EXCEPT ![t] = "READY"]
<1>1. FIRST_PRIO \in QId /\ FIRST_PRIO \in Prio
  BY PrioQId DEF Prio
<1>2. r \in Queues
  BY <1>1, ListTypes
<1>3. list_push(r, FIRST_PRIO, t) \in Queues /\ list_push(q, FIRST_PRIO, t) \in Queues
  BY <1>1, <1>2, ListTypes
<1>4. CASE t = Idle
  <2>1. /\ In(t, <<t>> \o r[FIRST_PRIO])
        /\ In(t, <<t>> \o q[FIRST_PRIO])
    BY <1>1, <1>2, AddKeeps DEF Queues
  <2>2. /\ list_push(r, FIRST_PRIO, t)[FIRST_PRIO] = <<t>> \o r[FIRST_PRIO]
        /\ list_push(q, FIRST_PRIO, t)[FIRST_PRIO] = <<t>> \o q[FIRST_PRIO]
    BY <1>1, <1>2 DEF list_push, Queues
  <2> QED
    BY <1>1, <1>3, <1>4, <2>1, <2>2 DEF IdleListed
<1>5. CASE t # Idle
  <2>1. st2[Idle] = st[Idle]
    BY <1>5
  <2>2. IdleListed(r, st2) /\ IdleListed(list_push(q, FIRST_PRIO, t), st2)
    BY <1>1, <1>5, <2>1, IdleListedKept
  <2>3. IdleListed(list_push(r, FIRST_PRIO, t), st2)
    BY <1>1, <1>2, <2>2, IdleListedKept
  <2> QED
    BY <1>3, <2>2, <2>3
<1> QED
  BY <1>4, <1>5
----------------------------------------------------------------------------
(* One lemma per action, or per group of actions that end the same way *)

LEMMA SyncUnchanged ==
    SyncInv /\ UNCHANGED <<parent, lockVars>> => SyncInv'
BY DEF SyncInv, LockInv, lockVars

\* Priming the invariant primes the variables in it and nothing else.
LEMMA SchedPrimed ==
    /\ Queues' = Queues
    /\ IdleListed(queue, status)' = IdleListed(queue', status')
BY DEF Queues, IdleListed, In

LEMMA TimerInv == ASSUME IInv, intr_timer_handler PROVE IInv'
<1> USE ThreadAssumption, NumberAssumption
<1>1. SchedInv /\ SyncInv /\ SyncInv' /\ leaked' = leaked
  BY SyncUnchanged DEF IInv, intr_timer_handler
<1>2. /\ SavedIntr \in [Thread -> BOOLEAN]
      /\ \A t \in Thread : ~SavedIntr[t] => leaked[t]
  BY <1>1, SavedFlags DEF intr_timer_handler
<1>3. /\ [ticks EXCEPT ![cur] = UINT32_MAX] \in [Thread -> 0..UINT32_MAX]
      /\ ticks[cur] # 0 => TickDown(ticks) \in [Thread -> 0..UINT32_MAX]
  BY <1>1 DEF SchedInv, TickDown
<1>4. ASSUME NEW tk \in [Thread -> 0..UINT32_MAX],
             schedule(queue, status, priority, tk, downing, SavedIntr)
      PROVE  SchedInv'
  BY <1>1, <1>2, <1>4, ScheduleInv DEF SchedInv
<1>5. ASSUME ticks[cur] # 0, ticks' = TickDown(ticks),
             UNCHANGED <<cur, status, priority, queue, intr, downing, old_status>>
      PROVE  SchedInv'
  BY <1>1, <1>3, <1>5 DEF SchedInv, IntrInv, IntrRestored, IdleListed, In, Queues
<1> QED
  BY <1>1, <1>3, <1>4, <1>5 DEF IInv, intr_timer_handler

LEMMA BlockInv ==
    ASSUME IInv, NEW stat \in Status \ {"READY"},
           NEW q \in Queues, IdleListed(q, status),
           NEW dn \in [Thread -> Sema \cup {NULL}], dn[Idle] = NULL,
           NEW os \in [Thread -> BOOLEAN],
           \A t \in Thread : ~os[t] => leaked[t],
           thread_block(q, stat, dn, os),
           UNCHANGED <<parent, lockVars, leaked>>
    PROVE  IInv'
<1> DEFINE st == [status EXCEPT ![cur] = stat]
<1>1. SchedInv /\ SyncInv /\ SyncInv' /\ leaked' = leaked
  BY SyncUnchanged DEF IInv
<1>2. st \in [Thread -> Status] /\ (st[Idle] = "READY" => status[Idle] = "READY")
  BY <1>1, ThreadAssumption DEF SchedInv
<1>3. IdleListed(q, st)
  BY <1>2 DEF IdleListed
<1>4. schedule(q, st, priority, ticks, dn, os)
  BY DEF thread_block
<1>5. priority \in [Thread -> Prio] /\ ticks \in [Thread -> 0..UINT32_MAX]
  BY <1>1 DEF SchedInv
<1> HIDE DEF st
<1> QED
  BY <1>1, <1>2, <1>3, <1>4, <1>5, ScheduleInv DEF IInv

LEMMA IdleInv == ASSUME IInv, idle PROVE IInv'
<1>1. SchedInv
  BY DEF IInv
<1> QED
  BY <1>1, SavedFlags, BlockInv DEF idle, SchedInv, Status

LEMMA DeviceWaitInv == ASSUME IInv, DeviceWait PROVE IInv'
<1>1. SchedInv
  BY DEF IInv
<1> QED
  BY <1>1, SavedFlags, BlockInv DEF DeviceWait, AtCall, SchedInv, Status

LEMMA YieldInv == ASSUME IInv, thread_yield PROVE IInv'
<1> USE ThreadAssumption
<1> DEFINE q == list_append(queue, FIRST_PRIO, cur)
           st == [status EXCEPT ![cur] = "READY"]
           pr == [priority EXCEPT ![cur] = FIRST_PRIO]
<1>1. SchedInv /\ SyncInv /\ SyncInv' /\ leaked' = leaked
  BY SyncUnchanged DEF IInv, thread_yield
<1>2. FIRST_PRIO \in QId /\ FIRST_PRIO \in Prio
  BY PrioQId DEF Prio
<1>3. cur # Idle /\ downing[cur] = NULL
  BY DEF thread_yield, AtCall
<1>4. q \in Queues /\ IdleListed(q, st)
  BY <1>1, <1>2, <1>3, ListTypes, IdleListedKept DEF SchedInv
<1>5. st \in [Thread -> Status] /\ pr \in [Thread -> Prio]
  BY <1>1, <1>2 DEF SchedInv, Status
<1>6. schedule(q, st, pr, ticks, downing, SavedIntr)
  BY DEF thread_yield
<1> HIDE DEF q, st, pr
<1>7. SchedInv'
  BY <1>1, <1>3, <1>4, <1>5, <1>6, SavedFlags, ScheduleInv DEF SchedInv
<1> QED
  BY <1>1, <1>7 DEF IInv

\* A thread that finds no unit joins the waiters and blocks.
LEMMA SemaBlockInv ==
    ASSUME IInv, NEW s \in Sema, cur # Idle,
           NEW os \in [Thread -> BOOLEAN],
           \A t \in Thread : ~os[t] => leaked[t],
           sema_block(s, os)
    PROVE  IInv'
<1> USE ThreadAssumption
<1> DEFINE dn == [downing EXCEPT ![cur] = s]
           q == EnqueueWaiter(s)
<1>1. SchedInv
  BY DEF IInv
<1>2. s \in QId
  BY DEF QId
<1>3. list_remove(queue, cur) \in Queues /\ IdleListed(list_remove(queue, cur), status)
  BY <1>1, <1>2, ListTypes, IdleListedKept DEF SchedInv
<1>4. q \in Queues /\ IdleListed(q, status)
  <2>1. /\ list_append(list_remove(queue, cur), s, cur) \in Queues
        /\ IdleListed(list_append(list_remove(queue, cur), s, cur), status)
    BY <1>1, <1>2, <1>3, ListTypes, IdleListedKept DEF SchedInv
  <2> QED
    BY <1>1, <2>1 DEF EnqueueWaiter, SchedInv
<1>5. dn \in [Thread -> Sema \cup {NULL}] /\ dn[Idle] = NULL
  BY <1>1 DEF SchedInv
<1>6. thread_block(q, "BLOCKED", dn, os) /\ UNCHANGED <<parent, lockVars, leaked>>
  BY DEF sema_block
<1>7. "BLOCKED" \in Status \ {"READY"}
  BY DEF Status
<1> HIDE DEF q, dn
<1> QED
  BY <1>4, <1>5, <1>6, <1>7, BlockInv
\* Changing the value of a thread's waiting_sema leaves the locks alone.
LEMMA WaitingSemaInv ==
    ASSUME SyncInv, NEW w \in Thread, NEW n \in 0..(SEMA_MOD - 1),
           value' = [value EXCEPT ![w] = n],
           parent' \in [Thread -> Thread \cup {NULL}],
           UNCHANGED <<holder, holder_repeat_nr, depth>>
    PROVE  SyncInv'
<1>1. value' \in [Sema -> 0..(SEMA_MOD - 1)] /\ \A l \in Lock : value'[l] = value[l]
  BY QueueAssumption DEF SyncInv, Sema
<1>2. LockInv'
  BY <1>1 DEF SyncInv, LockInv
<1> QED
  BY <1>1, <1>2 DEF SyncInv

\* sema_up counts modulo the width of value.
LEMMA UpValue ==
    ASSUME NEW n \in 0..(SEMA_MOD - 1)
    PROVE  /\ SemaInc(n) \in 0..(SEMA_MOD - 1)
           /\ n = 0 => SemaInc(n) = 1
BY NumberAssumption DEF SemaInc

LEMMA DownValue ==
    ASSUME NEW n \in 0..(SEMA_MOD - 1), n # 0
    PROVE  n - 1 \in 0..(SEMA_MOD - 1)
BY NumberAssumption

LEMMA NewThreadInv ==
    ASSUME IInv, NEW t \in Thread, NEW p \in Prio, NEW stat \in Status,
           NewThread(t, p, stat), cur # Idle,
           ticks' \in [Thread -> 0..UINT32_MAX],
           \/ intr' = intr /\ leaked' = [leaked EXCEPT ![t] = FALSE]
           \/ intr' = FALSE /\ leaked' = [leaked EXCEPT ![t] = FALSE, ![cur] = TRUE],
           t # cur, downing[cur] = NULL
    PROVE  IInv'
<1> USE ThreadAssumption, NumberAssumption
<1>1. SchedInv /\ SyncInv
  BY DEF IInv
<1>2. SyncInv'
  <2>1. parent' \in [Thread -> Thread \cup {NULL}]
    BY <1>1 DEF NewThread, SchedInv, SyncInv
  <2>2. 0 \in 0..(SEMA_MOD - 1) /\ value' = [value EXCEPT ![t] = 0]
    BY DEF NewThread
  <2>3. UNCHANGED <<holder, holder_repeat_nr, depth>>
    BY DEF NewThread
  <2> QED
    BY <1>1, <2>1, <2>2, <2>3, WaitingSemaInv
<1>3. /\ queue' = list_append(queue, p, t)
      /\ status' = [status EXCEPT ![t] = stat]
  BY DEF NewThread
<1>4. p \in QId
  BY PrioQId
<1>5. queue' \in Queues
  BY <1>1, <1>3, <1>4, ListTypes DEF SchedInv
<1>6. IdleListed(queue', status')
  <2>1. CASE t # Idle
    BY <1>1, <1>3, <1>4, <2>1, IdleListedKept DEF SchedInv
  <2>2. CASE t = Idle
    <3>1. In(Idle, Append(queue[p], t))
      BY <1>1, <1>4, <2>2, AddKeeps DEF SchedInv, Queues
    <3>2. queue'[p] = Append(queue[p], t)
      BY <1>1, <1>3, <1>4 DEF list_append, SchedInv, Queues
    <3> QED
      BY <3>1, <3>2 DEF IdleListed
  <2> QED
    BY <2>1, <2>2
<1>7. /\ cur' = cur /\ downing' = downing
      /\ status' \in [Thread -> Status]
      /\ priority' \in [Thread -> Prio]
      /\ old_status' \in [Thread -> BOOLEAN]
      /\ leaked' \in [Thread -> BOOLEAN]
      /\ intr' \in BOOLEAN
  BY <1>1 DEF NewThread, SchedInv, Status
<1>8. IntrInv'
  <2>1. IntrRestored' /\ (downing[cur] # NULL => ~intr)'
    BY <1>1, <1>7 DEF IntrInv, IntrRestored, SchedInv
  <2>2. ASSUME NEW u \in Thread, u # cur \/ downing[u] # NULL, ~old_status'[u]
        PROVE  leaked'[u]
    <3>1. old_status' = [old_status EXCEPT ![t] = TRUE]
      BY DEF NewThread
    <3>2. u # t /\ old_status'[u] = old_status[u]
      BY <1>1, <2>2, <3>1 DEF SchedInv
    <3>3. leaked[u]
      BY <1>1, <2>2, <3>2 DEF SchedInv, IntrInv
    <3> QED
      BY <1>1, <3>2, <3>3 DEF SchedInv
  <2> QED
    BY <1>7, <2>1, <2>2 DEF IntrInv
<1>9. downing'[Idle] = NULL /\ status'[cur'] \notin {"NONE", "DIED"}
  BY <1>1, <1>3, <1>7 DEF SchedInv
<1> QED
  BY <1>1, <1>2, <1>5, <1>6, <1>7, <1>8, <1>9, SchedPrimed DEF IInv, SchedInv

LEMMA StartInv ==
    ASSUME IInv, NEW t \in Thread, NEW p \in Prio,
           thread_start(t, p) \/ process_execute(t)
    PROVE  IInv'
<1> USE ThreadAssumption, NumberAssumption
<1>1. SchedInv
  BY DEF IInv
<1>2. PICK r \in Prio : /\ NewThread(t, r, "READY")
                        /\ ticks' = [ticks EXCEPT ![t] = PrioTicks[r]]
                        /\ leaked' = [leaked EXCEPT ![t] = FALSE]
                        /\ intr' = intr
                        /\ AtCall
  BY DEF thread_start, process_execute, Prio
<1>3. ticks' \in [Thread -> 0..UINT32_MAX]
  <2>1. PrioTicks[r] \in 0..UINT32_MAX
    OBVIOUS
  <2> QED
    BY <1>1, <1>2, <2>1 DEF SchedInv
<1>4. t # cur
  BY <1>1, <1>2 DEF NewThread, SchedInv
<1>5. "READY" \in Status
  BY DEF Status
<1> QED
  BY <1>1, <1>2, <1>3, <1>4, <1>5, NewThreadInv DEF AtCall

\* A forked child is a copy whose status is the parent's.  IInv says only
\* that the parent is alive, so the copy is treated status by status.
LEMMA ForkInv == ASSUME IInv, NEW t \in Thread, sys_fork(t) PROVE IInv'
<1> USE ThreadAssumption, NumberAssumption
<1>1. SchedInv
  BY DEF IInv
<1>2. t # cur /\ t # Idle /\ cur # Idle /\ downing[cur] = NULL
  BY <1>1 DEF sys_fork, NewThread, AtCall, SchedInv
<1>3. THIRD_PRIO \in Prio /\ status[cur] \in Status
  BY <1>1 DEF Prio, SchedInv
<1>4. ticks' \in [Thread -> 0..UINT32_MAX]
  <2>1. Slice[THIRD_PRIO] \in 0..UINT32_MAX
    BY <1>3
  <2> QED
    BY <1>1, <2>1 DEF sys_fork, SchedInv
<1>5. /\ NewThread(t, THIRD_PRIO, status[cur])
      /\ intr' = FALSE /\ leaked' = [leaked EXCEPT ![t] = FALSE, ![cur] = TRUE]
  BY DEF sys_fork
<1> QED
  BY <1>1, <1>2, <1>3, <1>4, <1>5, NewThreadInv

LEMMA SyscallReturnInv == ASSUME IInv, syscall_return PROVE IInv'
<1>1. SchedInv /\ SyncInv'
  BY SyncUnchanged DEF IInv, syscall_return
<1>2. IntrInv'
  BY <1>1 DEF syscall_return, AtCall, SchedInv, IntrInv, IntrRestored
<1> QED
  BY <1>1, <1>2, SchedPrimed DEF IInv, SchedInv, syscall_return

LEMMA ReapInv == ASSUME IInv, NEW t \in Thread, Reap(t) PROVE IInv'
<1> USE ThreadAssumption
<1>1. SchedInv /\ SyncInv
  BY DEF IInv
<1>2. /\ t # cur
      /\ queue' = list_remove(queue, t)
      /\ status' = [status EXCEPT ![t] = "NONE"]
      /\ status[t] = "DIED"
      /\ UNCHANGED <<cur, priority, ticks, lockVars, downing, intr, old_status, leaked>>
  BY <1>1 DEF Reap, SchedInv
<1>3. queue' \in Queues
  BY <1>1, <1>2, PrioQId, ListTypes DEF SchedInv, Prio
<1>4. IdleListed(queue', status')
  <2>1. CASE t = Idle
    BY <1>1, <1>2, <2>1 DEF IdleListed, SchedInv
  <2>2. CASE t # Idle
    BY <1>1, <1>2, <2>2, PrioQId, IdleListedKept DEF SchedInv, Prio
  <2> QED
    BY <2>1, <2>2
<1>5. SyncInv'
  <2>1. parent' \in [Thread -> Thread \cup {NULL}]
    BY <1>1 DEF Reap, SyncInv
  <2> QED
    BY <1>1, <1>2, <2>1 DEF SyncInv, LockInv, lockVars
<1>6. IntrInv'
  BY <1>1, <1>2 DEF SchedInv, IntrInv, IntrRestored
<1> QED
  BY <1>1, <1>2, <1>3, <1>4, <1>5, <1>6, SchedPrimed DEF IInv, SchedInv, Status

\* thread_unblock outside schedule: a device wake, or sema_up.
LEMMA UnblockedInv ==
    ASSUME SchedInv, NEW q \in Queues, IdleListed(q, status), NEW t \in Thread,
           Unblocked(q, status, priority, ticks, t),
           UNCHANGED <<cur, downing, intr, old_status, leaked>>
    PROVE  SchedInv'
<1> USE ThreadAssumption, NumberAssumption
<1>1. /\ queue' = list_push(list_remove(q, t), FIRST_PRIO, t)
      /\ status' = [status EXCEPT ![t] = "READY"]
      /\ priority' = [priority EXCEPT ![t] = FIRST_PRIO]
      /\ ticks' = [ticks EXCEPT ![t] = Slice[FIRST_PRIO]]
  BY DEF Unblocked
<1>2. queue' \in Queues /\ IdleListed(queue', status')
  BY <1>1, UnblockedListed DEF SchedInv
<1>3. FIRST_PRIO \in Prio /\ Slice[FIRST_PRIO] \in 0..UINT32_MAX
  BY DEF Prio
<1>4. /\ status' \in [Thread -> Status]
      /\ status'[cur] \notin {"NONE", "DIED"}
      /\ priority' \in [Thread -> Prio]
      /\ ticks' \in [Thread -> 0..UINT32_MAX]
  BY <1>1, <1>3 DEF SchedInv, Status
<1>5. IntrInv'
  BY DEF SchedInv, IntrInv, IntrRestored
<1> QED
  BY <1>2, <1>4, <1>5, SchedPrimed DEF SchedInv

LEMMA DeviceWakeInv == ASSUME IInv, NEW t \in Thread, DeviceWake(t) PROVE IInv'
<1>1. SchedInv /\ SyncInv'
  BY SyncUnchanged DEF IInv, DeviceWake
<1> QED
  BY <1>1, UnblockedInv DEF IInv, DeviceWake, SchedInv

LEMMA ExitInv == ASSUME IInv, thread_exit PROVE IInv'
<1> USE ThreadAssumption, NumberAssumption
<1> DEFINE w == parent[cur]
           q == list_remove(queue, cur)
           st == [status EXCEPT ![cur] = "DIED"]
           u == Head(q[w])
           stu == [st EXCEPT ![u] = "READY"]
           pru == [priority EXCEPT ![u] = FIRST_PRIO]
           tku == [ticks EXCEPT ![u] = Slice[FIRST_PRIO]]
<1>1. SchedInv /\ SyncInv /\ leaked' = leaked
  BY DEF IInv, thread_exit
<1>2. cur # Idle /\ downing[cur] = NULL /\ cur \in Thread
  BY <1>1 DEF thread_exit, AtCall, SchedInv
<1>3. w \in Thread \cup {NULL} /\ FIRST_PRIO \in Prio /\ FIRST_PRIO \in QId
  BY <1>1, <1>2, PrioQId DEF SyncInv, Prio
<1>4. st \in [Thread -> Status]
  BY <1>1 DEF SchedInv, Status
<1>5. q \in Queues /\ IdleListed(q, st)
  BY <1>1, <1>2, <1>3, ListTypes, IdleListedKept DEF SchedInv
<1>6. /\ SavedIntr \in [Thread -> BOOLEAN]
      /\ \A t \in Thread : ~SavedIntr[t] => leaked[t]
  BY <1>1, <1>2, SavedFlags
<1>7. SyncInv'
  <2>1. CASE w = NULL
    <3>1. UNCHANGED <<parent, lockVars>>
      BY <2>1 DEF thread_exit, lockVars
    <3> QED
      BY <1>1, <3>1, SyncUnchanged
  <2>2. CASE w # NULL
    <3>1. w \in Thread /\ value[w] \in 0..(SEMA_MOD - 1)
      BY <1>1, <1>3, <2>2 DEF SyncInv, Sema
    <3>2. value' = [value EXCEPT ![w] = SemaInc(value[w])]
      BY <2>2 DEF thread_exit
    <3>3. parent' \in [Thread -> Thread \cup {NULL}]
          /\ UNCHANGED <<holder, holder_repeat_nr, depth>>
      BY <1>1 DEF thread_exit, SyncInv
    <3>4. SemaInc(value[w]) \in 0..(SEMA_MOD - 1)
      BY <3>1, UpValue
    <3> QED
      BY <1>1, <3>1, <3>2, <3>3, <3>4, WaitingSemaInv
  <2> QED
    BY <2>1, <2>2
<1>8. CASE w # NULL /\ q[w] # <<>>
  <2>1. w \in Thread /\ w \in QId /\ w \notin Prio
    BY <1>3, <1>8, PrioQId, QueueAssumption DEF Sema
  <2>2. u \in Thread /\ [q EXCEPT ![w] = Tail(@)] \in Queues
    BY <1>5, <1>8, <2>1, ListTypes
  <2>3. IdleListed([q EXCEPT ![w] = Tail(@)], st)
    BY <1>5, <2>1, IdleListedKept
  <2>4. /\ ExitQueue(q, w) \in Queues
        /\ IdleListed(ExitQueue(q, w), stu)
    BY <1>4, <1>8, <2>2, <2>3, UnblockedListed DEF ExitQueue
  <2>5. /\ stu \in [Thread -> Status]
        /\ pru \in [Thread -> Prio]
        /\ tku \in [Thread -> 0..UINT32_MAX]
    <3>1. Slice[FIRST_PRIO] \in 0..UINT32_MAX
      BY <1>3
    <3> QED
      BY <1>1, <1>3, <1>4, <2>2, <3>1 DEF SchedInv, Status
  <2>6. schedule(ExitQueue(q, w), stu, pru, tku, downing, SavedIntr)
    BY <1>8 DEF thread_exit
  <2> HIDE DEF w, q, st, u, stu, pru, tku
  <2>7. SchedInv'
    BY <1>1, <1>6, <2>4, <2>5, <2>6, ScheduleInv DEF SchedInv
  <2> QED
    BY <1>7, <2>7 DEF IInv
<1>9. CASE ~(w # NULL /\ q[w] # <<>>)
  <2>1. schedule(q, st, priority, ticks, downing, SavedIntr)
    BY <1>9 DEF thread_exit
  <2> HIDE DEF w, q, st, u, stu, pru, tku
  <2>2. SchedInv'
    BY <1>1, <1>4, <1>5, <1>6, <2>1, ScheduleInv DEF SchedInv
  <2> QED
    BY <1>7, <2>2 DEF IInv
<1> QED
  BY <1>8, <1>9
\* Taking the unit of a lock's semaphore and becoming its holder
LEMMA TakeLockInv ==
    ASSUME IInv, NEW l \in Lock, value[l] # 0,
           value' = [value EXCEPT ![l] = @ - 1], TakeLock(l), parent' = parent
    PROVE  SyncInv'
<1> USE ThreadAssumption, NumberAssumption
<1>1. SyncInv /\ cur \in Thread /\ l \in Sema
  BY DEF IInv, SchedInv, Sema
<1>2. holder[l] = NULL /\ value[l] = 1 /\ \A t \in Thread : depth[t][l] = 0
  <2>1. holder[l] = NULL /\ value[l] = 1
    BY <1>1 DEF SyncInv, LockInv
  <2>2. NULL \notin Thread
    BY DEF Sema
  <2> QED
    BY <1>1, <2>1, <2>2 DEF SyncInv, LockInv
<1>3. value' \in [Sema -> 0..(SEMA_MOD - 1)] /\ value'[l] = 0
      /\ \A m \in Lock \ {l} : value'[m] = value[m]
  BY <1>1, <1>2 DEF SyncInv, Sema
<1>4. /\ holder' \in [Lock -> Thread \cup {NULL}] /\ holder'[l] = cur
      /\ \A m \in Lock \ {l} : holder'[m] = holder[m]
      /\ holder_repeat_nr' \in [Lock -> 0..MAX_NEST] /\ holder_repeat_nr'[l] = 1
      /\ \A m \in Lock \ {l} : holder_repeat_nr'[m] = holder_repeat_nr[m]
  BY <1>1 DEF SyncInv, TakeLock
<1>5. /\ depth' \in [Thread -> [Lock -> 0..MAX_NEST]]
      /\ \A t \in Thread : depth'[t][l] = IF t = cur THEN 1 ELSE 0
      /\ \A t \in Thread, m \in Lock \ {l} : depth'[t][m] = depth[t][m]
  <2>1. depth' = [depth EXCEPT ![cur] = [depth[cur] EXCEPT ![l] = 1]]
    <3>1. depth[cur][l] + 1 = 1
      BY <1>1, <1>2
    <3>2. depth' = [depth EXCEPT ![cur] = [depth[cur] EXCEPT ![l] = depth[cur][l] + 1]]
      BY DEF TakeLock
    <3> QED
      BY <3>1, <3>2
  <2>2. [depth[cur] EXCEPT ![l] = 1] \in [Lock -> 0..MAX_NEST]
    BY <1>1 DEF SyncInv
  <2>3. depth' \in [Thread -> [Lock -> 0..MAX_NEST]]
    BY <1>1, <2>1, <2>2 DEF SyncInv
  <2>4. \A t \in Thread : depth'[t][l] = IF t = cur THEN 1 ELSE 0
    BY <1>1, <1>2, <2>1 DEF SyncInv
  <2>5. \A t \in Thread, m \in Lock \ {l} : depth'[t][m] = depth[t][m]
    BY <1>1, <2>1 DEF SyncInv
  <2> QED
    BY <2>3, <2>4, <2>5
<1>6. LockInv'
  <2>1. cur # NULL
    BY <1>1 DEF Sema
  <2>2. ASSUME NEW m \in Lock
        PROVE  /\ value'[m] = IF holder'[m] = NULL THEN 1 ELSE 0
               /\ holder'[m] = NULL => holder_repeat_nr'[m] = 0
               /\ holder'[m] # NULL => holder_repeat_nr'[m] > 0
               /\ \A t \in Thread :
                     depth'[t][m] = IF holder'[m] = t THEN holder_repeat_nr'[m] ELSE 0
    <3>1. CASE m = l
      BY <1>3, <1>4, <1>5, <2>1, <3>1
    <3>2. CASE m # l
      BY <1>1, <1>3, <1>4, <1>5, <3>2 DEF SyncInv, LockInv
    <3> QED
      BY <3>1, <3>2
  <2> QED
    BY <2>2 DEF LockInv
<1> QED
  BY <1>1, <1>3, <1>4, <1>5, <1>6 DEF SyncInv

LEMMA SchedUnchanged ==
    SchedInv /\ UNCHANGED <<schedVars, downing, old_status, leaked>> => SchedInv'
BY SchedPrimed DEF SchedInv, schedVars, IntrInv, IntrRestored

LEMMA AcquireInv == ASSUME IInv, NEW l \in Lock, lock_acquire(l) PROVE IInv'
<1>1. SchedInv /\ AtCall /\ l \in Sema
  BY DEF IInv, lock_acquire, Sema
<1>2. CASE sema_block(l, SavedIntr)
  BY <1>1, <1>2, SavedFlags, SemaBlockInv DEF AtCall
<1>3. CASE ~sema_block(l, SavedIntr)
  <2>1. /\ value[l] # 0
        /\ value' = [value EXCEPT ![l] = @ - 1]
        /\ TakeLock(l)
        /\ UNCHANGED <<schedVars, parent, downing, old_status, leaked>>
    BY <1>3 DEF lock_acquire, MustWait
  <2>2. SyncInv'
    BY <2>1, TakeLockInv
  <2>3. SchedInv'
    BY <1>1, <2>1, SchedUnchanged
  <2> QED
    BY <2>2, <2>3 DEF IInv
<1> QED
  BY <1>2, <1>3

\* Nested acquire and release move the repeat number and the nesting together.
LEMMA NestInv ==
    ASSUME SyncInv, cur \in Thread, NEW l \in Lock,
           NEW n \in 1..MAX_NEST, holder[l] = cur,
           holder_repeat_nr' = [holder_repeat_nr EXCEPT ![l] = n],
           depth' = [depth EXCEPT ![cur][l] = n],
           UNCHANGED <<parent, value, holder>>
    PROVE  SyncInv'
<1> USE ThreadAssumption, NumberAssumption
<1>1. holder_repeat_nr' \in [Lock -> 0..MAX_NEST] /\ holder_repeat_nr'[l] = n
      /\ \A m \in Lock \ {l} : holder_repeat_nr'[m] = holder_repeat_nr[m]
  BY DEF SyncInv
<1>2. /\ depth' \in [Thread -> [Lock -> 0..MAX_NEST]]
      /\ \A t \in Thread : depth'[t][l] = IF t = cur THEN n ELSE depth[t][l]
      /\ \A t \in Thread, m \in Lock \ {l} : depth'[t][m] = depth[t][m]
  BY DEF SyncInv
<1>3. LockInv'
  <2>1. cur # NULL
    BY DEF Sema
  <2>2. ASSUME NEW m \in Lock
        PROVE  /\ value'[m] = IF holder'[m] = NULL THEN 1 ELSE 0
               /\ holder'[m] = NULL => holder_repeat_nr'[m] = 0
               /\ holder'[m] # NULL => holder_repeat_nr'[m] > 0
               /\ \A t \in Thread :
                     depth'[t][m] = IF holder'[m] = t THEN holder_repeat_nr'[m] ELSE 0
    <3>1. CASE m = l
      BY <1>1, <1>2, <2>1, <3>1 DEF SyncInv, LockInv
    <3>2. CASE m # l
      BY <1>1, <1>2, <3>2 DEF SyncInv, LockInv
    <3> QED
      BY <3>1, <3>2
  <2> QED
    BY <2>2 DEF LockInv
<1> QED
  BY <1>1, <1>2, <1>3 DEF SyncInv
LEMMA AcquireAgainInv == ASSUME IInv, NEW l \in Lock, lock_acquire_again(l) PROVE IInv'
<1>1. SchedInv /\ SyncInv /\ cur \in Thread /\ holder[l] = cur
  BY DEF IInv, SchedInv, lock_acquire_again
<1>2. SchedInv'
  BY <1>1, SchedUnchanged DEF lock_acquire_again
<1>3. /\ holder_repeat_nr[l] = depth[cur][l]
      /\ depth[cur][l] \in 0..MAX_NEST /\ depth[cur][l] < MAX_NEST
  BY <1>1 DEF SyncInv, LockInv, lock_acquire_again
<1> DEFINE n == depth[cur][l] + 1
<1>4. n \in 1..MAX_NEST
  BY <1>3, NumberAssumption
<1>5. /\ holder_repeat_nr' = [holder_repeat_nr EXCEPT ![l] = n]
      /\ depth' = [depth EXCEPT ![cur][l] = n]
      /\ UNCHANGED <<parent, value, holder>>
  BY <1>3 DEF lock_acquire_again
<1> HIDE DEF n
<1>6. SyncInv'
  BY <1>1, <1>4, <1>5, NestInv
<1> QED
  BY <1>2, <1>6 DEF IInv

LEMMA ReleaseNestedInv == ASSUME IInv, NEW l \in Lock, lock_release_nested(l) PROVE IInv'
<1>1. SchedInv /\ SyncInv /\ cur \in Thread
  BY DEF IInv, SchedInv
<1>2. SchedInv'
  <2>1. IntrInv'
    BY <1>1 DEF lock_release_nested, AtCall, SchedInv, IntrInv, IntrRestored
  <2> QED
    BY <1>1, <2>1, SchedPrimed DEF lock_release_nested, SchedInv
<1>3. holder[l] = cur /\ holder_repeat_nr[l] = depth[cur][l]
  BY <1>1 DEF SyncInv, LockInv, lock_release_nested
<1> DEFINE n == depth[cur][l] - 1
<1>4. n \in 1..MAX_NEST
  BY <1>1, <1>3, NumberAssumption DEF lock_release_nested, SyncInv
<1>5. /\ holder_repeat_nr' = [holder_repeat_nr EXCEPT ![l] = n]
      /\ depth' = [depth EXCEPT ![cur][l] = n]
      /\ UNCHANGED <<parent, value, holder>>
  BY <1>3 DEF lock_release_nested
<1> HIDE DEF n
<1>6. SyncInv'
  BY <1>1, <1>3, <1>4, <1>5, NestInv
<1> QED
  BY <1>2, <1>6 DEF IInv

LEMMA WaitInv == ASSUME IInv, thread_wait PROVE IInv'
<1>1. SchedInv /\ SyncInv /\ AtCall /\ cur \in Thread /\ cur \in Sema
  BY DEF IInv, thread_wait, SchedInv, Sema
<1>2. CASE sema_block(cur, SavedIntr)
  BY <1>1, <1>2, SavedFlags, SemaBlockInv DEF AtCall
<1>3. CASE ~sema_block(cur, SavedIntr)
  <2>1. /\ value[cur] # 0
        /\ value' = [value EXCEPT ![cur] = @ - 1]
        /\ UNCHANGED <<schedVars, parent, holder, holder_repeat_nr, depth,
                       downing, old_status, leaked>>
    BY <1>3 DEF thread_wait, MustWait
  <2>2. value[cur] - 1 \in 0..(SEMA_MOD - 1)
    <3>1. value[cur] \in 0..(SEMA_MOD - 1)
      BY <1>1 DEF SyncInv
    <3> QED
      BY <2>1, <3>1, DownValue
  <2>3. SyncInv'
    <3> DEFINE n == value[cur] - 1
    <3>1. value' = [value EXCEPT ![cur] = n]
      BY <2>1
    <3>2. parent' \in [Thread -> Thread \cup {NULL}]
      BY <1>1, <2>1 DEF SyncInv
    <3>3. UNCHANGED <<holder, holder_repeat_nr, depth>> /\ n \in 0..(SEMA_MOD - 1)
      BY <2>1, <2>2
    <3> HIDE DEF n
    <3> QED
      BY <1>1, <3>1, <3>2, <3>3, WaitingSemaInv
  <2>4. SchedInv'
    BY <1>1, <2>1, SchedUnchanged
  <2> QED
    BY <2>3, <2>4 DEF IInv
<1> QED
  BY <1>2, <1>3

LEMMA ResumeInv == ASSUME IInv, sema_down_resume PROVE IInv'
<1> USE ThreadAssumption
<1> DEFINE s == downing[cur]
<1>1. SchedInv /\ SyncInv /\ cur \in Thread /\ s \in Sema /\ cur # Idle /\ s # NULL
  BY DEF IInv, sema_down_resume, SchedInv
<1>2. old_status \in [Thread -> BOOLEAN] /\ \A t \in Thread : ~old_status[t] => leaked[t]
  BY <1>1, SavedFlags DEF SchedInv
<1>3. CASE sema_block(s, old_status)
  BY <1>1, <1>2, <1>3, SemaBlockInv
<1>4. CASE ~sema_block(s, old_status)
  <2>1. /\ value[s] # 0
        /\ value' = [value EXCEPT ![s] = @ - 1]
        /\ IF s \in Lock THEN TakeLock(s)
           ELSE UNCHANGED <<holder, holder_repeat_nr, depth>>
        /\ downing' = [downing EXCEPT ![cur] = NULL]
        /\ intr' = old_status[cur]
        /\ UNCHANGED <<cur, status, priority, ticks, queue, parent,
                       old_status, leaked>>
    BY <1>4 DEF sema_down_resume, MustWait
  <2>2. SyncInv'
    <3>1. CASE s \in Lock
      BY <2>1, <3>1, TakeLockInv
    <3>2. CASE s \notin Lock
      <4>5. s \in Thread /\ value[s] \in 0..(SEMA_MOD - 1)
        BY <1>1, <3>2 DEF SyncInv, Sema
      <4>1. value[s] - 1 \in 0..(SEMA_MOD - 1)
        BY <2>1, <4>5, DownValue
      <4> DEFINE n == value[s] - 1
      <4>2. value' = [value EXCEPT ![s] = n]
        BY <2>1
      <4>3. parent' \in [Thread -> Thread \cup {NULL}]
        BY <1>1, <2>1 DEF SyncInv
      <4>4. UNCHANGED <<holder, holder_repeat_nr, depth>> /\ n \in 0..(SEMA_MOD - 1)
        BY <2>1, <3>2, <4>1
      <4> HIDE DEF n, s
      <4> QED
        BY <1>1, <4>2, <4>3, <4>4, <4>5, WaitingSemaInv
    <3> QED
      BY <3>1, <3>2
  <2>3. downing' \in [Thread -> Sema \cup {NULL}] /\ downing'[cur] = NULL
        /\ downing'[Idle] = NULL
        /\ \A t \in Thread : downing'[t] # NULL => downing[t] # NULL
    BY <1>1, <2>1 DEF SchedInv
  <2>4. IntrInv'
    BY <1>1, <1>2, <2>1, <2>3 DEF IntrInv, IntrRestored
  <2>5. intr' \in BOOLEAN
    BY <1>1, <1>2, <2>1
  <2>6. SchedInv'
    BY <1>1, <2>1, <2>3, <2>4, <2>5, SchedPrimed DEF SchedInv
  <2> QED
    BY <2>2, <2>6 DEF IInv
<1> QED
  BY <1>3, <1>4
\* The last release: the semaphore goes up by one from 0 and the holder is gone.
LEMMA ReleaseInv == ASSUME IInv, NEW l \in Lock, lock_release(l) PROVE IInv'
<1> USE ThreadAssumption, NumberAssumption
<1>1. SchedInv /\ SyncInv /\ cur \in Thread /\ l \in Sema /\ l \in QId /\ l \notin Prio
  BY QueueAssumption DEF IInv, SchedInv, Sema, QId
<1>2. NULL \notin Thread
  BY DEF Sema
<1>3. /\ holder[l] = cur /\ value[l] = 0
      /\ holder_repeat_nr[l] = 1 /\ depth[cur][l] = 1
      /\ \A t \in Thread \ {cur} : depth[t][l] = 0
  <2>1. depth[cur][l] > 0 /\ holder_repeat_nr[l] <= 1
    BY DEF lock_release
  <2>2. holder[l] = cur /\ depth[cur][l] = holder_repeat_nr[l]
    BY <1>1, <2>1 DEF SyncInv, LockInv
  <2>3. holder_repeat_nr[l] = 1
    BY <1>1, <2>1, <2>2 DEF SyncInv
  <2> QED
    BY <1>1, <1>2, <2>2, <2>3 DEF SyncInv, LockInv
<1>4. /\ holder' = [holder EXCEPT ![l] = NULL]
      /\ holder_repeat_nr' = [holder_repeat_nr EXCEPT ![l] = 0]
      /\ depth' = [depth EXCEPT ![cur][l] = depth[cur][l] - 1]
      /\ value' = [value EXCEPT ![l] = SemaInc(value[l])]
      /\ UNCHANGED <<cur, parent, downing, intr, old_status, leaked>>
  BY DEF lock_release, sema_up
<1>5. SyncInv'
  <2>1. SemaInc(value[l]) = 1
    <3>1. value[l] \in 0..(SEMA_MOD - 1)
      BY <1>3
    <3> QED
      BY <1>3, <3>1, UpValue
  <2>2. /\ value' \in [Sema -> 0..(SEMA_MOD - 1)] /\ value'[l] = 1
        /\ \A m \in Lock \ {l} : value'[m] = value[m]
    <3>1. value' = [value EXCEPT ![l] = 1]
      BY <1>4, <2>1
    <3> QED
      BY <1>1, <3>1 DEF SyncInv, Sema
  <2>3. /\ holder' \in [Lock -> Thread \cup {NULL}] /\ holder'[l] = NULL
        /\ \A m \in Lock \ {l} : holder'[m] = holder[m]
        /\ holder_repeat_nr' \in [Lock -> 0..MAX_NEST] /\ holder_repeat_nr'[l] = 0
        /\ \A m \in Lock \ {l} : holder_repeat_nr'[m] = holder_repeat_nr[m]
    BY <1>1, <1>4 DEF SyncInv
  <2>4. depth' = [depth EXCEPT ![cur] = [depth[cur] EXCEPT ![l] = 0]]
    <3>1. depth[cur][l] - 1 = 0
      BY <1>3
    <3> QED
      BY <1>4, <3>1
  <2>5. /\ depth' \in [Thread -> [Lock -> 0..MAX_NEST]]
        /\ \A t \in Thread : depth'[t][l] = 0
        /\ \A t \in Thread, m \in Lock \ {l} : depth'[t][m] = depth[t][m]
    <3>1. [depth[cur] EXCEPT ![l] = 0] \in [Lock -> 0..MAX_NEST]
      BY <1>1 DEF SyncInv
    <3> QED
      BY <1>1, <1>3, <2>4, <3>1 DEF SyncInv
  <2>6. LockInv'
    <3>1. ASSUME NEW m \in Lock
          PROVE  /\ value'[m] = IF holder'[m] = NULL THEN 1 ELSE 0
                 /\ holder'[m] = NULL => holder_repeat_nr'[m] = 0
                 /\ holder'[m] # NULL => holder_repeat_nr'[m] > 0
                 /\ \A t \in Thread :
                       depth'[t][m] = IF holder'[m] = t THEN holder_repeat_nr'[m] ELSE 0
      <4>1. CASE m = l
        BY <1>2, <2>2, <2>3, <2>5, <4>1
      <4>2. CASE m # l
        BY <1>1, <2>2, <2>3, <2>5, <4>2 DEF SyncInv, LockInv
      <4> QED
        BY <4>1, <4>2
    <3> QED
      BY <3>1 DEF LockInv
  <2> QED
    BY <1>1, <1>4, <2>2, <2>3, <2>5, <2>6 DEF SyncInv
<1>6. SchedInv'
  <2>1. CASE queue[l] # <<>>
    <3> DEFINE q == [queue EXCEPT ![l] = Tail(@)]
               u == Head(queue[l])
    <3>1. u \in Thread /\ q \in Queues
      BY <1>1, <2>1, ListTypes DEF SchedInv
    <3>2. IdleListed(q, status)
      BY <1>1, <3>1, IdleListedKept DEF SchedInv
    <3>3. Unblocked(q, status, priority, ticks, u)
      BY <2>1 DEF lock_release, sema_up
    <3> HIDE DEF q, u
    <3> QED
      BY <1>1, <1>4, <3>1, <3>2, <3>3, UnblockedInv
  <2>2. CASE queue[l] = <<>>
    <3>1. UNCHANGED <<queue, status, priority, ticks>>
      BY <2>2 DEF lock_release, sema_up
    <3> QED
      BY <1>1, <1>4, <3>1, SchedUnchanged DEF schedVars
  <2> QED
    BY <2>1, <2>2
<1> QED
  BY <1>5, <1>6 DEF IInv

LEMMA StutterInv == IInv /\ UNCHANGED vars => IInv'
<1> SUFFICES ASSUME IInv, UNCHANGED vars PROVE IInv'
  OBVIOUS
<1>1. SchedInv'
  BY SchedUnchanged DEF IInv, vars, schedVars
<1>2. SyncInv'
  BY SyncUnchanged DEF IInv, vars, lockVars
<1> QED
  BY <1>1, <1>2 DEF IInv

\* Every action preserves the invariant.
LEMMA NextIInv == IInv /\ [Next]_vars => IInv'
<1> SUFFICES ASSUME IInv, [Next]_vars PROVE IInv'
  OBVIOUS
<1>1. CASE intr_timer_handler
  BY <1>1, TimerInv
<1>2. CASE idle
  BY <1>2, IdleInv
<1>3. CASE thread_yield
  BY <1>3, YieldInv
<1>4. CASE thread_wait
  BY <1>4, WaitInv
<1>5. CASE thread_exit
  BY <1>5, ExitInv
<1>6. CASE DeviceWait
  BY <1>6, DeviceWaitInv
<1>7. CASE sema_down_resume
  BY <1>7, ResumeInv
<1>8. CASE syscall_return
  BY <1>8, SyscallReturnInv
<1>9. ASSUME NEW t \in Thread, NEW p \in Prio, thread_start(t, p) PROVE IInv'
  BY <1>9, StartInv
<1>10. ASSUME NEW t \in Thread, process_execute(t) PROVE IInv'
  <2>1. FIRST_PRIO \in Prio
    BY DEF Prio
  <2> QED
    BY <1>10, <2>1, StartInv
<1>11. ASSUME NEW t \in Thread, sys_fork(t) PROVE IInv'
  BY <1>11, ForkInv
<1>12. ASSUME NEW t \in Thread, Reap(t) PROVE IInv'
  BY <1>12, ReapInv
<1>13. ASSUME NEW t \in Thread, DeviceWake(t) PROVE IInv'
  BY <1>13, DeviceWakeInv
<1>14. ASSUME NEW l \in Lock, lock_acquire(l) PROVE IInv'
  BY <1>14, AcquireInv
<1>15. ASSUME NEW l \in Lock, lock_acquire_again(l) PROVE IInv'
  BY <1>15, AcquireAgainInv
<1>16. ASSUME NEW l \in Lock, lock_release(l) PROVE IInv'
  BY <1>16, ReleaseInv
<1>17. ASSUME NEW l \in Lock, lock_release_nested(l) PROVE IInv'
  BY <1>17, ReleaseNestedInv
<1>18. CASE UNCHANGED vars
  BY <1>18, StutterInv
<1> QED
  BY <1>1, <1>2, <1>3, <1>4, <1>5, <1>6, <1>7, <1>8, <1>9, <1>10, <1>11, <1>12,
     <1>13, <1>14, <1>15, <1>16, <1>17, <1>18 DEF Next

----------------------------------------------------------------------------
(* The theorems *)

\* The invariant holds in every reachable state.
THEOREM Invariance == Spec => []IInv
BY InitIInv, NextIInv, PTL DEF Spec

\* Type correctness of the scheduler and of the locks.  For `cur' this says
\* that schedule() never pops an empty ready list.
THEOREM TypeCorrect == Spec => []TypeOK
BY Invariance, IInvTypeOK, PTL

\* Mutual exclusion of lock_acquire and lock_release for any number of
\* threads and locks, with the ASSERTs on holder and holder_repeat_nr.
THEOREM LockCorrect == Spec => []LockInv
<1>1. IInv => LockInv
  BY DEF IInv, SyncInv
<1> QED
  BY Invariance, <1>1, PTL

\* A disabled interrupt flag is never passed on to another thread by a switch.
THEOREM InterruptsRestored == Spec => []IntrRestored
<1>1. IInv => IntrRestored
  BY DEF IInv, SchedInv, IntrInv
<1> QED
  BY Invariance, <1>1, PTL
----------------------------------------------------------------------------
(* Refinement: the lock implements ReentrantLock *)

\* The unit of a lock's semaphore is there only while no thread is inside.
LEMMA TakeLockEnters ==
    ASSUME IInv, NEW l \in Lock, value[l] # 0, TakeLock(l)
    PROVE  Abstract!Enter(cur, l)
<1>1. SyncInv /\ cur \in Thread /\ NULL \notin Thread
  BY ThreadAssumption DEF IInv, SchedInv, Sema
<1>2. holder[l] = NULL
  BY <1>1 DEF SyncInv, LockInv
<1>3. \A t \in Thread : depth[t][l] = 0
  BY <1>1, <1>2 DEF SyncInv, LockInv
<1>4. depth[cur][l] + 1 = 1
  BY <1>1, <1>3
<1>5. depth' = [depth EXCEPT ![cur][l] = depth[cur][l] + 1]
  BY DEF TakeLock
<1>6. depth' = [depth EXCEPT ![cur][l] = 1]
  BY <1>4, <1>5
<1> QED
  BY <1>3, <1>6 DEF Abstract!Enter, Abstract!Free

\* Every step is a step of the abstract lock or leaves the callers' view alone.
LEMMA StepRefines == IInv /\ [Next]_vars => [Abstract!Next]_depth
<1> SUFFICES ASSUME IInv, [Next]_vars PROVE Abstract!Next \/ depth' = depth
  OBVIOUS
<1>1. SyncInv /\ cur \in Thread
  BY DEF IInv, SchedInv
<1>2. ASSUME NEW l \in Lock, lock_acquire(l) PROVE Abstract!Next \/ depth' = depth
  <2>1. CASE sema_block(l, SavedIntr)
    BY <2>1 DEF sema_block, lockVars
  <2>2. CASE ~sema_block(l, SavedIntr)
    <3>1. Abstract!Enter(cur, l)
      BY <1>2, <2>2, TakeLockEnters DEF lock_acquire, MustWait
    <3> QED
      BY <1>1, <3>1 DEF Abstract!Next
  <2> QED
    BY <2>1, <2>2
<1>3. CASE sema_down_resume
  <2> DEFINE s == downing[cur]
  <2>1. CASE sema_block(s, old_status)
    BY <2>1 DEF sema_block, lockVars
  <2>2. CASE ~sema_block(s, old_status) /\ s \in Lock
    <3>1. Abstract!Enter(cur, s)
      BY <1>3, <2>2, TakeLockEnters DEF sema_down_resume, MustWait
    <3> QED
      BY <1>1, <2>2, <3>1 DEF Abstract!Next
  <2>3. CASE ~sema_block(s, old_status) /\ s \notin Lock
    BY <1>3, <2>3 DEF sema_down_resume
  <2> QED
    BY <2>1, <2>2, <2>3
<1>4. ASSUME NEW l \in Lock, lock_acquire_again(l) PROVE Abstract!Next
  <2>1. depth[cur][l] > 0
    BY <1>1, <1>4, ThreadAssumption DEF lock_acquire_again, SyncInv, LockInv, Sema
  <2>2. Abstract!Reenter(cur, l)
    BY <1>4, <2>1 DEF lock_acquire_again, Abstract!Reenter
  <2> QED
    BY <1>1, <2>2 DEF Abstract!Next
<1>5. ASSUME NEW l \in Lock, lock_release(l) \/ lock_release_nested(l)
      PROVE  Abstract!Next
  <2>1. Abstract!Leave(cur, l)
    BY <1>5 DEF lock_release, lock_release_nested, Abstract!Leave
  <2> QED
    BY <1>1, <2>1 DEF Abstract!Next
<1>6. CASE \/ intr_timer_handler \/ idle \/ thread_yield \/ thread_exit
           \/ DeviceWait \/ syscall_return
  BY <1>6 DEF intr_timer_handler, idle, thread_yield, thread_exit, DeviceWait,
              syscall_return, lockVars
<1>7. CASE thread_wait
  BY <1>7 DEF thread_wait, sema_block, lockVars
<1>8. ASSUME NEW t \in Thread,
             \/ \E p \in Prio : thread_start(t, p)
             \/ process_execute(t) \/ sys_fork(t) \/ Reap(t) \/ DeviceWake(t)
      PROVE  depth' = depth
  BY <1>8 DEF thread_start, process_execute, sys_fork, NewThread, Reap, DeviceWake, lockVars
<1>9. CASE UNCHANGED vars
  BY <1>9 DEF vars
<1> QED
  BY <1>2, <1>3, <1>4, <1>5, <1>6, <1>7, <1>8, <1>9 DEF Next

\* lock_acquire and lock_release, with the semaphore, its retry loop and the
\* scheduler under them, implement the abstract reentrant lock.
THEOREM LockRefinement == Spec => ImplementsLock
<1>1. Init => Abstract!Init
  BY DEF Init, Abstract!Init
<1>2. IInv /\ [Next]_vars => [Abstract!Next]_depth
  BY StepRefines
<1> QED
  BY <1>1, <1>2, Invariance, PTL DEF Spec, ImplementsLock, Abstract!Spec

----------------------------------------------------------------------------
(* The lists.  A thread's tag is on one list at a time, the list a thread  *)
(* is on is the one its status tells, no dead thread is revived, no slice  *)
(* is endless and no wakeup is lost.                                       *)


----------------------------------------------------------------------------
(* Lists that hold every thread at most once *)

\* TagOnce of any queues
Once(q) ==
    \A x, y \in QId : \A i \in DOMAIN q[x], j \in DOMAIN q[y] :
        q[x][i] = q[y][j] => x = y /\ i = j

\* t is on none of the lists.
Off(q, t) == \A x \in QId : ~In(t, q[x])

LEMMA OnceIndexed ==
    ASSUME NEW q \in Queues
    PROVE  Once(q) <=>
             \A x, y \in QId : \A i \in 1..Len(q[x]), j \in 1..Len(q[y]) :
                 q[x][i] = q[y][j] => x = y /\ i = j
<1>1. \A x \in QId : DOMAIN q[x] = 1..Len(q[x])
  BY DEF Queues
<1> QED
  BY <1>1 DEF Once

LEMMA OncePlace ==
    ASSUME NEW q \in Queues, Once(q), NEW x \in QId, NEW y \in QId,
           NEW i \in 1..Len(q[x]), NEW j \in 1..Len(q[y]), q[x][i] = q[y][j]
    PROVE  x = y /\ i = j
BY OnceIndexed

\* No thread is on two lists.
LEMMA OnceOneList ==
    ASSUME NEW q \in Queues, Once(q), NEW x \in QId, NEW y \in QId, NEW u,
           In(u, q[x]), In(u, q[y])
    PROVE  x = y
BY DEF Once, In

\* Every entry of the lists q2 is taken from its own place, f, of the same
\* list of q.
Moved(q, q2, f) ==
    \A x \in QId : \A i \in 1..Len(q2[x]) :
        /\ f[x][i] \in 1..Len(q[x])
        /\ q2[x][i] = q[x][f[x][i]]
        /\ \A j \in 1..Len(q2[x]) : f[x][i] = f[x][j] => i = j

LEMMA OnceMoved ==
    ASSUME NEW q \in Queues, Once(q), NEW q2 \in Queues, NEW f, Moved(q, q2, f)
    PROVE  Once(q2)
<1> SUFFICES ASSUME NEW x \in QId, NEW y \in QId,
                    NEW i \in 1..Len(q2[x]), NEW j \in 1..Len(q2[y]),
                    q2[x][i] = q2[y][j]
             PROVE  x = y /\ i = j
  BY OnceIndexed
<1>1. /\ f[x][i] \in 1..Len(q[x]) /\ f[y][j] \in 1..Len(q[y])
      /\ q[x][f[x][i]] = q[y][f[y][j]]
  BY DEF Moved
<1>2. x = y /\ f[x][i] = f[y][j]
  BY <1>1, OncePlace
<1> QED
  BY <1>2 DEF Moved

\* list_remove of a tag from lists that hold it at most once: it is gone and
\* everybody else is where he was.
LEMMA RemoveOnce ==
    ASSUME NEW q \in Queues, Once(q), NEW t \in Thread
    PROVE  /\ list_remove(q, t) \in Queues
           /\ Once(list_remove(q, t))
           /\ Off(list_remove(q, t), t)
           /\ \A x \in QId : \A u : u # t =>
                 (In(u, list_remove(q, t)[x]) <=> In(u, q[x]))
           /\ Off(q, t) => list_remove(q, t) = q
<1> DEFINE r == list_remove(q, t)
           k(x) == CHOOSE i \in DOMAIN q[x] : q[x][i] = t
           g(x, i) == IF In(t, q[x]) /\ ~(i < k(x)) THEN i + 1 ELSE i
           f == [x \in QId |-> [i \in 1..Len(r[x]) |-> g(x, i)]]
<1>1. r \in Queues
  BY PrioQId, ListTypes DEF Prio
<1>2. \A x \in QId : r[x] = Unlink(q[x], t)
  BY DEF list_remove
<1>3. ASSUME NEW x \in QId, In(t, q[x])
      PROVE  /\ q[x] \in Seq(Thread) /\ Len(q[x]) \in Nat
             /\ k(x) \in 1..Len(q[x]) /\ q[x][k(x)] = t
             /\ r[x] = [j \in 1..(Len(q[x]) - 1) |->
                           IF j < k(x) THEN q[x][j] ELSE q[x][j + 1]]
             /\ Len(r[x]) = Len(q[x]) - 1
  <2>1. q[x] \in Seq(Thread) /\ Len(q[x]) \in Nat /\ DOMAIN q[x] = 1..Len(q[x])
    BY DEF Queues
  <2>2. k(x) \in 1..Len(q[x]) /\ q[x][k(x)] = t
    BY <1>3, <2>1 DEF In
  <2>3. r[x] = [j \in 1..(Len(q[x]) - 1) |->
                   IF j < k(x) THEN q[x][j] ELSE q[x][j + 1]]
    BY <1>2, <1>3 DEF Unlink
  <2>4. r[x] \in Seq(Thread) /\ DOMAIN r[x] = 1..Len(r[x]) /\ Len(r[x]) \in Nat
    BY <1>1 DEF Queues
  <2>5. DOMAIN r[x] = 1..(Len(q[x]) - 1)
    BY <2>3
  <2>6. Len(q[x]) - 1 \in Nat
    BY <2>1, <2>2
  <2>7. Len(r[x]) = Len(q[x]) - 1
    BY <2>4, <2>5, <2>6
  <2> QED
    BY <2>1, <2>2, <2>3, <2>7
<1>4. ASSUME NEW x \in QId, ~In(t, q[x])
      PROVE  r[x] = q[x]
  BY <1>2, <1>4 DEF Unlink
<1>5. \A x \in QId : Len(q[x]) \in Nat
  BY DEF Queues
<1> HIDE DEF r, k
<1>6. ASSUME NEW x \in QId, NEW i \in 1..Len(r[x])
      PROVE  g(x, i) \in 1..Len(q[x]) /\ r[x][i] = q[x][g(x, i)]
  <2>1. CASE In(t, q[x])
    <3>1. i \in 1..(Len(q[x]) - 1) /\ Len(q[x]) \in Nat /\ k(x) \in 1..Len(q[x])
      BY <1>3, <1>6, <2>1
    <3>2. CASE i < k(x)
      <4>1. g(x, i) = i /\ i \in 1..Len(q[x])
        BY <3>1, <3>2
      <4> QED
        BY <1>3, <2>1, <3>1, <3>2, <4>1
    <3>3. CASE ~(i < k(x))
      <4>1. g(x, i) = i + 1 /\ i + 1 \in 1..Len(q[x])
        BY <2>1, <3>1, <3>3
      <4> QED
        BY <1>3, <2>1, <3>1, <3>3, <4>1
    <3> QED
      BY <3>2, <3>3
  <2>2. CASE ~In(t, q[x])
    BY <1>4, <1>5, <1>6, <2>2
  <2> QED
    BY <2>1, <2>2
<1>7. ASSUME NEW x \in QId, NEW i \in 1..Len(r[x]), NEW j \in 1..Len(r[x]),
             g(x, i) = g(x, j)
      PROVE  i = j
  <2>1. CASE In(t, q[x])
    <3>1. k(x) \in Int /\ i \in Int /\ j \in Int
      <4>1. k(x) \in 1..Len(q[x]) /\ Len(q[x]) \in Nat
        BY <1>3, <2>1
      <4>2. i \in 1..Len(r[x]) /\ j \in 1..Len(r[x])
        OBVIOUS
      <4>3. Len(r[x]) = Len(q[x]) - 1
        BY <1>3, <2>1
      <4> QED
        BY <4>1, <4>2, <4>3
    <3>2. /\ g(x, i) = IF i < k(x) THEN i ELSE i + 1
          /\ g(x, j) = IF j < k(x) THEN j ELSE j + 1
      BY <2>1
    <3>3. (IF i < k(x) THEN i ELSE i + 1) = (IF j < k(x) THEN j ELSE j + 1)
      BY <1>7, <3>2
    <3> HIDE DEF f
    <3>4. CASE i < k(x)
      BY <3>1, <3>3, <3>4
    <3>5. CASE ~(i < k(x))
      BY <3>1, <3>3, <3>5
    <3> QED
      BY <3>4, <3>5
  <2>2. CASE ~In(t, q[x])
    BY <1>7, <2>2
  <2> QED
    BY <2>1, <2>2
<1>8. \A x \in QId : \A i \in 1..Len(r[x]) : f[x][i] = g(x, i)
  OBVIOUS
<1> HIDE DEF f, g
<1>9. Once(r)
  <2>1. Moved(q, r, f)
    BY <1>6, <1>7, <1>8 DEF Moved
  <2> QED
    BY <1>1, <2>1, OnceMoved
<1>10. Off(r, t)
  <2> SUFFICES ASSUME NEW x \in QId, In(t, r[x]) PROVE FALSE
    BY DEF Off
  <2>1. CASE ~In(t, q[x])
    BY <1>4, <2>1
  <2>2. CASE In(t, q[x])
    <3>1. r[x] \in Seq(Thread)
      BY <1>1 DEF Queues
    <3>2. PICK i \in 1..Len(r[x]) : r[x][i] = t
      BY <3>1, InIndex
    <3>3. g(x, i) \in 1..Len(q[x]) /\ q[x][g(x, i)] = t
      BY <1>6, <3>2
    <3>4. g(x, i) = k(x)
      <4>1. k(x) \in 1..Len(q[x]) /\ q[x][g(x, i)] = q[x][k(x)]
        BY <1>3, <2>2, <3>3
      <4> QED
        BY <3>3, <4>1, OncePlace
    <3>5. g(x, i) = IF i < k(x) THEN i ELSE i + 1
      BY <2>2 DEF g
    <3> QED
      BY <1>3, <2>2, <3>2, <3>4, <3>5
  <2> QED
    BY <2>1, <2>2
<1>11. ASSUME NEW x \in QId, NEW u, u # t
       PROVE  In(u, r[x]) <=> In(u, q[x])
  <2>1. q[x] \in Seq(Thread) /\ r[x] \in Seq(Thread)
    BY <1>1 DEF Queues
  <2>2. In(u, q[x]) => In(u, r[x])
    BY <1>2, <1>11, <2>1, UnlinkKeeps
  <2>3. In(u, r[x]) => In(u, q[x])
    BY <1>6, <2>1, InIndex
  <2> QED
    BY <2>2, <2>3
<1>12. Off(q, t) => r = q
  <2> SUFFICES ASSUME Off(q, t) PROVE r = q
    OBVIOUS
  <2>1. \A x \in QId : r[x] = q[x]
    BY <1>4 DEF Off
  <2> QED
    BY <1>1, <2>1 DEF Queues
<1> QED
  BY <1>1, <1>9, <1>10, <1>11, <1>12 DEF r

\* list_append and list_push of a tag that is on no list.
LEMMA AddOnce ==
    ASSUME NEW q \in Queues, Once(q), NEW t \in Thread, Off(q, t),
           NEW x \in QId, NEW q2,
           q2 = list_append(q, x, t) \/ q2 = list_push(q, x, t)
    PROVE  /\ q2 \in Queues
           /\ Once(q2)
           /\ \A y \in QId : \A u :
                 In(u, q2[y]) <=> In(u, q[y]) \/ (u = t /\ y = x)
<1>1. q2 \in Queues
  BY ListTypes
<1>2. q[x] \in Seq(Thread) /\ Len(q[x]) \in Nat /\ \A y \in QId : Len(q[y]) \in Nat
  BY DEF Queues
<1>3. \A y \in QId : y # x => q2[y] = q[y]
  BY DEF list_append, list_push, Queues
<1>4. q2[x] = Append(q[x], t) \/ q2[x] = <<t>> \o q[x]
  BY DEF list_append, list_push, Queues
<1>5. \A u : In(u, q2[x]) <=> In(u, q[x]) \/ u = t
  <2>1. \A u : In(u, Append(q[x], t)) <=> (In(u, q[x]) \/ u = t)
    BY <1>2, AddKeeps
  <2>2. \A u : In(u, <<t>> \o q[x]) <=> (In(u, q[x]) \/ u = t)
    BY <1>2, AddKeeps
  <2>3. CASE q2[x] = Append(q[x], t)
    BY <2>1, <2>3
  <2>4. CASE q2[x] = <<t>> \o q[x]
    BY <2>2, <2>4
  <2> QED
    BY <1>4, <2>3, <2>4
<1>6. \A y \in QId : \A u :
          In(u, q2[y]) <=> In(u, q[y]) \/ (u = t /\ y = x)
  BY <1>3, <1>5
\* where the new entry is
<1>7. PICK k \in {1, Len(q[x]) + 1} :
          /\ Len(q2[x]) = Len(q[x]) + 1
          /\ q2[x][k] = t
          /\ \A i \in 1..(Len(q[x]) + 1) : i < k => q2[x][i] = q[x][i]
          /\ \A i \in 1..(Len(q[x]) + 1) : i > k => q2[x][i] = q[x][i - 1]
  <2>1. CASE q2[x] = Append(q[x], t)
    <3>1. /\ Len(q2[x]) = Len(q[x]) + 1
          /\ q2[x][Len(q[x]) + 1] = t
          /\ \A i \in 1..Len(q[x]) : q2[x][i] = q[x][i]
      BY <1>2, <2>1
    <3> QED
      BY <1>2, <3>1
  <2>2. CASE q2[x] = <<t>> \o q[x]
    <3>1. /\ Len(q2[x]) = Len(q[x]) + 1
          /\ q2[x][1] = t
          /\ \A i \in 1..Len(q[x]) : q2[x][i + 1] = q[x][i]
      BY <1>2, <2>2
    <3>2. ASSUME NEW i \in 1..(Len(q[x]) + 1), i > 1
          PROVE  q2[x][i] = q[x][i - 1]
      <4>1. i - 1 \in 1..Len(q[x]) /\ (i - 1) + 1 = i
        BY <1>2, <3>2
      <4> QED
        BY <3>1, <4>1
    <3> QED
      BY <1>2, <3>1, <3>2
  <2> QED
    BY <1>4, <2>1, <2>2
<1>8. \A y \in QId : \A i \in 1..Len(q[y]) : q[y][i] # t
  <2>1. \A y \in QId : q[y] \in Seq(Thread)
    BY DEF Queues
  <2> QED
    BY <2>1, InIndex DEF Off
<1>9. Once(q2)
  <2> SUFFICES ASSUME NEW y \in QId, NEW z \in QId,
                      NEW i \in 1..Len(q2[y]), NEW j \in 1..Len(q2[z]),
                      q2[y][i] = q2[z][j]
               PROVE  y = z /\ i = j
    BY <1>1, OnceIndexed
  <2>1. ASSUME NEW w \in QId, NEW a \in 1..Len(q2[w]), ~(w = x /\ a = k)
        PROVE  LET b == IF w = x /\ a > k THEN a - 1 ELSE a
               IN  b \in 1..Len(q[w]) /\ q2[w][a] = q[w][b] /\ q2[w][a] # t
    <3>1. CASE w # x
      BY <1>3, <1>8, <2>1, <3>1
    <3>2. CASE w = x
      <4>1. a \in 1..(Len(q[x]) + 1) /\ a # k
        BY <1>7, <2>1, <3>2
      <4>2. CASE a < k
        BY <1>2, <1>7, <1>8, <3>2, <4>1, <4>2
      <4>3. CASE a > k
        <5>1. a - 1 \in 1..Len(q[x])
          BY <1>2, <4>1, <4>3
        <5> QED
          BY <1>7, <1>8, <3>2, <4>1, <4>3, <5>1
      <4> QED
        BY <1>2, <4>1, <4>2, <4>3
    <3> QED
      BY <3>1, <3>2
  <2>2. CASE y = x /\ i = k
    <3>1. z = x /\ j = k
      BY <1>7, <2>1, <2>2
    <3> QED
      BY <2>2, <3>1
  <2>3. CASE z = x /\ j = k
    <3>1. y = x /\ i = k
      BY <1>7, <2>1, <2>3
    <3> QED
      BY <2>3, <3>1
  <2>4. CASE ~(y = x /\ i = k) /\ ~(z = x /\ j = k)
    <3> DEFINE b == IF y = x /\ i > k THEN i - 1 ELSE i
               c == IF z = x /\ j > k THEN j - 1 ELSE j
    <3>1. b \in 1..Len(q[y]) /\ q2[y][i] = q[y][b]
      BY <2>1, <2>4
    <3>2. c \in 1..Len(q[z]) /\ q2[z][j] = q[z][c]
      BY <2>1, <2>4
    <3> HIDE DEF b, c
    <3>3. y = z /\ b = c
      <4>1. q[y][b] = q[z][c]
        BY <3>1, <3>2
      <4> QED
        BY <3>1, <3>2, <4>1, OncePlace
    <3>4. i = j
      <4>1. i \in Nat /\ j \in Nat /\ (y = x => i # k /\ j # k) /\ k \in Nat
        BY <1>2, <2>4, <3>3
      <4> QED
        BY <3>3, <4>1 DEF b, c
    <3> QED
      BY <3>3, <3>4
  <2> QED
    BY <2>2, <2>3, <2>4
<1> QED
  BY <1>1, <1>6, <1>9

LEMMA AppendOnce ==
    ASSUME NEW q \in Queues, Once(q), NEW t \in Thread, Off(q, t), NEW x \in QId
    PROVE  /\ list_append(q, x, t) \in Queues
           /\ Once(list_append(q, x, t))
           /\ \A y \in QId : \A u :
                 In(u, list_append(q, x, t)[y]) <=> In(u, q[y]) \/ (u = t /\ y = x)
BY AddOnce

LEMMA PushOnce ==
    ASSUME NEW q \in Queues, Once(q), NEW t \in Thread, Off(q, t), NEW x \in QId
    PROVE  /\ list_push(q, x, t) \in Queues
           /\ Once(list_push(q, x, t))
           /\ \A y \in QId : \A u :
                 In(u, list_push(q, x, t)[y]) <=> In(u, q[y]) \/ (u = t /\ y = x)
BY AddOnce

\* list_pop: the head leaves its list, and was on no other.
LEMMA PopOnce ==
    ASSUME NEW q \in Queues, Once(q), NEW x \in QId, q[x] # <<>>
    PROVE  LET q2 == [q EXCEPT ![x] = Tail(@)]
           IN  /\ q2 \in Queues
               /\ Once(q2)
               /\ Head(q[x]) \in Thread
               /\ In(Head(q[x]), q[x])
               /\ Off(q2, Head(q[x]))
               /\ \A y \in QId : \A u : u # Head(q[x]) =>
                     (In(u, q2[y]) <=> In(u, q[y]))
<1> DEFINE q2 == [q EXCEPT ![x] = Tail(@)]
           h == Head(q[x])
           f == [y \in QId |-> [i \in 1..Len(q2[y]) |-> IF y = x THEN i + 1 ELSE i]]
<1>1. q[x] \in Seq(Thread) /\ \A y \in QId : Len(q[y]) \in Nat
  BY DEF Queues
<1>2. /\ Len(Tail(q[x])) = Len(q[x]) - 1 /\ Len(q[x]) > 0 /\ h = q[x][1]
      /\ \A i \in 1..(Len(q[x]) - 1) : Tail(q[x])[i] = q[x][i + 1]
      /\ Tail(q[x]) \in Seq(Thread) /\ h \in Thread
  BY <1>1
<1>3. q2[x] = Tail(q[x]) /\ \A y \in QId : y # x => q2[y] = q[y]
  BY DEF Queues
<1>4. q2 \in Queues
  BY <1>2 DEF Queues
<1>5. \A y \in QId : \A i \in 1..Len(q2[y]) : f[y][i] = IF y = x THEN i + 1 ELSE i
  OBVIOUS
<1> HIDE DEF f, q2, h
<1>6. ASSUME NEW y \in QId, NEW i \in 1..Len(q2[y])
      PROVE  f[y][i] \in 1..Len(q[y]) /\ q2[y][i] = q[y][f[y][i]]
  <2>1. CASE y = x
    <3>1. i \in 1..(Len(q[x]) - 1) /\ Len(q[x]) \in Nat /\ f[y][i] = i + 1
      BY <1>1, <1>2, <1>3, <1>5, <1>6, <2>1
    <3>2. i + 1 \in 1..Len(q[x])
      BY <3>1
    <3> QED
      BY <1>2, <1>3, <2>1, <3>1, <3>2
  <2>2. CASE y # x
    BY <1>1, <1>3, <1>5, <1>6, <2>2
  <2> QED
    BY <2>1, <2>2
<1>7. ASSUME NEW y \in QId, NEW i \in 1..Len(q2[y]), NEW j \in 1..Len(q2[y]),
             f[y][i] = f[y][j]
      PROVE  i = j
  BY <1>5, <1>7
<1>8. Once(q2)
  <2>1. Moved(q, q2, f)
    BY <1>6, <1>7 DEF Moved
  <2> QED
    BY <1>4, <2>1, OnceMoved
<1>9. In(h, q[x])
  BY <1>1, TailKeeps DEF h
<1>10. Off(q2, h)
  <2> SUFFICES ASSUME NEW y \in QId, In(h, q2[y]) PROVE FALSE
    BY DEF Off
  <2>1. q2[y] \in Seq(Thread)
    BY <1>4 DEF Queues
  <2>2. PICK i \in 1..Len(q2[y]) : q2[y][i] = h
    BY <2>1, InIndex
  <2>3. f[y][i] \in 1..Len(q[y]) /\ q[y][f[y][i]] = q[x][1] /\ 1 \in 1..Len(q[x])
    BY <1>1, <1>2, <1>6, <2>2
  <2>4. y = x /\ f[y][i] = 1
    BY <2>3, OnceIndexed
  <2> QED
    BY <1>5, <2>2, <2>4
<1>11. ASSUME NEW y \in QId, NEW u, u # h
       PROVE  In(u, q2[y]) <=> In(u, q[y])
  <2>1. CASE y # x
    BY <1>3, <2>1
  <2>2. CASE y = x
    BY <1>1, <1>3, <1>11, <2>2, TailKeeps DEF h
  <2> QED
    BY <2>1, <2>2
<1> QED
  BY <1>2, <1>4, <1>8, <1>9, <1>10, <1>11 DEF q2, h
----------------------------------------------------------------------------
(* What the status of the threads says about the lists *)

\* QueueStatus, but for what it says of the running thread, in the state that
\* a caller of schedule() has built up.
FitsAt(q, st, pr, dn, t) ==
    /\ st[t] = "READY" => \E p \in Prio : In(t, q[p])
    /\ \A p \in Prio : In(t, q[p]) => pr[t] = p /\ st[t] \in {"READY", "RUNNING"}
    /\ \A s \in Sema : In(t, q[s]) => st[t] = "BLOCKED" /\ dn[t] = s
    /\ st[t] = "BLOCKED" /\ dn[t] # NULL => \E s \in Sema : In(t, q[s])
Fits(q, st, pr, dn) == \A t \in Thread : FitsAt(q, st, pr, dn, t)

\* A thread that is neither ready, running nor blocked is on no list.
LEMMA FitsOff ==
    ASSUME NEW q, NEW st, NEW pr, NEW dn, Fits(q, st, pr, dn), NEW t \in Thread,
           \/ st[t] \notin {"READY", "RUNNING", "BLOCKED"}
           \/ st[t] = "BLOCKED" /\ dn[t] = NULL
    PROVE  Off(q, t)
<1>1. NULL \notin Sema /\ QId = Prio \cup Sema
  BY ThreadAssumption DEF QId
<1>2. \A p \in Prio : ~In(t, q[p])
  BY DEF Fits, FitsAt
<1>3. \A s \in Sema : ~In(t, q[s])
  BY <1>1 DEF Fits, FitsAt
<1> QED
  BY <1>1, <1>2, <1>3 DEF Off

\* A list with a member is not empty, and one that is not empty has one.
LEMMA EmptyList ==
    ASSUME NEW s \in Seq(Thread)
    PROVE  s = <<>> <=> \A u \in Thread : ~In(u, s)
<1>1. CASE s = <<>>
  BY <1>1 DEF In
<1>2. CASE s # <<>>
  <2>1. Head(s) \in Thread /\ In(Head(s), s)
    BY <1>2, TailKeeps
  <2> QED
    BY <1>2, <2>1
<1> QED
  BY <1>1, <1>2

\* The thread schedule() picks leaves the lists; it was ready, or it is idle.
LEMMA PickOnce ==
    ASSUME NEW q \in Queues, NEW st \in [Thread -> Status], NEW pr, NEW dn,
           Once(q), Fits(q, st, pr, dn), dn[Idle] = NULL
    PROVE  LET q1 == QueueWithIdle(q, st)
               st1 == StatusWithIdle(q, st)
               next == Picked(q1)
               q2 == Popped(q1)
           IN  /\ next \in Thread
               /\ q2 \in Queues
               /\ Once(q2)
               /\ Off(q2, next)
               /\ \A x \in QId : \A u : u # next => (In(u, q2[x]) <=> In(u, q[x]))
               /\ st1 \in [Thread -> Status]
               /\ \A t \in Thread : t # next => st1[t] = st[t]
               /\ \/ next = Idle /\ st1[Idle] = "READY"
                  \/ /\ st1 = st
                     /\ st[next] \in {"READY", "RUNNING"}
                     /\ \E p \in Prio : In(next, q[p])
<1> USE PrioQId, ThreadAssumption
<1> DEFINE q1 == QueueWithIdle(q, st)
           st1 == StatusWithIdle(q, st)
           next == Picked(q1)
           q2 == Popped(q1)
           L == PickLevel(q1)
<1>1. IdleListed(q, st)
  BY DEF IdleListed, Fits, FitsAt
<1>2. /\ q1 \in Queues
      /\ st1 \in [Thread -> Status]
      /\ L \in Prio
      /\ q1[L] # <<>>
      /\ IdleNeeded(q, st) => next = Idle
  BY <1>1, SchedulePicks
<1>3. next = Head(q1[L]) /\ q2 = [q1 EXCEPT ![L] = Tail(@)] /\ L \in QId
  BY <1>2 DEF Picked, Popped
<1>4. Once(q1) /\ \A x \in QId : \A u : u # next => (In(u, q1[x]) <=> In(u, q[x]))
  <2>1. CASE ~IdleNeeded(q, st)
    BY <2>1 DEF QueueWithIdle
  <2>2. CASE IdleNeeded(q, st)
    <3>1. Off(q, Idle)
      <4>1. \A p \in Prio : ~In(Idle, q[p])
        BY <2>2 DEF IdleNeeded, ReadyEmpty, In
      <4>2. \A s \in Sema : ~In(Idle, q[s])
        BY DEF Fits, FitsAt
      <4> QED
        BY <4>1, <4>2 DEF Off, QId
    <3>2. q1 = list_push(q, THIRD_PRIO, Idle) /\ THIRD_PRIO \in QId /\ Idle \in Thread
      BY <2>2 DEF QueueWithIdle, Prio
    <3>3. /\ Once(q1)
          /\ \A y \in QId : \A u :
                In(u, q1[y]) <=> In(u, q[y]) \/ (u = Idle /\ y = THIRD_PRIO)
      BY <3>1, <3>2, AddOnce
    <3>4. next = Idle
      BY <1>2, <2>2
    <3> HIDE DEF q1, next
    <3> QED
      BY <3>3, <3>4
  <2> QED
    BY <2>1, <2>2
<1>5. \A t \in Thread : t # next => st1[t] = st[t]
  BY <1>2 DEF StatusWithIdle
<1>6. \/ next = Idle /\ st1[Idle] = "READY"
      \/ st1 = st /\ q1 = q
  BY <1>2 DEF StatusWithIdle, QueueWithIdle
<1> HIDE DEF q1, st1, next, q2, L
<1>7. /\ q2 \in Queues
      /\ Once(q2)
      /\ next \in Thread
      /\ In(next, q1[L])
      /\ Off(q2, next)
      /\ \A y \in QId : \A u : u # next => (In(u, q2[y]) <=> In(u, q1[y]))
  BY <1>2, <1>3, <1>4, PopOnce
<1>8. \A y \in QId : \A u : u # next => (In(u, q2[y]) <=> In(u, q[y]))
  BY <1>4, <1>7
<1>9. q1 = q => st[next] \in {"READY", "RUNNING"} /\ In(next, q[L])
  BY <1>2, <1>7 DEF Fits, FitsAt
<1> QED
  BY <1>2, <1>5, <1>6, <1>7, <1>8, <1>9 DEF q1, st1, next, q2, L

\* After schedule() every thread is where its status says, if that was so in
\* the state its caller had built up.  Nobody but the two threads of the
\* switch is touched.
LEMMA SchedulePlaces ==
    ASSUME NEW q \in Queues, NEW st \in [Thread -> Status],
           NEW pr \in [Thread -> Prio], NEW tk \in [Thread -> 0..UINT32_MAX],
           NEW dn \in [Thread -> Sema \cup {NULL}], NEW os,
           cur \in Thread, Once(q), Fits(q, st, pr, dn), dn[Idle] = NULL,
           st[cur] = "RUNNING" => Off(q, cur),
           schedule(q, st, pr, tk, dn, os)
    PROVE  /\ Once(queue')
           /\ Fits(queue', status', priority', downing')
           /\ cur' \in Thread
           /\ status'[cur'] = "RUNNING"
           /\ Off(queue', cur')
           /\ cur' = Idle \/ st[cur'] \in {"READY", "RUNNING"}
           /\ \A t \in Thread \ {cur, cur'} : status'[t] = st[t]
           /\ cur' # cur => status'[cur] = IF st[cur] = "RUNNING" THEN "READY"
                                           ELSE st[cur]
           /\ \A s \in Sema : \A u : In(u, queue'[s]) => In(u, q[s])
<1> USE PrioQId, ThreadAssumption
<1> DEFINE q1 == QueueWithIdle(q, st)
           st1 == StatusWithIdle(q, st)
           lvl == LevelAfter(pr, tk)
           next == Picked(q1)
           q2 == Popped(q1)
<1>1. /\ next \in Thread
      /\ q2 \in Queues
      /\ Once(q2)
      /\ Off(q2, next)
      /\ \A x \in QId : \A u : u # next => (In(u, q2[x]) <=> In(u, q[x]))
      /\ st1 \in [Thread -> Status]
      /\ \A t \in Thread : t # next => st1[t] = st[t]
      /\ \/ next = Idle /\ st1[Idle] = "READY"
         \/ /\ st1 = st
            /\ st[next] \in {"READY", "RUNNING"}
            /\ \E p \in Prio : In(next, q[p])
  BY PickOnce
<1>2. /\ cur' = next
      /\ queue' = IF st1[cur] = "RUNNING" THEN list_append(q2, lvl, cur)
                  ELSE IF st1[cur] = "DIED" THEN list_remove(q2, cur)
                  ELSE q2
      /\ status' = [st1 EXCEPT ![cur] = IF st1[cur] = "RUNNING" THEN "READY" ELSE @,
                               ![next] = "RUNNING"]
      /\ priority' = [pr EXCEPT ![cur] =
                          IF st1[cur] = "RUNNING" THEN lvl
                          ELSE IF st1[cur] = "BLOCKED" THEN THIRD_PRIO ELSE @]
      /\ downing' = dn
  BY DEF schedule
<1>3. lvl \in Prio /\ lvl \in QId
  BY DEF LevelAfter, Demoted, Prio
<1> HIDE DEF q1, st1, lvl, next, q2
<1>4. cur = next => st1[cur] \notin {"RUNNING", "DIED"}
  <2> SUFFICES ASSUME cur = next, st1[cur] \in {"RUNNING", "DIED"} PROVE FALSE
    OBVIOUS
  <2>1. st1 = st /\ st[cur] = "RUNNING" /\ \E p \in Prio : In(cur, q[p])
    BY <1>1
  <2> QED
    BY <2>1 DEF Off
<1>5. cur # next /\ st1[cur] = "RUNNING" => Off(q2, cur)
  BY <1>1 DEF Off
<1>6. /\ Once(queue')
      /\ \A x \in QId : \A u :
            In(u, queue'[x]) <=> \/ u # next /\ In(u, q[x])
                                 \/ u = cur /\ st1[cur] = "RUNNING" /\ x = lvl
  <2>1. \A x \in QId : \A u : In(u, q2[x]) <=> u # next /\ In(u, q[x])
    BY <1>1 DEF Off
  <2>2. CASE st1[cur] = "RUNNING"
    <3>1. queue' = list_append(q2, lvl, cur) /\ Off(q2, cur)
      BY <1>2, <1>4, <1>5, <2>2
    <3> DEFINE r == list_append(q2, lvl, cur)
    <3>4. q2 \in Queues /\ Once(q2) /\ lvl \in QId /\ cur \in Thread /\ Off(q2, cur)
      BY <1>1, <1>3, <3>1
    <3>2. /\ Once(r)
          /\ \A x \in QId : \A u :
                In(u, r[x]) <=> In(u, q2[x]) \/ (u = cur /\ x = lvl)
      BY <3>4, AppendOnce
    <3>3. queue' = r
      BY <3>1
    <3> HIDE DEF r
    <3> QED
      BY <2>1, <2>2, <3>2, <3>3
  <2>3. CASE st1[cur] = "DIED"
    <3>1. st[cur] = "DIED"
      BY <1>1, <1>4, <2>3
    <3>2. Off(q, cur)
      BY <3>1, FitsOff
    <3>3. Off(q2, cur)
      BY <2>1, <3>2 DEF Off
    <3>4. queue' = q2
      BY <1>1, <1>2, <2>3, <3>3, RemoveOnce
    <3> QED
      BY <1>1, <2>1, <2>3, <3>4
  <2>4. CASE st1[cur] \notin {"RUNNING", "DIED"}
    <3>1. queue' = q2
      BY <1>2, <2>4
    <3> QED
      BY <1>1, <2>1, <2>4, <3>1
  <2> QED
    BY <2>2, <2>3, <2>4
<1>7. Off(queue', cur')
  BY <1>2, <1>4, <1>6 DEF Off
<1>8. status'[cur'] = "RUNNING"
  BY <1>1, <1>2
<1>9. \A t \in Thread \ {cur, cur'} : status'[t] = st[t] /\ priority'[t] = pr[t]
  BY <1>1, <1>2
<1>10. cur' # cur => /\ st1[cur] = st[cur]
                     /\ status'[cur] = IF st[cur] = "RUNNING" THEN "READY" ELSE st[cur]
                     /\ st[cur] = "RUNNING" => priority'[cur] = lvl
                     /\ st[cur] \notin {"RUNNING", "BLOCKED"} => priority'[cur] = pr[cur]
  BY <1>1, <1>2
<1>11. \A s \in Sema : \A u : In(u, queue'[s]) => In(u, q[s])
  <2>1. \A s \in Sema : s \in QId /\ s # lvl
    BY <1>3, QueueAssumption DEF QId
  <2> QED
    BY <1>6, <2>1
<1>12. Fits(queue', status', priority', downing')
  <2> SUFFICES ASSUME NEW t \in Thread
               PROVE  /\ status'[t] = "READY" => \E p \in Prio : In(t, queue'[p])
                      /\ \A p \in Prio : In(t, queue'[p]) =>
                            priority'[t] = p /\ status'[t] \in {"READY", "RUNNING"}
                      /\ \A s \in Sema : In(t, queue'[s]) =>
                            status'[t] = "BLOCKED" /\ downing'[t] = s
                      /\ status'[t] = "BLOCKED" /\ downing'[t] # NULL =>
                            \E s \in Sema : In(t, queue'[s])
    BY DEF Fits, FitsAt
  <2>1. \A p \in Prio : p \in QId
    OBVIOUS
  <2>2. \A s \in Sema : s \in QId /\ s # lvl
    BY <1>3, QueueAssumption DEF QId
  <2>3. /\ st[t] = "READY" => \E p \in Prio : In(t, q[p])
        /\ \A p \in Prio : In(t, q[p]) => pr[t] = p /\ st[t] \in {"READY", "RUNNING"}
        /\ \A s \in Sema : In(t, q[s]) => st[t] = "BLOCKED" /\ dn[t] = s
        /\ st[t] = "BLOCKED" /\ dn[t] # NULL => \E s \in Sema : In(t, q[s])
    BY DEF Fits, FitsAt
  <2>4. CASE t = cur'
    <3>1. \A x \in QId : ~In(t, queue'[x])
      BY <1>7, <2>4 DEF Off
    <3> QED
      BY <1>8, <2>1, <2>2, <2>4, <3>1
  <2>5. CASE t # cur' /\ t # cur
    <3>1. \A x \in QId : In(t, queue'[x]) <=> In(t, q[x])
      BY <1>2, <1>6, <2>5
    <3>2. status'[t] = st[t] /\ priority'[t] = pr[t] /\ downing'[t] = dn[t]
      BY <1>2, <1>9, <2>5
    <3> QED
      BY <2>1, <2>2, <2>3, <3>1, <3>2
  <2>6. CASE t # cur' /\ t = cur /\ st[cur] = "RUNNING"
    <3>1. \A x \in QId : In(t, queue'[x]) <=> x = lvl
      BY <1>2, <1>6, <1>10, <2>6 DEF Off
    <3>2. status'[t] = "READY" /\ priority'[t] = lvl
      BY <1>10, <2>6
    <3> QED
      BY <1>3, <2>1, <2>2, <3>1, <3>2
  <2>7. CASE t # cur' /\ t = cur /\ st[cur] # "RUNNING"
    <3>1. \A x \in QId : In(t, queue'[x]) <=> In(t, q[x])
      BY <1>2, <1>6, <1>10, <2>7
    <3>2. /\ status'[t] = st[t] /\ downing'[t] = dn[t]
          /\ st[t] # "BLOCKED" => priority'[t] = pr[t]
      BY <1>2, <1>10, <2>7
    <3> QED
      BY <2>1, <2>2, <2>3, <3>1, <3>2
  <2> QED
    BY <2>4, <2>5, <2>6, <2>7
<1>13. cur' = Idle \/ st[cur'] \in {"READY", "RUNNING"}
  BY <1>1, <1>2
<1> QED
  BY <1>1, <1>2, <1>6, <1>7, <1>8, <1>9, <1>10, <1>11, <1>12, <1>13
----------------------------------------------------------------------------
(* The same for the changes a caller makes before schedule() *)

\* A thread that is not touched fits as before.
LEMMA FitsSame ==
    ASSUME NEW q, NEW st, NEW pr, NEW dn, NEW t, FitsAt(q, st, pr, dn, t),
           NEW q2, NEW st2, NEW pr2, NEW dn2,
           st2[t] = st[t], pr2[t] = pr[t], dn2[t] = dn[t],
           \A x \in QId : In(t, q2[x]) <=> In(t, q[x])
    PROVE  FitsAt(q2, st2, pr2, dn2, t)
<1>1. \A x \in Prio \cup Sema : In(t, q2[x]) <=> In(t, q[x])
  BY DEF QId
<1> QED
  BY <1>1 DEF FitsAt

\* A thread fits that is on one ready list, that of its priority;
LEMMA FitsReady ==
    ASSUME NEW q, NEW st, NEW pr, NEW dn, NEW t, NEW p \in Prio,
           st[t] \in {"READY", "RUNNING"}, pr[t] = p,
           \A x \in QId : In(t, q[x]) <=> x = p
    PROVE  FitsAt(q, st, pr, dn, t)
<1>1. \A x \in Prio \cup Sema : In(t, q[x]) <=> x = p
  BY DEF QId
<1>2. \A s \in Sema : s # p
  BY QueueAssumption
<1> QED
  BY <1>1, <1>2 DEF FitsAt

\* one that waits for the semaphore it is downing;
LEMMA FitsWaiting ==
    ASSUME NEW q, NEW st, NEW pr, NEW dn, NEW t, NEW s \in Sema,
           st[t] = "BLOCKED", dn[t] = s,
           \A x \in QId : In(t, q[x]) <=> x = s
    PROVE  FitsAt(q, st, pr, dn, t)
<1>1. \A x \in Prio \cup Sema : In(t, q[x]) <=> x = s
  BY DEF QId
<1>2. \A p \in Prio : s # p
  BY QueueAssumption
<1> QED
  BY <1>1, <1>2 DEF FitsAt

\* and one that is on no list and neither ready nor in sema_down.
LEMMA FitsNowhere ==
    ASSUME NEW q, NEW st, NEW pr, NEW dn, NEW t,
           st[t] # "READY", st[t] = "BLOCKED" => dn[t] = NULL, Off(q, t)
    PROVE  FitsAt(q, st, pr, dn, t)
<1>1. \A x \in Prio \cup Sema : ~In(t, q[x])
  BY DEF QId, Off
<1> QED
  BY <1>1 DEF FitsAt

FitsBut(q, st, pr, dn, t) == \A u \in Thread \ {t} : FitsAt(q, st, pr, dn, u)

\* t, on no list, is put on the ready list p with list_append or list_push.
LEMMA MadeReady ==
    ASSUME NEW q \in Queues, Once(q), NEW t \in Thread, Off(q, t), NEW p \in Prio,
           NEW st \in [Thread -> Status], NEW pr \in [Thread -> Prio], NEW dn,
           FitsBut(q, st, pr, dn, t), NEW v \in {"READY", "RUNNING"}
    PROVE  \A q2 \in {list_append(q, p, t), list_push(q, p, t)} :
               /\ q2 \in Queues
               /\ Once(q2)
               /\ Fits(q2, [st EXCEPT ![t] = v], [pr EXCEPT ![t] = p], dn)
               /\ \A y \in QId : \A u :
                     In(u, q2[y]) <=> In(u, q[y]) \/ (u = t /\ y = p)
<1> TAKE q2 \in {list_append(q, p, t), list_push(q, p, t)}
<1> DEFINE st2 == [st EXCEPT ![t] = v]
           pr2 == [pr EXCEPT ![t] = p]
<1>1. p \in QId
  BY PrioQId
<1>2. /\ q2 \in Queues
      /\ Once(q2)
      /\ \A y \in QId : \A u : In(u, q2[y]) <=> In(u, q[y]) \/ (u = t /\ y = p)
  BY <1>1, AddOnce
<1>3. \A x \in QId : In(t, q2[x]) <=> x = p
  BY <1>2 DEF Off
<1>4. FitsAt(q2, st2, pr2, dn, t)
  <2>1. st2[t] \in {"READY", "RUNNING"} /\ pr2[t] = p
    OBVIOUS
  <2> QED
    BY <1>3, <2>1, FitsReady
<1>5. ASSUME NEW u \in Thread \ {t} PROVE FitsAt(q2, st2, pr2, dn, u)
  <2>1. \A x \in QId : In(u, q2[x]) <=> In(u, q[x])
    BY <1>2
  <2>2. st2[u] = st[u] /\ pr2[u] = pr[u]
    OBVIOUS
  <2>3. FitsAt(q, st, pr, dn, u)
    BY DEF FitsBut
  <2> QED
    BY <2>1, <2>2, <2>3, FitsSame
<1> QED
  BY <1>2, <1>4, <1>5 DEF Fits

LEMMA AppendedReady ==
    ASSUME NEW q \in Queues, Once(q), NEW t \in Thread, Off(q, t), NEW p \in Prio,
           NEW st \in [Thread -> Status], NEW pr \in [Thread -> Prio], NEW dn,
           FitsBut(q, st, pr, dn, t), NEW v \in {"READY", "RUNNING"}
    PROVE  /\ list_append(q, p, t) \in Queues
           /\ Once(list_append(q, p, t))
           /\ Fits(list_append(q, p, t), [st EXCEPT ![t] = v], [pr EXCEPT ![t] = p], dn)
           /\ \A y \in QId : \A u :
                 In(u, list_append(q, p, t)[y]) <=> In(u, q[y]) \/ (u = t /\ y = p)
BY MadeReady

LEMMA PushedReady ==
    ASSUME NEW q \in Queues, Once(q), NEW t \in Thread, Off(q, t), NEW p \in Prio,
           NEW st \in [Thread -> Status], NEW pr \in [Thread -> Prio], NEW dn,
           FitsBut(q, st, pr, dn, t), NEW v \in {"READY", "RUNNING"}
    PROVE  /\ list_push(q, p, t) \in Queues
           /\ Once(list_push(q, p, t))
           /\ Fits(list_push(q, p, t), [st EXCEPT ![t] = v], [pr EXCEPT ![t] = p], dn)
           /\ \A y \in QId : \A u :
                 In(u, list_push(q, p, t)[y]) <=> In(u, q[y]) \/ (u = t /\ y = p)
BY MadeReady

\* What becomes of the first waiter of s when sema_up wakes it
WaiterReady(q, s, st, pr, dn) ==
    /\ Head(q[s]) \in Thread
    /\ st[Head(q[s])] = "BLOCKED" /\ dn[Head(q[s])] = s
    /\ list_remove([q EXCEPT ![s] = Tail(@)], Head(q[s])) = [q EXCEPT ![s] = Tail(@)]
    /\ ExitQueue(q, s) \in Queues
    /\ Once(ExitQueue(q, s))
    /\ Fits(ExitQueue(q, s), [st EXCEPT ![Head(q[s])] = "READY"],
            [pr EXCEPT ![Head(q[s])] = FIRST_PRIO], dn)
    /\ \A x \in QId : \A v : v # Head(q[s]) =>
          (In(v, ExitQueue(q, s)[x]) <=> In(v, q[x]))
    /\ \A x \in Sema : ~In(Head(q[s]), ExitQueue(q, s)[x])

\* The first waiter of a semaphore is taken off its list and made ready.
LEMMA WaiterMadeReady ==
    ASSUME NEW q \in Queues, Once(q), NEW s \in Sema, q[s] # <<>>,
           NEW st \in [Thread -> Status], NEW pr \in [Thread -> Prio], NEW dn,
           Fits(q, st, pr, dn)
    PROVE  WaiterReady(q, s, st, pr, dn)
<1> DEFINE u == Head(q[s])
           q1 == [q EXCEPT ![s] = Tail(@)]
           q2 == list_push(q1, FIRST_PRIO, u)
           st2 == [st EXCEPT ![u] = "READY"]
           pr2 == [pr EXCEPT ![u] = FIRST_PRIO]
<1>1. s \in QId /\ FIRST_PRIO \in Prio /\ FIRST_PRIO \in QId
  BY DEF QId, Prio
<1>2. /\ q1 \in Queues /\ Once(q1) /\ u \in Thread /\ In(u, q[s]) /\ Off(q1, u)
      /\ \A y \in QId : \A v : v # u => (In(v, q1[y]) <=> In(v, q[y]))
  BY <1>1, PopOnce
<1>3. st[u] = "BLOCKED" /\ dn[u] = s
  BY <1>2 DEF Fits, FitsAt
<1>4. list_remove(q1, u) = q1
  BY <1>2, RemoveOnce
<1> HIDE DEF u, q1
<1>5. FitsBut(q1, st, pr, dn, u)
  <2> SUFFICES ASSUME NEW v \in Thread \ {u} PROVE FitsAt(q1, st, pr, dn, v)
    BY DEF FitsBut
  <2>1. \A x \in QId : In(v, q1[x]) <=> In(v, q[x])
    BY <1>2
  <2>2. FitsAt(q, st, pr, dn, v)
    BY DEF Fits
  <2> QED
    BY <2>1, <2>2, FitsSame
<1>8. /\ q2 \in Queues
      /\ Once(q2)
      /\ Fits(q2, st2, pr2, dn)
      /\ \A y \in QId : \A v :
            In(v, q2[y]) <=> In(v, q1[y]) \/ (v = u /\ y = FIRST_PRIO)
  BY <1>1, <1>2, <1>5, PushedReady
<1> HIDE DEF q2, st2, pr2
<1>9. \A x \in QId : \A v : v # u => (In(v, q2[x]) <=> In(v, q[x]))
  BY <1>2, <1>8
<1>10. \A x \in Sema : ~In(u, q2[x])
  <2>1. \A x \in Sema : x \in QId /\ x # FIRST_PRIO
    BY <1>1, QueueAssumption DEF QId
  <2> QED
    BY <1>2, <1>8, <2>1 DEF Off
<1>11. ExitQueue(q, s) = q2
  BY DEF ExitQueue, q2, q1, u
<1> QED
  BY <1>2, <1>3, <1>4, <1>8, <1>9, <1>10, <1>11 DEF WaiterReady, u, q1, st2, pr2
----------------------------------------------------------------------------
(* The inductive invariant *)

\* A thread downs a lock's semaphore or its own waiting_sema.
Own(dn) == \A t \in Thread : dn[t] \in Lock \cup {t, NULL}

\* NoLostWakeup, in the state that a caller of schedule() has built up
NoneLost(q, st, dn, v) ==
    \A s \in Sema : q[s] # <<>> /\ v[s] > 0 =>
        \E t \in Thread : dn[t] = s /\ st[t] # "BLOCKED"

QInv ==
    /\ Once(queue)
    /\ Fits(queue, status, priority, downing)
    /\ status[cur] = "RUNNING"
    /\ Off(queue, cur)
    /\ status[Idle] # "DIED"
    /\ Own(downing)
    /\ NoneLost(queue, status, downing, value)

\* What DiedStaysDead says of a step
DeadKept == \A t \in Thread : status[t] = "DIED" =>
                cur' # t /\ status'[t] \in {"DIED", "NONE"}

Kept == QInv' /\ DeadKept

\* The types and the facts of IInv that the steps below need
LEMMA QTypes ==
    ASSUME IInv
    PROVE  /\ cur \in Thread /\ Idle \in Thread
           /\ status \in [Thread -> Status]
           /\ priority \in [Thread -> Prio]
           /\ ticks \in [Thread -> 0..UINT32_MAX]
           /\ queue \in Queues
           /\ downing \in [Thread -> Sema \cup {NULL}]
           /\ value \in [Sema -> 0..(SEMA_MOD - 1)]
           /\ parent \in [Thread -> Thread \cup {NULL}]
           /\ downing[Idle] = NULL
           /\ NULL \notin Sema
BY ThreadAssumption DEF IInv, SchedInv, SyncInv

LEMMA QInvInit == Init => QInv
<1> SUFFICES ASSUME Init PROVE QInv
  OBVIOUS
<1> USE ThreadAssumption
<1>1. IInv
  BY InitIInv
<1>2. THIRD_PRIO \in Prio /\ THIRD_PRIO \in QId
  BY DEF Prio, QId
<1>3. /\ queue[THIRD_PRIO] = <<Idle>>
      /\ \A x \in QId : x # THIRD_PRIO => queue[x] = <<>>
  BY <1>2 DEF Init
<1>4. \A x \in QId : \A i \in DOMAIN queue[x] : x = THIRD_PRIO /\ i = 1 /\ queue[x][i] = Idle
  BY <1>3
<1>5. \A x \in QId : \A u : In(u, queue[x]) <=> x = THIRD_PRIO /\ u = Idle
  <2>1. 1 \in DOMAIN <<Idle>>
    OBVIOUS
  <2> QED
    BY <1>3, <1>4, <2>1 DEF In
<1>6. Once(queue)
  BY <1>4 DEF Once
<1>7. /\ status[Idle] = "READY" /\ status[Main] = "RUNNING" /\ cur = Main
      /\ \A t \in Thread : t # Idle => status[t] \in {"RUNNING", "NONE"}
      /\ priority[Idle] = THIRD_PRIO
      /\ \A t \in Thread : downing[t] = NULL
  BY DEF Init
<1>8. Off(queue, cur)
  BY <1>5, <1>7 DEF Off
<1>9. Fits(queue, status, priority, downing)
  <2> SUFFICES ASSUME NEW t \in Thread PROVE FitsAt(queue, status, priority, downing, t)
    BY DEF Fits
  <2>1. CASE t = Idle
    BY <1>2, <1>5, <1>7, <2>1, FitsReady
  <2>2. CASE t # Idle
    <3>1. Off(queue, t)
      BY <1>5, <2>2 DEF Off
    <3> QED
      BY <1>7, <2>2, <3>1, FitsNowhere
  <2> QED
    BY <2>1, <2>2
<1>10. NoneLost(queue, status, downing, value)
  <2>1. \A s \in Sema : queue[s] = <<>>
    BY <1>2, <1>3, QueueAssumption DEF QId
  <2> QED
    BY <2>1 DEF NoneLost
<1>11. Own(downing)
  BY <1>7 DEF Own
<1> QED
  BY <1>6, <1>7, <1>8, <1>9, <1>10, <1>11 DEF QInv

LEMMA QInvPrimed ==
    ASSUME Once(queue'), Fits(queue', status', priority', downing'),
           status'[cur'] = "RUNNING", Off(queue', cur'), status'[Idle] # "DIED",
           Own(downing'), NoneLost(queue', status', downing', value')
    PROVE  QInv'
<1>1. Once(queue)' = Once(queue')
  BY DEF Once
<1>2. Fits(queue, status, priority, downing)' = Fits(queue', status', priority', downing')
  BY DEF Fits, FitsAt, In
<1>3. Off(queue, cur)' = Off(queue', cur')
  BY DEF Off, In
<1>4. Own(downing)' = Own(downing')
  BY DEF Own
<1>5. NoneLost(queue, status, downing, value)' = NoneLost(queue', status', downing', value')
  BY DEF NoneLost
<1> QED
  BY <1>1, <1>2, <1>3, <1>4, <1>5 DEF QInv

\* A step that ends in schedule(): it is enough that the caller has kept the
\* lists, the dead and the wakeups in order.
LEMMA ScheduleStep ==
    ASSUME IInv, QInv, queue' \in Queues,
           NEW q \in Queues, NEW st \in [Thread -> Status],
           NEW pr \in [Thread -> Prio], NEW tk \in [Thread -> 0..UINT32_MAX],
           NEW dn \in [Thread -> Sema \cup {NULL}], NEW os,
           Once(q), Fits(q, st, pr, dn), Own(dn), dn[Idle] = NULL,
           st[cur] = "RUNNING" => Off(q, cur),
           \A t \in Thread : status[t] = "DIED" => st[t] = "DIED",
           st[Idle] # "DIED",
           NoneLost(q, st, dn, value'),
           schedule(q, st, pr, tk, dn, os)
    PROVE  Kept
<1>1. cur \in Thread /\ Idle \in Thread /\ cur' \in Thread
  BY QTypes, SchedulePlaces
<1>2. /\ Once(queue')
      /\ Fits(queue', status', priority', downing')
      /\ status'[cur'] = "RUNNING"
      /\ Off(queue', cur')
      /\ cur' = Idle \/ st[cur'] \in {"READY", "RUNNING"}
      /\ \A t \in Thread \ {cur, cur'} : status'[t] = st[t]
      /\ cur' # cur => status'[cur] = IF st[cur] = "RUNNING" THEN "READY" ELSE st[cur]
      /\ \A s \in Sema : \A u : In(u, queue'[s]) => In(u, q[s])
  BY <1>1, SchedulePlaces
<1>3. downing' = dn
  BY DEF schedule
<1>4. \A t \in Thread : st[t] # "BLOCKED" => status'[t] # "BLOCKED"
  BY <1>1, <1>2
<1>5. NoneLost(queue', status', downing', value')
  <2> SUFFICES ASSUME NEW s \in Sema, queue'[s] # <<>>, value'[s] > 0
               PROVE  \E t \in Thread : downing'[t] = s /\ status'[t] # "BLOCKED"
    BY DEF NoneLost
  <2>1. s \in QId /\ q[s] \in Seq(Thread) /\ queue'[s] \in Seq(Thread)
    BY <1>3 DEF QId, Queues
  <2>2. q[s] # <<>>
    BY <1>2, <2>1, EmptyList
  <2> QED
    BY <1>3, <1>4, <2>2 DEF NoneLost
<1>6. \A t \in Thread : st[t] = "DIED" => t # cur' /\ status'[t] = "DIED"
  BY <1>1, <1>2
<1>7. status'[Idle] # "DIED"
  BY <1>1, <1>2
<1>8. Own(downing')
  BY <1>3
<1>9. QInv'
  BY <1>2, <1>5, <1>7, <1>8, QInvPrimed
<1> QED
  BY <1>6, <1>9 DEF Kept, DeadKept

\* Wakeups are not lost by a change that adds no waiter and blocks nobody who
\* is in sema_down.
LEMMA NoneLostKept ==
    ASSUME NEW q \in Queues, NEW q2 \in Queues, NEW st, NEW st2, NEW dn, NEW v,
           NULL \notin Sema,
           NoneLost(q, st, dn, v),
           \A s \in Sema : \A u \in Thread : In(u, q2[s]) => In(u, q[s]),
           \A t \in Thread : dn[t] # NULL /\ st[t] # "BLOCKED" => st2[t] # "BLOCKED"
    PROVE  NoneLost(q2, st2, dn, v)
<1> SUFFICES ASSUME NEW s \in Sema, q2[s] # <<>>, v[s] > 0
             PROVE  \E t \in Thread : dn[t] = s /\ st2[t] # "BLOCKED"
  BY DEF NoneLost
<1>1. q[s] \in Seq(Thread) /\ q2[s] \in Seq(Thread)
  BY DEF Queues, QId
<1>2. q[s] # <<>>
  BY <1>1, EmptyList
<1>3. PICK t \in Thread : dn[t] = s /\ st[t] # "BLOCKED"
  BY <1>2 DEF NoneLost
<1> QED
  BY <1>3

\* A step that leaves the running thread, the lists and the statuses alone
LEMMA StillStep ==
    ASSUME IInv, QInv, UNCHANGED <<cur, status, priority, queue>>,
           Fits(queue, status, priority, downing'), Own(downing'),
           NoneLost(queue, status, downing', value')
    PROVE  Kept
<1>1. QInv'
  BY QInvPrimed DEF QInv
<1>2. DeadKept
  BY DEF QInv, DeadKept
<1> QED
  BY <1>1, <1>2 DEF Kept

LEMMA StillUnchanged ==
    ASSUME IInv, QInv, UNCHANGED <<cur, status, priority, queue, downing, value>>
    PROVE  Kept
<1>1. /\ Fits(queue, status, priority, downing')
      /\ Own(downing')
      /\ NoneLost(queue, status, downing', value')
  BY DEF QInv
<1> QED
  BY <1>1, StillStep

\* The running thread calls schedule() with its status changed and no list.
LEMMA StatusFits ==
    ASSUME IInv, QInv, NEW stat \in Status \ {"READY"}, downing[cur] = NULL
    PROVE  Fits(queue, [status EXCEPT ![cur] = stat], priority, downing)
<1> USE QTypes
<1> SUFFICES ASSUME NEW t \in Thread
             PROVE  FitsAt(queue, [status EXCEPT ![cur] = stat], priority, downing, t)
  BY DEF Fits
<1> DEFINE st == [status EXCEPT ![cur] = stat]
<1>1. CASE t = cur
  <2>1. st[t] = stat
    BY <1>1
  <2>2. Off(queue, t)
    BY <1>1 DEF QInv
  <2> QED
    BY <1>1, <2>1, <2>2, FitsNowhere
<1>2. CASE t # cur
  <2>1. st[t] = status[t] /\ FitsAt(queue, status, priority, downing, t)
    BY <1>2 DEF QInv, Fits
  <2> HIDE DEF st
  <2>2. FitsAt(queue, st, priority, downing, t)
    BY <2>1, FitsSame
  <2> QED
    BY <2>2 DEF st
<1> QED
  BY <1>1, <1>2

LEMMA TimerKept == ASSUME IInv, QInv, queue' \in Queues, intr_timer_handler PROVE Kept
<1> USE QTypes
<1>1. value' = value
  BY DEF intr_timer_handler, lockVars
<1>2. /\ Once(queue) /\ Fits(queue, status, priority, downing) /\ Own(downing)
      /\ status[cur] = "RUNNING" => Off(queue, cur)
      /\ status[Idle] # "DIED"
      /\ NoneLost(queue, status, downing, value')
  BY <1>1 DEF QInv
<1>3. CASE /\ ticks[cur] # 0 /\ ~Preempts(priority[cur])
           /\ UNCHANGED <<cur, status, priority, queue, intr, downing, old_status>>
  BY <1>1, <1>3, StillUnchanged
<1>4. CASE schedule(queue, status, priority, [ticks EXCEPT ![cur] = UINT32_MAX],
                    downing, SavedIntr)
  <2>1. [ticks EXCEPT ![cur] = UINT32_MAX] \in [Thread -> 0..UINT32_MAX]
    BY NumberAssumption
  <2> QED
    BY <1>2, <1>4, <2>1, ScheduleStep
<1>5. CASE /\ ticks[cur] # 0
           /\ schedule(queue, status, priority, TickDown(ticks), downing, SavedIntr)
  <2>1. ticks[cur] - 1 \in 0..UINT32_MAX
    BY <1>5, NumberAssumption
  <2>2. TickDown(ticks) \in [Thread -> 0..UINT32_MAX]
    BY <2>1 DEF TickDown
  <2> QED
    BY <1>2, <1>5, <2>2, ScheduleStep
<1> QED
  BY <1>3, <1>4, <1>5 DEF intr_timer_handler

\* idle and a device wait block without joining a list.
LEMMA BlockKept ==
    ASSUME IInv, QInv, queue' \in Queues, NEW stat \in {"WAITING", "BLOCKED"}, NEW os,
           downing[cur] = NULL, thread_block(queue, stat, downing, os), value' = value
    PROVE  Kept
<1> USE QTypes
<1> DEFINE st == [status EXCEPT ![cur] = stat]
<1>1. /\ st \in [Thread -> Status] /\ st[cur] = stat
      /\ \A t \in Thread : t # cur => st[t] = status[t]
  BY DEF Status
<1>2. Fits(queue, st, priority, downing)
  BY StatusFits DEF Status
<1>3. schedule(queue, st, priority, ticks, downing, os)
  BY DEF thread_block
<1>4. Once(queue) /\ Own(downing) /\ NoneLost(queue, status, downing, value')
  BY DEF QInv
<1>5. status[Idle] # "DIED" /\ status[cur] = "RUNNING"
  BY DEF QInv
<1> HIDE DEF st
<1>6. NoneLost(queue, st, downing, value')
  <2>1. \A t \in Thread : downing[t] # NULL /\ status[t] # "BLOCKED" => st[t] # "BLOCKED"
    BY <1>1
  <2> QED
    BY <1>4, <2>1, NoneLostKept
<1>7. /\ st[cur] = "RUNNING" => Off(queue, cur)
      /\ \A t \in Thread : status[t] = "DIED" => st[t] = "DIED"
      /\ st[Idle] # "DIED"
  BY <1>1, <1>5
<1> QED
  BY <1>1, <1>2, <1>3, <1>4, <1>6, <1>7, ScheduleStep

LEMMA IdleDeviceKept ==
    ASSUME IInv, QInv, queue' \in Queues, idle \/ DeviceWait PROVE Kept
<1>1. CASE idle
  <2>1. downing[cur] = NULL /\ value' = value
    BY <1>1, QTypes DEF idle, lockVars
  <2> QED
    BY <1>1, <2>1, BlockKept DEF idle
<1>2. CASE DeviceWait
  <2>1. downing[cur] = NULL /\ value' = value
    BY <1>2 DEF DeviceWait, AtCall, lockVars
  <2> QED
    BY <1>2, <2>1, BlockKept DEF DeviceWait
<1> QED
  BY <1>1, <1>2

LEMMA YieldKept == ASSUME IInv, QInv, queue' \in Queues, thread_yield PROVE Kept
<1> USE QTypes
<1> DEFINE q == list_append(queue, FIRST_PRIO, cur)
           st == [status EXCEPT ![cur] = "READY"]
           pr == [priority EXCEPT ![cur] = FIRST_PRIO]
<1>1. schedule(q, st, pr, ticks, downing, SavedIntr) /\ value' = value
  BY DEF thread_yield, lockVars
<1>2. FIRST_PRIO \in Prio
  BY DEF Prio
<1>3. /\ st \in [Thread -> Status] /\ pr \in [Thread -> Prio] /\ st[cur] = "READY"
      /\ \A t \in Thread : t # cur => st[t] = status[t]
  BY <1>2 DEF Status
<1>4. /\ Once(queue) /\ Off(queue, cur) /\ Own(downing)
      /\ FitsBut(queue, status, priority, downing, cur)
      /\ NoneLost(queue, status, downing, value')
      /\ status[Idle] # "DIED" /\ status[cur] = "RUNNING"
  BY <1>1 DEF QInv, Fits, FitsBut
<1>5. /\ q \in Queues /\ Once(q) /\ Fits(q, st, pr, downing)
      /\ \A y \in QId : \A u : In(u, q[y]) <=> In(u, queue[y]) \/ (u = cur /\ y = FIRST_PRIO)
  BY <1>2, <1>4, AppendedReady
<1> HIDE DEF q, st, pr
<1>6. NoneLost(q, st, downing, value')
  <2>1. \A s \in Sema : \A u \in Thread : In(u, q[s]) => In(u, queue[s])
    <3>1. \A s \in Sema : s \in QId /\ s # FIRST_PRIO
      BY <1>2, QueueAssumption DEF QId
    <3> QED
      BY <1>5, <3>1
  <2>2. \A t \in Thread : downing[t] # NULL /\ status[t] # "BLOCKED" => st[t] # "BLOCKED"
    BY <1>3
  <2> QED
    BY <1>4, <1>5, <2>1, <2>2, NoneLostKept
<1>7. /\ st[cur] = "RUNNING" => Off(q, cur)
      /\ \A t \in Thread : status[t] = "DIED" => st[t] = "DIED"
      /\ st[Idle] # "DIED"
  BY <1>3, <1>4
<1> QED
  BY <1>1, <1>3, <1>4, <1>5, <1>6, <1>7, ScheduleStep

\* sema_down's loop body: the running thread joins the waiters of s, which
\* has no unit to give.
LEMMA SemaBlockKept ==
    ASSUME IInv, QInv, queue' \in Queues, NEW s \in Sema, NEW os, cur # Idle,
           s \in Lock \cup {cur}, downing[cur] \in {NULL, s}, sema_block(s, os)
    PROVE  Kept
<1> USE QTypes
<1> DEFINE q == EnqueueWaiter(s)
           st == [status EXCEPT ![cur] = "BLOCKED"]
           dn == [downing EXCEPT ![cur] = s]
<1>1. schedule(q, st, priority, ticks, dn, os) /\ value' = value /\ value[s] = 0
  BY DEF sema_block, thread_block, MustWait, lockVars
<1>2. /\ st \in [Thread -> Status] /\ st[cur] = "BLOCKED"
      /\ dn \in [Thread -> Sema \cup {NULL}] /\ dn[cur] = s
      /\ \A t \in Thread : t # cur => st[t] = status[t] /\ dn[t] = downing[t]
  BY DEF Status
<1>3. /\ Once(queue) /\ Off(queue, cur) /\ Own(downing) /\ s \in QId
      /\ status[Idle] # "DIED" /\ status[cur] = "RUNNING"
      /\ NoneLost(queue, status, downing, value)
  BY DEF QInv, QId
<1>4. q = list_append(queue, s, cur)
  <2>1. ~In(cur, queue[s])
    BY <1>3 DEF Off
  <2>2. list_remove(queue, cur) = queue
    BY <1>3, RemoveOnce
  <2> QED
    BY <2>1, <2>2 DEF EnqueueWaiter
<1>5. /\ q \in Queues /\ Once(q)
      /\ \A y \in QId : \A u : In(u, q[y]) <=> In(u, queue[y]) \/ (u = cur /\ y = s)
  BY <1>3, <1>4, AppendOnce
<1> HIDE DEF q, st, dn
<1>6. Fits(q, st, priority, dn)
  <2> SUFFICES ASSUME NEW t \in Thread PROVE FitsAt(q, st, priority, dn, t)
    BY DEF Fits
  <2>1. CASE t = cur
    <3>1. \A x \in QId : In(t, q[x]) <=> x = s
      BY <1>3, <1>5, <2>1 DEF Off
    <3> QED
      BY <1>2, <2>1, <3>1, FitsWaiting
  <2>2. CASE t # cur
    <3>1. \A x \in QId : In(t, q[x]) <=> In(t, queue[x])
      BY <1>5, <2>2
    <3>2. FitsAt(queue, status, priority, downing, t)
      BY DEF QInv, Fits
    <3> QED
      BY <1>2, <2>2, <3>1, <3>2, FitsSame
  <2> QED
    BY <2>1, <2>2
<1>7. Own(dn)
  BY <1>2, <1>3 DEF Own
<1>8. NoneLost(q, st, dn, value')
  <2> SUFFICES ASSUME NEW r \in Sema, q[r] # <<>>, value[r] > 0
               PROVE  \E t \in Thread : dn[t] = r /\ st[t] # "BLOCKED"
    BY <1>1 DEF NoneLost
  <2>1. r # s
    BY <1>1
  <2>2. r \in QId /\ q[r] \in Seq(Thread) /\ queue[r] \in Seq(Thread)
    BY <1>5 DEF QId, Queues
  <2>3. queue[r] # <<>>
    BY <1>5, <2>1, <2>2, EmptyList
  <2>4. PICK t \in Thread : downing[t] = r /\ status[t] # "BLOCKED"
    BY <1>3, <2>3 DEF NoneLost
  <2>5. t # cur
    BY <2>1, <2>4
  <2> QED
    BY <1>2, <2>4, <2>5
<1>9. /\ st[cur] = "RUNNING" => Off(q, cur)
      /\ \A t \in Thread : status[t] = "DIED" => st[t] = "DIED"
      /\ st[Idle] # "DIED"
      /\ dn[Idle] = NULL
  BY <1>2, <1>3
<1> QED
  BY <1>1, <1>2, <1>5, <1>6, <1>7, <1>8, <1>9, ScheduleStep

\* Nobody waits for the waiting_sema of the running thread.
LEMMA OwnSemaFree == ASSUME IInv, QInv PROVE queue[cur] = <<>>
<1> USE QTypes
<1>1. cur \in Sema /\ cur \notin Lock
  BY QueueAssumption DEF Sema
<1>2. queue[cur] \in Seq(Thread)
  BY <1>1 DEF Queues, QId
<1>3. ASSUME NEW u \in Thread, In(u, queue[cur]) PROVE FALSE
  <2>1. status[u] = "BLOCKED" /\ downing[u] = cur
    BY <1>1, <1>3 DEF QInv, Fits, FitsAt
  <2>2. u = cur
    BY <1>1, <2>1 DEF QInv, Own
  <2> QED
    BY <2>1, <2>2 DEF QInv
<1> QED
  BY <1>2, <1>3, EmptyList

\* The running thread takes a unit: a lock has no other, and nobody else
\* waits for the thread's own semaphore.
LEMMA TakeKept ==
    ASSUME IInv, QInv, NEW s \in Sema, s \in Lock \cup {cur}, value[s] # 0,
           value' = [value EXCEPT ![s] = @ - 1],
           downing[cur] \in {NULL, s},
           downing' = [downing EXCEPT ![cur] = NULL],
           UNCHANGED <<cur, status, priority, queue>>
    PROVE  Kept
<1> USE QTypes
<1>1. /\ value'[s] = value[s] - 1 /\ \A r \in Sema : r # s => value'[r] = value[r]
      /\ downing'[cur] = NULL /\ \A t \in Thread : t # cur => downing'[t] = downing[t]
  OBVIOUS
<1>2. s \in Lock => value'[s] = 0
  <2>1. s \in Lock => value[s] \in {0, 1}
    BY DEF IInv, SyncInv, LockInv
  <2> QED
    BY <1>1, <2>1
<1>3. s \notin Lock => queue[s] = <<>>
  BY OwnSemaFree
<1>4. status[cur] = "RUNNING" /\ Off(queue, cur)
  BY DEF QInv
<1>5. Fits(queue, status, priority, downing')
  <2> SUFFICES ASSUME NEW t \in Thread
               PROVE  FitsAt(queue, status, priority, downing', t)
    BY DEF Fits
  <2>1. CASE t = cur
    <3>1. status[t] # "READY" /\ (status[t] = "BLOCKED" => downing'[t] = NULL) /\ Off(queue, t)
      BY <1>4, <2>1
    <3> QED
      BY <3>1, FitsNowhere
  <2>2. CASE t # cur
    <3>1. FitsAt(queue, status, priority, downing, t) /\ downing'[t] = downing[t]
      BY <1>1, <2>2 DEF QInv, Fits
    <3> QED
      BY <3>1 DEF FitsAt
  <2> QED
    BY <2>1, <2>2
<1>6. Own(downing')
  BY <1>1 DEF QInv, Own
<1>7. NoneLost(queue, status, downing', value')
  <2> SUFFICES ASSUME NEW r \in Sema, queue[r] # <<>>, value'[r] > 0
               PROVE  \E t \in Thread : downing'[t] = r /\ status[t] # "BLOCKED"
    BY DEF NoneLost
  <2>1. r # s
    BY <1>2, <1>3
  <2>2. PICK t \in Thread : downing[t] = r /\ status[t] # "BLOCKED"
    BY <1>1, <2>1 DEF QInv, NoneLost
  <2>3. t # cur
    BY <2>1, <2>2
  <2> QED
    BY <1>1, <2>2, <2>3
<1> QED
  BY <1>5, <1>6, <1>7, StillStep

LEMMA AcquireKept ==
    ASSUME IInv, QInv, queue' \in Queues, NEW l \in Lock, lock_acquire(l) PROVE Kept
<1> USE QTypes
<1>1. l \in Sema /\ downing[cur] = NULL /\ cur # Idle
  BY DEF Sema, lock_acquire, AtCall
<1>2. CASE sema_block(l, SavedIntr)
  BY <1>1, <1>2, SemaBlockKept
<1>3. CASE ~sema_block(l, SavedIntr)
  <2>1. /\ value[l] # 0 /\ value' = [value EXCEPT ![l] = @ - 1]
        /\ UNCHANGED <<cur, status, priority, queue, downing>>
    BY <1>3 DEF lock_acquire, MustWait, schedVars
  <2>2. downing' = [downing EXCEPT ![cur] = NULL]
    BY <1>1, <2>1
  <2> QED
    BY <1>1, <2>1, <2>2, TakeKept
<1> QED
  BY <1>2, <1>3

LEMMA WaitKept == ASSUME IInv, QInv, queue' \in Queues, thread_wait PROVE Kept
<1> USE QTypes
<1>1. cur \in Sema /\ downing[cur] = NULL /\ cur # Idle
  BY DEF Sema, thread_wait, AtCall
<1>2. CASE sema_block(cur, SavedIntr)
  BY <1>1, <1>2, SemaBlockKept
<1>3. CASE ~sema_block(cur, SavedIntr)
  <2>1. /\ value[cur] # 0 /\ value' = [value EXCEPT ![cur] = @ - 1]
        /\ UNCHANGED <<cur, status, priority, queue, downing>>
    BY <1>3 DEF thread_wait, MustWait, schedVars
  <2>2. downing' = [downing EXCEPT ![cur] = NULL]
    BY <1>1, <2>1
  <2> QED
    BY <1>1, <2>1, <2>2, TakeKept
<1> QED
  BY <1>2, <1>3

LEMMA ResumeKept == ASSUME IInv, QInv, queue' \in Queues, sema_down_resume PROVE Kept
<1> USE QTypes
<1> DEFINE s == downing[cur]
<1>1. s \in Sema /\ s \in Lock \cup {cur} /\ cur # Idle
  BY DEF sema_down_resume, QInv, Own
<1>2. CASE sema_block(s, old_status)
  BY <1>1, <1>2, SemaBlockKept
<1>3. CASE ~sema_block(s, old_status)
  <2>1. /\ value[s] # 0 /\ value' = [value EXCEPT ![s] = @ - 1]
        /\ downing' = [downing EXCEPT ![cur] = NULL]
        /\ UNCHANGED <<cur, status, priority, queue>>
    BY <1>3 DEF sema_down_resume, MustWait
  <2> QED
    BY <1>1, <2>1, TakeKept
<1> QED
  BY <1>2, <1>3

\* A step that does not switch and makes one thread, that was not running
\* and not dead, ready.
LEMMA ReadyStep ==
    ASSUME IInv, QInv, NEW t \in Thread, NEW v \in {"READY", "RUNNING"},
           t # cur, status[t] # "DIED",
           queue' \in Queues, Once(queue'), Off(queue', cur),
           cur' = cur, downing' = downing, status' = [status EXCEPT ![t] = v],
           Fits(queue', status', priority', downing'),
           NoneLost(queue', status', downing', value')
    PROVE  Kept
<1> USE QTypes
<1>1. status'[t] = v /\ \A u \in Thread : u # t => status'[u] = status[u]
  OBVIOUS
<1>2. status'[cur'] = "RUNNING" /\ status'[Idle] # "DIED" /\ Own(downing')
  BY <1>1 DEF QInv
<1>3. QInv'
  BY <1>2, QInvPrimed
<1>4. DeadKept
  BY <1>1 DEF QInv, DeadKept
<1> QED
  BY <1>3, <1>4 DEF Kept

LEMMA NewThreadKept ==
    ASSUME IInv, QInv, NEW t \in Thread, NEW p \in Prio,
           NEW stat \in {"READY", "RUNNING"}, NewThread(t, p, stat)
    PROVE  Kept
<1> USE QTypes
<1>1. /\ status[t] = "NONE" /\ status' = [status EXCEPT ![t] = stat]
      /\ priority' = [priority EXCEPT ![t] = p]
      /\ queue' = list_append(queue, p, t)
      /\ value' = [value EXCEPT ![t] = 0]
      /\ cur' = cur /\ downing' = downing
  BY DEF NewThread
<1>2. /\ Once(queue) /\ Off(queue, cur) /\ status[cur] = "RUNNING"
      /\ Fits(queue, status, priority, downing)
      /\ NoneLost(queue, status, downing, value)
  BY DEF QInv
<1>3. Off(queue, t) /\ t # cur
  BY <1>1, <1>2, FitsOff
<1>4. FitsBut(queue, status, priority, downing, t)
  BY <1>2 DEF Fits, FitsBut
<1> DEFINE q == list_append(queue, p, t)
           st == [status EXCEPT ![t] = stat]
           pr == [priority EXCEPT ![t] = p]
<1>5. /\ q \in Queues /\ Once(q) /\ Fits(q, st, pr, downing)
      /\ \A y \in QId : \A u : In(u, q[y]) <=> In(u, queue[y]) \/ (u = t /\ y = p)
  BY <1>2, <1>3, <1>4, AppendedReady
<1>6. queue' = q /\ status' = st /\ priority' = pr
  BY <1>1
<1>7. st[t] = stat /\ \A u \in Thread : u # t => st[u] = status[u]
  OBVIOUS
<1>8. /\ t \in Sema /\ value'[t] = 0
      /\ \A s \in Sema : s # t => value'[s] = value[s]
  BY <1>1 DEF Sema
<1> HIDE DEF q, st, pr
<1>9. Off(q, cur)
  BY <1>2, <1>3, <1>5 DEF Off
<1>10. NoneLost(q, st, downing, value)
  <2>1. \A s \in Sema : \A u \in Thread : In(u, q[s]) => In(u, queue[s])
    <3>1. \A s \in Sema : s \in QId /\ s # p
      BY QueueAssumption DEF QId
    <3> QED
      BY <1>5, <3>1
  <2>2. \A u \in Thread : downing[u] # NULL /\ status[u] # "BLOCKED" => st[u] # "BLOCKED"
    BY <1>7
  <2> QED
    BY <1>2, <1>5, <2>1, <2>2, NoneLostKept
<1>11. NoneLost(q, st, downing, value')
  BY <1>8, <1>10 DEF NoneLost
<1>12. status[t] # "DIED" /\ status' = [status EXCEPT ![t] = stat]
  BY <1>1
<1> QED
  BY <1>1, <1>3, <1>5, <1>6, <1>9, <1>11, <1>12, ReadyStep

LEMMA StartKept ==
    ASSUME IInv, QInv, NEW t \in Thread, NEW p \in Prio,
           thread_start(t, p) \/ process_execute(t) \/ sys_fork(t)
    PROVE  Kept
<1>1. SECOND_PRIO \in Prio /\ THIRD_PRIO \in Prio
  BY DEF Prio
<1>2. status[cur] = "RUNNING"
  BY DEF QInv
<1>3. CASE thread_start(t, p)
  BY <1>3, NewThreadKept DEF thread_start
<1>4. CASE process_execute(t)
  BY <1>1, <1>4, NewThreadKept DEF process_execute
<1>5. CASE sys_fork(t)
  <2>1. NewThread(t, THIRD_PRIO, "RUNNING")
    BY <1>2, <1>5 DEF sys_fork
  <2> QED
    BY <1>1, <2>1, NewThreadKept
<1> QED
  BY <1>3, <1>4, <1>5

LEMMA ReapKept ==
    ASSUME IInv, QInv, NEW t \in Thread, Reap(t) PROVE Kept
<1> USE QTypes
<1>1. /\ status[t] = "DIED" /\ status' = [status EXCEPT ![t] = "NONE"]
      /\ queue' = list_remove(queue, t)
      /\ cur' = cur /\ priority' = priority /\ value' = value /\ downing' = downing
  BY DEF Reap, lockVars
<1>2. /\ Once(queue) /\ Off(queue, cur) /\ status[cur] = "RUNNING"
      /\ Fits(queue, status, priority, downing)
      /\ NoneLost(queue, status, downing, value)
      /\ status[Idle] # "DIED" /\ Own(downing)
  BY DEF QInv
<1>3. Off(queue, t) /\ t # cur /\ t # Idle
  BY <1>1, <1>2, FitsOff
<1>4. queue' = queue
  BY <1>1, <1>2, <1>3, RemoveOnce
<1>5. status'[t] = "NONE" /\ \A u \in Thread : u # t => status'[u] = status[u]
  BY <1>1
<1>6. Fits(queue, status', priority, downing)
  <2> SUFFICES ASSUME NEW u \in Thread
               PROVE  FitsAt(queue, status', priority, downing, u)
    BY DEF Fits
  <2>1. CASE u = t
    BY <1>3, <1>5, <2>1, FitsNowhere
  <2>2. CASE u # t
    <3>1. FitsAt(queue, status, priority, downing, u) /\ status'[u] = status[u]
      BY <1>2, <1>5, <2>2 DEF Fits
    <3> QED
      BY <3>1 DEF FitsAt
  <2> QED
    BY <2>1, <2>2
<1>7. NoneLost(queue, status', downing, value)
  BY <1>1, <1>2, <1>5 DEF NoneLost
<1>8. QInv'
  BY <1>1, <1>2, <1>3, <1>4, <1>5, <1>6, <1>7, QInvPrimed
<1>9. DeadKept
  BY <1>1, <1>2, <1>5 DEF DeadKept
<1> QED
  BY <1>8, <1>9 DEF Kept

LEMMA DeviceWakeKept ==
    ASSUME IInv, QInv, NEW t \in Thread, DeviceWake(t) PROVE Kept
<1> USE QTypes
<1>1. /\ status[t] = "BLOCKED" /\ downing[t] = NULL
      /\ status' = [status EXCEPT ![t] = "READY"]
      /\ priority' = [priority EXCEPT ![t] = FIRST_PRIO]
      /\ queue' = list_push(list_remove(queue, t), FIRST_PRIO, t)
      /\ cur' = cur /\ value' = value /\ downing' = downing
  BY DEF DeviceWake, Unblocked, lockVars
<1>2. /\ Once(queue) /\ Off(queue, cur) /\ status[cur] = "RUNNING"
      /\ Fits(queue, status, priority, downing)
      /\ NoneLost(queue, status, downing, value)
  BY DEF QInv
<1>3. Off(queue, t) /\ t # cur /\ FIRST_PRIO \in Prio
  BY <1>1, <1>2, FitsOff DEF Prio
<1>4. list_remove(queue, t) = queue
  BY <1>2, <1>3, RemoveOnce
<1>5. FitsBut(queue, status, priority, downing, t)
  BY <1>2 DEF Fits, FitsBut
<1> DEFINE q == list_push(queue, FIRST_PRIO, t)
           st == [status EXCEPT ![t] = "READY"]
           pr == [priority EXCEPT ![t] = FIRST_PRIO]
<1>6. /\ q \in Queues /\ Once(q) /\ Fits(q, st, pr, downing)
      /\ \A y \in QId : \A u : In(u, q[y]) <=> In(u, queue[y]) \/ (u = t /\ y = FIRST_PRIO)
  BY <1>2, <1>3, <1>5, PushedReady
<1>7. queue' = q /\ status' = st /\ priority' = pr
  BY <1>1, <1>4
<1>8. st[t] = "READY" /\ \A u \in Thread : u # t => st[u] = status[u]
  OBVIOUS
<1> HIDE DEF q, st, pr
<1>9. Off(q, cur)
  BY <1>2, <1>3, <1>6 DEF Off
<1>10. NoneLost(q, st, downing, value)
  <2>1. \A s \in Sema : \A u \in Thread : In(u, q[s]) => In(u, queue[s])
    <3>1. \A s \in Sema : s \in QId /\ s # FIRST_PRIO
      BY <1>3, QueueAssumption DEF QId
    <3> QED
      BY <1>6, <3>1
  <2>2. \A u \in Thread : downing[u] # NULL /\ status[u] # "BLOCKED" => st[u] # "BLOCKED"
    BY <1>8
  <2> QED
    BY <1>2, <1>6, <2>1, <2>2, NoneLostKept
<1> QED
  BY <1>1, <1>3, <1>6, <1>7, <1>9, <1>10, ReadyStep

\* sema_up: the unit it returns is known to the waiter it wakes, who is
\* still in sema_down, or nobody waits.
LEMMA UpNoneLost ==
    ASSUME IInv, NEW q \in Queues, Once(q), NEW s \in Sema, NEW n,
           NEW st \in [Thread -> Status], NEW pr \in [Thread -> Prio],
           Fits(q, st, pr, downing), NoneLost(q, st, downing, value)
    PROVE  /\ q[s] = <<>> => NoneLost(q, st, downing, [value EXCEPT ![s] = n])
           /\ q[s] # <<>> =>
                 NoneLost(ExitQueue(q, s),
                          [st EXCEPT ![Head(q[s])] = "READY"], downing,
                          [value EXCEPT ![s] = n])
<1> USE QTypes
<1> DEFINE v == [value EXCEPT ![s] = n]
           u == Head(q[s])
           q2 == ExitQueue(q, s)
           st2 == [st EXCEPT ![u] = "READY"]
<1>1. \A r \in Sema : r # s => v[r] = value[r]
  OBVIOUS
<1>2. CASE q[s] = <<>>
  BY <1>1, <1>2 DEF NoneLost
<1>3. CASE q[s] # <<>>
  <2>0. WaiterReady(q, s, st, pr, downing)
    BY <1>3, WaiterMadeReady
  <2>1. /\ u \in Thread /\ downing[u] = s /\ q2 \in Queues
        /\ \A x \in QId : \A w : w # u => (In(w, q2[x]) <=> In(w, q[x]))
        /\ \A x \in Sema : ~In(u, q2[x])
    BY <2>0 DEF WaiterReady
  <2>2. st2[u] = "READY" /\ \A t \in Thread : t # u => st2[t] = st[t]
    BY <2>1
  <2> HIDE DEF v, u, q2, st2
  <2>3. NoneLost(q2, st2, downing, v)
    <3> SUFFICES ASSUME NEW r \in Sema, q2[r] # <<>>, v[r] > 0
                 PROVE  \E t \in Thread : downing[t] = r /\ st2[t] # "BLOCKED"
      BY DEF NoneLost
    <3>1. CASE r = s
      BY <2>1, <2>2, <3>1
    <3>2. CASE r # s
      <4>1. r \in QId /\ q[r] \in Seq(Thread) /\ q2[r] \in Seq(Thread)
        BY <2>1 DEF QId, Queues
      <4>2. q[r] # <<>>
        BY <2>1, <4>1, EmptyList
      <4>3. PICK t \in Thread : downing[t] = r /\ st[t] # "BLOCKED"
        BY <1>1, <3>2, <4>2 DEF NoneLost
      <4> QED
        BY <2>1, <2>2, <3>2, <4>3
    <3> QED
      BY <3>1, <3>2
  <2> QED
    BY <1>3, <2>3 DEF v, u, q2, st2
<1> QED
  BY <1>2, <1>3

LEMMA ReleaseKept ==
    ASSUME IInv, QInv, NEW l \in Lock, lock_release(l) PROVE Kept
<1> USE QTypes
<1>1. /\ value' = [value EXCEPT ![l] = SemaInc(value[l])]
      /\ cur' = cur /\ downing' = downing /\ l \in Sema
  BY DEF lock_release, sema_up, Sema
<1>2. /\ Once(queue) /\ Off(queue, cur) /\ status[cur] = "RUNNING"
      /\ Fits(queue, status, priority, downing)
      /\ NoneLost(queue, status, downing, value)
      /\ Own(downing)
  BY DEF QInv
<1>3. CASE queue[l] = <<>>
  <2>1. UNCHANGED <<queue, status, priority>>
    BY <1>3 DEF lock_release, sema_up
  <2>2. NoneLost(queue, status, downing, value')
    BY <1>1, <1>2, <1>3, UpNoneLost
  <2> QED
    BY <1>1, <1>2, <2>1, <2>2, StillStep
<1>4. CASE queue[l] # <<>>
  <2> DEFINE u == Head(queue[l])
             q1 == [queue EXCEPT ![l] = Tail(@)]
             q2 == ExitQueue(queue, l)
             st2 == [status EXCEPT ![u] = "READY"]
             pr2 == [priority EXCEPT ![u] = FIRST_PRIO]
  <2>0. WaiterReady(queue, l, status, priority, downing)
    BY <1>1, <1>2, <1>4, WaiterMadeReady
  <2>1. /\ u \in Thread /\ status[u] = "BLOCKED"
        /\ list_remove(q1, u) = q1
        /\ q2 \in Queues /\ Once(q2)
        /\ Fits(q2, st2, pr2, downing)
        /\ \A x \in QId : \A v : v # u => (In(v, q2[x]) <=> In(v, queue[x]))
    BY <2>0 DEF WaiterReady
  <2>2. queue' = q2 /\ status' = st2 /\ priority' = pr2
    BY <1>4, <2>1 DEF lock_release, sema_up, Unblocked, ExitQueue
  <2>3. NoneLost(q2, st2, downing, value')
    BY <1>1, <1>2, <1>4, UpNoneLost
  <2>4. u # cur /\ status[u] # "DIED"
    BY <1>2, <2>1
  <2>5. status' = [status EXCEPT ![u] = "READY"]
    BY <2>2
  <2> HIDE DEF u, q2, st2, pr2
  <2>6. Off(q2, cur)
    BY <1>2, <2>1, <2>4 DEF Off
  <2> QED
    BY <1>1, <2>1, <2>2, <2>3, <2>4, <2>5, <2>6, ReadyStep
<1> QED
  BY <1>3, <1>4

LEMMA ExitKept == ASSUME IInv, QInv, queue' \in Queues, thread_exit PROVE Kept
<1> USE QTypes
<1> DEFINE w == parent[cur]
           q == list_remove(queue, cur)
           st == [status EXCEPT ![cur] = "DIED"]
           u == Head(q[w])
<1>1. /\ Once(queue) /\ Off(queue, cur) /\ status[cur] = "RUNNING"
      /\ NoneLost(queue, status, downing, value)
      /\ status[Idle] # "DIED" /\ Own(downing)
      /\ downing[cur] = NULL /\ cur # Idle
  BY DEF QInv, thread_exit, AtCall
<1>2. q = queue
  BY <1>1, RemoveOnce
<1>3. /\ value' = IF w = NULL THEN value ELSE [value EXCEPT ![w] = SemaInc(@)]
      /\ IF w # NULL /\ q[w] # <<>>
         THEN schedule(ExitQueue(q, w), [st EXCEPT ![u] = "READY"],
                       [priority EXCEPT ![u] = FIRST_PRIO],
                       [ticks EXCEPT ![u] = Slice[FIRST_PRIO]],
                       downing, SavedIntr)
         ELSE schedule(q, st, priority, ticks, downing, SavedIntr)
  BY DEF thread_exit
<1>4. /\ st \in [Thread -> Status] /\ st[cur] = "DIED"
      /\ \A t \in Thread : t # cur => st[t] = status[t]
  BY DEF Status
<1>5. Fits(queue, st, priority, downing)
  BY <1>1, StatusFits DEF Status
<1>6. /\ \A t \in Thread : status[t] = "DIED" => st[t] = "DIED"
      /\ st[Idle] # "DIED" /\ st[cur] # "RUNNING"
  BY <1>1, <1>4
<1>7. w \in Thread \cup {NULL} /\ (w # NULL => w \in Sema)
  BY DEF Sema
<1> HIDE DEF q, st, w
<1>8. NoneLost(queue, st, downing, value)
  <2>1. \A t \in Thread : downing[t] # NULL /\ status[t] # "BLOCKED" => st[t] # "BLOCKED"
    BY <1>4
  <2> QED
    BY <1>1, <2>1, NoneLostKept
<1>9. CASE ~(w # NULL /\ q[w] # <<>>)
  <2>1. schedule(queue, st, priority, ticks, downing, SavedIntr)
    BY <1>2, <1>3, <1>9
  <2>2. NoneLost(queue, st, downing, value')
    <3>1. CASE w = NULL
      BY <1>3, <1>8, <3>1
    <3>2. CASE w # NULL
      <4>1. queue[w] = <<>> /\ value' = [value EXCEPT ![w] = SemaInc(value[w])] /\ w \in Sema
        BY <1>2, <1>3, <1>7, <1>9, <3>2
      <4> QED
        BY <1>1, <1>4, <1>5, <1>8, <4>1, UpNoneLost
    <3> QED
      BY <3>1, <3>2
  <2> QED
    BY <1>1, <1>4, <1>5, <1>6, <2>1, <2>2, ScheduleStep
<1>10. CASE w # NULL /\ q[w] # <<>>
  <2> DEFINE x == Head(queue[w])
             q2 == ExitQueue(queue, w)
             st2 == [st EXCEPT ![x] = "READY"]
             pr2 == [priority EXCEPT ![x] = FIRST_PRIO]
             tk2 == [ticks EXCEPT ![x] = Slice[FIRST_PRIO]]
  <2>1. w \in Sema /\ queue[w] # <<>> /\ value' = [value EXCEPT ![w] = SemaInc(value[w])]
    BY <1>2, <1>3, <1>7, <1>10
  <2>2. schedule(q2, st2, pr2, tk2, downing, SavedIntr)
    BY <1>2, <1>3, <1>10, <2>1
  <2>0. WaiterReady(queue, w, st, priority, downing)
    BY <1>1, <1>4, <1>5, <2>1, WaiterMadeReady
  <2>3. /\ x \in Thread /\ st[x] = "BLOCKED"
        /\ q2 \in Queues /\ Once(q2)
        /\ Fits(q2, st2, pr2, downing)
    BY <2>0 DEF WaiterReady
  <2>4. NoneLost(q2, st2, downing, value')
    BY <1>1, <1>4, <1>5, <1>8, <2>1, UpNoneLost
  <2>5. /\ st2 \in [Thread -> Status] /\ pr2 \in [Thread -> Prio]
        /\ tk2 \in [Thread -> 0..UINT32_MAX]
    <3>1. FIRST_PRIO \in Prio
      BY DEF Prio
    <3>2. Slice[FIRST_PRIO] \in 0..UINT32_MAX
      BY <3>1, NumberAssumption
    <3> QED
      BY <1>4, <3>1, <3>2 DEF Status
  <2>6. /\ \A t \in Thread : status[t] = "DIED" => st2[t] = "DIED"
        /\ st2[Idle] # "DIED" /\ st2[cur] # "RUNNING"
    BY <1>4, <1>6, <2>3
  <2> HIDE DEF x, q2, st2, pr2, tk2
  <2> QED
    BY <1>1, <2>2, <2>3, <2>4, <2>5, <2>6, ScheduleStep
<1> QED
  BY <1>9, <1>10

LEMMA NextKept == ASSUME IInv, QInv, [Next]_vars PROVE Kept
<1>1. queue' \in Queues
  BY NextIInv, SchedPrimed DEF IInv, SchedInv
<1>2. CASE intr_timer_handler
  BY <1>1, <1>2, TimerKept
<1>3. CASE idle \/ DeviceWait
  BY <1>1, <1>3, IdleDeviceKept
<1>4. CASE thread_yield
  BY <1>1, <1>4, YieldKept
<1>5. CASE thread_wait
  BY <1>1, <1>5, WaitKept
<1>6. CASE thread_exit
  BY <1>1, <1>6, ExitKept
<1>7. CASE sema_down_resume
  BY <1>1, <1>7, ResumeKept
<1>8. CASE syscall_return
  BY <1>8, StillUnchanged DEF syscall_return, lockVars
<1>9. ASSUME NEW t \in Thread, NEW p \in Prio,
             thread_start(t, p) \/ process_execute(t) \/ sys_fork(t)
      PROVE  Kept
  BY <1>9, StartKept
<1>10. ASSUME NEW t \in Thread, Reap(t) PROVE Kept
  BY <1>10, ReapKept
<1>11. ASSUME NEW t \in Thread, DeviceWake(t) PROVE Kept
  BY <1>11, DeviceWakeKept
<1>12. ASSUME NEW l \in Lock, lock_acquire(l) PROVE Kept
  BY <1>1, <1>12, AcquireKept
<1>13. ASSUME NEW l \in Lock, lock_release(l) PROVE Kept
  BY <1>13, ReleaseKept
<1>14. ASSUME NEW l \in Lock, lock_acquire_again(l) \/ lock_release_nested(l) PROVE Kept
  BY <1>14, StillUnchanged DEF lock_acquire_again, lock_release_nested, schedVars
<1>15. CASE UNCHANGED vars
  BY <1>15, StillUnchanged DEF vars
<1>16. FIRST_PRIO \in Prio
  BY DEF Prio
<1> QED
  BY <1>2, <1>3, <1>4, <1>5, <1>6, <1>7, <1>8, <1>9, <1>10, <1>11, <1>12, <1>13,
     <1>14, <1>15, <1>16 DEF Next

----------------------------------------------------------------------------
(* The theorems *)

\* The lists' invariant holds in every reachable state.
THEOREM ListsInvariant == Spec => []QInv
<1>1. IInv /\ QInv /\ [Next]_vars => QInv'
  BY NextKept DEF Kept
<1> QED
  BY QInvInit, <1>1, Invariance, PTL DEF Spec

\* A thread's general_tag is on at most one list, at one place, for any
\* number of threads, processes, locks and list operations.
THEOREM TagsOnce == Spec => []TagOnce
<1>1. QInv => TagOnce
  BY DEF QInv, Once, TagOnce
<1> QED
  BY ListsInvariant, <1>1, PTL

\* The status of every thread tells which list it is on: what the ASSERTs of
\* thread_unblock and the elem_find ASSERTs of schedule rely on.
THEOREM StatusTellsList == Spec => []QueueStatus
<1>1. QInv => QueueStatus
  BY PrioQId DEF QInv, Fits, FitsAt, Off, QueueStatus, Ready, Waiting
<1> QED
  BY ListsInvariant, <1>1, PTL

\* The unit a sema_up returns is never left lying while every thread that
\* wants it sleeps, however the woken thread and barging ones interleave.
THEOREM WakeupsKept == Spec => []NoLostWakeup
<1>1. QInv => NoLostWakeup
  BY DEF QInv, NoneLost, NoLostWakeup
<1> QED
  BY ListsInvariant, <1>1, PTL

\* A thread that has exited is never scheduled or made ready again: it is on
\* no list, so neither schedule() nor a wakeup finds it.
THEOREM DeadStayDead == Spec => DiedStaysDead
<1>1. IInv /\ QInv /\ [Next]_vars =>
          [\A t \in Thread : status[t] = "DIED" =>
               cur' # t /\ status'[t] \in {"DIED", "NONE"}]_vars
  BY NextKept DEF Kept, DeadKept
<1> QED
  BY <1>1, Invariance, ListsInvariant, PTL DEF Spec, DiedStaysDead
----------------------------------------------------------------------------
(* Slices *)

\* schedule() replaces the mark of a used-up slice that the timer has left on
\* the running thread, and leaves no other.
LEMMA SliceSchedule ==
    ASSUME IInv, NEW q, NEW st \in [Thread -> Status], NEW pr \in [Thread -> Prio],
           NEW tk \in [Thread -> 0..UINT32_MAX], NEW dn, NEW os,
           \A t \in Thread \ {Idle} :
               tk[t] < UINT32_MAX \/ (t = cur /\ st[cur] = "RUNNING"),
           schedule(q, st, pr, tk, dn, os)
    PROVE  NoEndlessSlice'
<1> USE QTypes
<1> DEFINE lvl == LevelAfter(pr, tk)
           runs == StatusWithIdle(q, st)[cur] = "RUNNING"
<1>1. ticks' = [tk EXCEPT ![cur] = IF runs /\ SlicedOut(tk) THEN Slice[lvl] ELSE @]
  BY DEF schedule
<1>2. lvl \in Prio
  BY DEF LevelAfter, Demoted, Prio
<1>3. Slice[lvl] < UINT32_MAX
  <2>1. Slice[lvl] \in 0..(UINT32_MAX - 1)
    BY <1>2, NumberAssumption
  <2> QED
    BY <2>1, NumberAssumption
<1>4. cur # Idle /\ st[cur] = "RUNNING" => runs
  BY DEF StatusWithIdle
<1> HIDE DEF lvl, runs
<1>5. \A t \in Thread \ {Idle} : ticks'[t] < UINT32_MAX
  <2> SUFFICES ASSUME NEW t \in Thread \ {Idle} PROVE ticks'[t] < UINT32_MAX
    OBVIOUS
  <2>1. CASE t # cur
    <3>1. ticks'[t] = tk[t]
      BY <1>1, <2>1
    <3> QED
      BY <2>1, <3>1
  <2>2. CASE t = cur /\ runs /\ SlicedOut(tk)
    <3>1. ticks'[t] = Slice[lvl]
      BY <1>1, <2>2
    <3> QED
      BY <1>3, <3>1
  <2>3. CASE t = cur /\ ~(runs /\ SlicedOut(tk))
    <3>1. ticks'[t] = tk[t]
      BY <1>1, <2>3
    <3>2. tk[t] < UINT32_MAX \/ tk[t] # UINT32_MAX
      BY <1>4, <2>3 DEF SlicedOut
    <3> QED
      BY <3>1, <3>2, NumberAssumption
  <2> QED
    BY <2>1, <2>2, <2>3
<1> QED
  BY <1>5 DEF NoEndlessSlice

LEMMA SliceNext ==
    ASSUME IInv, QInv, NoEndlessSlice, [Next]_vars PROVE NoEndlessSlice'
<1> USE QTypes
<1>1. /\ \A t \in Thread \ {Idle} : ticks[t] < UINT32_MAX
      /\ status[cur] = "RUNNING"
  BY DEF QInv, NoEndlessSlice
<1>2. \A p \in Prio : Slice[p] < UINT32_MAX /\ PrioTicks[p] < UINT32_MAX
                      /\ Slice[p] \in 0..UINT32_MAX
  BY NumberAssumption
<1>3. FIRST_PRIO \in Prio /\ SECOND_PRIO \in Prio /\ THIRD_PRIO \in Prio
  BY DEF Prio
<1>4. CASE intr_timer_handler
  <2>1. CASE schedule(queue, status, priority, [ticks EXCEPT ![cur] = UINT32_MAX],
                      downing, SavedIntr)
    <3>1. /\ [ticks EXCEPT ![cur] = UINT32_MAX] \in [Thread -> 0..UINT32_MAX]
          /\ \A t \in Thread \ {cur} : [ticks EXCEPT ![cur] = UINT32_MAX][t] = ticks[t]
      BY NumberAssumption
    <3> QED
      BY <1>1, <2>1, <3>1, SliceSchedule
  <2>2. ticks[cur] # 0 => /\ TickDown(ticks) \in [Thread -> 0..UINT32_MAX]
                          /\ \A t \in Thread \ {Idle} : TickDown(ticks)[t] < UINT32_MAX
    <3> SUFFICES ASSUME ticks[cur] # 0
                 PROVE  /\ TickDown(ticks) \in [Thread -> 0..UINT32_MAX]
                        /\ \A t \in Thread \ {Idle} : TickDown(ticks)[t] < UINT32_MAX
      OBVIOUS
    <3>1. ticks[cur] - 1 \in 0..UINT32_MAX /\ ticks[cur] - 1 < UINT32_MAX
      BY NumberAssumption
    <3> QED
      BY <1>1, <3>1 DEF TickDown
  <2>3. CASE /\ ticks[cur] # 0
             /\ schedule(queue, status, priority, TickDown(ticks), downing, SavedIntr)
    BY <2>2, <2>3, SliceSchedule
  <2>4. CASE ticks[cur] # 0 /\ ticks' = TickDown(ticks)
    BY <2>2, <2>4 DEF NoEndlessSlice
  <2> QED
    BY <1>4, <2>1, <2>3, <2>4 DEF intr_timer_handler
<1>5. ASSUME NEW q, NEW stat \in Status, NEW dn, NEW os, thread_block(q, stat, dn, os)
      PROVE  NoEndlessSlice'
  <2>1. [status EXCEPT ![cur] = stat] \in [Thread -> Status]
    OBVIOUS
  <2> QED
    BY <1>1, <1>5, <2>1, SliceSchedule DEF thread_block
<1>6. CASE idle \/ DeviceWait
  BY <1>5, <1>6 DEF idle, DeviceWait, Status
<1>7. ASSUME NEW s, NEW os, sema_block(s, os) PROVE NoEndlessSlice'
  BY <1>5, <1>7 DEF sema_block, Status
<1>8. ASSUME UNCHANGED ticks PROVE NoEndlessSlice'
  BY <1>8 DEF NoEndlessSlice
<1>9. ASSUME NEW t \in Thread, NEW n \in Nat, n < UINT32_MAX,
             ticks' = [ticks EXCEPT ![t] = n]
      PROVE  NoEndlessSlice'
  BY <1>1, <1>9 DEF NoEndlessSlice
<1>10. CASE thread_wait
  BY <1>7, <1>8, <1>10 DEF thread_wait, schedVars
<1>11. CASE sema_down_resume
  BY <1>7, <1>8, <1>11 DEF sema_down_resume
<1>12. CASE thread_yield
  <2>1. /\ [status EXCEPT ![cur] = "READY"] \in [Thread -> Status]
        /\ [priority EXCEPT ![cur] = FIRST_PRIO] \in [Thread -> Prio]
    BY <1>3 DEF Status
  <2> QED
    BY <1>1, <1>12, <2>1, SliceSchedule DEF thread_yield
<1>13. CASE thread_exit
  <2> DEFINE w == parent[cur]
             q == list_remove(queue, cur)
             st == [status EXCEPT ![cur] = "DIED"]
             u == Head(q[w])
             tk == [ticks EXCEPT ![u] = Slice[FIRST_PRIO]]
  <2>1. IF w # NULL /\ q[w] # <<>>
        THEN schedule(ExitQueue(q, w), [st EXCEPT ![u] = "READY"],
                      [priority EXCEPT ![u] = FIRST_PRIO], tk, downing, SavedIntr)
        ELSE schedule(q, st, priority, ticks, downing, SavedIntr)
    BY <1>13 DEF thread_exit
  <2>2. st \in [Thread -> Status]
    BY DEF Status
  <2>3. [st EXCEPT ![u] = "READY"] \in [Thread -> Status]
    BY <2>2 DEF Status
  <2>4. [priority EXCEPT ![u] = FIRST_PRIO] \in [Thread -> Prio]
    BY <1>3
  <2>5. /\ tk \in [Thread -> 0..UINT32_MAX]
        /\ \A t \in Thread \ {Idle} : tk[t] < UINT32_MAX
    BY <1>1, <1>2, <1>3
  <2> HIDE DEF w, q, st, u, tk
  <2> QED
    BY <1>1, <2>1, <2>2, <2>3, <2>4, <2>5, SliceSchedule
<1>14. ASSUME NEW t \in Thread, NEW p \in Prio,
              thread_start(t, p) \/ process_execute(t) \/ sys_fork(t)
       PROVE  NoEndlessSlice'
  <2>1. \A r \in Prio : PrioTicks[r] \in Nat /\ Slice[r] \in Nat
    BY NumberAssumption
  <2>2. \E n \in Nat : n < UINT32_MAX /\ ticks' = [ticks EXCEPT ![t] = n]
    BY <1>2, <1>3, <1>14, <2>1 DEF thread_start, process_execute, sys_fork
  <2> QED
    BY <1>9, <2>2
<1>15. ASSUME NEW t \in Thread, Reap(t) PROVE NoEndlessSlice'
  BY <1>8, <1>15 DEF Reap
<1>16. ASSUME NEW q, NEW t, Unblocked(q, status, priority, ticks, t)
       PROVE  NoEndlessSlice'
  <2>1. ticks' = [ticks EXCEPT ![t] = Slice[FIRST_PRIO]]
    BY <1>16 DEF Unblocked
  <2>2. \A u \in Thread \ {Idle} : ticks'[u] < UINT32_MAX
    BY <1>1, <1>2, <1>3, <2>1
  <2> QED
    BY <2>2 DEF NoEndlessSlice
<1>17. ASSUME NEW t \in Thread, DeviceWake(t) PROVE NoEndlessSlice'
  BY <1>16, <1>17 DEF DeviceWake
<1>18. ASSUME NEW l \in Lock, lock_acquire(l) PROVE NoEndlessSlice'
  BY <1>7, <1>8, <1>18 DEF lock_acquire, schedVars
<1>19. ASSUME NEW l \in Lock, lock_release(l) PROVE NoEndlessSlice'
  BY <1>8, <1>16, <1>19 DEF lock_release, sema_up
<1>20. ASSUME NEW l \in Lock, lock_acquire_again(l) \/ lock_release_nested(l)
       PROVE  NoEndlessSlice'
  BY <1>8, <1>20 DEF lock_acquire_again, lock_release_nested, schedVars
<1>21. CASE syscall_return
  BY <1>8, <1>21 DEF syscall_return
<1>22. CASE UNCHANGED vars
  BY <1>8, <1>22 DEF vars
<1> QED
  BY <1>3, <1>4, <1>6, <1>10, <1>11, <1>12, <1>13, <1>14, <1>15, <1>17, <1>18,
     <1>19, <1>20, <1>21, <1>22 DEF Next

\* The mark UINT32_MAX never survives schedule(): no thread but idle is left
\* with an endless slice, for any slice lengths below the mark.
THEOREM SlicesEnd == Spec => []NoEndlessSlice
<1>1. Init => NoEndlessSlice
  <2> SUFFICES ASSUME Init PROVE NoEndlessSlice
    OBVIOUS
  <2>1. \A p \in Prio : PrioTicks[p] < UINT32_MAX
    BY NumberAssumption
  <2>2. \A t \in Thread : ticks[t] < UINT32_MAX
    <3>1. \A t \in Thread : ticks[t] = PrioTicks[IF t = Main THEN FIRST_PRIO ELSE THIRD_PRIO]
      BY DEF Init
    <3> QED
      BY <2>1, <3>1 DEF Prio
  <2> QED
    BY <2>2 DEF NoEndlessSlice
<1>2. IInv /\ QInv /\ NoEndlessSlice /\ [Next]_vars => NoEndlessSlice'
  BY SliceNext
<1> QED
  BY <1>1, <1>2, Invariance, ListsInvariant, PTL DEF Spec
=============================================================================
