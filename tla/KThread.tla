------------------------------ MODULE KThread ------------------------------
(***************************************************************************)
(* Threads, the three-level scheduler, the timer interrupt, semaphores and *)
(* reentrant locks of the kernel (thread/thread.c, device/timer.c,         *)
(* thread/sync.c, and the scheduling part of userprog/process.c).          *)
(*                                                                         *)
(* The machine has one CPU.  A kernel routine that runs with the interrupt *)
(* flag off is one step up to the point where it calls switch_to, so an    *)
(* action is a routine, or the part of it between two switches.  Between   *)
(* two actions of the running thread the timer may fire if the flag is on. *)
(* A thread's general_tag links it into one list at a time: `queue' holds  *)
(* the three ready lists and the waiters of every semaphore.               *)
(***************************************************************************)
EXTENDS Naturals, Sequences, FiniteSets

CONSTANTS
    Thread,       \* PCB slots, the boot-time threads included
    Main, Idle, Cleaner,
    Proc,         \* the slots used for user processes (pgdir # NULL)
    Lock,         \* struct lock objects (pool locks, console_lock, ...)
    NULL,
    PrioTicks,    \* init_thread: ticks = prio
    Slice,        \* FIRST_TICKS, SECOND_TICKS, THIRD_TICKS
    UINT32_MAX,   \* "slice used up" mark left in ticks by the timer handler
    SEMA_MOD,     \* semaphore.value is a uint8_t: 256
    MAX_NEST      \* bound: how often a thread nests one lock

FIRST_PRIO == 1
SECOND_PRIO == 2
THIRD_PRIO == 3
Prio == {FIRST_PRIO, SECOND_PRIO, THIRD_PRIO}

\* semaphore.value wraps at the width of a uint8_t.
SemaIncUnbounded(n) == n + 1   \* mutant: a counter that never wraps
SemaInc(n) == (n + 1) % SEMA_MOD

\* A semaphore is a lock's semaphore or a thread's waiting_sema.
Sema == Lock \cup Thread
QId == Prio \cup Sema

\* "NONE": the slot holds no PCB.  TASK_HANGING is never used by the code.
Status == {"NONE", "RUNNING", "READY", "BLOCKED", "WAITING", "DIED"}

ASSUME ThreadAssumption ==
    /\ {Main, Idle, Cleaner} \subseteq Thread
    /\ Main # Idle /\ Main # Cleaner /\ Idle # Cleaner
    /\ Proc \subseteq Thread \ {Main, Idle, Cleaner}
    /\ NULL \notin Sema
ASSUME QueueAssumption ==
    Lock \cap Thread = {} /\ Prio \cap Sema = {}
ASSUME NumberAssumption ==
    /\ UINT32_MAX \in Nat
    /\ PrioTicks \in [Prio -> 0..(UINT32_MAX - 1)]
    /\ Slice \in [Prio -> 0..(UINT32_MAX - 1)]
    /\ SEMA_MOD \in Nat /\ SEMA_MOD > 1
    /\ MAX_NEST \in Nat \ {0}

VARIABLES
    cur,               \* running_thread()
    status, priority, ticks,
    parent,            \* parent_pid, as the PCB it names; NULL when that PCB is gone
    queue,             \* ready lists and waiters
    value,             \* semaphore.value
    holder, holder_repeat_nr,
    depth,             \* client side: acquires minus releases of each thread
    downing,           \* the semaphore whose sema_down loop the thread is in
    intr,              \* the interrupt flag of the CPU
    old_status,        \* the flag a switched-out thread resumes with
    leaked             \* the thread runs with the flag off outside a critical section

schedVars == <<cur, status, priority, ticks, queue, intr>>
lockVars == <<value, holder, holder_repeat_nr, depth>>
vars == <<cur, status, priority, ticks, parent, queue, value, holder,
          holder_repeat_nr, depth, downing, intr, old_status, leaked>>

----------------------------------------------------------------------------
(* The intrusive list (list/list.c) as a sequence. *)

\* elem_find
In(t, s) == \E i \in DOMAIN s : s[i] = t

list_append(q, x, t) == [q EXCEPT ![x] = Append(@, t)]
list_push(q, x, t) == [q EXCEPT ![x] = <<t>> \o @]

\* list_remove unlinks the tag from whatever list holds it, and returns at
\* once when the tag is on none.
Unlink(s, t) ==
    IF In(t, s)
    THEN LET k == CHOOSE i \in DOMAIN s : s[i] = t
         IN  [j \in 1..(Len(s) - 1) |-> IF j < k THEN s[j] ELSE s[j + 1]]
    ELSE s
list_remove(q, t) == [x \in QId |-> Unlink(q[x], t)]

----------------------------------------------------------------------------
(* schedule(): every operator takes the state its caller has built up. *)

ReadyEmpty(q) == \A p \in Prio : q[p] = <<>>

\* thread_unblock_idle, called when no thread is ready
IdleNeeded(q, st) == ReadyEmpty(q) /\ st[Idle] # "READY"
QueueWithIdle(q, st) ==
    IF IdleNeeded(q, st) THEN list_push(q, THIRD_PRIO, Idle) ELSE q
StatusWithIdle(q, st) ==
    IF IdleNeeded(q, st) THEN [st EXCEPT ![Idle] = "READY"] ELSE st

PickLevel(q) == IF q[FIRST_PRIO] # <<>> THEN FIRST_PRIO
                ELSE IF q[SECOND_PRIO] # <<>> THEN SECOND_PRIO ELSE THIRD_PRIO
Picked(q) == Head(q[PickLevel(q)])
PeekedOnly(q) == q             \* mutant: the picked thread stays on its list
Popped(q) == [q EXCEPT ![PickLevel(q)] = Tail(@)]

\* A used-up slice costs the running thread one level.
Demoted(p) == IF p = FIRST_PRIO THEN SECOND_PRIO ELSE THIRD_PRIO
SlicedOutNever(tk) == FALSE    \* mutant: the mark is not recognised
SlicedOut(tk) == tk[cur] = UINT32_MAX
LevelAfter(pr, tk) == IF SlicedOut(tk) THEN Demoted(pr[cur]) ELSE pr[cur]

\* The next thread is popped before the running one is put back.
schedule(q, st, pr, tk, dn, os) ==
    LET q1   == QueueWithIdle(q, st)
        st1  == StatusWithIdle(q, st)
        next == Picked(q1)
        runs == st1[cur] = "RUNNING"
        lvl  == LevelAfter(pr, tk)
    IN  /\ cur' = next
        /\ queue' = IF runs THEN list_append(Popped(q1), lvl, cur)
                    ELSE IF st1[cur] = "DIED" THEN list_remove(Popped(q1), cur)
                    ELSE Popped(q1)
        /\ status' = [st1 EXCEPT ![cur] = IF runs THEN "READY" ELSE @,
                                 ![next] = "RUNNING"]
        /\ priority' = [pr EXCEPT ![cur] =
                            IF runs THEN lvl
                            ELSE IF st1[cur] = "BLOCKED" THEN THIRD_PRIO ELSE @]
        /\ ticks' = [tk EXCEPT ![cur] =
                            IF runs /\ SlicedOut(tk) THEN Slice[lvl] ELSE @]
        /\ downing' = dn
        /\ old_status' = os
        \* A thread resumed inside sema_down still has interrupts off.
        /\ intr' = IF dn[next] = NULL THEN os[next] ELSE FALSE

\* thread_block(stat) of the running thread
thread_block(q, stat, dn, os) ==
    schedule(q, [status EXCEPT ![cur] = stat], priority, ticks, dn, os)

\* mutant: the woken thread keeps the level it had when it blocked
UnblockedAtOldLevel(q, st, pr, tk, t) ==
    /\ queue' = list_push(list_remove(q, t), FIRST_PRIO, t)
    /\ status' = [st EXCEPT ![t] = "READY"]
    /\ priority' = pr
    /\ ticks' = [tk EXCEPT ![t] = Slice[FIRST_PRIO]]

\* What thread_unblock(t) does to the scheduler's data.
Unblocked(q, st, pr, tk, t) ==
    /\ queue' = list_push(list_remove(q, t), FIRST_PRIO, t)
    /\ status' = [st EXCEPT ![t] = "READY"]
    /\ priority' = [pr EXCEPT ![t] = FIRST_PRIO]
    /\ ticks' = [tk EXCEPT ![t] = Slice[FIRST_PRIO]]

SavedAfterCli == [old_status EXCEPT ![cur] = FALSE]   \* mutant: flag read after cli
SavedIntr == [old_status EXCEPT ![cur] = intr]

\* The running thread is between kernel calls.
AtCall == downing[cur] = NULL /\ cur # Idle

----------------------------------------------------------------------------
(* After thread_init and the intr_enable of main(): main runs, idle is     *)
(* ready, nobody holds a lock.                                             *)
Init ==
    /\ cur = Main
    /\ status = [t \in Thread |-> CASE t = Main -> "RUNNING"
                                    [] t = Idle -> "READY"
                                    [] OTHER -> "NONE"]
    /\ priority = [t \in Thread |-> IF t = Main THEN FIRST_PRIO ELSE THIRD_PRIO]
    /\ ticks = [t \in Thread |-> PrioTicks[IF t = Main THEN FIRST_PRIO ELSE THIRD_PRIO]]
    /\ parent = [t \in Thread |-> IF t \in {Main, Idle} THEN Main ELSE NULL]
    /\ queue = [x \in QId |-> IF x = THIRD_PRIO THEN <<Idle>> ELSE <<>>]
    /\ value = [s \in Sema |-> IF s \in Lock THEN 1 ELSE 0]
    /\ holder = [l \in Lock |-> NULL]
    /\ holder_repeat_nr = [l \in Lock |-> 0]
    /\ depth = [t \in Thread |-> [l \in Lock |-> 0]]
    /\ downing = [t \in Thread |-> NULL]
    /\ intr = TRUE
    /\ old_status = [t \in Thread |-> TRUE]
    /\ leaked = [t \in Thread |-> FALSE]

----------------------------------------------------------------------------
(* The timer interrupt *)

\* intr_timer_handler.  A FIRST thread keeps the CPU for its whole slice; the
\* others give way as soon as a higher level has a thread.
Preempts(p) == CASE p = FIRST_PRIO -> FALSE
                 [] p = SECOND_PRIO -> queue[FIRST_PRIO] # <<>>
                 [] OTHER -> queue[FIRST_PRIO] # <<>> \/ queue[SECOND_PRIO] # <<>>

TickLost(tk) == tk             \* mutant: the handler does not count
TickDown(tk) == [tk EXCEPT ![cur] = @ - 1]

intr_timer_handler ==
    /\ intr
    /\ \/ /\ ticks[cur] = 0
          /\ schedule(queue, status, priority,
                      [ticks EXCEPT ![cur] = UINT32_MAX], downing, SavedIntr)
       \/ /\ ticks[cur] # 0
          /\ Preempts(priority[cur])
          /\ schedule(queue, status, priority,
                      TickDown(ticks), downing, SavedIntr)
       \/ /\ ticks[cur] # 0
          /\ ~Preempts(priority[cur])
          /\ ticks' = TickDown(ticks)
          /\ UNCHANGED <<cur, status, priority, queue, intr, downing, old_status>>
    /\ UNCHANGED <<parent, lockVars, leaked>>

----------------------------------------------------------------------------
(* Thread life cycle *)

\* A PCB page is taken and filled in; init_thread leaves it off every list.
NewThread(t, p, stat) ==
    /\ status[t] = "NONE"
    /\ status' = [status EXCEPT ![t] = stat]
    /\ priority' = [priority EXCEPT ![t] = p]
    /\ parent' = [parent EXCEPT ![t] = cur]
    /\ queue' = list_append(queue, p, t)
    /\ value' = [value EXCEPT ![t] = 0]
    /\ old_status' = [old_status EXCEPT ![t] = TRUE]
    /\ UNCHANGED <<cur, holder, holder_repeat_nr, depth, downing>>

\* thread_start: main starts the cleaner at FIRST_PRIO, any thread any other.
thread_start(t, p) ==
    /\ AtCall
    /\ t \notin Proc
    /\ t = Cleaner => cur = Main /\ p = FIRST_PRIO
    /\ NewThread(t, p, "READY")
    /\ ticks' = [ticks EXCEPT ![t] = PrioTicks[p]]
    /\ leaked' = [leaked EXCEPT ![t] = FALSE]
    /\ UNCHANGED intr

\* process_execute: default_prio is SECOND_PRIO.
process_execute(t) ==
    /\ AtCall
    /\ t \in Proc
    /\ NewThread(t, SECOND_PRIO, "READY")
    /\ ticks' = [ticks EXCEPT ![t] = PrioTicks[SECOND_PRIO]]
    /\ leaked' = [leaked EXCEPT ![t] = FALSE]
    /\ UNCHANGED intr

\* sys_fork copies the parent's PCB, so the child sits in the third ready
\* list with status RUNNING; the flag is not restored before the return.
sys_fork(t) ==
    /\ AtCall
    /\ cur \in Proc /\ t \in Proc
    /\ \A l \in Lock : depth[cur][l] = 0
    /\ NewThread(t, THIRD_PRIO, status[cur])
    /\ ticks' = [ticks EXCEPT ![t] = Slice[THIRD_PRIO]]
    /\ leaked' = [leaked EXCEPT ![t] = FALSE, ![cur] = TRUE]
    /\ intr' = FALSE

\* The iret at the end of a system call gives a process its flag back.
syscall_return ==
    /\ AtCall
    /\ cur \in Proc
    /\ leaked[cur]
    /\ intr' = TRUE
    /\ leaked' = [leaked EXCEPT ![cur] = FALSE]
    /\ UNCHANGED <<cur, status, priority, ticks, parent, queue, lockVars,
                   downing, old_status>>

\* thread_exit: the parent's waiting_sema is upped (sema_up, inlined because
\* it is followed by schedule), then the CPU is given away for good.
ExitQueue(q, w) == IF q[w] # <<>>
                   THEN list_push([q EXCEPT ![w] = Tail(@)], FIRST_PRIO, Head(q[w]))
                   ELSE q
thread_exit ==
    /\ AtCall
    /\ cur \notin {Main, Cleaner}
    /\ \A l \in Lock : depth[cur][l] = 0
    /\ LET w == parent[cur]
           q == list_remove(queue, cur)
           st == [status EXCEPT ![cur] = "DIED"]
           wakes == w # NULL /\ q[w] # <<>>
           u == Head(q[w])
       IN  /\ value' = IF w = NULL THEN value
                       ELSE [value EXCEPT ![w] = SemaInc(@)]
           /\ IF wakes
              THEN schedule(ExitQueue(q, w), [st EXCEPT ![u] = "READY"],
                            [priority EXCEPT ![u] = FIRST_PRIO],
                            [ticks EXCEPT ![u] = Slice[FIRST_PRIO]],
                            downing, SavedIntr)
              ELSE schedule(q, st, priority, ticks, downing, SavedIntr)
    /\ UNCHANGED <<parent, holder, holder_repeat_nr, depth, leaked>>

\* One pass of thread_cleaner over a dead thread: its tags leave every list
\* and its pages go back to the pool.  A pid that is gone is nobody's parent.
Reap(t) ==
    /\ AtCall
    /\ cur = Cleaner
    /\ status[t] = "DIED"
    /\ queue' = list_remove(queue, t)
    /\ status' = [status EXCEPT ![t] = "NONE"]
    /\ parent' = [u \in Thread |-> IF u = t \/ parent[u] = t THEN NULL ELSE parent[u]]
    /\ UNCHANGED <<cur, priority, ticks, lockVars, downing, intr, old_status, leaked>>

\* idle: thread_block(TASK_WAITING), then sti; hlt
idle ==
    /\ cur = Idle
    /\ intr
    /\ thread_block(queue, "WAITING", downing, SavedIntr)
    /\ UNCHANGED <<parent, lockVars, leaked>>

\* thread_yield: back of the first ready list, whatever the level was
thread_yield ==
    /\ AtCall
    /\ cur # Cleaner
    /\ schedule(list_append(queue, FIRST_PRIO, cur),
                [status EXCEPT ![cur] = "READY"],
                [priority EXCEPT ![cur] = FIRST_PRIO],
                ticks, downing, SavedIntr)
    /\ UNCHANGED <<parent, lockVars, leaked>>

\* A device wait (ioq_wait): blocked on no list, until someone who kept the
\* PCB pointer unblocks it.
DeviceWait ==
    /\ AtCall
    /\ cur \notin {Main, Cleaner}
    /\ thread_block(queue, "BLOCKED", downing, SavedIntr)
    /\ UNCHANGED <<parent, lockVars, leaked>>

\* mutant: a stale waiter pointer revives a thread that has exited
DeviceWakeStale(t) ==
    /\ downing[cur] = NULL
    /\ status[t] \in {"BLOCKED", "DIED"} /\ downing[t] = NULL
    /\ Unblocked(queue, status, priority, ticks, t)
    /\ UNCHANGED <<cur, parent, lockVars, downing, intr, old_status, leaked>>

\* thread_unblock(t) by a device handler or by the other end of a queue
DeviceWake(t) ==
    /\ downing[cur] = NULL
    /\ status[t] = "BLOCKED" /\ downing[t] = NULL
    /\ Unblocked(queue, status, priority, ticks, t)
    /\ UNCHANGED <<cur, parent, lockVars, downing, intr, old_status, leaked>>

----------------------------------------------------------------------------
(* Semaphores and locks *)

\* The body of sema_down's loop: join the waiters once, then block.
EnqueueWaiter(s) ==
    IF In(cur, queue[s]) THEN queue
    ELSE list_append(list_remove(queue, cur), s, cur)

\* The condition of sema_down's while loop
MustWaitOnce(s) == value[s] = 0 /\ downing[cur] = NULL   \* mutant: if for while
MustWait(s) == value[s] = 0

\* sema_down finds no unit: the thread blocks inside the loop.
sema_block(s, os) ==
    /\ MustWait(s)
    /\ thread_block(EnqueueWaiter(s), "BLOCKED", [downing EXCEPT ![cur] = s], os)
    /\ UNCHANGED <<parent, lockVars, leaked>>

\* lock_acquire once the unit is there
TakeLock(l) ==
    /\ holder' = [holder EXCEPT ![l] = cur]
    /\ holder_repeat_nr' = [holder_repeat_nr EXCEPT ![l] = 1]
    /\ depth' = [depth EXCEPT ![cur][l] = @ + 1]

lock_acquire(l) ==
    /\ AtCall
    /\ holder[l] # cur
    /\ \/ sema_block(l, SavedIntr)
       \/ /\ ~MustWait(l)
          /\ value' = [value EXCEPT ![l] = @ - 1]
          /\ TakeLock(l)
          /\ UNCHANGED <<schedVars, parent, downing, old_status, leaked>>

lock_acquire_again(l) ==
    /\ AtCall
    /\ holder[l] = cur
    /\ depth[cur][l] < MAX_NEST
    /\ holder_repeat_nr' = [holder_repeat_nr EXCEPT ![l] = @ + 1]
    /\ depth' = [depth EXCEPT ![cur][l] = @ + 1]
    /\ UNCHANGED <<schedVars, parent, value, holder, downing, old_status, leaked>>

\* thread_wait: sema_down on the thread's own waiting_sema
thread_wait ==
    /\ AtCall
    /\ cur \notin {Main, Cleaner}
    /\ \/ sema_block(cur, SavedIntr)
       \/ /\ ~MustWait(cur)
          /\ value' = [value EXCEPT ![cur] = @ - 1]
          /\ UNCHANGED <<schedVars, parent, holder, holder_repeat_nr, depth,
                         downing, old_status, leaked>>

\* A thread resumed in the sema_down loop tests the value again.
sema_down_resume ==
    LET s == downing[cur] IN
    /\ s # NULL
    /\ \/ sema_block(s, old_status)
       \/ /\ ~MustWait(s)
          /\ value' = [value EXCEPT ![s] = @ - 1]
          /\ IF s \in Lock THEN TakeLock(s)
             ELSE UNCHANGED <<holder, holder_repeat_nr, depth>>
          /\ downing' = [downing EXCEPT ![cur] = NULL]
          /\ intr' = old_status[cur]
          /\ UNCHANGED <<cur, status, priority, ticks, queue, parent,
                         old_status, leaked>>

\* mutant: the unit is returned and nobody is told
sema_up_silent(s) ==
    /\ value' = [value EXCEPT ![s] = SemaInc(@)]
    /\ UNCHANGED <<queue, status, priority, ticks>>

\* sema_up: the first waiter is made ready, the unit is left to be taken by
\* whoever comes first.
sema_up(s) ==
    /\ value' = [value EXCEPT ![s] = SemaInc(@)]
    /\ IF queue[s] # <<>>
       THEN Unblocked([queue EXCEPT ![s] = Tail(@)], status, priority, ticks,
                      Head(queue[s]))
       ELSE UNCHANGED <<queue, status, priority, ticks>>

lock_release(l) ==
    /\ AtCall
    /\ depth[cur][l] > 0
    /\ holder_repeat_nr[l] <= 1
    /\ holder' = [holder EXCEPT ![l] = NULL]
    /\ holder_repeat_nr' = [holder_repeat_nr EXCEPT ![l] = 0]
    /\ depth' = [depth EXCEPT ![cur][l] = @ - 1]
    /\ sema_up(l)
    /\ UNCHANGED <<cur, parent, downing, intr, old_status, leaked>>

\* The early return of a nested release skips intr_set_status.
lock_release_nested(l) ==
    /\ AtCall
    /\ depth[cur][l] > 0
    /\ holder_repeat_nr[l] > 1
    /\ holder_repeat_nr' = [holder_repeat_nr EXCEPT ![l] = @ - 1]
    /\ depth' = [depth EXCEPT ![cur][l] = @ - 1]
    /\ intr' = FALSE
    /\ leaked' = [leaked EXCEPT ![cur] = TRUE]
    /\ UNCHANGED <<cur, status, priority, ticks, parent, queue, value, holder,
                   downing, old_status>>

----------------------------------------------------------------------------
Next ==
    \/ intr_timer_handler
    \/ idle
    \/ thread_yield
    \/ thread_wait
    \/ thread_exit
    \/ DeviceWait
    \/ sema_down_resume
    \/ syscall_return
    \/ \E t \in Thread :
          \/ \E p \in Prio : thread_start(t, p)
          \/ process_execute(t)
          \/ sys_fork(t)
          \/ Reap(t)
          \/ DeviceWake(t)
    \/ \E l \in Lock :
          \/ lock_acquire(l)
          \/ lock_acquire_again(l)
          \/ lock_release(l)
          \/ lock_release_nested(l)

Spec == Init /\ [][Next]_vars

\* The timer keeps firing while interrupts are on, hlt returns at the next
\* interrupt, and the CPU goes on executing a routine it is in.
Fairness ==
    /\ WF_vars(intr_timer_handler)
    /\ WF_vars(idle)
    /\ WF_vars(sema_down_resume)
    /\ WF_vars(syscall_return)
FairSpec == Spec /\ Fairness

----------------------------------------------------------------------------
(* Properties *)

Waiting(t) == {s \in Sema : In(t, queue[s])}
Ready(t) == {p \in Prio : In(t, queue[p])}

TypeOK ==
    /\ cur \in Thread
    /\ status \in [Thread -> Status]
    /\ priority \in [Thread -> Prio]
    /\ ticks \in [Thread -> 0..UINT32_MAX]
    /\ parent \in [Thread -> Thread \cup {NULL}]
    /\ queue \in [QId -> Seq(Thread)]
    /\ value \in [Sema -> 0..(SEMA_MOD - 1)]
    /\ holder \in [Lock -> Thread \cup {NULL}]
    /\ holder_repeat_nr \in [Lock -> 0..MAX_NEST]
    /\ depth \in [Thread -> [Lock -> 0..MAX_NEST]]
    /\ downing \in [Thread -> Sema \cup {NULL}]
    /\ intr \in BOOLEAN
    /\ old_status \in [Thread -> BOOLEAN]
    /\ leaked \in [Thread -> BOOLEAN]

\* general_tag is one pair of links: a thread is on at most one list, at one
\* place.  A second link would corrupt both lists (the elem_find ASSERTs of
\* schedule, thread_yield and thread_start guard against a part of this).
TagOnce ==
    \A x, y \in QId : \A i \in DOMAIN queue[x], j \in DOMAIN queue[y] :
        queue[x][i] = queue[y][j] => x = y /\ i = j

\* What the status of a PCB says about the lists.  The running thread and a
\* dead one are on none, READY is the same as being on the ready list of the
\* thread's own priority, except that a forked child waits there with the
\* status RUNNING it was copied with; a waiter of a semaphore is BLOCKED in
\* sema_down.  thread_unblock's ASSERT (thread.c:327) follows for sema_up.
QueueStatus ==
    /\ \A t \in Thread :
          /\ status[t] = "READY" => Ready(t) # {}
          /\ \A p \in Ready(t) : priority[t] = p /\ status[t] \in {"READY", "RUNNING"}
          /\ \A s \in Waiting(t) : status[t] = "BLOCKED" /\ downing[t] = s
          /\ status[t] = "BLOCKED" /\ downing[t] # NULL => Waiting(t) # {}
    /\ status[cur] = "RUNNING"
    /\ Ready(cur) = {}

\* Mutual exclusion of the reentrant lock against its clients' own count of
\* acquires, and the ASSERTs of lock_acquire (sync.c:48) and lock_release
\* (sync.c:58,63): the holder is the one thread inside, the repeat number is
\* its nesting, and the semaphore is up exactly when nobody is.
LockInv ==
    \A l \in Lock :
        /\ value[l] = IF holder[l] = NULL THEN 1 ELSE 0
        /\ holder[l] = NULL => holder_repeat_nr[l] = 0
        /\ holder[l] # NULL => holder_repeat_nr[l] > 0
        /\ \A t \in Thread :
              depth[t][l] = IF holder[l] = t THEN holder_repeat_nr[l] ELSE 0

\* sema_up wakes one waiter and leaves the unit free for a thread that barges
\* in; still no unit is ever left lying while every thread that wants it
\* sleeps.
NoLostWakeup ==
    \A s \in Sema : queue[s] # <<>> /\ value[s] > 0 =>
        \E t \in Thread : downing[t] = s /\ status[t] # "BLOCKED"

\* Outside the kernel's critical sections interrupts are on, but for the one
\* known leak (the early return of a nested lock_release, and sys_fork until
\* its system call returns): switching threads in the middle of somebody's
\* critical section never passes the disabled flag on to another thread.
IntrRestored == ~intr /\ downing[cur] = NULL => leaked[cur]

\* The mark UINT32_MAX that the timer puts into ticks is always consumed by
\* schedule; left behind it would be a slice of 497 days.  Only idle, which
\* gives up the CPU at every interrupt, can keep it.
NoEndlessSlice ==
    \A t \in Thread \ {Idle} : ticks[t] < UINT32_MAX

\* A dead thread never runs again and its PCB only changes hands through the
\* cleaner.
DiedStaysDead ==
    [][\A t \in Thread : status[t] = "DIED" =>
            cur' # t /\ status'[t] \in {"DIED", "NONE"}]_vars

\* No thread that keeps interrupts on holds the CPU for ever: its slice runs
\* out whatever mix of calls it makes.  (Idle keeps it while nobody is ready.)
NoMonopoly ==
    \A t \in Thread :
        (cur = t /\ (t = Idle => ~ReadyEmpty(queue))) ~> (cur # t \/ leaked[t])

----------------------------------------------------------------------------
(* The semaphore, holder and repeat number together implement the abstract *)
(* reentrant lock: held is what the callers have acquired and not released *)

Abstract == INSTANCE ReentrantLock WITH Client <- Thread, held <- depth

\* However lock_acquire, the sema_down loop, lock_release and the scheduler
\* interleave, the callers see a reentrant lock: a first acquire completes
\* only while no thread is inside.
ImplementsLock == Abstract!Spec
=============================================================================
