------------------------------ MODULE IoQueue ------------------------------
(***************************************************************************)
(* The ring buffer of device/ioqueue.c with its two kinds of users: the    *)
(* keyboard (device/keyboard.c: the interrupt handler puts, sys_getchar    *)
(* gets) and pipes (device/pipe.c: both ends are threads).                 *)
(*                                                                         *)
(* A system call runs with interrupts on (syscall_handler does sti), and   *)
(* the ASSERTs that would demand otherwise are commented out, so a thread  *)
(* can be preempted between any two accesses to the shared fields: each is *)
(* an action.  The interrupt handler itself runs with interrupts off and   *)
(* is one action.  A failed ASSERT calls panic_spin, which stops the       *)
(* machine: `panic' records the ASSERT and disables everything.            *)
(***************************************************************************)
EXTENDS Naturals, Sequences

CONSTANTS
    Getter,       \* threads that loop on sys_getchar
    PipeReader,   \* threads that call pipe_read
    PipeWriter,   \* threads that call pipe_write
    Forked,       \* those of them that get the pipe from a fork
    Keyboard,     \* TRUE: the queue is kbd_buf and the handler puts
    bufsize,      \* __bufsize
    MAX_CHARS,    \* bound: characters put, and got, in a behaviour
    NULL

Taker == Getter \cup PipeReader
Thread == Taker \cup PipeWriter

ASSUME IoQueueAssumption ==
    /\ NULL \notin Thread \cup {"thread_unblock", "wakeup", "ioq_wait"}
    /\ Keyboard \in BOOLEAN
    /\ bufsize \in Nat /\ bufsize > 1
    /\ MAX_CHARS \in Nat
    /\ Taker \cap PipeWriter = {}
    /\ Forked \subseteq PipeReader \cup PipeWriter

Pos == 0..(bufsize - 1)

VARIABLES
    buf, head, tail,
    producer, consumer,           \* the waiting thread of each side, or NULL
    lock_producer, lock_consumer, \* holder of each lock, or NULL
    pc, blocked,                  \* where each thread is; its status is BLOCKED
    left,                         \* bytes still to move in this pipe call
    byte,                         \* the character read but not yet returned
    panic,                        \* the ASSERT that failed, or NULL
    sent, rcvd                    \* history: characters put in, handed out

ring == <<buf, head, tail>>
waits == <<producer, consumer, lock_producer, lock_consumer>>
vars == <<buf, head, tail, producer, consumer, lock_producer, lock_consumer,
          pc, blocked, left, byte, panic, sent, rcvd>>

next_pos_unwrapped(p) == p + 1   \* mutant: no modulo
next_pos(p) == (p + 1) % bufsize
ioq_empty == head = tail
ioq_full_by_count == Len(sent) - Len(rcvd) >= bufsize   \* mutant: uses every place
ioq_full == next_pos(head) = tail
ioq_length == IF head >= tail THEN head - tail ELSE bufsize - (tail - head)

\* The n-th character ever put is the number n; once a fork has shared the
\* pipe, characters are told apart no more.
Alone == \A t \in Forked : pc[t] = "unborn"
NextChar == IF Alone THEN Len(sent) + 1 ELSE 0

Init ==
    /\ buf = [p \in Pos |-> 0]
    /\ head = 0 /\ tail = 0
    /\ producer = NULL /\ consumer = NULL
    /\ lock_producer = NULL /\ lock_consumer = NULL
    /\ pc = [t \in Thread |-> IF t \in Forked THEN "unborn" ELSE "user"]
    /\ blocked = [t \in Thread |-> FALSE]
    /\ left = [t \in Thread |-> 0]
    /\ byte = [t \in Taker |-> 0]
    /\ panic = NULL
    /\ sent = <<>> /\ rcvd = <<>>

At(t, where) == panic = NULL /\ pc[t] = where /\ ~blocked[t]
Goto(t, where) == pc' = [pc EXCEPT ![t] = where]

\* thread_unblock(t), with its ASSERT that t is blocked
thread_unblock(t) ==
    IF blocked[t]
    THEN blocked' = [blocked EXCEPT ![t] = FALSE] /\ UNCHANGED panic
    ELSE panic' = "thread_unblock" /\ UNCHANGED blocked

\* wakeup(&waiter) up to the return of thread_unblock, with its own ASSERT
wakeup_unblock(waiter) ==
    IF waiter = NULL THEN panic' = "wakeup" /\ UNCHANGED blocked
    ELSE thread_unblock(waiter)

----------------------------------------------------------------------------
(* System calls *)

\* sys_fork: a child begins with the descriptors, and the pipe, of its parent.
sys_fork(t) ==
    /\ t \in Forked /\ At(t, "unborn")
    /\ \E parent \in Thread \ Forked : At(parent, "user")
    /\ Goto(t, "user")
    /\ UNCHANGED <<ring, waits, blocked, left, byte, panic, sent, rcvd>>

\* sys_getchar moves one character.
sys_getchar(t) ==
    /\ At(t, "user") /\ t \in Getter
    /\ left' = [left EXCEPT ![t] = 1]
    /\ Goto(t, "get")
    /\ UNCHANGED <<ring, waits, blocked, byte, panic, sent, rcvd>>

\* pipe_read takes what is there at the moment of the call, at most count.
pipe_read(t, count) ==
    /\ At(t, "user") /\ t \in PipeReader
    /\ left' = [left EXCEPT ![t] = IF ioq_length > count THEN count ELSE ioq_length]
    /\ Goto(t, "get")
    /\ UNCHANGED <<ring, waits, blocked, byte, panic, sent, rcvd>>

\* pipe_write reckons with bufsize free places, one more than the ring has.
pipe_write(t, count) ==
    /\ At(t, "user") /\ t \in PipeWriter
    /\ LET room == bufsize - ioq_length
       IN  left' = [left EXCEPT ![t] = IF room > count THEN count ELSE room]
    /\ Goto(t, "put")
    /\ UNCHANGED <<ring, waits, blocked, byte, panic, sent, rcvd>>

----------------------------------------------------------------------------
(* ioq_getchar *)

get_test(t) ==
    /\ At(t, "get")
    /\ Goto(t, CASE left[t] = 0 -> "user"
                 [] left[t] > 0 /\ ioq_empty -> "get_lock"
                 [] OTHER -> "get_read")
    /\ UNCHANGED <<ring, waits, blocked, left, byte, panic, sent, rcvd>>

get_lock(t) ==
    /\ At(t, "get_lock")
    /\ lock_consumer = NULL
    /\ lock_consumer' = t
    /\ Goto(t, "get_wait")
    /\ UNCHANGED <<ring, producer, consumer, lock_producer, blocked, left, byte,
                   panic, sent, rcvd>>

\* mutant: the waiter is not published before it sleeps
get_wait_unpublished(t) ==
    /\ At(t, "get_wait")
    /\ Goto(t, "get_block")
    /\ UNCHANGED <<ring, waits, blocked, left, byte, panic, sent, rcvd>>

\* ioq_wait up to the call of thread_block
get_wait(t) ==
    /\ At(t, "get_wait")
    /\ IF consumer = NULL
       THEN consumer' = t /\ Goto(t, "get_block") /\ UNCHANGED panic
       ELSE panic' = "ioq_wait" /\ UNCHANGED <<consumer, pc>>
    /\ UNCHANGED <<ring, producer, lock_producer, lock_consumer, blocked, left,
                   byte, sent, rcvd>>

get_block(t) ==
    /\ At(t, "get_block")
    /\ blocked' = [blocked EXCEPT ![t] = TRUE]
    /\ Goto(t, "get_unlock")
    /\ UNCHANGED <<ring, waits, left, byte, panic, sent, rcvd>>

get_unlock(t) ==
    /\ At(t, "get_unlock")
    /\ lock_consumer' = NULL
    /\ Goto(t, "get")
    /\ UNCHANGED <<ring, producer, consumer, lock_producer, blocked, left, byte,
                   panic, sent, rcvd>>

get_read(t) ==
    /\ At(t, "get_read")
    /\ Len(rcvd) < MAX_CHARS
    /\ byte' = [byte EXCEPT ![t] = IF Alone THEN buf[tail] ELSE 0]
    /\ Goto(t, "get_advance")
    /\ UNCHANGED <<ring, waits, blocked, left, panic, sent, rcvd>>

get_advance(t) ==
    /\ At(t, "get_advance")
    /\ tail' = next_pos(tail)
    /\ rcvd' = Append(rcvd, IF Alone THEN byte[t] ELSE 0)
    /\ left' = [left EXCEPT ![t] = @ - 1]
    /\ Goto(t, "get_wakeup")
    /\ UNCHANGED <<buf, head, waits, blocked, byte, panic, sent>>

\* The caller's test, thread_unblock in wakeup, and the reset are three steps.
get_wakeup(t) ==
    /\ At(t, "get_wakeup")
    /\ IF producer = NULL
       THEN Goto(t, "get") ELSE Goto(t, "get_unblock")
    /\ UNCHANGED <<ring, waits, blocked, left, byte, panic, sent, rcvd>>

get_unblock(t) ==
    /\ At(t, "get_unblock")
    /\ wakeup_unblock(producer)
    /\ Goto(t, "get_clear")
    /\ UNCHANGED <<ring, waits, left, byte, sent, rcvd>>

get_clear(t) ==
    /\ At(t, "get_clear")
    /\ producer' = NULL
    /\ Goto(t, "get")
    /\ UNCHANGED <<ring, consumer, lock_producer, lock_consumer, blocked, left,
                   byte, panic, sent, rcvd>>

----------------------------------------------------------------------------
(* ioq_putchar, called by a thread *)

put_test(t) ==
    /\ At(t, "put")
    /\ Goto(t, CASE left[t] = 0 -> "user"
                 [] left[t] > 0 /\ ioq_full -> "put_lock"
                 [] OTHER -> "put_write")
    /\ UNCHANGED <<ring, waits, blocked, left, byte, panic, sent, rcvd>>

put_lock(t) ==
    /\ At(t, "put_lock")
    /\ lock_producer = NULL
    /\ lock_producer' = t
    /\ Goto(t, "put_wait")
    /\ UNCHANGED <<ring, producer, consumer, lock_consumer, blocked, left, byte,
                   panic, sent, rcvd>>

\* mutant: the writer is not published before it sleeps
put_wait_unpublished(t) ==
    /\ At(t, "put_wait")
    /\ Goto(t, "put_block")
    /\ UNCHANGED <<ring, waits, blocked, left, byte, panic, sent, rcvd>>

put_wait(t) ==
    /\ At(t, "put_wait")
    /\ IF producer = NULL
       THEN producer' = t /\ Goto(t, "put_block") /\ UNCHANGED panic
       ELSE panic' = "ioq_wait" /\ UNCHANGED <<producer, pc>>
    /\ UNCHANGED <<ring, consumer, lock_producer, lock_consumer, blocked, left,
                   byte, sent, rcvd>>

put_block(t) ==
    /\ At(t, "put_block")
    /\ blocked' = [blocked EXCEPT ![t] = TRUE]
    /\ Goto(t, "put_unlock")
    /\ UNCHANGED <<ring, waits, left, byte, panic, sent, rcvd>>

put_unlock(t) ==
    /\ At(t, "put_unlock")
    /\ lock_producer' = NULL
    /\ Goto(t, "put")
    /\ UNCHANGED <<ring, producer, consumer, lock_consumer, blocked, left, byte,
                   panic, sent, rcvd>>

put_write(t) ==
    /\ At(t, "put_write")
    /\ Len(sent) < MAX_CHARS
    /\ buf' = [buf EXCEPT ![head] = NextChar]
    /\ Goto(t, "put_advance")
    /\ UNCHANGED <<head, tail, waits, blocked, left, byte, panic, sent, rcvd>>

put_advance(t) ==
    /\ At(t, "put_advance")
    /\ head' = next_pos(head)
    /\ sent' = Append(sent, NextChar)
    /\ left' = [left EXCEPT ![t] = @ - 1]
    /\ Goto(t, "put_wakeup")
    /\ UNCHANGED <<buf, tail, waits, blocked, byte, panic, rcvd>>

put_wakeup(t) ==
    /\ At(t, "put_wakeup")
    /\ IF consumer = NULL
       THEN Goto(t, "put") ELSE Goto(t, "put_unblock")
    /\ UNCHANGED <<ring, waits, blocked, left, byte, panic, sent, rcvd>>

put_unblock(t) ==
    /\ At(t, "put_unblock")
    /\ wakeup_unblock(consumer)
    /\ Goto(t, "put_clear")
    /\ UNCHANGED <<ring, waits, left, byte, sent, rcvd>>

put_clear(t) ==
    /\ At(t, "put_clear")
    /\ consumer' = NULL
    /\ Goto(t, "put")
    /\ UNCHANGED <<ring, producer, lock_producer, lock_consumer, blocked, left,
                   byte, panic, sent, rcvd>>

----------------------------------------------------------------------------
(* intr_keyboard_handler for a key with a character: one interrupt, with   *)
(* ioq_putchar and wakeup inlined.  A full queue drops the key.            *)
intr_keyboard_handler ==
    /\ Keyboard
    /\ panic = NULL
    /\ Len(sent) < MAX_CHARS
    /\ ~ioq_full
    /\ buf' = [buf EXCEPT ![head] = NextChar]
    /\ head' = next_pos(head)
    /\ sent' = Append(sent, NextChar)
    /\ IF consumer = NULL
       THEN UNCHANGED <<blocked, panic, consumer>>
       ELSE thread_unblock(consumer) /\ consumer' = NULL
    /\ UNCHANGED <<tail, producer, lock_producer, lock_consumer, pc, left, byte, rcvd>>

Next ==
    \/ intr_keyboard_handler
    \/ \E t \in Forked : sys_fork(t)
    \/ \E t \in Getter : sys_getchar(t)
    \/ \E t \in PipeReader, count \in 1..bufsize : pipe_read(t, count)
    \/ \E t \in PipeWriter, count \in 1..bufsize : pipe_write(t, count)
    \/ \E t \in Taker :
          \/ get_test(t) \/ get_lock(t) \/ get_wait(t) \/ get_block(t)
          \/ get_unlock(t) \/ get_read(t) \/ get_advance(t)
          \/ get_wakeup(t) \/ get_unblock(t) \/ get_clear(t)
    \/ \E t \in PipeWriter :
          \/ put_test(t) \/ put_lock(t) \/ put_wait(t) \/ put_block(t)
          \/ put_unlock(t) \/ put_write(t) \/ put_advance(t)
          \/ put_wakeup(t) \/ put_unblock(t) \/ put_clear(t)

Spec == Init /\ [][Next]_vars

----------------------------------------------------------------------------
(* Properties *)

TypeOK ==
    /\ buf \in [Pos -> 0..MAX_CHARS]
    /\ head \in Pos /\ tail \in Pos
    /\ producer \in PipeWriter \cup {NULL}
    /\ consumer \in Taker \cup {NULL}
    /\ lock_producer \in PipeWriter \cup {NULL}
    /\ lock_consumer \in Taker \cup {NULL}
    /\ DOMAIN pc = Thread
    /\ blocked \in [Thread -> BOOLEAN]
    /\ left \in [Thread -> 0..bufsize]
    /\ byte \in [Taker -> 0..MAX_CHARS]
    /\ sent \in Seq(0..MAX_CHARS) /\ rcvd \in Seq(0..MAX_CHARS)

Contents == [i \in 1..ioq_length |-> buf[(tail + i - 1) % bufsize]]

\* With one getter and one putter (the keyboard counts as one) the ring is a
\* FIFO although nothing protects head, tail and buf: every character put is
\* handed out once, in order, or still in the ring.  After a fork the two
\* processes may take the same character, and nothing is said.
InOrder == Alone => sent = rcvd \o Contents

\* A sleeping thread can be found by the other side: it is the registered
\* waiter and holds the lock of its side, so nobody overwrites the pointer.
SleeperReachable ==
    \A t \in Thread : blocked[t] =>
        \/ t \in Taker /\ consumer = t /\ lock_consumer = t
        \/ t \in PipeWriter /\ producer = t /\ lock_producer = t
=============================================================================
