--------------------------- MODULE IoQueueProofs ---------------------------
(***************************************************************************)
(* Proofs about IoQueue, for every size of the ring and any users.         *)
(*                                                                         *)
(* A sleeper is always reachable, whoever shares the queue: the invariant  *)
(* follows consumer and producer through wakeup, whose three steps may be  *)
(* interleaved with another registration.                                  *)
(*                                                                         *)
(* The ring is a FIFO as long as each side has one user (OneEach), which   *)
(* is what a pipe is before a fork, and the keyboard with one reader.      *)
(***************************************************************************)
EXTENDS IoQueue, Integers, SequenceTheorems, TLAPS

TakerPc == {"unborn", "user", "get", "get_lock", "get_wait", "get_block", "get_unlock",
            "get_read", "get_advance", "get_wakeup", "get_unblock", "get_clear"}
WriterPc == {"unborn", "user", "put", "put_lock", "put_wait", "put_block", "put_unlock",
             "put_write", "put_advance", "put_wakeup", "put_unblock", "put_clear"}

WaitTypes ==
    /\ producer \in PipeWriter \cup {NULL} /\ consumer \in Taker \cup {NULL}
    /\ lock_producer \in PipeWriter \cup {NULL} /\ lock_consumer \in Taker \cup {NULL}
    /\ pc \in [Thread -> TakerPc \cup WriterPc]
    /\ \A t \in Taker : pc[t] \in TakerPc
    /\ \A t \in PipeWriter : pc[t] \in WriterPc
    /\ blocked \in [Thread -> BOOLEAN]

\* The reading side.  consumer is the thread that is about to sleep or sleeps;
\* while a writer is between thread_unblock and the reset of consumer, that
\* thread is awake and cannot go to sleep again.
ConsumerInv ==
    /\ \A t \in Taker :
          /\ pc[t] \in {"get_wait", "get_block", "get_unlock"} <=> lock_consumer = t
          /\ blocked[t] => pc[t] = "get_unlock" /\ consumer = t
          /\ pc[t] = "get_block" /\ panic = NULL => consumer = t
    /\ \A w \in PipeWriter : pc[w] = "put_clear" /\ panic = NULL =>
          /\ consumer # NULL /\ pc[consumer] # "get_block" /\ ~blocked[consumer]
          /\ \A v \in PipeWriter : pc[v] = "put_clear" => v = w

\* The writing side, in the same way
ProducerInv ==
    /\ \A t \in PipeWriter :
          /\ pc[t] \in {"put_wait", "put_block", "put_unlock"} <=> lock_producer = t
          /\ blocked[t] => pc[t] = "put_unlock" /\ producer = t
          /\ pc[t] = "put_block" /\ panic = NULL => producer = t
    /\ \A r \in Taker : pc[r] = "get_clear" /\ panic = NULL =>
          /\ producer # NULL /\ pc[producer] # "put_block" /\ ~blocked[producer]
          /\ \A v \in Taker : pc[v] = "get_clear" => v = r

WaitInv == WaitTypes /\ ConsumerInv /\ ProducerInv

\* Each side has one user, until a fork: a pipe belongs to the process that
\* made it, and the keyboard puts alone.
OneEach ==
    /\ \A t, u \in Taker \ Forked : t = u
    /\ \A t, u \in PipeWriter \ Forked : t = u
    /\ Keyboard => PipeWriter = {}

RingTypes ==
    /\ buf \in [Pos -> 0..MAX_CHARS] /\ head \in Pos /\ tail \in Pos
    /\ left \in [Thread -> 0..bufsize] /\ byte \in [Taker -> 0..MAX_CHARS]
    /\ sent \in Seq(0..MAX_CHARS) /\ rcvd \in Seq(0..MAX_CHARS)
    /\ \A t \in Thread :
          pc[t] \in {"get_read", "get_advance", "put_write", "put_advance"} => left[t] > 0
    /\ \A t \in PipeWriter : pc[t] = "put_advance" /\ Alone => Len(sent) < MAX_CHARS

\* A place d behind p, d less than the size of the ring
Ahead(p, d) == IF p + d < bufsize THEN p + d ELSE p + d - bufsize
InRing == Len(sent) - Len(rcvd)

\* The n-th character is the number n; those in the ring are the ones put and
\* not yet taken.  A writer past its test keeps a place free that nobody else
\* fills, a reader past its test a character nobody else takes.
RingInv ==
    /\ \A i \in 1..Len(sent) : sent[i] = i
    /\ \A i \in 1..Len(rcvd) : rcvd[i] = i
    /\ InRing \in 0..(bufsize - 1)
    /\ head = Ahead(tail, InRing)
    /\ \A d \in 0..(InRing - 1) : buf[Ahead(tail, d)] = Len(rcvd) + d + 1
    /\ \A w \in PipeWriter :
          /\ pc[w] \in {"put_write", "put_advance"} => InRing < bufsize - 1
          /\ pc[w] = "put_advance" => buf[head] = Len(sent) + 1
    /\ \A r \in Taker :
          /\ pc[r] \in {"get_read", "get_advance"} => InRing > 0
          /\ pc[r] = "get_advance" => byte[r] = Len(rcvd) + 1

FifoInv == RingTypes /\ (Alone => RingInv)
IInv == WaitInv /\ FifoInv

----------------------------------------------------------------------------
(* Who waits, and who wakes up                                             *)

USE DEF waits, ring, At, Goto

LEMMA InitWaitInv == Init => WaitInv
<1> SUFFICES ASSUME Init PROVE WaitInv
  OBVIOUS
<1>1. \A t \in Thread : pc[t] \in {"unborn", "user"} /\ ~blocked[t]
  BY DEF Init
<1>2. WaitTypes
  BY <1>1 DEF Init, WaitTypes, TakerPc, WriterPc, Thread, Taker
<1>3. ConsumerInv
  BY <1>1, IoQueueAssumption DEF Init, ConsumerInv, Thread, Taker
<1>4. ProducerInv
  BY <1>1, IoQueueAssumption DEF Init, ProducerInv, Thread, Taker
<1> QED
  BY <1>2, <1>3, <1>4 DEF WaitInv

\* Places at which neither a lock nor a registration is pending
Plain == {"unborn", "user", "get", "get_lock", "get_read", "get_advance", "get_wakeup",
          "get_unblock", "put", "put_lock", "put_write", "put_advance", "put_wakeup",
          "put_unblock"}

LEMMA PlainMove ==
    ASSUME WaitInv, NEW t \in Thread, NEW there, pc' = [pc EXCEPT ![t] = there],
           pc[t] \in Plain, there \in Plain,
           t \in Taker => there \in TakerPc, t \in PipeWriter => there \in WriterPc,
           UNCHANGED <<waits, blocked, panic>>
    PROVE  WaitInv'
<1>1. /\ pc'[t] = there /\ \A u \in Thread : u # t => pc'[u] = pc[u]
      /\ Taker \subseteq Thread /\ PipeWriter \subseteq Thread
  BY DEF WaitInv, WaitTypes, Thread
<1>2. WaitTypes'
  BY <1>1 DEF WaitInv, WaitTypes, Thread
<1>3. ConsumerInv'
  BY <1>1 DEF WaitInv, WaitTypes, ConsumerInv, Plain
<1>4. ProducerInv'
  BY <1>1 DEF WaitInv, WaitTypes, ProducerInv, Plain
<1> QED
  BY <1>2, <1>3, <1>4 DEF WaitInv

LEMMA CallsWait ==
    ASSUME WaitInv,
           \/ \E t \in Forked : sys_fork(t)
           \/ \E t \in Getter : sys_getchar(t)
           \/ \E t \in PipeReader, count \in 1..bufsize : pipe_read(t, count)
           \/ \E t \in PipeWriter, count \in 1..bufsize : pipe_write(t, count)
    PROVE  WaitInv'
<1> USE DEF Plain, TakerPc, WriterPc
<1>1. ASSUME NEW t \in Forked, sys_fork(t) PROVE WaitInv'
  BY <1>1, PlainMove, IoQueueAssumption DEF sys_fork, Thread, Taker
<1>2. ASSUME NEW t \in Getter, sys_getchar(t) PROVE WaitInv'
  BY <1>2, PlainMove, IoQueueAssumption DEF sys_getchar, Thread, Taker
<1>3. ASSUME NEW t \in PipeReader, NEW count, pipe_read(t, count) PROVE WaitInv'
  BY <1>3, PlainMove, IoQueueAssumption DEF pipe_read, Thread, Taker
<1>4. ASSUME NEW t \in PipeWriter, NEW count, pipe_write(t, count) PROVE WaitInv'
  BY <1>4, PlainMove, IoQueueAssumption DEF pipe_write, Thread, Taker
<1> QED
  BY <1>1, <1>2, <1>3, <1>4

LEMMA GetWait ==
    ASSUME WaitInv, NEW t \in Taker,
           \/ get_test(t) \/ get_lock(t) \/ get_wait(t) \/ get_block(t)
           \/ get_unlock(t) \/ get_read(t) \/ get_advance(t)
           \/ get_wakeup(t) \/ get_unblock(t) \/ get_clear(t)
    PROVE  WaitInv'
<1>0. /\ t \in Thread /\ t \notin PipeWriter /\ t # NULL /\ NULL \notin Taker
      /\ Taker \subseteq Thread /\ PipeWriter \subseteq Thread
      /\ \A u \in PipeWriter : u # t /\ u \notin Taker
  BY IoQueueAssumption DEF Thread
<1>1. CASE get_test(t) \/ get_read(t) \/ get_advance(t) \/ get_wakeup(t)
  BY <1>0, <1>1, PlainMove DEF get_test, get_read, get_advance, get_wakeup, Plain, TakerPc
<1>2. CASE get_lock(t)
  <2>1. /\ pc[t] = "get_lock" /\ lock_consumer = NULL /\ lock_consumer' = t
        /\ pc' = [pc EXCEPT ![t] = "get_wait"]
        /\ UNCHANGED <<producer, consumer, lock_producer, blocked, panic>>
    BY <1>2 DEF get_lock
  <2>2. WaitTypes'
    BY <1>0, <2>1 DEF WaitInv, WaitTypes, TakerPc
  <2>3. ConsumerInv'
    BY <1>0, <2>1 DEF WaitInv, WaitTypes, ConsumerInv
  <2>4. ProducerInv'
    BY <1>0, <2>1 DEF WaitInv, WaitTypes, ProducerInv
  <2> QED
    BY <2>2, <2>3, <2>4 DEF WaitInv
<1>3. CASE get_wait(t)
  <2>1. CASE consumer = NULL
    <3>1. /\ pc[t] = "get_wait" /\ consumer' = t /\ pc' = [pc EXCEPT ![t] = "get_block"]
          /\ UNCHANGED <<producer, lock_consumer, lock_producer, blocked, panic>>
      BY <1>3, <2>1 DEF get_wait
    <3>2. WaitTypes'
      BY <1>0, <3>1 DEF WaitInv, WaitTypes, TakerPc
    <3>3. ConsumerInv'
      BY <1>0, <2>1, <3>1 DEF WaitInv, WaitTypes, ConsumerInv
    <3>4. ProducerInv'
      BY <1>0, <3>1 DEF WaitInv, WaitTypes, ProducerInv
    <3> QED
      BY <3>2, <3>3, <3>4 DEF WaitInv
  <2>2. CASE consumer # NULL
    <3>1. panic' # NULL /\ UNCHANGED <<pc, waits, blocked>>
      BY <1>3, <2>2, IoQueueAssumption DEF get_wait
    <3> QED
      BY <3>1 DEF WaitInv, WaitTypes, ConsumerInv, ProducerInv
  <2> QED
    BY <2>1, <2>2
<1>4. CASE get_block(t)
  <2>1. /\ pc[t] = "get_block" /\ panic = NULL /\ pc' = [pc EXCEPT ![t] = "get_unlock"]
        /\ blocked' = [blocked EXCEPT ![t] = TRUE]
        /\ UNCHANGED <<waits, panic>>
    BY <1>4 DEF get_block
  <2>2. WaitTypes'
    BY <1>0, <2>1 DEF WaitInv, WaitTypes, TakerPc
  <2>3. ConsumerInv'
    BY <1>0, <2>1 DEF WaitInv, WaitTypes, ConsumerInv
  <2>4. ProducerInv'
    BY <1>0, <2>1 DEF WaitInv, WaitTypes, ProducerInv
  <2> QED
    BY <2>2, <2>3, <2>4 DEF WaitInv
<1>5. CASE get_unlock(t)
  <2>1. /\ pc[t] = "get_unlock" /\ ~blocked[t] /\ pc' = [pc EXCEPT ![t] = "get"]
        /\ lock_consumer' = NULL
        /\ UNCHANGED <<producer, consumer, lock_producer, blocked, panic>>
    BY <1>5 DEF get_unlock
  <2>2. WaitTypes'
    BY <1>0, <2>1 DEF WaitInv, WaitTypes, TakerPc
  <2>3. ConsumerInv'
    BY <1>0, <2>1 DEF WaitInv, WaitTypes, ConsumerInv
  <2>4. ProducerInv'
    BY <1>0, <2>1 DEF WaitInv, WaitTypes, ProducerInv
  <2> QED
    BY <2>2, <2>3, <2>4 DEF WaitInv
<1>6. CASE get_unblock(t)
  <2>1. pc[t] = "get_unblock" /\ pc' = [pc EXCEPT ![t] = "get_clear"] /\ UNCHANGED waits
        /\ panic = NULL
    BY <1>6 DEF get_unblock
  <2>2. CASE panic' # NULL /\ blocked' = blocked
    <3>1. WaitTypes'
      BY <1>0, <2>1, <2>2 DEF WaitInv, WaitTypes, TakerPc
    <3>2. ConsumerInv'
      BY <1>0, <2>1, <2>2 DEF WaitInv, WaitTypes, ConsumerInv
    <3>3. ProducerInv'
      BY <1>0, <2>1, <2>2 DEF WaitInv, WaitTypes, ProducerInv
    <3> QED
      BY <3>1, <3>2, <3>3 DEF WaitInv
  <2>3. CASE /\ producer # NULL /\ blocked[producer] /\ panic' = panic
             /\ blocked' = [blocked EXCEPT ![producer] = FALSE]
    <3>1. producer \in PipeWriter /\ pc[producer] = "put_unlock"
      BY <2>3 DEF WaitInv, WaitTypes, ProducerInv
    <3>2. WaitTypes'
      BY <1>0, <2>1, <2>3, <3>1 DEF WaitInv, WaitTypes, TakerPc
    <3>3. ConsumerInv'
      BY <1>0, <2>1, <2>3, <3>1 DEF WaitInv, WaitTypes, ConsumerInv
    <3>4. ProducerInv'
      BY <1>0, <2>1, <2>3, <3>1 DEF WaitInv, WaitTypes, ProducerInv
    <3> QED
      BY <3>2, <3>3, <3>4 DEF WaitInv
  <2> QED
    BY <1>6, <2>2, <2>3, IoQueueAssumption DEF get_unblock, wakeup_unblock, thread_unblock
<1>7. CASE get_clear(t)
  <2>1. /\ pc[t] = "get_clear" /\ pc' = [pc EXCEPT ![t] = "get"] /\ panic = NULL
        /\ producer' = NULL
        /\ UNCHANGED <<consumer, lock_producer, lock_consumer, blocked, panic>>
    BY <1>7 DEF get_clear
  <2>2. WaitTypes'
    BY <1>0, <2>1 DEF WaitInv, WaitTypes, TakerPc
  <2>3. ConsumerInv'
    BY <1>0, <2>1 DEF WaitInv, WaitTypes, ConsumerInv
  <2>4. ProducerInv'
    BY <1>0, <2>1 DEF WaitInv, WaitTypes, ProducerInv
  <2> QED
    BY <2>2, <2>3, <2>4 DEF WaitInv
<1> QED
  BY <1>1, <1>2, <1>3, <1>4, <1>5, <1>6, <1>7

LEMMA PutWait ==
    ASSUME WaitInv, NEW t \in PipeWriter,
           \/ put_test(t) \/ put_lock(t) \/ put_wait(t) \/ put_block(t)
           \/ put_unlock(t) \/ put_write(t) \/ put_advance(t)
           \/ put_wakeup(t) \/ put_unblock(t) \/ put_clear(t)
    PROVE  WaitInv'
<1>0. /\ t \in Thread /\ t \notin Taker /\ t # NULL /\ NULL \notin PipeWriter
      /\ PipeWriter \subseteq Thread /\ Taker \subseteq Thread
      /\ \A u \in Taker : u # t /\ u \notin PipeWriter
  BY IoQueueAssumption DEF Thread
<1>1. CASE put_test(t) \/ put_write(t) \/ put_advance(t) \/ put_wakeup(t)
  BY <1>0, <1>1, PlainMove DEF put_test, put_write, put_advance, put_wakeup, Plain, WriterPc
<1>2. CASE put_lock(t)
  <2>1. /\ pc[t] = "put_lock" /\ lock_producer = NULL /\ lock_producer' = t
        /\ pc' = [pc EXCEPT ![t] = "put_wait"]
        /\ UNCHANGED <<consumer, producer, lock_consumer, blocked, panic>>
    BY <1>2 DEF put_lock
  <2>2. WaitTypes'
    BY <1>0, <2>1 DEF WaitInv, WaitTypes, WriterPc
  <2>3. ProducerInv'
    BY <1>0, <2>1 DEF WaitInv, WaitTypes, ProducerInv
  <2>4. ConsumerInv'
    BY <1>0, <2>1 DEF WaitInv, WaitTypes, ConsumerInv
  <2> QED
    BY <2>2, <2>3, <2>4 DEF WaitInv
<1>3. CASE put_wait(t)
  <2>1. CASE producer = NULL
    <3>1. /\ pc[t] = "put_wait" /\ producer' = t /\ pc' = [pc EXCEPT ![t] = "put_block"]
          /\ UNCHANGED <<consumer, lock_producer, lock_consumer, blocked, panic>>
      BY <1>3, <2>1 DEF put_wait
    <3>2. WaitTypes'
      BY <1>0, <3>1 DEF WaitInv, WaitTypes, WriterPc
    <3>3. ProducerInv'
      BY <1>0, <2>1, <3>1 DEF WaitInv, WaitTypes, ProducerInv
    <3>4. ConsumerInv'
      BY <1>0, <3>1 DEF WaitInv, WaitTypes, ConsumerInv
    <3> QED
      BY <3>2, <3>3, <3>4 DEF WaitInv
  <2>2. CASE producer # NULL
    <3>1. panic' # NULL /\ UNCHANGED <<pc, waits, blocked>>
      BY <1>3, <2>2, IoQueueAssumption DEF put_wait
    <3> QED
      BY <3>1 DEF WaitInv, WaitTypes, ProducerInv, ConsumerInv
  <2> QED
    BY <2>1, <2>2
<1>4. CASE put_block(t)
  <2>1. /\ pc[t] = "put_block" /\ panic = NULL /\ pc' = [pc EXCEPT ![t] = "put_unlock"]
        /\ blocked' = [blocked EXCEPT ![t] = TRUE]
        /\ UNCHANGED <<waits, panic>>
    BY <1>4 DEF put_block
  <2>2. WaitTypes'
    BY <1>0, <2>1 DEF WaitInv, WaitTypes, WriterPc
  <2>3. ProducerInv'
    BY <1>0, <2>1 DEF WaitInv, WaitTypes, ProducerInv
  <2>4. ConsumerInv'
    BY <1>0, <2>1 DEF WaitInv, WaitTypes, ConsumerInv
  <2> QED
    BY <2>2, <2>3, <2>4 DEF WaitInv
<1>5. CASE put_unlock(t)
  <2>1. /\ pc[t] = "put_unlock" /\ ~blocked[t] /\ pc' = [pc EXCEPT ![t] = "put"]
        /\ lock_producer' = NULL
        /\ UNCHANGED <<consumer, producer, lock_consumer, blocked, panic>>
    BY <1>5 DEF put_unlock
  <2>2. WaitTypes'
    BY <1>0, <2>1 DEF WaitInv, WaitTypes, WriterPc
  <2>3. ProducerInv'
    BY <1>0, <2>1 DEF WaitInv, WaitTypes, ProducerInv
  <2>4. ConsumerInv'
    BY <1>0, <2>1 DEF WaitInv, WaitTypes, ConsumerInv
  <2> QED
    BY <2>2, <2>3, <2>4 DEF WaitInv
<1>6. CASE put_unblock(t)
  <2>1. pc[t] = "put_unblock" /\ pc' = [pc EXCEPT ![t] = "put_clear"] /\ UNCHANGED waits
        /\ panic = NULL
    BY <1>6 DEF put_unblock
  <2>2. CASE panic' # NULL /\ blocked' = blocked
    <3>1. WaitTypes'
      BY <1>0, <2>1, <2>2 DEF WaitInv, WaitTypes, WriterPc
    <3>2. ProducerInv'
      BY <1>0, <2>1, <2>2 DEF WaitInv, WaitTypes, ProducerInv
    <3>3. ConsumerInv'
      BY <1>0, <2>1, <2>2 DEF WaitInv, WaitTypes, ConsumerInv
    <3> QED
      BY <3>1, <3>2, <3>3 DEF WaitInv
  <2>3. CASE /\ consumer # NULL /\ blocked[consumer] /\ panic' = panic
             /\ blocked' = [blocked EXCEPT ![consumer] = FALSE]
    <3>1. consumer \in Taker /\ pc[consumer] = "get_unlock"
      BY <2>3 DEF WaitInv, WaitTypes, ConsumerInv
    <3>2. WaitTypes'
      BY <1>0, <2>1, <2>3, <3>1 DEF WaitInv, WaitTypes, WriterPc
    <3>3. ProducerInv'
      BY <1>0, <2>1, <2>3, <3>1 DEF WaitInv, WaitTypes, ProducerInv
    <3>4. ConsumerInv'
      BY <1>0, <2>1, <2>3, <3>1 DEF WaitInv, WaitTypes, ConsumerInv
    <3> QED
      BY <3>2, <3>3, <3>4 DEF WaitInv
  <2> QED
    BY <1>6, <2>2, <2>3, IoQueueAssumption DEF put_unblock, wakeup_unblock, thread_unblock
<1>7. CASE put_clear(t)
  <2>1. /\ pc[t] = "put_clear" /\ pc' = [pc EXCEPT ![t] = "put"] /\ panic = NULL
        /\ consumer' = NULL
        /\ UNCHANGED <<producer, lock_consumer, lock_producer, blocked, panic>>
    BY <1>7 DEF put_clear
  <2>2. WaitTypes'
    BY <1>0, <2>1 DEF WaitInv, WaitTypes, WriterPc
  <2>3. ProducerInv'
    BY <1>0, <2>1 DEF WaitInv, WaitTypes, ProducerInv
  <2>4. ConsumerInv'
    BY <1>0, <2>1 DEF WaitInv, WaitTypes, ConsumerInv
  <2> QED
    BY <2>2, <2>3, <2>4 DEF WaitInv
<1> QED
  BY <1>1, <1>2, <1>3, <1>4, <1>5, <1>6, <1>7

LEMMA KeyboardWait == ASSUME WaitInv, intr_keyboard_handler PROVE WaitInv'
<1>0. NULL \notin Taker /\ Taker \subseteq Thread /\ PipeWriter \subseteq Thread
      /\ \A u \in PipeWriter : u \notin Taker
  BY IoQueueAssumption DEF Thread
<1>1. panic = NULL /\ UNCHANGED <<producer, lock_producer, lock_consumer, pc>>
  BY DEF intr_keyboard_handler
<1>2. CASE consumer = NULL /\ UNCHANGED <<blocked, panic, consumer>>
  BY <1>1, <1>2 DEF WaitInv, WaitTypes, ConsumerInv, ProducerInv
<1>3. CASE consumer # NULL /\ ~blocked[consumer] /\ panic' # NULL /\ consumer' = NULL
           /\ blocked' = blocked
  <2>1. \A t \in Taker : ~blocked[t]
    BY <1>3 DEF WaitInv, WaitTypes, ConsumerInv
  <2> QED
    BY <1>0, <1>1, <1>3, <2>1 DEF WaitInv, WaitTypes, ConsumerInv, ProducerInv
<1>4. CASE consumer # NULL /\ blocked[consumer] /\ panic' = panic /\ consumer' = NULL
           /\ blocked' = [blocked EXCEPT ![consumer] = FALSE]
  <2>1. consumer \in Taker /\ pc[consumer] = "get_unlock"
    BY <1>4 DEF WaitInv, WaitTypes, ConsumerInv
  <2>2. WaitTypes'
    BY <1>0, <1>1, <1>4, <2>1 DEF WaitInv, WaitTypes
  <2>3. ConsumerInv'
    BY <1>0, <1>1, <1>4, <2>1 DEF WaitInv, WaitTypes, ConsumerInv
  <2>4. ProducerInv'
    BY <1>0, <1>1, <1>4, <2>1 DEF WaitInv, WaitTypes, ProducerInv
  <2> QED
    BY <2>2, <2>3, <2>4 DEF WaitInv
<1> QED
  BY <1>2, <1>3, <1>4, IoQueueAssumption DEF intr_keyboard_handler, thread_unblock

LEMMA NextWaitInv == WaitInv /\ [Next]_vars => WaitInv'
<1> SUFFICES ASSUME WaitInv, [Next]_vars PROVE WaitInv'
  OBVIOUS
<1>1. CASE UNCHANGED vars
  BY <1>1 DEF vars, WaitInv, WaitTypes, ConsumerInv, ProducerInv
<1>2. CASE Next
  BY <1>2, CallsWait, GetWait, PutWait, KeyboardWait DEF Next
<1> QED
  BY <1>1, <1>2

\* Whoever sleeps on the queue is the registered waiter of its side and holds
\* that side's lock, for any number of readers and writers, forked or not, and
\* whatever the keyboard does in between.
THEOREM SleepersReachable == Spec => []SleeperReachable
<1>1. WaitInv => SleeperReachable
  BY DEF WaitInv, WaitTypes, ConsumerInv, ProducerInv, SleeperReachable, Thread
<1> QED
  BY <1>1, InitWaitInv, NextWaitInv, PTL DEF Spec

----------------------------------------------------------------------------
(* Places of the ring                                                      *)

LEMMA NextPos ==
    ASSUME NEW p \in Pos
    PROVE  next_pos(p) = (IF p + 1 < bufsize THEN p + 1 ELSE 0) /\ next_pos(p) \in Pos
<1>1. bufsize \in Nat /\ bufsize > 1 /\ p \in Nat /\ p < bufsize
  BY IoQueueAssumption DEF Pos
<1>2. p + 1 < bufsize => (p + 1) % bufsize = p + 1
  BY <1>1
<1>3. bufsize % bufsize = 0
  BY <1>1
<1>4. ~(p + 1 < bufsize) => p + 1 = bufsize
  BY <1>1
<1> QED
  BY <1>1, <1>2, <1>3, <1>4 DEF next_pos, Pos

LEMMA AheadFacts ==
    ASSUME NEW p \in Pos, NEW d \in 0..(bufsize - 1)
    PROVE  /\ Ahead(p, d) \in Pos /\ Ahead(p, 0) = p
           /\ d < bufsize - 1 => /\ Ahead(p, d + 1) = next_pos(Ahead(p, d))
                                 /\ Ahead(next_pos(p), d) = Ahead(p, d + 1)
           /\ d > 0 => Ahead(next_pos(p), d - 1) = Ahead(p, d)
           /\ \A e \in 0..(bufsize - 1) : Ahead(p, e) = Ahead(p, d) => e = d
<1> USE IoQueueAssumption
<1>1. Ahead(p, d) \in Pos /\ Ahead(p, 0) = p
  BY DEF Ahead, Pos
<1>2. d < bufsize - 1 => Ahead(p, d + 1) = next_pos(Ahead(p, d))
  BY <1>1, NextPos DEF Ahead, Pos
<1>3. d < bufsize - 1 => Ahead(next_pos(p), d) = Ahead(p, d + 1)
  BY NextPos DEF Ahead, Pos
<1>4. d > 0 => Ahead(next_pos(p), d - 1) = Ahead(p, d)
  BY NextPos DEF Ahead, Pos
<1>5. \A e \in 0..(bufsize - 1) : Ahead(p, e) = Ahead(p, d) => e = d
  BY DEF Ahead, Pos
<1> QED
  BY <1>1, <1>2, <1>3, <1>4, <1>5

\* What the tests of the ring see
LEMMA RingTests ==
    ASSUME RingTypes, InRing \in 0..(bufsize - 1), head = Ahead(tail, InRing)
    PROVE  /\ ioq_empty <=> InRing = 0
           /\ ioq_full <=> InRing = bufsize - 1
           /\ ioq_length = InRing
<1> DEFINE n == InRing
<1>1. tail \in Pos /\ n \in 0..(bufsize - 1) /\ head = Ahead(tail, n) /\ head \in Pos
  BY DEF RingTypes
<1>2. bufsize \in Nat /\ bufsize > 1
  BY IoQueueAssumption
<1> HIDE DEF n
<1>3. ioq_empty <=> n = 0
  BY <1>1, <1>2, AheadFacts DEF ioq_empty
<1>4. ioq_full <=> n = bufsize - 1
  BY <1>1, <1>2, NextPos DEF ioq_full, Ahead, Pos
<1>5. ioq_length = n
  BY <1>1, <1>2 DEF ioq_length, Ahead, Pos
<1> QED
  BY <1>3, <1>4, <1>5 DEF n

LEMMA LengthRange == ASSUME RingTypes PROVE ioq_length \in 0..(bufsize - 1)
BY IoQueueAssumption DEF RingTypes, ioq_length, Pos

----------------------------------------------------------------------------
(* First in, first out                                                     *)

LEMMA InitFifoInv == Init => FifoInv
<1> SUFFICES ASSUME Init PROVE FifoInv
  OBVIOUS
<1> USE IoQueueAssumption
<1>1. \A t \in Thread : pc[t] \in {"unborn", "user"}
  BY DEF Init
<1>2. Len(sent) = 0 /\ Len(rcvd) = 0 /\ sent \in Seq(0..MAX_CHARS) /\ rcvd \in Seq(0..MAX_CHARS)
  BY DEF Init
<1>3. /\ 0 \in Pos /\ 0 \in 0..MAX_CHARS /\ 0 \in 0..bufsize
      /\ Taker \subseteq Thread /\ PipeWriter \subseteq Thread
  BY DEF Pos, Thread
<1>4. RingTypes
  BY <1>1, <1>2, <1>3 DEF Init, RingTypes
<1>5. InRing = 0
  BY <1>2 DEF InRing
<1>6. head = Ahead(tail, InRing)
  BY <1>3, <1>5, AheadFacts DEF Init, Ahead, Pos
<1>7. RingInv
  BY <1>1, <1>2, <1>3, <1>5, <1>6 DEF RingInv
<1> QED
  BY <1>4, <1>7 DEF FifoInv

\* A step of a thread that is born neither ends nor begins the time before the
\* fork, and before the fork it is a step of the only user of its side.
LEMMA AloneStep ==
    ASSUME WaitInv, NEW t \in Thread, NEW there, pc[t] # "unborn", there # "unborn",
           pc' = [pc EXCEPT ![t] = there]
    PROVE  (Alone' <=> Alone) /\ (Alone => t \notin Forked)
<1>1. pc'[t] = there /\ \A u \in Thread : u # t => pc'[u] = pc[u]
  BY DEF WaitInv, WaitTypes
<1>2. Forked \subseteq Thread
  BY IoQueueAssumption DEF Thread, Taker
<1> QED
  BY <1>1, <1>2 DEF Alone

Past == {"get_read", "get_advance", "put_write", "put_advance"}

\* A step that leaves the ring alone, and leads to no place past a test
LEMMA QuietMove ==
    ASSUME IInv, NEW t \in Thread, NEW there, pc[t] # "unborn", there # "unborn",
           there \notin Past, pc' = [pc EXCEPT ![t] = there],
           left' \in [Thread -> 0..bufsize], \A u \in Thread : u # t => left'[u] = left[u],
           UNCHANGED <<ring, byte, sent, rcvd>>
    PROVE  FifoInv'
<1>1. Alone' <=> Alone
  BY AloneStep DEF IInv
<1>2. /\ pc'[t] = there /\ \A u \in Thread : u # t => pc'[u] = pc[u]
      /\ Taker \subseteq Thread /\ PipeWriter \subseteq Thread
  BY DEF IInv, WaitInv, WaitTypes, Thread
<1>3. RingTypes'
  BY <1>1, <1>2 DEF IInv, FifoInv, RingTypes, Past
<1>4. Alone => RingInv'
  BY <1>2 DEF IInv, FifoInv, RingInv, InRing, Past
<1> QED
  BY <1>1, <1>3, <1>4 DEF FifoInv

LEMMA CallsFifo ==
    ASSUME IInv,
           \/ \E t \in Forked : sys_fork(t)
           \/ \E t \in Getter : sys_getchar(t)
           \/ \E t \in PipeReader, count \in 1..bufsize : pipe_read(t, count)
           \/ \E t \in PipeWriter, count \in 1..bufsize : pipe_write(t, count)
    PROVE  FifoInv'
<1> USE IoQueueAssumption
<1>0. RingTypes /\ left \in [Thread -> 0..bufsize] /\ ioq_length \in 0..(bufsize - 1)
  BY LengthRange DEF IInv, FifoInv, RingTypes
<1>1. ASSUME NEW t \in Forked, sys_fork(t) PROVE FifoInv'
  <2>1. t \in Thread
    BY DEF Thread, Taker
  <2>2. pc' = [pc EXCEPT ![t] = "user"] /\ UNCHANGED <<ring, left, byte, sent, rcvd>>
    BY <1>1 DEF sys_fork
  <2>3. /\ pc'[t] = "user" /\ \A u \in Thread : u # t => pc'[u] = pc[u]
        /\ Taker \subseteq Thread /\ PipeWriter \subseteq Thread
    BY <2>1, <2>2 DEF IInv, WaitInv, WaitTypes, Thread
  <2>4. ~Alone'
    BY <2>3 DEF Alone
  <2> QED
    BY <1>0, <2>1, <2>2, <2>3, <2>4 DEF FifoInv, RingTypes
<1>2. ASSUME NEW t \in Getter, sys_getchar(t) PROVE FifoInv'
  <2>1. t \in Thread /\ left' \in [Thread -> 0..bufsize]
        /\ \A u \in Thread : u # t => left'[u] = left[u]
    BY <1>0, <1>2 DEF Thread, Taker, sys_getchar
  <2> QED
    BY <1>2, <2>1, QuietMove DEF sys_getchar, Past
<1>3. ASSUME NEW t \in PipeReader, NEW count \in 1..bufsize, pipe_read(t, count) PROVE FifoInv'
  <2>1. t \in Thread
    BY DEF Thread, Taker
  <2>2. (IF ioq_length > count THEN count ELSE ioq_length) \in 0..bufsize
    BY <1>0
  <2>3. left' \in [Thread -> 0..bufsize] /\ \A u \in Thread : u # t => left'[u] = left[u]
    BY <1>0, <1>3, <2>1, <2>2 DEF pipe_read
  <2> QED
    BY <1>3, <2>1, <2>3, QuietMove DEF pipe_read, Past
<1>4. ASSUME NEW t \in PipeWriter, NEW count \in 1..bufsize, pipe_write(t, count) PROVE FifoInv'
  <2>1. t \in Thread
    BY DEF Thread
  <2>2. (IF bufsize - ioq_length > count THEN count ELSE bufsize - ioq_length) \in 0..bufsize
    BY <1>0
  <2>3. left' \in [Thread -> 0..bufsize] /\ \A u \in Thread : u # t => left'[u] = left[u]
    BY <1>0, <1>4, <2>1, <2>2 DEF pipe_write
  <2> QED
    BY <1>4, <2>1, <2>3, QuietMove DEF pipe_write, Past
<1> QED
  BY <1>1, <1>2, <1>3, <1>4

\* The steps of both sides that only wait, wake up or give up
LEMMA WaitingFifo ==
    ASSUME IInv, NEW t \in Thread,
           \/ get_lock(t) \/ get_wait(t) \/ get_block(t) \/ get_unlock(t)
           \/ get_wakeup(t) \/ get_unblock(t) \/ get_clear(t)
           \/ put_lock(t) \/ put_wait(t) \/ put_block(t) \/ put_unlock(t)
           \/ put_wakeup(t) \/ put_unblock(t) \/ put_clear(t)
    PROVE  FifoInv'
<1>1. UNCHANGED <<ring, left, byte, sent, rcvd>>
  BY DEF get_lock, get_wait, get_block, get_unlock, get_wakeup, get_unblock, get_clear,
         put_lock, put_wait, put_block, put_unlock, put_wakeup, put_unblock, put_clear
<1>2. left' \in [Thread -> 0..bufsize] /\ \A u \in Thread : left'[u] = left[u]
  BY <1>1 DEF IInv, FifoInv, RingTypes
<1>3. pc[t] # "unborn"
  BY DEF get_lock, get_wait, get_block, get_unlock, get_wakeup, get_unblock, get_clear,
         put_lock, put_wait, put_block, put_unlock, put_wakeup, put_unblock, put_clear
<1>4. \/ UNCHANGED pc
      \/ \E there : there # "unborn" /\ there \notin Past /\ pc' = [pc EXCEPT ![t] = there]
  <2>1. CASE get_wait(t) \/ put_wait(t)
    BY <2>1 DEF get_wait, put_wait, Past
  <2>2. CASE get_wakeup(t) \/ put_wakeup(t)
    BY <2>2 DEF get_wakeup, put_wakeup, Past
  <2>3. CASE get_lock(t) \/ get_block(t) \/ get_unlock(t) \/ get_unblock(t) \/ get_clear(t)
    BY <2>3 DEF get_lock, get_block, get_unlock, get_unblock, get_clear, Past
  <2>4. CASE put_lock(t) \/ put_block(t) \/ put_unlock(t) \/ put_unblock(t) \/ put_clear(t)
    BY <2>4 DEF put_lock, put_block, put_unlock, put_unblock, put_clear, Past
  <2> QED
    BY <2>1, <2>2, <2>3, <2>4
<1>5. CASE UNCHANGED pc
  BY <1>1, <1>5 DEF IInv, FifoInv, RingTypes, RingInv, InRing, Alone
<1> QED
  BY <1>1, <1>2, <1>3, <1>4, <1>5, QuietMove

LEMMA GetTestFifo == ASSUME IInv, NEW t \in Taker, get_test(t) PROVE FifoInv'
<1> DEFINE there == CASE left[t] = 0 -> "user"
                      [] left[t] > 0 /\ ioq_empty -> "get_lock"
                      [] OTHER -> "get_read"
<1>0. t \in Thread /\ Taker \subseteq Thread /\ PipeWriter \subseteq Thread
  BY DEF Thread
<1>1. /\ pc[t] = "get" /\ pc' = [pc EXCEPT ![t] = there]
      /\ UNCHANGED <<ring, left, byte, sent, rcvd>>
  BY DEF get_test
<1>2. RingTypes /\ left[t] \in Nat
  BY <1>0, IoQueueAssumption DEF IInv, FifoInv, RingTypes
<1>3. CASE there \in {"user", "get_lock"}
  BY <1>0, <1>1, <1>2, <1>3, QuietMove DEF Past, RingTypes
<1>4. CASE there = "get_read"
  <2>1. left[t] > 0 /\ ~ioq_empty
    BY <1>2, <1>4
  <2>2. (Alone' <=> Alone) /\ (Alone => t \notin Forked)
    BY <1>0, <1>1, <1>4, AloneStep DEF IInv
  <2>3. pc'[t] = "get_read" /\ \A u \in Thread : u # t => pc'[u] = pc[u]
    BY <1>0, <1>1, <1>4 DEF IInv, WaitInv, WaitTypes
  <2>4. RingTypes'
    BY <1>0, <1>1, <1>2, <2>1, <2>2, <2>3 DEF RingTypes
  <2>5. ASSUME Alone PROVE RingInv'
    <3>1. RingInv /\ InRing # 0 /\ InRing \in 0..(bufsize - 1)
      BY <1>2, <2>1, <2>5, RingTests DEF IInv, FifoInv, RingInv
    <3>2. InRing > 0
      BY <3>1
    <3> QED
      BY <1>0, <1>1, <2>3, <3>1, <3>2 DEF RingInv, InRing
  <2> QED
    BY <2>2, <2>4, <2>5 DEF FifoInv
<1> QED
  BY <1>2, <1>3, <1>4

LEMMA GetReadFifo == ASSUME IInv, NEW t \in Taker, get_read(t) PROVE FifoInv'
<1>0. t \in Thread /\ Taker \subseteq Thread /\ PipeWriter \subseteq Thread
  BY DEF Thread
<1>1. /\ pc[t] = "get_read" /\ pc' = [pc EXCEPT ![t] = "get_advance"]
      /\ byte' = [byte EXCEPT ![t] = IF Alone THEN buf[tail] ELSE 0]
      /\ UNCHANGED <<ring, left, sent, rcvd>>
  BY DEF get_read
<1>2. RingTypes
  BY DEF IInv, FifoInv
<1>3. (Alone' <=> Alone) /\ (Alone => t \notin Forked)
  BY <1>0, <1>1, AloneStep DEF IInv
<1>4. pc'[t] = "get_advance" /\ \A u \in Thread : u # t => pc'[u] = pc[u]
  BY <1>0, <1>1 DEF IInv, WaitInv, WaitTypes
<1>5. /\ byte' \in [Taker -> 0..MAX_CHARS] /\ byte'[t] = (IF Alone THEN buf[tail] ELSE 0)
      /\ \A u \in Taker : u # t => byte'[u] = byte[u]
  BY <1>1, <1>2, IoQueueAssumption DEF RingTypes
<1>6. RingTypes'
  BY <1>0, <1>1, <1>2, <1>3, <1>4, <1>5 DEF RingTypes
<1>7. ASSUME Alone PROVE RingInv'
  <2>1. RingInv /\ InRing > 0 /\ InRing \in 0..(bufsize - 1) /\ tail \in Pos
    BY <1>1, <1>2, <1>7 DEF IInv, FifoInv, RingInv, RingTypes
  <2>2. Len(rcvd) \in Nat
    BY <1>2 DEF RingTypes
  <2>3. byte'[t] = Len(rcvd) + 1
    <3>1. 0 \in 0..(InRing - 1) /\ Ahead(tail, 0) = tail
      BY <2>1, AheadFacts, IoQueueAssumption
    <3>2. buf[tail] = Len(rcvd) + 0 + 1
      BY <2>1, <3>1 DEF RingInv
    <3> QED
      BY <1>5, <1>7, <2>2, <3>2
  <2> QED
    BY <1>0, <1>1, <1>4, <1>5, <2>1, <2>3 DEF RingInv, InRing
<1> QED
  BY <1>3, <1>6, <1>7 DEF FifoInv

LEMMA GetAdvanceFifo == ASSUME OneEach, IInv, NEW t \in Taker, get_advance(t) PROVE FifoInv'
<1> DEFINE c == IF Alone THEN byte[t] ELSE 0
<1>0. t \in Thread /\ Taker \subseteq Thread /\ PipeWriter \subseteq Thread
      /\ \A u \in PipeWriter : u # t
  BY IoQueueAssumption DEF Thread
<1>1. /\ pc[t] = "get_advance" /\ pc' = [pc EXCEPT ![t] = "get_wakeup"]
      /\ tail' = next_pos(tail) /\ rcvd' = Append(rcvd, c)
      /\ left' = [left EXCEPT ![t] = left[t] - 1]
      /\ UNCHANGED <<buf, head, byte, sent>>
  BY DEF get_advance
<1>2. RingTypes /\ tail \in Pos /\ c \in 0..MAX_CHARS /\ rcvd \in Seq(0..MAX_CHARS)
      /\ sent \in Seq(0..MAX_CHARS)
  BY IoQueueAssumption DEF IInv, FifoInv, RingTypes
<1> HIDE DEF c
<1>3. (Alone' <=> Alone) /\ (Alone => t \notin Forked)
  BY <1>0, <1>1, AloneStep DEF IInv
<1>4. pc'[t] = "get_wakeup" /\ \A u \in Thread : u # t => pc'[u] = pc[u]
  BY <1>0, <1>1 DEF IInv, WaitInv, WaitTypes
<1>5. /\ left' \in [Thread -> 0..bufsize]
      /\ \A u \in Thread : u # t => left'[u] = left[u]
  <2>1. left[t] > 0 /\ left[t] \in 0..bufsize /\ left \in [Thread -> 0..bufsize]
    BY <1>0, <1>1, <1>2 DEF RingTypes
  <2>2. left[t] - 1 \in 0..bufsize
    BY <2>1, IoQueueAssumption
  <2> QED
    BY <1>1, <2>1, <2>2
<1>6. /\ rcvd' \in Seq(0..MAX_CHARS) /\ Len(rcvd') = Len(rcvd) + 1
      /\ \A i \in 1..Len(rcvd) : rcvd'[i] = rcvd[i]
      /\ rcvd'[Len(rcvd) + 1] = c
      /\ Len(rcvd) \in Nat /\ Len(sent) \in Nat
  BY <1>1, <1>2
<1>7. RingTypes'
  BY <1>0, <1>1, <1>2, <1>3, <1>4, <1>5, <1>6, NextPos DEF RingTypes
<1>8. ASSUME Alone PROVE RingInv'
  <2>1. RingInv /\ InRing > 0 /\ InRing \in 0..(bufsize - 1) /\ c = Len(rcvd) + 1
    BY <1>1, <1>8 DEF IInv, FifoInv, RingInv, c
  <2>2. \A u \in Taker : u # t => pc[u] = "unborn"
    BY <1>3, <1>8 DEF OneEach, Alone
  <2>3. InRing' = InRing - 1
    BY <1>1, <1>6 DEF InRing
  <2>4. \A i \in 1..Len(rcvd') : rcvd'[i] = i
    <3>1. \A i \in 1..Len(rcvd') : i \in 1..Len(rcvd) \/ i = Len(rcvd) + 1
      BY <1>6
    <3> QED
      BY <1>6, <2>1, <3>1 DEF RingInv
  <2>5. head' = Ahead(tail', InRing')
    <3>1. head = Ahead(tail, InRing)
      BY <2>1 DEF RingInv
    <3>2. Ahead(next_pos(tail), InRing - 1) = Ahead(tail, InRing)
      BY <1>2, <2>1, AheadFacts
    <3> QED
      BY <1>1, <2>3, <3>1, <3>2
  <2>6. ASSUME NEW d \in 0..(InRing' - 1) PROVE buf'[Ahead(tail', d)] = Len(rcvd') + d + 1
    <3>1. d + 1 \in 0..(InRing - 1) /\ d \in 0..(bufsize - 1) /\ d < bufsize - 1
      BY <2>1, <2>3, IoQueueAssumption
    <3>2. Ahead(next_pos(tail), d) = Ahead(tail, d + 1)
      BY <1>2, <3>1, AheadFacts
    <3>3. buf[Ahead(tail, d + 1)] = Len(rcvd) + (d + 1) + 1
      BY <2>1, <3>1 DEF RingInv
    <3> QED
      BY <1>1, <1>6, <3>1, <3>2, <3>3
  <2>7. InRing' \in 0..(bufsize - 1) /\ (InRing < bufsize - 1 => InRing' < bufsize - 1)
    BY <2>1, <2>3, IoQueueAssumption
  <2>8. \A u \in Taker : pc'[u] \in {"get_wakeup", "unborn"}
    BY <1>0, <1>4, <2>2
  <2>9. \A i \in 1..Len(sent') : sent'[i] = i
    BY <1>1, <2>1 DEF RingInv
  <2>10. \A w \in PipeWriter :
            /\ pc'[w] \in {"put_write", "put_advance"} => InRing' < bufsize - 1
            /\ pc'[w] = "put_advance" => buf'[head'] = Len(sent') + 1
    BY <1>0, <1>1, <1>4, <2>1, <2>7 DEF RingInv
  <2> QED
    BY <2>4, <2>5, <2>6, <2>7, <2>8, <2>9, <2>10 DEF RingInv
<1> QED
  BY <1>3, <1>7, <1>8 DEF FifoInv

LEMMA PutTestFifo == ASSUME IInv, NEW t \in PipeWriter, put_test(t) PROVE FifoInv'
<1> DEFINE there == CASE left[t] = 0 -> "user"
                      [] left[t] > 0 /\ ioq_full -> "put_lock"
                      [] OTHER -> "put_write"
<1>0. t \in Thread /\ Taker \subseteq Thread /\ PipeWriter \subseteq Thread
  BY DEF Thread
<1>1. /\ pc[t] = "put" /\ pc' = [pc EXCEPT ![t] = there]
      /\ UNCHANGED <<ring, left, byte, sent, rcvd>>
  BY DEF put_test
<1>2. RingTypes /\ left[t] \in Nat
  BY <1>0, IoQueueAssumption DEF IInv, FifoInv, RingTypes
<1>3. CASE there \in {"user", "put_lock"}
  BY <1>0, <1>1, <1>2, <1>3, QuietMove DEF Past, RingTypes
<1>4. CASE there = "put_write"
  <2>1. left[t] > 0 /\ ~ioq_full
    BY <1>2, <1>4
  <2>2. (Alone' <=> Alone) /\ (Alone => t \notin Forked)
    BY <1>0, <1>1, <1>4, AloneStep DEF IInv
  <2>3. pc'[t] = "put_write" /\ \A u \in Thread : u # t => pc'[u] = pc[u]
    BY <1>0, <1>1, <1>4 DEF IInv, WaitInv, WaitTypes
  <2>4. RingTypes'
    BY <1>0, <1>1, <1>2, <2>1, <2>2, <2>3 DEF RingTypes
  <2>5. ASSUME Alone PROVE RingInv'
    <3>1. RingInv /\ InRing # bufsize - 1 /\ InRing \in 0..(bufsize - 1)
      BY <1>2, <2>1, <2>5, RingTests DEF IInv, FifoInv, RingInv
    <3>2. InRing < bufsize - 1
      BY <3>1, IoQueueAssumption
    <3> QED
      BY <1>0, <1>1, <2>3, <3>1, <3>2 DEF RingInv, InRing
  <2> QED
    BY <2>2, <2>4, <2>5 DEF FifoInv
<1> QED
  BY <1>2, <1>3, <1>4

\* A number is written to the place of head, which is none of those in use.
LEMMA HeadIsFree ==
    ASSUME RingTypes, RingInv, InRing < bufsize - 1, NEW v
    PROVE  /\ [buf EXCEPT ![head] = v][head] = v
           /\ \A d \in 0..(InRing - 1) : [buf EXCEPT ![head] = v][Ahead(tail, d)] = Len(rcvd) + d + 1
<1>1. /\ head \in Pos /\ tail \in Pos /\ InRing \in 0..(bufsize - 1)
      /\ head = Ahead(tail, InRing) /\ buf \in [Pos -> 0..MAX_CHARS]
  BY DEF RingTypes, RingInv
<1>2. ASSUME NEW d \in 0..(InRing - 1)
      PROVE  Ahead(tail, d) # head /\ Ahead(tail, d) \in Pos
  <2>1. d \in 0..(bufsize - 1) /\ d # InRing
    BY <1>1, IoQueueAssumption
  <2> QED
    BY <1>1, <2>1, AheadFacts
<1> QED
  BY <1>1, <1>2 DEF RingInv

LEMMA PutWriteFifo == ASSUME OneEach, IInv, NEW t \in PipeWriter, put_write(t) PROVE FifoInv'
<1>0. /\ t \in Thread /\ Taker \subseteq Thread /\ PipeWriter \subseteq Thread
      /\ \A u \in Taker : u # t
  BY IoQueueAssumption DEF Thread
<1>1. /\ pc[t] = "put_write" /\ pc' = [pc EXCEPT ![t] = "put_advance"]
      /\ Len(sent) < MAX_CHARS /\ buf' = [buf EXCEPT ![head] = NextChar]
      /\ UNCHANGED <<head, tail, left, byte, sent, rcvd>>
  BY DEF put_write
<1>2. RingTypes /\ Len(sent) \in Nat /\ NextChar \in 0..MAX_CHARS
  <2>1. RingTypes /\ Len(sent) \in Nat
    BY DEF IInv, FifoInv, RingTypes
  <2> QED
    BY <1>1, <2>1, IoQueueAssumption DEF NextChar
<1>3. (Alone' <=> Alone) /\ (Alone => t \notin Forked)
  BY <1>0, <1>1, AloneStep DEF IInv
<1>4. pc'[t] = "put_advance" /\ \A u \in Thread : u # t => pc'[u] = pc[u]
  BY <1>0, <1>1 DEF IInv, WaitInv, WaitTypes
<1>5. RingTypes'
  <2>1. buf' \in [Pos -> 0..MAX_CHARS]
    BY <1>1, <1>2 DEF RingTypes
  <2> QED
    BY <1>0, <1>1, <1>2, <1>3, <1>4, <2>1 DEF RingTypes
<1>6. ASSUME Alone PROVE RingInv'
  <2>1. RingInv /\ InRing < bufsize - 1 /\ NextChar = Len(sent) + 1
    BY <1>1, <1>6 DEF IInv, FifoInv, RingInv, NextChar
  <2>2. \A u \in PipeWriter : u # t => pc[u] = "unborn"
    BY <1>3, <1>6 DEF OneEach, Alone
  <2>3. /\ buf'[head] = Len(sent) + 1
        /\ \A d \in 0..(InRing - 1) : buf'[Ahead(tail, d)] = Len(rcvd) + d + 1
    BY <1>1, <1>2, <2>1, HeadIsFree
  <2>4. InRing' = InRing
    BY <1>1 DEF InRing
  <2> QED
    BY <1>0, <1>1, <1>4, <2>1, <2>2, <2>3, <2>4 DEF RingInv
<1> QED
  BY <1>3, <1>5, <1>6 DEF FifoInv

\* head moves on and the character counts as sent: what the ring holds then
LEMMA RingPut ==
    ASSUME RingTypes, RingInv, InRing < bufsize - 1,
           tail' = tail, rcvd' = rcvd,
           sent' = Append(sent, Len(sent) + 1), Len(sent) < MAX_CHARS,
           head' = next_pos(head),
           buf'[head] = Len(sent) + 1,
           \A d \in 0..(InRing - 1) : buf'[Ahead(tail, d)] = Len(rcvd) + d + 1
    PROVE  /\ sent' \in Seq(0..MAX_CHARS)
           /\ \A i \in 1..Len(sent') : sent'[i] = i
           /\ InRing' = InRing + 1 /\ InRing' \in 0..(bufsize - 1) /\ InRing' > 0
           /\ head' = Ahead(tail', InRing')
           /\ \A d \in 0..(InRing' - 1) : buf'[Ahead(tail', d)] = Len(rcvd') + d + 1
<1>1. /\ tail \in Pos /\ InRing \in 0..(bufsize - 1) /\ head = Ahead(tail, InRing)
      /\ sent \in Seq(0..MAX_CHARS) /\ Len(sent) \in Nat /\ Len(rcvd) \in Nat
      /\ MAX_CHARS \in Nat /\ bufsize \in Nat
  BY IoQueueAssumption DEF RingTypes, RingInv
<1>2. Len(sent) + 1 \in 0..MAX_CHARS
  BY <1>1
<1>3. /\ sent' \in Seq(0..MAX_CHARS) /\ Len(sent') = Len(sent) + 1
      /\ \A i \in 1..Len(sent) : sent'[i] = sent[i]
      /\ sent'[Len(sent) + 1] = Len(sent) + 1
  BY <1>1, <1>2
<1>4. \A i \in 1..Len(sent') : sent'[i] = i
  <2>1. \A i \in 1..Len(sent') : i \in 1..Len(sent) \/ i = Len(sent) + 1
    BY <1>1, <1>3
  <2> QED
    BY <1>3, <2>1 DEF RingInv
<1>5. InRing' = InRing + 1
  BY <1>1, <1>3 DEF InRing
<1>6. InRing' \in 0..(bufsize - 1) /\ InRing' > 0
  BY <1>1, <1>5
<1>7. head' = Ahead(tail', InRing')
  BY <1>1, <1>5, AheadFacts
<1>8. ASSUME NEW d \in 0..(InRing' - 1) PROVE buf'[Ahead(tail', d)] = Len(rcvd') + d + 1
  <2>1. CASE d \in 0..(InRing - 1)
    BY <2>1
  <2>2. CASE d = InRing
    <3>1. Len(sent) + 1 = Len(rcvd) + d + 1
      BY <1>1, <2>2 DEF InRing
    <3> QED
      BY <1>1, <2>2, <3>1
  <2> QED
    BY <1>1, <1>5, <2>1, <2>2
<1> QED
  BY <1>3, <1>4, <1>5, <1>6, <1>7, <1>8

LEMMA PutAdvanceFifo == ASSUME OneEach, IInv, NEW t \in PipeWriter, put_advance(t) PROVE FifoInv'
<1>0. /\ t \in Thread /\ Taker \subseteq Thread /\ PipeWriter \subseteq Thread
      /\ \A u \in Taker : u # t
  BY IoQueueAssumption DEF Thread
<1>1. /\ pc[t] = "put_advance" /\ pc' = [pc EXCEPT ![t] = "put_wakeup"]
      /\ head' = next_pos(head) /\ sent' = Append(sent, NextChar)
      /\ left' = [left EXCEPT ![t] = left[t] - 1]
      /\ UNCHANGED <<buf, tail, byte, rcvd>>
  BY DEF put_advance
<1>2. RingTypes /\ Len(sent) \in Nat
  BY DEF IInv, FifoInv, RingTypes
<1>3. (Alone' <=> Alone) /\ (Alone => t \notin Forked)
  BY <1>0, <1>1, AloneStep DEF IInv
<1>4. pc'[t] = "put_wakeup" /\ \A u \in Thread : u # t => pc'[u] = pc[u]
  BY <1>0, <1>1 DEF IInv, WaitInv, WaitTypes
<1>5. left' \in [Thread -> 0..bufsize] /\ \A u \in Thread : u # t => left'[u] = left[u]
  <2>1. left[t] > 0 /\ left[t] \in 0..bufsize /\ left \in [Thread -> 0..bufsize]
    BY <1>0, <1>1, <1>2 DEF RingTypes
  <2>2. left[t] - 1 \in 0..bufsize
    BY <2>1, IoQueueAssumption
  <2> QED
    BY <1>1, <2>1, <2>2
<1>6. Alone => Len(sent) < MAX_CHARS
  BY <1>1, <1>2 DEF RingTypes
<1>7. sent' \in Seq(0..MAX_CHARS)
  <2>1. NextChar \in 0..MAX_CHARS
    BY <1>2, <1>6, IoQueueAssumption DEF NextChar
  <2> QED
    BY <1>1, <1>2, <2>1 DEF RingTypes
<1>8. ASSUME Alone PROVE \A u \in PipeWriter : u # t => pc[u] = "unborn"
  BY <1>3, <1>8 DEF OneEach, Alone
<1>9. RingTypes'
  <2>1. head' \in Pos
    BY <1>1, <1>2, NextPos DEF RingTypes
  <2>2. \A u \in PipeWriter : pc'[u] = "put_advance" /\ Alone' => Len(sent') < MAX_CHARS
    BY <1>0, <1>3, <1>4, <1>8
  <2>3. \A u \in Thread : pc'[u] \in {"get_read", "get_advance", "put_write", "put_advance"}
                          => left'[u] > 0
    BY <1>2, <1>4, <1>5 DEF RingTypes
  <2> QED
    BY <1>1, <1>2, <1>5, <1>7, <2>1, <2>2, <2>3 DEF RingTypes
<1>10. ASSUME Alone PROVE RingInv'
  <2>1. /\ RingInv /\ InRing < bufsize - 1 /\ buf[head] = Len(sent) + 1
        /\ sent' = Append(sent, Len(sent) + 1)
    BY <1>1, <1>10 DEF IInv, FifoInv, RingInv, NextChar
  <2>2. /\ \A i \in 1..Len(sent') : sent'[i] = i
        /\ InRing' = InRing + 1 /\ InRing' \in 0..(bufsize - 1) /\ InRing' > 0
        /\ head' = Ahead(tail', InRing')
        /\ \A d \in 0..(InRing' - 1) : buf'[Ahead(tail', d)] = Len(rcvd') + d + 1
    BY <1>1, <1>2, <1>6, <1>10, <2>1, RingPut DEF RingInv
  <2>3. \A u \in PipeWriter : pc'[u] \in {"put_wakeup", "unborn"}
    BY <1>0, <1>4, <1>8, <1>10
  <2>4. \A r \in Taker : pc'[r] = "get_advance" => byte'[r] = Len(rcvd') + 1
    BY <1>0, <1>1, <1>4, <2>1 DEF RingInv
  <2> QED
    BY <1>1, <2>1, <2>2, <2>3, <2>4 DEF RingInv
<1> QED
  BY <1>3, <1>9, <1>10 DEF FifoInv

LEMMA KeyboardFifo == ASSUME OneEach, IInv, intr_keyboard_handler PROVE FifoInv'
<1>0. PipeWriter = {} /\ Taker \subseteq Thread
  BY DEF OneEach, intr_keyboard_handler, Thread
<1>1. /\ Len(sent) < MAX_CHARS /\ ~ioq_full /\ buf' = [buf EXCEPT ![head] = NextChar]
      /\ head' = next_pos(head) /\ sent' = Append(sent, NextChar)
      /\ UNCHANGED <<tail, pc, left, byte, rcvd>>
  BY DEF intr_keyboard_handler
<1>2. RingTypes /\ Len(sent) \in Nat /\ (Alone' <=> Alone)
  BY <1>1 DEF IInv, FifoInv, RingTypes, Alone
<1>3. NextChar \in 0..MAX_CHARS
  BY <1>1, <1>2, IoQueueAssumption DEF NextChar
<1>4. RingTypes'
  <2>1. head' \in Pos /\ buf' \in [Pos -> 0..MAX_CHARS] /\ sent' \in Seq(0..MAX_CHARS)
    BY <1>1, <1>2, <1>3, NextPos DEF RingTypes
  <2> QED
    BY <1>0, <1>1, <1>2, <2>1 DEF RingTypes
<1>5. ASSUME Alone PROVE RingInv'
  <2>1. RingInv /\ NextChar = Len(sent) + 1 /\ InRing \in 0..(bufsize - 1)
    BY <1>5 DEF IInv, FifoInv, RingInv, NextChar
  <2>2. InRing < bufsize - 1
    BY <1>1, <1>2, <2>1, RingTests, IoQueueAssumption DEF RingInv
  <2>3. /\ buf'[head] = Len(sent) + 1
        /\ \A d \in 0..(InRing - 1) : buf'[Ahead(tail, d)] = Len(rcvd) + d + 1
    BY <1>1, <1>2, <2>1, <2>2, HeadIsFree
  <2>4. /\ \A i \in 1..Len(sent') : sent'[i] = i
        /\ InRing' = InRing + 1 /\ InRing' \in 0..(bufsize - 1) /\ InRing' > 0
        /\ head' = Ahead(tail', InRing')
        /\ \A d \in 0..(InRing' - 1) : buf'[Ahead(tail', d)] = Len(rcvd') + d + 1
    BY <1>1, <1>2, <2>1, <2>2, <2>3, RingPut
  <2> QED
    BY <1>0, <1>1, <2>1, <2>4 DEF RingInv
<1> QED
  BY <1>2, <1>4, <1>5 DEF FifoInv

LEMMA NextIInv == ASSUME OneEach PROVE IInv /\ [Next]_vars => IInv'
<1> SUFFICES ASSUME IInv, [Next]_vars PROVE FifoInv'
  BY NextWaitInv DEF IInv
<1>1. CASE UNCHANGED vars
  BY <1>1 DEF vars, IInv, FifoInv, RingTypes, RingInv, InRing, Alone
<1>2. ASSUME NEW t \in Taker,
             \/ get_test(t) \/ get_lock(t) \/ get_wait(t) \/ get_block(t)
             \/ get_unlock(t) \/ get_read(t) \/ get_advance(t)
             \/ get_wakeup(t) \/ get_unblock(t) \/ get_clear(t)
      PROVE  FifoInv'
  <2>1. t \in Thread
    BY DEF Thread
  <2> QED
    BY <1>2, <2>1, WaitingFifo, GetTestFifo, GetReadFifo, GetAdvanceFifo
<1>3. ASSUME NEW t \in PipeWriter,
             \/ put_test(t) \/ put_lock(t) \/ put_wait(t) \/ put_block(t)
             \/ put_unlock(t) \/ put_write(t) \/ put_advance(t)
             \/ put_wakeup(t) \/ put_unblock(t) \/ put_clear(t)
      PROVE  FifoInv'
  <2>1. t \in Thread
    BY DEF Thread
  <2> QED
    BY <1>3, <2>1, WaitingFifo, PutTestFifo, PutWriteFifo, PutAdvanceFifo
<1> QED
  BY <1>1, <1>2, <1>3, CallsFifo, KeyboardFifo DEF Next

LEMMA SpecIInv == ASSUME OneEach PROVE Spec => []IInv
<1>1. Init => IInv
  BY InitWaitInv, InitFifoInv DEF IInv
<1> QED
  BY <1>1, NextIInv, PTL DEF Spec

\* With one user of each side every variable keeps its type; head and tail stay
\* within the ring, and no pipe call moves more than the ring can hold.
THEOREM IoQueueTypeCorrect == ASSUME OneEach PROVE Spec => []TypeOK
<1>1. IInv => TypeOK
  BY DEF IInv, WaitInv, WaitTypes, FifoInv, RingTypes, TypeOK
<1> QED
  BY <1>1, SpecIInv, PTL

\* With one user of each side the ring is a FIFO without any lock on head, tail
\* and buf: what was put is what was taken followed by what the ring holds, at
\* every point of every interleaving, until a fork shares the pipe.
THEOREM FirstInFirstOut == ASSUME OneEach PROVE Spec => []InOrder
<1>1. IInv => InOrder
  <2> SUFFICES ASSUME IInv, Alone PROVE sent = rcvd \o Contents
    BY DEF InOrder
  <2>1. RingTypes /\ RingInv /\ InRing \in 0..(bufsize - 1)
    BY DEF IInv, FifoInv, RingInv
  <2>2. ioq_length = InRing /\ tail \in Pos /\ bufsize \in Nat /\ bufsize > 1
    BY <2>1, RingTests, IoQueueAssumption DEF RingInv, RingTypes
  <2>3. ASSUME NEW i \in 1..ioq_length
        PROVE  buf[(tail + i - 1) % bufsize] = Len(rcvd) + i
    <3>1. i - 1 \in 0..(InRing - 1) /\ i \in Nat /\ i <= bufsize - 1 /\ tail \in Nat /\ tail < bufsize
      BY <2>1, <2>2 DEF Pos
    <3>2. (tail + i - 1) % bufsize = Ahead(tail, i - 1)
      <4>1. CASE tail + i - 1 < bufsize
        BY <2>2, <3>1, <4>1 DEF Ahead
      <4>2. CASE ~(tail + i - 1 < bufsize)
        <5> DEFINE x == tail + i - 1 - bufsize
        <5>1. x \in 0..(bufsize - 1) /\ tail + i - 1 = x + bufsize
          BY <2>2, <3>1, <4>2
        <5>2. (x + bufsize) % bufsize = x
          <6> HIDE DEF x
          <6> QED
            BY <2>2, <5>1
        <5> QED
          BY <2>2, <3>1, <4>2, <5>1, <5>2 DEF Ahead
      <4> QED
        BY <4>1, <4>2
    <3>3. buf[Ahead(tail, i - 1)] = Len(rcvd) + (i - 1) + 1
      BY <2>1, <3>1 DEF RingInv
    <3>4. Len(rcvd) \in Nat
      BY <2>1 DEF RingTypes
    <3> QED
      BY <3>1, <3>2, <3>3, <3>4
  <2>4. /\ sent \in Seq(Nat) /\ rcvd \in Seq(Nat) /\ Len(rcvd) \in Nat /\ Len(sent) \in Nat
        /\ Len(sent) = Len(rcvd) + InRing
    <3>1. sent \in Seq(0..MAX_CHARS) /\ rcvd \in Seq(0..MAX_CHARS) /\ 0..MAX_CHARS \subseteq Nat
      BY <2>1 DEF RingTypes
    <3>2. sent \in Seq(Nat) /\ rcvd \in Seq(Nat)
      BY <3>1, SeqMonotonic
    <3> QED
      BY <2>1, <3>2 DEF InRing
  <2>5. /\ Contents \in Seq(Nat) /\ Len(Contents) = InRing
        /\ \A i \in 1..InRing : Contents[i] = Len(rcvd) + i
    BY <2>1, <2>2, <2>3, <2>4 DEF Contents
  <2>6. /\ rcvd \o Contents \in Seq(Nat) /\ Len(rcvd \o Contents) = Len(sent)
        /\ \A i \in 1..Len(sent) : (rcvd \o Contents)[i] = i
    <3>1. /\ rcvd \o Contents \in Seq(Nat)
          /\ Len(rcvd \o Contents) = Len(rcvd) + Len(Contents)
          /\ \A i \in 1..(Len(rcvd) + Len(Contents)) : (rcvd \o Contents)[i] =
                IF i <= Len(rcvd) THEN rcvd[i] ELSE Contents[i - Len(rcvd)]
      BY <2>4, <2>5, ConcatProperties
    <3>2. ASSUME NEW i \in 1..Len(sent) PROVE (rcvd \o Contents)[i] = i
      <4>1. CASE i <= Len(rcvd)
        BY <2>1, <2>4, <2>5, <3>1, <4>1 DEF RingInv
      <4>2. CASE ~(i <= Len(rcvd))
        <5>1. i - Len(rcvd) \in 1..InRing /\ Len(rcvd) + (i - Len(rcvd)) = i
          BY <2>1, <2>4, <4>2
        <5> QED
          BY <2>4, <2>5, <3>1, <4>2, <5>1
      <4> QED
        BY <4>1, <4>2
    <3> QED
      BY <2>4, <2>5, <3>1, <3>2
  <2>7. \A i \in 1..Len(sent) : sent[i] = (rcvd \o Contents)[i]
    BY <2>1, <2>6 DEF RingInv
  <2> HIDE DEF Contents
  <2> QED
    BY <2>4, <2>6, <2>7, SeqEqual
<1> QED
  BY <1>1, SpecIInv, PTL
=============================================================================
