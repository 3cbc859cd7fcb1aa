----------------------------- MODULE IdeProofs -----------------------------
(***************************************************************************)
(* Proofs about Ide, for any number of threads, any disk and any length of *)
(* a command: the types, that the channel is left clean for the next       *)
(* caller, that every call moves its own sectors and no others, and that   *)
(* the driver never panics for want of data.                               *)
(*                                                                         *)
(* The inductive invariant follows the thread that holds the lock through  *)
(* its command.  What it says of the handshake (which of irq, the device's *)
(* line, expecting_intr and disk_done are set at which place) is what the  *)
(* code relies on without saying so.                                       *)
(***************************************************************************)
EXTENDS Ide, TLAPS

\* Places of the thread that holds the channel
Inside == {"select", "expect", "hlt", "wait", "busy_wait", "move", "next"}

DevType == [lba : Nat, cnt : 0..(PER_CMD - 1), at : Nat, left : 0..PER_CMD,
            state : {"idle", "reading", "accepting", "storing", "drq"},
            latch : Data, intrq : BOOLEAN]

TypeInv ==
    /\ pc \in [Thread -> {"out", "lock"} \cup Inside]
    /\ op \in [Thread -> Call]
    /\ secs_done \in [Thread -> 0..MAX_SECS] /\ moved \in [Thread -> 0..PER_CMD]
    /\ buf \in [Thread -> Seq(Data)]
    /\ holder \in Thread \cup {None}
    /\ expecting_intr \in BOOLEAN /\ disk_done \in 0..1
    /\ dev \in DevType /\ irq \in BOOLEAN
    /\ disk \in [LBA -> Data] /\ orig \in [LBA -> Data] /\ ops \in 0..MAX_OPS

\* Every call stays on the disk and has its buffer to itself; only the holder
\* of the lock is inside.
CallInv ==
    \A t \in Thread :
        /\ op[t].lba + op[t].sec_cnt <= LBA_CNT
        /\ Len(buf[t]) <= MAX_SECS
        /\ pc[t] \in Inside <=> holder = t
        /\ pc[t] = "lock" => secs_done[t] = 0 /\ buf[t] = <<>>

\* The channel as a caller must find it
Quiet == disk_done = 0 /\ ~expecting_intr /\ ~irq /\ dev.state \in {"idle", "drq"}

\* Sectors of this call that have been moved
Moved(t) == IF pc[t] = "select" THEN 0 ELSE moved[t]

\* How far a thread is within its command, and what it has told the device
CommandInv(t) ==
    /\ secs_done[t] < op[t].sec_cnt
    /\ secs_done[t] % PER_CMD = 0
    /\ pc[t] \in {"expect", "hlt"} =>
          /\ dev.lba = op[t].lba + secs_done[t]
          /\ dev.cnt = IF op[t].kind = "read" THEN AsByte(SecsOp(t)) ELSE 0
    /\ pc[t] \in {"expect", "hlt", "busy_wait"} => moved[t] = 0
    /\ pc[t] = "move" => moved[t] < SecsOp(t)
    /\ pc[t] = "next" => moved[t] = SecsOp(t)
    /\ pc[t] \in {"select", "expect", "next"} => Quiet
    /\ pc[t] = "hlt" => disk_done = 0 /\ expecting_intr /\ ~irq /\ dev.state \in {"idle", "drq"}

\* A read: one expected interrupt, for the first sector; those of the others
\* are ignored.
ReadInv(t) ==
    /\ disk = orig
    /\ Len(buf[t]) = secs_done[t] + Moved(t)
    /\ \A i \in 1..Len(buf[t]) : buf[t][i] = disk[op[t].lba + i - 1]
    /\ pc[t] \in {"wait", "busy_wait", "move"} =>
          /\ dev.state \in {"reading", "drq"}
          /\ dev.at = op[t].lba + secs_done[t] + moved[t] /\ dev.left = SecsOp(t) - moved[t]
          /\ dev.state = "reading" => ~irq
    /\ pc[t] = "wait" =>
          /\ moved[t] = 0
          /\ \/ expecting_intr /\ disk_done = 0 /\ dev.state = "reading" /\ ~dev.intrq
             \/ expecting_intr /\ disk_done = 0 /\ dev.state = "drq" /\ irq
             \/ ~expecting_intr /\ disk_done = 1 /\ dev.state = "drq" /\ ~irq
    /\ pc[t] = "busy_wait" => dev.state = "drq" /\ ~irq
    /\ pc[t] \in {"busy_wait", "move"} => ~expecting_intr /\ disk_done = 0

\* Sectors of a write that are on the disk
Stored(t) == IF dev.state = "storing" THEN secs_done[t] + Moved(t) - 1
             ELSE secs_done[t] + Moved(t)

\* A write: the first interrupt comes after the first sector has been sent, and
\* counts; the driver fetches it when it has sent the last.
WriteInv(t) ==
    /\ disk = [l \in LBA |-> IF op[t].lba <= l /\ l < op[t].lba + Stored(t)
                             THEN <<t, l - op[t].lba + 1>> ELSE orig[l]]
    /\ pc[t] \in {"busy_wait", "move", "wait"} =>
          /\ dev.at = op[t].lba + Stored(t)
          /\ dev.left = PER_CMD - (Stored(t) - secs_done[t])
    /\ pc[t] = "busy_wait" =>
          /\ dev.state \in {"accepting", "drq"}
          /\ expecting_intr /\ disk_done = 0 /\ ~irq /\ ~dev.intrq
    /\ pc[t] = "wait" => moved[t] = SecsOp(t)
    /\ pc[t] \in {"move", "wait"} =>
          /\ dev.state = "storing" => /\ ~irq
                                      /\ dev.latch = <<t, secs_done[t] + moved[t]>>
          /\ moved[t] = 0 => dev.state = "drq" /\ expecting_intr /\ ~irq /\ ~dev.intrq
          /\ dev.state \in {"storing", "drq", "idle"}
          /\ dev.state = "storing" => moved[t] > 0
          /\ dev.state = "idle" => moved[t] = PER_CMD
          /\ \/ /\ expecting_intr /\ disk_done = 0
                /\ moved[t] > 0 => (IF dev.state = "storing" THEN ~dev.intrq ELSE irq)
             \/ ~expecting_intr /\ disk_done = 1 /\ moved[t] > 0

HeldInv(t) ==
    /\ CommandInv(t)
    /\ op[t].kind = "read" => ReadInv(t)
    /\ op[t].kind = "write" => WriteInv(t)

IInv ==
    /\ TypeInv /\ CallInv
    /\ holder = None => Quiet
    /\ \A t \in Thread : holder = t => HeldInv(t)

----------------------------------------------------------------------------
(* The count register: the byte 0 stands for a full command.               *)

LEMMA ModLemma ==
    ASSUME NEW n \in Nat
    PROVE  /\ n \in 1..(PER_CMD - 1) => n % PER_CMD = n
           /\ PER_CMD % PER_CMD = 0
           /\ n % PER_CMD \in 0..(PER_CMD - 1)
           /\ n % PER_CMD = 0 => (n + PER_CMD) % PER_CMD = 0
           /\ 0 % PER_CMD = 0
<1> DEFINE P == PER_CMD
<1>0. P \in Nat /\ P > 0
  BY IdeAssumption
<1> HIDE DEF P
<1>1. n % P \in 0..(P - 1)
  BY <1>0
<1>2. 0 % P = 0
  BY <1>0
<1>3. P % P = 0
  BY <1>0
<1>4. n \in 1..(P - 1) => n % P = n
  BY <1>0
<1>5. n % P = 0 => (n + P) % P = 0
  <2>1. n = P * (n \div P) + (n % P)
    BY <1>0
  <2> DEFINE r == (n + P) % P
             d == (n \div P) + 1 - ((n + P) \div P)
  <2>2. n + P = P * ((n + P) \div P) + r /\ r \in 0..(P - 1) /\ d \in Int
    BY <1>0
  <2>3. n % P = 0 => r = P * d
    BY <1>0, <2>1, <2>2
  <2>4. (d >= 1 => P * d >= P) /\ (d <= -1 => P * d <= -P) /\ P * 0 = 0
    BY <1>0, <2>2
  <2> HIDE DEF d
  <2> QED
    BY <1>0, <2>2, <2>3, <2>4
<1> QED
  BY <1>1, <1>2, <1>3, <1>4, <1>5 DEF P

\* A count of 1 to PER_CMD sectors survives its way through a byte.
LEMMA ByteKeepsCount ==
    ASSUME NEW n \in 1..PER_CMD
    PROVE  Sectors(AsByte(n)) = n
BY IdeAssumption, ModLemma DEF Sectors, AsByte

\* While a call has sectors left its next command moves at least one of them
\* and at most the rest, and only the last command is a short one.
LEMMA SecsOpRange ==
    ASSUME NEW t \in Thread, TypeInv, secs_done[t] < op[t].sec_cnt
    PROVE  /\ SecsOp(t) \in 1..PER_CMD
           /\ secs_done[t] + SecsOp(t) <= op[t].sec_cnt
           /\ secs_done[t] + SecsOp(t) < op[t].sec_cnt => SecsOp(t) = PER_CMD
           /\ Sectors(AsByte(SecsOp(t))) = SecsOp(t)
           /\ op[t].sec_cnt \in 1..MAX_SECS /\ op[t].lba \in LBA
<1>1. op[t].sec_cnt \in 1..MAX_SECS /\ op[t].lba \in LBA /\ secs_done[t] \in Nat
  BY DEF TypeInv, Call
<1>2. /\ SecsOp(t) \in 1..PER_CMD
      /\ secs_done[t] + SecsOp(t) <= op[t].sec_cnt
      /\ secs_done[t] + SecsOp(t) < op[t].sec_cnt => SecsOp(t) = PER_CMD
  BY <1>1, IdeAssumption DEF SecsOp
<1> QED
  BY <1>1, <1>2, ByteKeepsCount

----------------------------------------------------------------------------
(* The invariant holds at first, and every action keeps it.                *)

LEMMA ThreadTypes ==
    ASSUME NEW t \in Thread, TypeInv
    PROVE  /\ op[t].lba \in Nat /\ op[t].sec_cnt \in Nat /\ op[t].kind \in {"read", "write"}
           /\ secs_done[t] \in Nat /\ moved[t] \in Nat /\ moved[t] <= PER_CMD
           /\ buf[t] \in Seq(Data)
<1>1. op[t] \in Call /\ secs_done[t] \in 0..MAX_SECS /\ moved[t] \in 0..PER_CMD
      /\ buf[t] \in Seq(Data)
  BY DEF TypeInv
<1> QED
  BY <1>1, IdeAssumption DEF Call, LBA

LEMMA InitIInv == Init => IInv
<1> SUFFICES ASSUME Init PROVE IInv
  OBVIOUS
<1> USE IdeAssumption
<1>0. /\ 0 \in 0..MAX_SECS /\ 0 \in 0..PER_CMD /\ 0 \in 0..MAX_OPS /\ 0 \in 0..(PER_CMD - 1)
      /\ Len(<<>>) <= MAX_SECS
  OBVIOUS
<1>1. Blank \in Data
  BY <1>0 DEF Blank, Data
<1>2. /\ op \in [Thread -> Call]
      /\ \A t \in Thread : op[t].lba + op[t].sec_cnt <= LBA_CNT
  BY DEF Init, Call, LBA
<1>3. TypeInv
  <2>1. buf \in [Thread -> Seq(Data)]
    BY DEF Init
  <2>2. dev \in DevType
    BY <1>1 DEF Init, DevType
  <2>3. disk \in [LBA -> Data] /\ orig \in [LBA -> Data]
    BY <1>1 DEF Init
  <2>4. pc \in [Thread -> {"out", "lock"} \cup Inside]
    BY DEF Init
  <2>5. /\ secs_done \in [Thread -> 0..MAX_SECS] /\ moved \in [Thread -> 0..PER_CMD]
        /\ holder \in Thread \cup {None}
        /\ disk_done \in 0..1 /\ ops \in 0..MAX_OPS
    BY <1>0 DEF Init
  <2>6. expecting_intr \in BOOLEAN /\ irq \in BOOLEAN
    BY DEF Init
  <2> QED
    BY <1>2, <2>1, <2>2, <2>3, <2>4, <2>5, <2>6 DEF TypeInv
<1>4. CallInv
  <2>1. \A t \in Thread : pc[t] = "out" /\ holder # t /\ buf[t] = <<>>
    BY DEF Init
  <2>2. \A t \in Thread : Len(buf[t]) <= MAX_SECS
    BY <1>0, <2>1
  <2> QED
    BY <1>2, <2>1, <2>2 DEF CallInv, Inside
<1>5. Quiet
  BY DEF Init, Quiet
<1>6. \A t \in Thread : holder # t
  BY DEF Init
<1> QED
  BY <1>3, <1>4, <1>5, <1>6 DEF IInv

LEMMA CallKeeps == ASSUME IInv, NEW t \in Thread, ide_call(t) PROVE IInv'
<1> USE IdeAssumption DEF At, Goto, channel
<1>1. PICK c \in Call : c.lba + c.sec_cnt <= LBA_CNT /\ op' = [op EXCEPT ![t] = c]
  BY DEF ide_call
<1>2. holder # t
  BY DEF ide_call, IInv, CallInv, Inside
<1>3. TypeInv'
  BY <1>1 DEF IInv, TypeInv, ide_call
<1>4. CallInv'
  BY <1>1 DEF IInv, TypeInv, CallInv, ide_call, Inside
<1>5. (holder = None => Quiet)'
  BY DEF IInv, ide_call, Quiet
<1>6. ASSUME NEW u \in Thread, holder' = u PROVE HeldInv(u)'
  <2>1. u # t /\ holder = u /\ HeldInv(u)
    BY <1>2, <1>6 DEF IInv, ide_call
  <2>2. /\ pc'[u] = pc[u] /\ op'[u] = op[u] /\ secs_done'[u] = secs_done[u]
        /\ moved'[u] = moved[u] /\ buf'[u] = buf[u]
    BY <1>1, <2>1 DEF IInv, TypeInv, ide_call
  <2>3. UNCHANGED <<channel, dev, irq, disk, orig>>
    BY DEF ide_call
  <2> QED
    BY <2>1, <2>2, <2>3 DEF HeldInv, CommandInv, ReadInv, WriteInv, Moved, Stored, SecsOp, Quiet
<1> QED
  BY <1>3, <1>4, <1>5, <1>6 DEF IInv

LEMMA LockKeeps == ASSUME IInv, NEW t \in Thread, ide_lock(t) PROVE IInv'
<1> USE IdeAssumption DEF At, Goto
<1>1. Quiet /\ Quiet'
  BY DEF IInv, ide_lock, Quiet
<1>2. TypeInv'
  BY DEF IInv, TypeInv, ide_lock, Inside
<1>3. CallInv'
  BY DEF IInv, TypeInv, CallInv, ide_lock, Inside
<1>4. HeldInv(t)'
  <2>1. /\ pc'[t] = "select" /\ secs_done'[t] = 0 /\ buf'[t] = <<>>
        /\ op' = op /\ disk' = disk /\ orig' = disk /\ dev' = dev
    BY DEF IInv, TypeInv, CallInv, ide_lock
  <2>2. CommandInv(t)'
    <3>1. 0 < op[t].sec_cnt
      BY DEF IInv, TypeInv, Call
    <3> QED
      BY <1>1, <2>1, <3>1, ModLemma DEF CommandInv
  <2>3. ReadInv(t)'
    BY <2>1 DEF ReadInv, Moved
  <2>4. WriteInv(t)'
    <3>1. Stored(t)' = 0
      <4>1. Moved(t)' = 0 /\ dev'.state # "storing"
        BY <1>1, <2>1 DEF Moved, Quiet
      <4>2. Stored(t)' = secs_done'[t] + Moved(t)'
        BY <4>1 DEF Stored
      <4> QED
        BY <2>1, <4>1, <4>2
    <3>2. op[t].lba \in Int /\ disk \in [LBA -> Data]
      BY DEF IInv, TypeInv, Call, LBA
    <3>3. \A l \in LBA : ~(op[t].lba <= l /\ l < op[t].lba + 0)
      BY <3>2 DEF LBA
    <3> QED
      BY <2>1, <3>1, <3>2, <3>3 DEF WriteInv
  <2> QED
    BY <2>2, <2>3, <2>4 DEF HeldInv
<1> QED
  BY <1>1, <1>2, <1>3, <1>4 DEF IInv, ide_lock

\* The rest of the driver runs in the thread that holds the lock.
LEMMA DriverHolds ==
    ASSUME IInv, NEW t \in Thread, pc[t] \in Inside
    PROVE  holder = t /\ HeldInv(t) /\ CommandInv(t) /\ \A u \in Thread : u # t => holder # u
BY DEF IInv, CallInv, HeldInv

\* What has to be shown of a step of the holder that keeps the lock
LEMMA HolderStep ==
    ASSUME IInv, NEW t \in Thread, pc[t] \in Inside, pc'[t] \in Inside,
           \A u \in Thread : u # t => pc'[u] = pc[u] /\ buf'[u] = buf[u],
           Len(buf'[t]) <= MAX_SECS,
           UNCHANGED <<op, secs_done, holder>>,
           TypeInv', HeldInv(t)'
    PROVE  IInv'
<1>1. CallInv'
  BY DriverHolds DEF IInv, CallInv, Inside
<1>2. holder' = t /\ holder' # None
  BY DriverHolds, IdeAssumption
<1> QED
  BY <1>1, <1>2 DEF IInv

LEMMA SelectKeeps == ASSUME IInv, NEW t \in Thread, select_sector(t) PROVE IInv'
<1> USE DEF At, Goto
<1>1. HeldInv(t) /\ CommandInv(t) /\ pc[t] = "select" /\ Quiet
  BY DriverHolds DEF select_sector, Inside, CommandInv
<1>2. TypeInv
  BY DEF IInv
<1>3. /\ SecsOp(t) \in Nat /\ secs_done[t] \in Nat /\ op[t].lba \in Nat
      /\ secs_done[t] < op[t].sec_cnt /\ op[t].kind \in {"read", "write"}
  BY <1>1, <1>2, SecsOpRange, ThreadTypes, IdeAssumption DEF CommandInv
<1>4. /\ AsByte(SecsOp(t)) \in 0..(PER_CMD - 1)
      /\ AsByte(secs_done[t]) = 0 /\ 0 \in 0..(PER_CMD - 1)
  BY <1>1, <1>3, ModLemma, IdeAssumption DEF AsByte, CommandInv
<1> DEFINE cnt == AsByte(IF op[t].kind = "read" THEN SecsOp(t) ELSE secs_done[t])
<1>5. cnt = (IF op[t].kind = "read" THEN AsByte(SecsOp(t)) ELSE 0) /\ cnt \in 0..(PER_CMD - 1)
  BY <1>3, <1>4
<1>6. /\ dev' = [dev EXCEPT !.lba = op[t].lba + secs_done[t], !.cnt = cnt]
      /\ moved' = [moved EXCEPT ![t] = 0] /\ pc' = [pc EXCEPT ![t] = "expect"]
      /\ UNCHANGED <<op, secs_done, buf, channel, irq, disk, orig, ops>>
  BY DEF select_sector, FirstSector
<1> HIDE DEF cnt
<1>7. TypeInv'
  <2>1. dev' \in DevType
    <3>1. dev \in DevType /\ op[t].lba + secs_done[t] \in Nat
      BY <1>2, <1>3 DEF TypeInv
    <3> QED
      BY <1>5, <1>6, <3>1 DEF DevType
  <2>2. moved' \in [Thread -> 0..PER_CMD] /\ pc' \in [Thread -> {"out", "lock"} \cup Inside]
    BY <1>2, <1>6, IdeAssumption DEF TypeInv, Inside
  <2> QED
    BY <1>2, <1>6, <2>1, <2>2 DEF TypeInv, channel
<1>8. /\ pc'[t] = "expect" /\ moved'[t] = 0
      /\ dev'.lba = op[t].lba + secs_done[t] /\ dev'.cnt = cnt
      /\ dev'.state = dev.state /\ dev'.intrq = dev.intrq
  BY <1>2, <1>6 DEF TypeInv, DevType
<1>9. CommandInv(t)'
  BY <1>1, <1>5, <1>6, <1>8 DEF CommandInv, Quiet, SecsOp, channel
<1>10. op[t].kind = "read" => ReadInv(t)'
  BY <1>1, <1>6, <1>8 DEF HeldInv, ReadInv, Moved
<1>11. op[t].kind = "write" => WriteInv(t)'
  <2>1. Stored(t)' = Stored(t)
    BY <1>1, <1>6, <1>8 DEF Stored, Moved
  <2> QED
    BY <1>1, <1>6, <1>8, <2>1 DEF HeldInv, WriteInv
<1> QED
  BY <1>1, <1>2, <1>6, <1>7, <1>8, <1>9, <1>10, <1>11, HolderStep
     DEF HeldInv, Inside, channel, TypeInv, IInv, CallInv

LEMMA ExpectKeeps == ASSUME IInv, NEW t \in Thread, cmd_out_expect(t) PROVE IInv'
<1> USE DEF At, Goto
<1>1. HeldInv(t) /\ CommandInv(t) /\ pc[t] = "expect" /\ Quiet
  BY DriverHolds DEF cmd_out_expect, Inside, CommandInv
<1>2. TypeInv
  BY DEF IInv
<1>3. /\ expecting_intr' = TRUE /\ pc' = [pc EXCEPT ![t] = "hlt"]
      /\ UNCHANGED <<op, secs_done, moved, buf, holder, disk_done, dev, irq, disk, orig, ops>>
  BY DEF cmd_out_expect
<1>4. TypeInv' /\ pc'[t] = "hlt"
  <2>1. expecting_intr' \in BOOLEAN
    BY <1>3
  <2>2. pc' \in [Thread -> {"out", "lock"} \cup Inside] /\ pc'[t] = "hlt"
    BY <1>2, <1>3 DEF TypeInv, Inside
  <2> QED
    BY <1>2, <1>3, <2>1, <2>2 DEF TypeInv
<1>5. CommandInv(t)'
  BY <1>1, <1>3, <1>4 DEF CommandInv, Quiet, SecsOp
<1>6. op[t].kind = "read" => ReadInv(t)'
  BY <1>1, <1>3, <1>4 DEF HeldInv, ReadInv, Moved
<1>7. op[t].kind = "write" => WriteInv(t)'
  <2>1. Stored(t)' = Stored(t)
    BY <1>1, <1>3, <1>4 DEF Stored, Moved
  <2> QED
    BY <1>1, <1>3, <1>4, <2>1 DEF HeldInv, WriteInv
<1> QED
  BY <1>1, <1>2, <1>3, <1>4, <1>5, <1>6, <1>7, HolderStep
     DEF HeldInv, Inside, TypeInv, IInv, CallInv

LEMMA CommandKeeps == ASSUME IInv, NEW t \in Thread, cmd_out(t) PROVE IInv'
<1> USE DEF At, Goto
<1> DEFINE state == IF op[t].kind = "read" THEN "reading" ELSE "accepting"
           there == IF op[t].kind = "read" THEN "wait" ELSE "busy_wait"
<1>1. /\ HeldInv(t) /\ CommandInv(t) /\ pc[t] = "hlt" /\ moved[t] = 0
      /\ disk_done = 0 /\ expecting_intr /\ ~irq /\ dev.state \in {"idle", "drq"}
  BY DriverHolds DEF cmd_out, Inside, CommandInv
<1>2. TypeInv
  BY DEF IInv
<1>3. /\ secs_done[t] < op[t].sec_cnt /\ SecsOp(t) \in 1..PER_CMD
      /\ Sectors(AsByte(SecsOp(t))) = SecsOp(t)
      /\ PER_CMD \in Nat
  BY <1>1, <1>2, SecsOpRange, IdeAssumption DEF CommandInv
<1>4. /\ dev.lba = op[t].lba + secs_done[t]
      /\ Sectors(dev.cnt) = IF op[t].kind = "read" THEN SecsOp(t) ELSE PER_CMD
  BY <1>1, <1>3 DEF CommandInv, Sectors
<1>5. /\ dev' = [dev EXCEPT !.at = dev.lba, !.left = Sectors(dev.cnt), !.intrq = FALSE,
                            !.state = state]
      /\ pc' = [pc EXCEPT ![t] = there]
      /\ UNCHANGED <<op, secs_done, moved, buf, channel, irq, disk, orig, ops>>
  BY <1>1 DEF cmd_out, AfterCommand
<1>6. TypeInv' /\ pc'[t] = there
  <2>1. dev \in DevType /\ Sectors(dev.cnt) \in 0..PER_CMD
    BY <1>2, <1>3, <1>4 DEF TypeInv
  <2>2. dev' \in DevType
    BY <1>5, <2>1 DEF DevType
  <2>3. pc' \in [Thread -> {"out", "lock"} \cup Inside] /\ pc'[t] = there
    BY <1>2, <1>5 DEF TypeInv, Inside
  <2> QED
    BY <1>2, <1>5, <2>2, <2>3 DEF TypeInv, channel
<1>7. /\ dev'.at = dev.lba /\ dev'.left = Sectors(dev.cnt) /\ ~dev'.intrq /\ dev'.state = state
      /\ SecsOp(t)' = SecsOp(t)
  BY <1>2, <1>5 DEF TypeInv, DevType, SecsOp
<1>8. CommandInv(t)'
  BY <1>1, <1>5, <1>6, <1>7 DEF CommandInv
<1>9. ASSUME op[t].kind = "read" PROVE ReadInv(t)'
  <2>1. pc'[t] = "wait" /\ dev'.state = "reading" /\ ReadInv(t)
    BY <1>1, <1>6, <1>7, <1>9 DEF HeldInv
  <2>2. dev'.at = op[t].lba + secs_done[t] + moved[t] /\ dev'.left = SecsOp(t) - moved[t]
    BY <1>1, <1>2, <1>3, <1>4, <1>7, <1>9, ThreadTypes
  <2>3. Moved(t)' = Moved(t)
    BY <1>1, <1>5, <2>1 DEF Moved
  <2> QED
    BY <1>1, <1>5, <1>7, <2>1, <2>2, <2>3 DEF ReadInv, channel
<1>10. ASSUME op[t].kind = "write" PROVE WriteInv(t)'
  <2>1. pc'[t] = "busy_wait" /\ dev'.state = "accepting" /\ WriteInv(t)
    BY <1>1, <1>6, <1>7, <1>10 DEF HeldInv
  <2>2. Stored(t)' = Stored(t) /\ Stored(t) = secs_done[t]
    BY <1>1, <1>2, <1>5, <2>1, ThreadTypes DEF Stored, Moved
  <2>3. dev'.at = op[t].lba + Stored(t)' /\ dev'.left = PER_CMD - (Stored(t)' - secs_done[t])
    BY <1>2, <1>3, <1>4, <1>7, <1>10, <2>2, ThreadTypes
  <2> QED
    BY <1>1, <1>5, <1>7, <2>1, <2>2, <2>3 DEF WriteInv, channel
<1> QED
  BY <1>1, <1>2, <1>5, <1>6, <1>8, <1>9, <1>10, HolderStep
     DEF HeldInv, Inside, TypeInv, IInv, CallInv, channel

LEMMA DownKeeps == ASSUME IInv, NEW t \in Thread, sema_down(t), DATA_WAITS PROVE IInv'
<1> USE DEF At, Goto
<1> DEFINE there == IF op[t].kind = "read" THEN "busy_wait" ELSE "next"
<1>1. /\ HeldInv(t) /\ CommandInv(t) /\ pc[t] = "wait"
      /\ disk_done > 0 /\ ~irq /\ (op[t].kind = "write" => dev.state # "storing")
  BY DriverHolds DEF sema_down, Inside
<1>2. TypeInv /\ op[t].kind \in {"read", "write"} /\ disk_done = 1
  <2>1. TypeInv /\ disk_done \in 0..1
    BY DEF IInv, TypeInv
  <2> QED
    BY <1>1, <2>1, ThreadTypes
<1>3. /\ disk_done' = 0 /\ pc' = [pc EXCEPT ![t] = there]
      /\ UNCHANGED <<op, secs_done, moved, buf, holder, expecting_intr, dev, irq, disk, orig, ops>>
  BY <1>2 DEF sema_down
<1>4. TypeInv' /\ pc'[t] = there
  <2>1. pc' \in [Thread -> {"out", "lock"} \cup Inside] /\ pc'[t] = there
    BY <1>2, <1>3 DEF TypeInv, Inside
  <2> QED
    BY <1>2, <1>3, <2>1 DEF TypeInv
<1>5. ~expecting_intr /\ (op[t].kind = "read" => moved[t] = 0)
      /\ (op[t].kind = "write" => moved[t] = SecsOp(t) /\ dev.state \in {"idle", "drq"})
  BY <1>1, <1>2 DEF HeldInv, ReadInv, WriteInv
<1>6. CommandInv(t)'
  BY <1>1, <1>2, <1>3, <1>4, <1>5 DEF CommandInv, SecsOp, Quiet
<1>7. op[t].kind = "read" => ReadInv(t)'
  BY <1>1, <1>2, <1>3, <1>4, <1>5 DEF HeldInv, ReadInv, Moved, SecsOp
<1>8. ASSUME op[t].kind = "write" PROVE WriteInv(t)'
  <2>1. Stored(t)' = Stored(t) /\ pc'[t] = "next" /\ WriteInv(t)
    BY <1>1, <1>3, <1>4, <1>8 DEF HeldInv, Stored, Moved
  <2> QED
    BY <1>3, <2>1 DEF WriteInv
<1> QED
  BY <1>1, <1>2, <1>3, <1>4, <1>6, <1>7, <1>8, HolderStep
     DEF HeldInv, Inside, TypeInv, IInv, CallInv

\* The device has data for a read and takes data for a write: no panic.
LEMMA BusyWaitKeeps == ASSUME IInv, NEW t \in Thread, busy_wait(t) PROVE IInv'
<1> USE DEF At, Goto
<1>1. HeldInv(t) /\ CommandInv(t) /\ pc[t] = "busy_wait" /\ moved[t] = 0 /\ ~irq
  BY DriverHolds DEF busy_wait, Inside, CommandInv
<1>2. TypeInv /\ op[t].kind \in {"read", "write"}
  BY ThreadTypes DEF IInv
<1>3. dev.state = "drq"
  BY <1>1, <1>2 DEF HeldInv, ReadInv, WriteInv, busy_wait
<1>4. /\ dev' = [dev EXCEPT !.intrq = FALSE] /\ pc' = [pc EXCEPT ![t] = "move"]
      /\ UNCHANGED <<op, secs_done, moved, buf, channel, irq, disk, orig, ops>>
  BY <1>3 DEF busy_wait
<1>5. TypeInv' /\ pc'[t] = "move"
  <2>1. dev' \in DevType
    BY <1>2, <1>4 DEF TypeInv, DevType
  <2>2. pc' \in [Thread -> {"out", "lock"} \cup Inside] /\ pc'[t] = "move"
    BY <1>2, <1>4 DEF TypeInv, Inside
  <2> QED
    BY <1>2, <1>4, <2>1, <2>2 DEF TypeInv, channel
<1>6. /\ dev'.state = "drq" /\ ~dev'.intrq /\ dev'.at = dev.at /\ dev'.left = dev.left
      /\ SecsOp(t)' = SecsOp(t)
  BY <1>2, <1>3, <1>4 DEF TypeInv, DevType, SecsOp
<1>7. CommandInv(t)'
  <2>1. 0 < SecsOp(t)
    BY <1>1, <1>2, SecsOpRange, IdeAssumption DEF CommandInv
  <2> QED
    BY <1>1, <1>4, <1>5, <1>6, <2>1 DEF CommandInv
<1>8. op[t].kind = "read" => ReadInv(t)'
  BY <1>1, <1>4, <1>5, <1>6 DEF HeldInv, ReadInv, Moved, channel
<1>9. ASSUME op[t].kind = "write" PROVE WriteInv(t)'
  <2>1. WriteInv(t) /\ Stored(t)' = Stored(t)
    BY <1>1, <1>3, <1>4, <1>5, <1>6, <1>9 DEF HeldInv, Stored, Moved
  <2> QED
    BY <1>1, <1>4, <1>5, <1>6, <2>1 DEF WriteInv, channel
<1> QED
  BY <1>1, <1>2, <1>4, <1>5, <1>7, <1>8, <1>9, HolderStep
     DEF HeldInv, Inside, TypeInv, IInv, CallInv, channel

\* The part of a sector's transfer that reads and writes have in common
LEMMA MoveFacts ==
    ASSUME IInv, NEW t \in Thread, At(t, "move"), MoveOn(t)
    PROVE  /\ HeldInv(t) /\ CommandInv(t) /\ TypeInv /\ pc[t] = "move" /\ ~irq
           /\ moved'[t] = moved[t] + 1 /\ moved[t] < SecsOp(t) /\ SecsOp(t) <= PER_CMD
           /\ SecsOp(t) \in Nat /\ SecsOp(t)' = SecsOp(t)
           /\ pc'[t] = (IF moved[t] + 1 < SecsOp(t) THEN "move"
                        ELSE IF op[t].kind = "read" THEN "next" ELSE "wait")
           /\ \A u \in Thread : u # t => pc'[u] = pc[u]
           /\ moved' \in [Thread -> 0..PER_CMD]
           /\ pc' \in [Thread -> {"out", "lock"} \cup Inside]
           /\ UNCHANGED <<op, secs_done, channel, irq, disk, orig, ops>>
<1> USE DEF At, Goto
<1>1. HeldInv(t) /\ CommandInv(t) /\ TypeInv /\ pc[t] = "move" /\ ~irq
  BY DriverHolds DEF Inside, IInv
<1>2. /\ secs_done[t] < op[t].sec_cnt /\ SecsOp(t) \in Nat /\ SecsOp(t) <= PER_CMD
      /\ Sectors(AsByte(SecsOp(t))) = SecsOp(t) /\ moved[t] < SecsOp(t)
      /\ moved[t] \in Nat /\ PER_CMD \in Nat
  BY <1>1, SecsOpRange, ThreadTypes, IdeAssumption DEF CommandInv
<1>3. /\ moved' = [moved EXCEPT ![t] = moved[t] + 1] /\ moved[t] + 1 \in 0..PER_CMD
      /\ pc' = [pc EXCEPT ![t] = IF moved[t] + 1 < SecsOp(t) THEN "move"
                                 ELSE IF op[t].kind = "read" THEN "next" ELSE "wait"]
      /\ UNCHANGED <<op, secs_done, channel, irq, disk, orig, ops>>
  BY <1>2 DEF MoveOn
<1>4. moved' \in [Thread -> 0..PER_CMD] /\ moved'[t] = moved[t] + 1
  BY <1>1, <1>3 DEF TypeInv
<1>5. /\ pc' \in [Thread -> {"out", "lock"} \cup Inside]
      /\ pc'[t] = (IF moved[t] + 1 < SecsOp(t) THEN "move"
                   ELSE IF op[t].kind = "read" THEN "next" ELSE "wait")
      /\ \A u \in Thread : u # t => pc'[u] = pc[u]
  BY <1>1, <1>3 DEF TypeInv, Inside
<1>6. SecsOp(t)' = SecsOp(t)
  BY <1>3 DEF SecsOp
<1> QED
  BY <1>1, <1>2, <1>3, <1>4, <1>5, <1>6

LEMMA ReadKeeps == ASSUME IInv, NEW t \in Thread, read_from_sector(t) PROVE IInv'
<1> DEFINE m == moved[t]
           next == IF dev.left = 1 THEN "idle" ELSE "reading"
<1>0. At(t, "move") /\ MoveOn(t) /\ op[t].kind = "read" /\ dev.state = "drq"
  BY DEF read_from_sector
<1>1. /\ HeldInv(t) /\ CommandInv(t) /\ TypeInv /\ pc[t] = "move" /\ ~irq
      /\ moved'[t] = m + 1 /\ m < SecsOp(t) /\ SecsOp(t) <= PER_CMD
      /\ SecsOp(t) \in Nat /\ SecsOp(t)' = SecsOp(t)
      /\ pc'[t] = (IF m + 1 < SecsOp(t) THEN "move" ELSE "next")
      /\ \A u \in Thread : u # t => pc'[u] = pc[u]
      /\ moved' \in [Thread -> 0..PER_CMD]
      /\ pc' \in [Thread -> {"out", "lock"} \cup Inside]
      /\ UNCHANGED <<op, secs_done, channel, irq, disk, orig, ops>>
  BY <1>0, MoveFacts
<1>2. /\ dev.at = op[t].lba + secs_done[t] + m /\ dev.left = SecsOp(t) - m
      /\ ~expecting_intr /\ disk_done = 0
      /\ Len(buf[t]) = secs_done[t] + m
      /\ \A i \in 1..Len(buf[t]) : buf[t][i] = disk[op[t].lba + i - 1]
      /\ disk = orig
  BY <1>0, <1>1 DEF HeldInv, ReadInv, Moved
<1>3. /\ op[t].lba \in Nat /\ op[t].sec_cnt \in Nat /\ secs_done[t] \in Nat /\ m \in Nat
      /\ buf[t] \in Seq(Data)
      /\ secs_done[t] + SecsOp(t) <= op[t].sec_cnt /\ op[t].lba + op[t].sec_cnt <= LBA_CNT
      /\ secs_done[t] < op[t].sec_cnt /\ op[t].sec_cnt <= MAX_SECS
  <2>1. secs_done[t] < op[t].sec_cnt /\ op[t].lba + op[t].sec_cnt <= LBA_CNT
    BY <1>1 DEF CommandInv, IInv, CallInv
  <2> QED
    BY <1>1, <2>1, ThreadTypes, SecsOpRange, IdeAssumption
<1>11. /\ dev.at = op[t].lba + secs_done[t] + m /\ dev.left = SecsOp(t) - m
       /\ op[t].lba \in Nat /\ secs_done[t] \in Nat /\ m \in Nat /\ SecsOp(t) \in Nat
       /\ m < SecsOp(t) /\ SecsOp(t) <= PER_CMD /\ PER_CMD \in Nat /\ LBA_CNT \in Nat
       /\ op[t].lba + secs_done[t] + SecsOp(t) <= LBA_CNT
  <2>1. op[t].lba + (secs_done[t] + SecsOp(t)) <= LBA_CNT /\ SecsOp(t) \in Nat
    BY <1>1, <1>3, IdeAssumption
  <2> QED
    BY <1>1, <1>2, <1>3, <2>1, IdeAssumption
<1> HIDE DEF m
<1>4. dev.at \in LBA /\ disk[dev.at] \in Data
  <2>1. dev.at \in 0..(LBA_CNT - 1)
    BY <1>11
  <2> QED
    BY <1>1, <2>1 DEF TypeInv, LBA
<1>5. /\ dev' = [dev EXCEPT !.at = dev.at + 1, !.left = dev.left - 1, !.state = next]
      /\ buf' = [buf EXCEPT ![t] = Append(buf[t], disk[dev.at])]
  BY DEF read_from_sector
<1>6. /\ buf' \in [Thread -> Seq(Data)] /\ buf'[t] = Append(buf[t], disk[dev.at])
      /\ \A u \in Thread : u # t => buf'[u] = buf[u]
      /\ Len(buf'[t]) = secs_done[t] + m + 1
      /\ Len(buf'[t]) <= MAX_SECS
  <2>1. Append(buf[t], disk[dev.at]) \in Seq(Data)
    BY <1>3, <1>4
  <2>2. Len(Append(buf[t], disk[dev.at])) = secs_done[t] + m + 1
    BY <1>2, <1>3, <1>4
  <2>3. secs_done[t] + m + 1 <= MAX_SECS
    BY <1>1, <1>3, IdeAssumption
  <2> QED
    BY <1>1, <1>5, <2>1, <2>2, <2>3 DEF TypeInv
<1>7. TypeInv'
  <2>1. dev \in DevType
    BY <1>1 DEF TypeInv
  <2>3. dev.at + 1 \in Nat /\ dev.left - 1 \in 0..PER_CMD
    BY <1>11
  <2>2. dev' \in DevType
    BY <1>5, <2>1, <2>3 DEF DevType
  <2> QED
    BY <1>1, <1>6, <2>2 DEF TypeInv, channel
<1>8. /\ dev'.at = op[t].lba + secs_done[t] + (m + 1) /\ dev'.left = SecsOp(t) - (m + 1)
      /\ dev'.state = (IF m + 1 < SecsOp(t) THEN "reading" ELSE "idle")
  <2>1. dev \in DevType
    BY <1>1 DEF TypeInv
  <2>2. dev'.at = dev.at + 1 /\ dev'.left = dev.left - 1 /\ dev'.state = next
    BY <1>5, <2>1 DEF DevType
  <2>3. dev.left = 1 <=> ~(m + 1 < SecsOp(t))
    BY <1>11
  <2>4. /\ dev.at + 1 = op[t].lba + secs_done[t] + (m + 1)
        /\ dev.left - 1 = SecsOp(t) - (m + 1)
    BY <1>11
  <2> QED
    BY <2>2, <2>3, <2>4
<1>9. CommandInv(t)'
  <2>1. m + 1 <= SecsOp(t) /\ m + 1 \in Nat
    BY <1>1, <1>3
  <2> QED
    BY <1>1, <1>2, <1>8, <2>1 DEF CommandInv, Quiet, channel
<1>10. ReadInv(t)'
  <2>1. /\ Moved(t)' = m + 1
        /\ Len(buf'[t]) = secs_done[t] + (m + 1)
    <3>1. secs_done[t] + m + 1 = secs_done[t] + (m + 1)
      BY <1>11
    <3>2. pc'[t] # "select" /\ moved'[t] = m + 1
      BY <1>1
    <3> QED
      BY <1>6, <3>1, <3>2 DEF Moved
  <2>2. ASSUME NEW i \in 1..Len(buf'[t]) PROVE buf'[t][i] = disk[op[t].lba + i - 1]
    <3>1. CASE i \in 1..Len(buf[t])
      BY <1>2, <1>3, <1>4, <1>6, <3>1
    <3>2. CASE i = Len(buf[t]) + 1
      <4>1. buf'[t][i] = disk[dev.at]
        BY <1>3, <1>4, <1>6, <3>2
      <4>2. dev.at = op[t].lba + i - 1
        <5>1. i = secs_done[t] + m + 1
          BY <1>2, <3>2
        <5>2. op[t].lba + (secs_done[t] + m + 1) - 1 = op[t].lba + secs_done[t] + m
          BY <1>11
        <5> QED
          BY <1>11, <5>1, <5>2
      <4> QED
        BY <4>1, <4>2
    <3> QED
      BY <1>2, <1>3, <1>6, <3>1, <3>2
  <2>3. pc'[t] = "move" => dev'.state = "reading"
    BY <1>1, <1>8
  <2>4. pc'[t] \in {"move", "next"}
    BY <1>1
  <2> QED
    BY <1>1, <1>2, <1>8, <2>1, <2>2, <2>3, <2>4 DEF ReadInv, channel
<1> QED
  BY <1>0, <1>1, <1>6, <1>7, <1>9, <1>10, HolderStep
     DEF HeldInv, Inside, IInv, channel

LEMMA WriteKeeps == ASSUME IInv, NEW t \in Thread, write2sector(t) PROVE IInv'
<1> DEFINE m == moved[t]
<1>0. At(t, "move") /\ MoveOn(t) /\ op[t].kind = "write" /\ dev.state = "drq"
  BY DEF write2sector
<1>1. /\ HeldInv(t) /\ CommandInv(t) /\ TypeInv /\ pc[t] = "move" /\ ~irq
      /\ moved'[t] = m + 1 /\ m < SecsOp(t) /\ SecsOp(t) <= PER_CMD
      /\ SecsOp(t) \in Nat /\ SecsOp(t)' = SecsOp(t)
      /\ pc'[t] = (IF m + 1 < SecsOp(t) THEN "move" ELSE "wait")
      /\ \A u \in Thread : u # t => pc'[u] = pc[u]
      /\ moved' \in [Thread -> 0..PER_CMD]
      /\ pc' \in [Thread -> {"out", "lock"} \cup Inside]
      /\ UNCHANGED <<op, secs_done, channel, irq, disk, orig, ops>>
  BY <1>0, MoveFacts
<1>2. /\ op[t].sec_cnt \in Nat /\ secs_done[t] \in Nat /\ m \in Nat
      /\ secs_done[t] + SecsOp(t) <= op[t].sec_cnt
      /\ secs_done[t] < op[t].sec_cnt /\ op[t].sec_cnt <= MAX_SECS
  <2>1. secs_done[t] < op[t].sec_cnt
    BY <1>1 DEF CommandInv
  <2> QED
    BY <1>1, <2>1, ThreadTypes, SecsOpRange, IdeAssumption
<1>3. /\ dev' = [dev EXCEPT !.latch = <<t, secs_done[t] + m + 1>>, !.state = "storing"]
      /\ buf' = buf
  BY DEF write2sector
<1>4. <<t, secs_done[t] + m + 1>> \in Data
  <2>1. secs_done[t] + m + 1 \in 0..MAX_SECS
    BY <1>1, <1>2, IdeAssumption
  <2> QED
    BY <2>1 DEF Data
<1>5. TypeInv'
  <2>1. dev' \in DevType
    BY <1>1, <1>3, <1>4 DEF DevType, TypeInv
  <2> QED
    BY <1>1, <1>3, <2>1 DEF TypeInv, channel
<1>6. /\ dev'.at = dev.at /\ dev'.left = dev.left /\ dev'.state = "storing"
      /\ dev'.latch = <<t, secs_done[t] + (m + 1)>> /\ dev'.intrq = dev.intrq
  <2>1. dev \in DevType
    BY <1>1 DEF TypeInv
  <2>2. secs_done[t] + m + 1 = secs_done[t] + (m + 1)
    BY <1>2
  <2> QED
    BY <1>3, <2>1, <2>2 DEF DevType
<1>7. m + 1 <= SecsOp(t) /\ m + 1 \in Nat /\ m + 1 > 0 /\ m + 1 # 0
  BY <1>1, <1>2
<1>8. CommandInv(t)'
  BY <1>1, <1>6, <1>7 DEF CommandInv, channel
<1>9. WriteInv(t)'
  <2>1. WriteInv(t) /\ Moved(t)' = m + 1 /\ Moved(t) = m /\ pc'[t] \in {"move", "wait"}
    BY <1>0, <1>1 DEF HeldInv, Moved
  <2>2. Stored(t) = secs_done[t] + m /\ Stored(t)' = secs_done[t] + (m + 1) - 1
    BY <1>0, <1>1, <1>6, <2>1 DEF Stored
  <2>3. Stored(t)' = Stored(t)
    BY <1>2, <2>2
  <2>4. pc'[t] = "wait" => moved'[t] = SecsOp(t)
    BY <1>1, <1>2, <1>7
  <2>5. expecting_intr => disk_done = 0 /\ ~dev.intrq
    BY <1>0, <1>1, <1>2, <2>1 DEF WriteInv
  <2>6. ~expecting_intr => disk_done = 1
    BY <1>0, <1>1, <1>2, <2>1 DEF WriteInv
  <2>7. /\ dev.at = op[t].lba + Stored(t) /\ dev.left = PER_CMD - (Stored(t) - secs_done[t])
        /\ disk = [l \in LBA |-> IF op[t].lba <= l /\ l < op[t].lba + Stored(t)
                                 THEN <<t, l - op[t].lba + 1>> ELSE orig[l]]
    BY <1>1, <2>1 DEF WriteInv
  <2> QED
    BY <1>1, <1>6, <1>7, <2>1, <2>3, <2>4, <2>5, <2>6, <2>7 DEF WriteInv, channel
<1> QED
  BY <1>0, <1>1, <1>3, <1>5, <1>8, <1>9, HolderStep
     DEF HeldInv, Inside, IInv, CallInv, channel

\* The end of a command: the lock is released with the call's last one.
LEMMA NextKeeps == ASSUME IInv, NEW t \in Thread, ide_next(t) PROVE IInv'
<1> USE DEF At, Goto
<1> DEFINE done == secs_done[t] + SecsOp(t)
<1>1. HeldInv(t) /\ CommandInv(t) /\ pc[t] = "next" /\ Quiet /\ moved[t] = SecsOp(t) /\ holder = t
  BY DriverHolds DEF ide_next, Inside, CommandInv
<1>2. TypeInv /\ op[t].kind \in {"read", "write"} /\ secs_done[t] < op[t].sec_cnt
  BY <1>1, ThreadTypes DEF IInv, CommandInv
<1>3. /\ secs_done[t] \in Nat /\ SecsOp(t) \in Nat /\ done \in 0..MAX_SECS /\ done \in Nat
      /\ done < op[t].sec_cnt => SecsOp(t) = PER_CMD
  BY <1>2, SecsOpRange, ThreadTypes, IdeAssumption
<1>4. /\ secs_done' = [secs_done EXCEPT ![t] = done]
      /\ pc' = [pc EXCEPT ![t] = IF done < op[t].sec_cnt THEN "select" ELSE "out"]
      /\ holder' = IF done < op[t].sec_cnt THEN holder ELSE None
      /\ UNCHANGED <<op, moved, buf, expecting_intr, disk_done, dev, irq, disk, orig, ops>>
  BY DEF ide_next
<1> HIDE DEF done
<1>5. TypeInv'
  <2>1. pc' \in [Thread -> {"out", "lock"} \cup Inside] /\ secs_done' \in [Thread -> 0..MAX_SECS]
    BY <1>2, <1>3, <1>4 DEF TypeInv, Inside
  <2> QED
    BY <1>2, <1>4, <2>1 DEF TypeInv
<1>6. /\ secs_done'[t] = done /\ pc'[t] = (IF done < op[t].sec_cnt THEN "select" ELSE "out")
      /\ \A u \in Thread : u # t => pc'[u] = pc[u] /\ secs_done'[u] = secs_done[u] /\ holder # u
      /\ Quiet'
  BY <1>1, <1>2, <1>4 DEF TypeInv, Quiet
<1>7. CallInv'
  BY <1>1, <1>4, <1>6, IdeAssumption DEF IInv, CallInv, Inside
<1>8. ASSUME holder' = t PROVE HeldInv(t)'
  <2>1. done < op[t].sec_cnt /\ pc'[t] = "select" /\ SecsOp(t) = PER_CMD
    BY <1>3, <1>4, <1>6, <1>8, IdeAssumption
  <2>2. done % PER_CMD = 0
    BY <1>1, <1>3, <2>1, ModLemma DEF CommandInv, done
  <2>3. CommandInv(t)'
    BY <1>4, <1>6, <2>1, <2>2 DEF CommandInv
  <2>4. Moved(t)' = 0 /\ Moved(t) = SecsOp(t) /\ secs_done'[t] + 0 = secs_done[t] + SecsOp(t)
    BY <1>1, <1>3, <1>6, <2>1 DEF Moved, done
  <2>5. op[t].kind = "read" => ReadInv(t)'
    BY <1>1, <1>4, <2>1, <2>4 DEF HeldInv, ReadInv
  <2>6. ASSUME op[t].kind = "write" PROVE WriteInv(t)'
    <3>1. WriteInv(t) /\ Stored(t)' = Stored(t)
      BY <1>1, <1>4, <2>4, <2>6 DEF HeldInv, Stored, Quiet
    <3> QED
      BY <1>4, <2>1, <3>1 DEF WriteInv
  <2> QED
    BY <1>4, <2>3, <2>5, <2>6 DEF HeldInv
<1>9. \A u \in Thread : holder' = u => u = t
  BY <1>1, <1>4, IdeAssumption
<1> QED
  BY <1>5, <1>6, <1>7, <1>8, <1>9 DEF IInv

\* The handler: the interrupt of the holder's command is the only one expected.
LEMMA HandlerKeeps == ASSUME IInv, intr_hd_handler PROVE IInv'
<1>1. TypeInv /\ CallInv /\ irq
  BY DEF IInv, intr_hd_handler
<1>2. PICK t \in Thread : holder = t
  BY <1>1 DEF IInv, Quiet, TypeInv
<1>3. HeldInv(t) /\ CommandInv(t) /\ pc[t] \in Inside /\ op[t].kind \in {"read", "write"}
  BY <1>1, <1>2, ThreadTypes DEF IInv, HeldInv, CallInv
<1>4. /\ irq' = FALSE
      /\ UNCHANGED <<pc, op, secs_done, moved, buf, holder, disk, orig, ops>>
  BY DEF intr_hd_handler
<1>5. \/ /\ expecting_intr /\ expecting_intr' = FALSE /\ disk_done' = disk_done + 1
         /\ dev' = [dev EXCEPT !.intrq = FALSE]
      \/ ~expecting_intr /\ UNCHANGED <<expecting_intr, disk_done, dev>>
  BY DEF intr_hd_handler, StillExpected
<1>6. pc[t] \in {"wait", "move"}
  BY <1>1, <1>3 DEF HeldInv, CommandInv, ReadInv, WriteInv, Inside, Quiet
<1>7. expecting_intr => disk_done = 0
  BY <1>1, <1>3, <1>6 DEF HeldInv, ReadInv, WriteInv
<1>8. /\ dev' \in DevType
      /\ dev'.at = dev.at /\ dev'.left = dev.left /\ dev'.state = dev.state
      /\ dev'.latch = dev.latch /\ dev'.lba = dev.lba /\ dev'.cnt = dev.cnt
  BY <1>1, <1>5 DEF TypeInv, DevType
<1>9. disk_done' \in 0..1 /\ expecting_intr' \in BOOLEAN /\ irq' \in BOOLEAN
  <2>1. disk_done' \in 0..1
    BY <1>1, <1>5, <1>7 DEF TypeInv
  <2>2. expecting_intr' \in BOOLEAN
    BY <1>1, <1>5 DEF TypeInv
  <2> QED
    BY <1>4, <2>1, <2>2
<1>10. TypeInv'
  BY <1>1, <1>4, <1>8, <1>9 DEF TypeInv
<1>11. CallInv'
  BY <1>1, <1>4 DEF CallInv
<1>12. CommandInv(t)'
  BY <1>3, <1>4, <1>6, <1>8 DEF CommandInv, SecsOp
<1>13. ASSUME op[t].kind = "read" PROVE ReadInv(t)'
  <2>1. ReadInv(t) /\ Moved(t)' = Moved(t) /\ SecsOp(t)' = SecsOp(t)
    BY <1>3, <1>4, <1>13 DEF HeldInv, Moved, SecsOp
  <2>2. pc[t] = "wait" => ~expecting_intr' /\ disk_done' = 1 /\ dev.state = "drq"
    BY <1>1, <1>4, <1>5, <2>1 DEF ReadInv
  <2>3. pc[t] = "move" => ~expecting_intr' /\ disk_done' = 0
    BY <1>5, <2>1 DEF ReadInv
  <2> QED
    BY <1>4, <1>6, <1>8, <2>1, <2>2, <2>3 DEF ReadInv
<1>14. ASSUME op[t].kind = "write" PROVE WriteInv(t)'
  <2>1. WriteInv(t) /\ Stored(t)' = Stored(t) /\ SecsOp(t)' = SecsOp(t)
    BY <1>3, <1>4, <1>8, <1>14 DEF HeldInv, Moved, SecsOp, Stored
  <2>2. moved[t] # 0 /\ moved[t] > 0 /\ dev.state # "storing"
    BY <1>1, <1>6, <2>1, ThreadTypes DEF WriteInv
  <2>3. ~expecting_intr' /\ disk_done' = 1
    BY <1>5, <1>6, <1>7, <2>1 DEF WriteInv
  <2> QED
    BY <1>4, <1>6, <1>8, <2>1, <2>2, <2>3 DEF WriteInv
<1>15. HeldInv(t)' /\ holder' = t /\ holder' # None
  BY <1>2, <1>4, <1>12, <1>13, <1>14, IdeAssumption DEF HeldInv
<1> QED
  BY <1>10, <1>11, <1>15 DEF IInv

\* A device that is busy works for a thread that holds the lock.
LEMMA BusyHeld ==
    ASSUME IInv, dev.state \in {"reading", "accepting", "storing"}
    PROVE  \E t \in Thread :
              /\ holder = t /\ HeldInv(t) /\ CommandInv(t) /\ holder # None
              /\ dev.state = "reading" => op[t].kind = "read" /\ ReadInv(t)
                                          /\ pc[t] \in {"wait", "move"}
              /\ dev.state = "accepting" => op[t].kind = "write" /\ WriteInv(t)
                                            /\ pc[t] = "busy_wait"
              /\ dev.state = "storing" => op[t].kind = "write" /\ WriteInv(t)
                                          /\ pc[t] \in {"wait", "move"}
<1>1. TypeInv
  BY DEF IInv
<1>2. PICK t \in Thread : holder = t /\ holder # None
  BY <1>1, IdeAssumption DEF IInv, TypeInv, Quiet
<1>3. HeldInv(t) /\ CommandInv(t) /\ pc[t] \in Inside
  BY <1>2 DEF IInv, CallInv, HeldInv
<1>4. pc[t] \in {"wait", "busy_wait", "move"}
  BY <1>3 DEF CommandInv, Quiet, Inside
<1>5. op[t].kind \in {"read", "write"}
  BY <1>1, ThreadTypes
<1>6. CASE op[t].kind = "read"
  BY <1>2, <1>3, <1>4, <1>6 DEF HeldInv, ReadInv
<1>7. CASE op[t].kind = "write"
  BY <1>2, <1>3, <1>4, <1>7 DEF HeldInv, WriteInv
<1> QED
  BY <1>5, <1>6, <1>7

\* What has to be shown of a step of the device
LEMMA DeviceStep ==
    ASSUME IInv, NEW t \in Thread, holder = t,
           TypeInv', HeldInv(t)',
           UNCHANGED <<pc, op, secs_done, moved, buf, channel, orig, ops>>
    PROVE  IInv'
<1>1. CallInv' /\ holder' = t /\ holder' # None
  BY IdeAssumption DEF IInv, CallInv, channel
<1> QED
  BY <1>1 DEF IInv

LEMMA DeviceReadsKeeps == ASSUME IInv, DeviceReads PROVE IInv'
<1>1. PICK t \in Thread : /\ holder = t /\ CommandInv(t) /\ op[t].kind = "read" /\ ReadInv(t)
                          /\ pc[t] \in {"wait", "move"}
  BY BusyHeld DEF DeviceReads
<1>2. TypeInv /\ ~irq
  BY <1>1 DEF IInv, ReadInv, DeviceReads
<1>3. /\ dev' = [dev EXCEPT !.state = "drq", !.intrq = TRUE]
      /\ irq' = (irq \/ ~dev.intrq)
      /\ UNCHANGED <<pc, op, secs_done, moved, buf, channel, disk, orig, ops>>
  BY DEF DeviceReads
<1>4. /\ dev' \in DevType
      /\ dev'.at = dev.at /\ dev'.left = dev.left /\ dev'.state = "drq"
      /\ dev'.lba = dev.lba /\ dev'.cnt = dev.cnt
  BY <1>2, <1>3 DEF TypeInv, DevType
<1>5. TypeInv'
  <2>1. irq' \in BOOLEAN
    BY <1>3
  <2> QED
    BY <1>2, <1>3, <1>4, <2>1 DEF TypeInv, channel
<1>6. CommandInv(t)'
  BY <1>1, <1>3, <1>4 DEF CommandInv, SecsOp, channel
<1>7. ReadInv(t)'
  <2>1. pc[t] = "wait" => irq' /\ expecting_intr /\ disk_done = 0
    BY <1>1, <1>3 DEF ReadInv, DeviceReads
  <2>2. Moved(t)' = Moved(t) /\ SecsOp(t)' = SecsOp(t)
    BY <1>3 DEF Moved, SecsOp
  <2> QED
    BY <1>1, <1>3, <1>4, <2>1, <2>2 DEF ReadInv, channel
<1> QED
  BY <1>1, <1>3, <1>5, <1>6, <1>7, DeviceStep DEF HeldInv

LEMMA DeviceAcceptsKeeps == ASSUME IInv, DeviceAccepts PROVE IInv'
<1>1. PICK t \in Thread : /\ holder = t /\ CommandInv(t) /\ op[t].kind = "write" /\ WriteInv(t)
                          /\ pc[t] = "busy_wait"
  BY BusyHeld DEF DeviceAccepts
<1>2. TypeInv
  BY DEF IInv
<1>3. /\ dev' = [dev EXCEPT !.state = "drq"]
      /\ UNCHANGED <<pc, op, secs_done, moved, buf, channel, irq, disk, orig, ops>>
  BY DEF DeviceAccepts
<1>4. /\ dev' \in DevType
      /\ dev'.at = dev.at /\ dev'.left = dev.left /\ dev'.state = "drq"
      /\ dev'.lba = dev.lba /\ dev'.cnt = dev.cnt /\ dev'.intrq = dev.intrq
  BY <1>2, <1>3 DEF TypeInv, DevType
<1>5. TypeInv'
  BY <1>2, <1>3, <1>4 DEF TypeInv, channel
<1>6. CommandInv(t)'
  BY <1>1, <1>3, <1>4 DEF CommandInv, SecsOp, channel
<1>7. WriteInv(t)'
  <2>1. Stored(t)' = Stored(t) /\ SecsOp(t)' = SecsOp(t)
    BY <1>3, <1>4 DEF Moved, SecsOp, Stored, DeviceAccepts
  <2> QED
    BY <1>1, <1>3, <1>4, <2>1 DEF WriteInv, channel
<1> QED
  BY <1>1, <1>3, <1>5, <1>6, <1>7, DeviceStep DEF HeldInv

\* The arithmetic of storing the m-th of n sectors of a command
LEMMA StoreArith ==
    ASSUME NEW t \in Thread, NEW sd, NEW m, NEW lba, sd = secs_done[t], m = moved[t], lba = op[t].lba,
           sd \in Nat, m \in Nat, SecsOp(t) \in Nat, lba \in Nat, op[t].sec_cnt \in Nat,
           m > 0, m <= SecsOp(t), SecsOp(t) <= PER_CMD,
           sd + SecsOp(t) <= op[t].sec_cnt, lba + op[t].sec_cnt <= LBA_CNT,
           dev.at = lba + (sd + m - 1), dev.left = PER_CMD - (sd + m - 1 - sd)
    PROVE  /\ dev.at \in LBA /\ dev.at + 1 \in Nat
           /\ dev.at + 1 = lba + (sd + m) /\ dev.at - lba + 1 = sd + m
           /\ dev.left - 1 \in 0..PER_CMD /\ dev.left - 1 = PER_CMD - (sd + m - sd)
           /\ dev.left = 1 => m = PER_CMD
           /\ \A l \in LBA : l # dev.at => (l < lba + (sd + m) <=> l < lba + (sd + m - 1))
           /\ lba <= dev.at /\ dev.at < lba + (sd + m)
<1> USE IdeAssumption
<1>1. /\ dev.at \in Nat /\ dev.at < LBA_CNT
      /\ dev.at + 1 = lba + (sd + m) /\ dev.at - lba + 1 = sd + m
  OBVIOUS
<1>2. dev.left = PER_CMD - m + 1
  OBVIOUS
<1>3. /\ dev.left - 1 \in 0..PER_CMD /\ dev.left - 1 = PER_CMD - (sd + m - sd)
      /\ dev.left = 1 => m = PER_CMD
  BY <1>2
<1>4. ASSUME NEW l \in Int, l # dev.at PROVE l < lba + (sd + m) <=> l < lba + (sd + m - 1)
  <2>1. lba + (sd + m) = dev.at + 1 /\ lba + (sd + m - 1) = dev.at
    BY <1>1
  <2>2. l < dev.at + 1 <=> l < dev.at
    BY <1>1, <1>4
  <2> QED
    BY <2>1, <2>2
<1> QED
  BY <1>1, <1>3, <1>4 DEF LBA

LEMMA DeviceStoresKeeps == ASSUME IInv, DeviceStores PROVE IInv'
<1> DEFINE next == IF dev.left = 1 THEN "idle" ELSE "drq"
<1>1. PICK t \in Thread : /\ holder = t /\ CommandInv(t) /\ op[t].kind = "write" /\ WriteInv(t)
                          /\ pc[t] \in {"wait", "move"} /\ dev.state = "storing"
  BY BusyHeld DEF DeviceStores
<1> DEFINE st == secs_done[t] + moved[t] - 1
           lba == op[t].lba
<1>2. /\ TypeInv /\ ~irq /\ dev.latch = <<t, secs_done[t] + moved[t]>> /\ moved[t] > 0
      /\ secs_done[t] < op[t].sec_cnt /\ lba + op[t].sec_cnt <= LBA_CNT
      /\ moved[t] <= SecsOp(t)
  <2>1. moved[t] <= SecsOp(t)
    BY <1>1, ThreadTypes, SecsOpRange, IdeAssumption DEF CommandInv, WriteInv, IInv
  <2> QED
    BY <1>1, <2>1 DEF IInv, WriteInv, CommandInv, CallInv
<1>3. /\ lba \in Nat /\ op[t].sec_cnt \in Nat /\ secs_done[t] \in Nat /\ moved[t] \in Nat
      /\ SecsOp(t) \in Nat /\ SecsOp(t) <= PER_CMD /\ PER_CMD \in Nat /\ LBA_CNT \in Nat
      /\ secs_done[t] + SecsOp(t) <= op[t].sec_cnt
  BY <1>2, ThreadTypes, SecsOpRange, IdeAssumption
<1>4. /\ Stored(t) = st /\ dev.at = lba + st /\ dev.left = PER_CMD - (st - secs_done[t])
      /\ disk = [l \in LBA |-> IF lba <= l /\ l < lba + st THEN <<t, l - lba + 1>> ELSE orig[l]]
  <2>1. Stored(t) = st
    BY <1>1 DEF Stored, Moved
  <2> QED
    BY <1>1, <2>1 DEF WriteInv
<1> DEFINE end == secs_done[t] + moved[t]
<1>5. /\ dev.at \in LBA /\ dev.at + 1 \in Nat /\ dev.at + 1 = lba + end
      /\ dev.at - lba + 1 = end
      /\ dev.left - 1 = PER_CMD - (end - secs_done[t]) /\ dev.left - 1 \in 0..PER_CMD
      /\ dev.left = 1 => moved[t] = PER_CMD
      /\ \A l \in LBA : l # dev.at => (l < lba + end <=> l < lba + st)
      /\ lba <= dev.at /\ dev.at < lba + end
  BY <1>2, <1>3, <1>4, StoreArith
<1>6. /\ disk' = [disk EXCEPT ![dev.at] = dev.latch]
      /\ dev' = [dev EXCEPT !.at = dev.at + 1, !.left = dev.left - 1, !.intrq = TRUE,
                            !.state = next]
      /\ irq' = (irq \/ ~dev.intrq)
      /\ UNCHANGED <<pc, op, secs_done, moved, buf, channel, orig, ops>>
  BY DEF DeviceStores
<1>7. /\ dev' \in DevType
      /\ dev'.at = dev.at + 1 /\ dev'.left = dev.left - 1 /\ dev'.state = next
      /\ dev'.lba = dev.lba /\ dev'.cnt = dev.cnt
  <2>1. dev \in DevType
    BY <1>2 DEF TypeInv
  <2> QED
    BY <1>5, <1>6, <2>1 DEF DevType
<1>8. TypeInv'
  <2>1. irq' \in BOOLEAN
    BY <1>6
  <2>2. dev.latch \in Data /\ disk' \in [LBA -> Data]
    BY <1>2, <1>5, <1>6 DEF TypeInv, DevType
  <2> QED
    BY <1>2, <1>6, <1>7, <2>1, <2>2 DEF TypeInv, channel
<1>9. CommandInv(t)'
  BY <1>1, <1>6, <1>7 DEF CommandInv, SecsOp, channel
<1>10. disk' = [l \in LBA |-> IF lba <= l /\ l < lba + end THEN <<t, l - lba + 1>>
                              ELSE orig[l]]
  <2>1. dev.latch = <<t, dev.at - lba + 1>>
    BY <1>2, <1>5
  <2> HIDE DEF st, lba, end
  <2> QED
    BY <1>4, <1>5, <1>6, <2>1
<1>11. WriteInv(t)'
  <2>1. Stored(t)' = end /\ SecsOp(t)' = SecsOp(t)
    BY <1>1, <1>6, <1>7 DEF Moved, SecsOp, Stored
  <2>2. expecting_intr => irq' /\ disk_done = 0
    BY <1>1, <1>2, <1>6 DEF WriteInv
  <2>3. ~expecting_intr => disk_done = 1
    BY <1>1 DEF WriteInv
  <2>4. moved[t] # 0
    BY <1>2, <1>3
  <2>5. (pc[t] = "wait" => moved[t] = SecsOp(t)) /\ (dev'.state = "idle" => moved[t] = PER_CMD)
    BY <1>1, <1>5, <1>7 DEF WriteInv
  <2>6. dev'.at = op'[t].lba + Stored(t)' /\ dev'.left = PER_CMD - (Stored(t)' - secs_done'[t])
    BY <1>5, <1>6, <1>7, <2>1
  <2>7. disk' = [l \in LBA |-> IF op'[t].lba <= l /\ l < op'[t].lba + Stored(t)'
                               THEN <<t, l - op'[t].lba + 1>> ELSE orig'[l]]
    BY <1>6, <1>10, <2>1
  <2> HIDE DEF st, end
  <2>8. moved'[t] > 0 /\ moved'[t] # 0 /\ dev'.state \in {"drq", "idle"}
        /\ pc'[t] \in {"wait", "move"}
    BY <1>1, <1>2, <1>6, <1>7, <2>4
  <2>9. \/ expecting_intr' /\ disk_done' = 0 /\ irq'
        \/ ~expecting_intr' /\ disk_done' = 1
    BY <1>6, <2>2, <2>3 DEF channel
  <2> QED
    BY <1>6, <2>1, <2>8, <2>9, <2>5, <2>6, <2>7 DEF WriteInv
<1> QED
  BY <1>1, <1>6, <1>8, <1>9, <1>11, DeviceStep DEF HeldInv

----------------------------------------------------------------------------
(* The theorems.  DATA_WAITS is what the emulator's data port does, and    *)
(* what the bound of the model-checked run sets: without it a write could  *)
(* release the lock while its last sector is still being stored.           *)

LEMMA NextIInv == ASSUME DATA_WAITS, IInv, [Next]_vars PROVE IInv'
<1>1. ASSUME NEW t \in Thread, ide_call(t) PROVE IInv'
  BY <1>1, CallKeeps
<1>2. ASSUME NEW t \in Thread, Driver(t) PROVE IInv'
  BY <1>2, LockKeeps, SelectKeeps, ExpectKeeps, CommandKeeps, DownKeeps, BusyWaitKeeps,
     ReadKeeps, WriteKeeps, NextKeeps DEF Driver
<1>3. CASE intr_hd_handler
  BY <1>3, HandlerKeeps
<1>4. CASE Device
  BY <1>4, DeviceReadsKeeps, DeviceAcceptsKeeps, DeviceStoresKeeps DEF Device
<1>5. CASE UNCHANGED vars
  BY <1>5 DEF IInv, TypeInv, CallInv, HeldInv, CommandInv, ReadInv, WriteInv, Quiet, SecsOp,
     Moved, Stored, vars, channel
<1> QED
  BY <1>1, <1>2, <1>3, <1>4, <1>5 DEF Next

LEMMA SpecIInv == ASSUME DATA_WAITS PROVE Spec => []IInv
<1>1. IInv /\ [Next]_vars => IInv'
  BY NextIInv
<1> QED
  BY <1>1, InitIInv, PTL DEF Spec

\* Every variable keeps its type, and no call gets more sectors than it asked for.
THEOREM IdeTypeCorrect == ASSUME DATA_WAITS PROVE Spec => []TypeOK
<1>1. IInv => TypeOK
  <2> SUFFICES ASSUME IInv PROVE TypeOK
    OBVIOUS
  <2>1. TypeInv /\ CallInv
    BY DEF IInv
  <2>2. dev.state \in {"idle", "reading", "accepting", "storing", "drq"}
        /\ dev.left \in 0..PER_CMD /\ dev.intrq \in BOOLEAN
    BY <2>1 DEF TypeInv, DevType
  <2> QED
    BY <2>1, <2>2 DEF TypeInv, CallInv, TypeOK, Inside
<1> QED
  BY <1>1, SpecIInv, PTL

\* ide_read and ide_write leave no unit in disk_done, no expected and no pending
\* interrupt, and an idle device to whoever takes the lock next, for every
\* sequence of calls of any threads and every length of a transfer.
THEOREM ChannelLeftClean == ASSUME DATA_WAITS PROVE Spec => []NothingLeft
<1>1. IInv => NothingLeft
  BY DEF IInv, NothingLeft, Quiet
<1> QED
  BY <1>1, SpecIInv, PTL

\* A read delivers the sectors it was asked for, in order, and changes none; a
\* write changes exactly its own sectors.
THEOREM TransferCorrect == ASSUME DATA_WAITS PROVE Spec => []Transferred
<1>1. IInv => Transferred
  <2> SUFFICES ASSUME IInv, NEW t \in Thread, holder = t, pc[t] = "next",
                      secs_done[t] + SecsOp(t) = op[t].sec_cnt
               PROVE  LET mine == op[t].lba..(op[t].lba + op[t].sec_cnt - 1)
                      IN  IF op[t].kind = "read"
                          THEN /\ disk = orig
                               /\ buf[t] = [i \in 1..op[t].sec_cnt |-> disk[op[t].lba + i - 1]]
                          ELSE disk = [l \in LBA |-> IF l \in mine THEN <<t, l - op[t].lba + 1>>
                                                     ELSE orig[l]]
    BY DEF Transferred
  <2>1. TypeInv /\ HeldInv(t) /\ moved[t] = SecsOp(t) /\ Quiet
    BY DEF IInv, HeldInv, CommandInv
  <2>2. /\ op[t].lba \in Nat /\ op[t].sec_cnt \in Nat /\ op[t].kind \in {"read", "write"}
        /\ buf[t] \in Seq(Data) /\ Moved(t) = SecsOp(t)
    BY <2>1, ThreadTypes DEF Moved
  <2>3. ASSUME op[t].kind = "read"
        PROVE  disk = orig /\ buf[t] = [i \in 1..op[t].sec_cnt |-> disk[op[t].lba + i - 1]]
    <3>1. /\ disk = orig /\ Len(buf[t]) = op[t].sec_cnt
          /\ \A i \in 1..Len(buf[t]) : buf[t][i] = disk[op[t].lba + i - 1]
      BY <2>1, <2>2, <2>3 DEF HeldInv, ReadInv
    <3> QED
      BY <2>2, <3>1
  <2>4. ASSUME op[t].kind = "write"
        PROVE  disk = [l \in LBA |-> IF l \in op[t].lba..(op[t].lba + op[t].sec_cnt - 1)
                                     THEN <<t, l - op[t].lba + 1>> ELSE orig[l]]
    <3>1. Stored(t) = op[t].sec_cnt /\ WriteInv(t)
      BY <2>1, <2>2, <2>4 DEF HeldInv, Stored, Quiet
    <3>2. \A l \in LBA : l \in op[t].lba..(op[t].lba + op[t].sec_cnt - 1)
                         <=> op[t].lba <= l /\ l < op[t].lba + op[t].sec_cnt
      BY <2>2 DEF LBA
    <3> QED
      BY <3>1, <3>2 DEF WriteInv
  <2> QED
    BY <2>2, <2>3, <2>4
<1> QED
  BY <1>1, SpecIInv, PTL

\* busy_wait never returns false, so ide_read and ide_write never reach their
\* PANIC: whenever the driver looks, the device has the data or takes it.
THEOREM NeverPanics == ASSUME DATA_WAITS PROVE Spec => [](\A t \in Thread : pc[t] # "panic")
<1>1. IInv => \A t \in Thread : pc[t] # "panic"
  BY DEF IInv, TypeInv, Inside
<1> QED
  BY <1>1, SpecIInv, PTL
=============================================================================
