-------------------------------- MODULE Ide --------------------------------
(***************************************************************************)
(* device/ide.c: ide_read and ide_write of several threads on one channel, *)
(* the handshake of a command with its interrupt (expecting_intr and       *)
(* disk_done), and the device as the driver uses it.                       *)
(*                                                                         *)
(* A thread in the driver runs with interrupts on, so an interrupt that is *)
(* pending is taken before its next step; the channel's lock is the one of *)
(* KThread, shown there to exclude.  The device is external: it follows    *)
(* the PIO protocol of the emulator the system is built for, whose data    *)
(* port makes the processor wait for a sector (DATA_WAITS), and ignores    *)
(* commands while it is busy.  It may be slow, but it does not fail.       *)
(***************************************************************************)
EXTENDS Integers, Sequences

CONSTANTS
    Thread,        \* threads that read and write
    LBA_CNT,       \* sectors of the disk
    PER_CMD,       \* most sectors of one command: 256, one more than a uint8_t holds
    MAX_SECS,      \* bound: sectors of one call
    MAX_OPS,       \* bound: calls
    DATA_WAITS,    \* does the last word of outsw wait until its sector is stored
    None

ASSUME IdeAssumption ==
    /\ None \notin Thread
    /\ LBA_CNT \in Nat \ {0} /\ PER_CMD \in Nat \ {0}
    /\ MAX_SECS \in 1..LBA_CNT /\ MAX_OPS \in Nat
    /\ DATA_WAITS \in BOOLEAN

VARIABLES
    pc, op, secs_done, moved,   \* per thread: place, call, sectors done, sectors of this command
    buf,                        \* per thread: what it has read
    holder,                     \* of the channel's lock
    expecting_intr, disk_done,  \* of struct ide_channel
    dev,                        \* registers and state of the device
    irq,                        \* the interrupt controller has an interrupt for the processor
    disk,                       \* the sectors
    orig,                       \* observer: disk when the lock was taken
    ops

channel == <<holder, expecting_intr, disk_done>>
vars == <<pc, op, secs_done, moved, buf, channel, dev, irq, disk, orig, ops>>

LBA == 0..(LBA_CNT - 1)
Call == [kind : {"read", "write"}, lba : LBA, sec_cnt : 1..MAX_SECS]
Data == (Thread \cup {None}) \X (0..MAX_SECS)   \* who wrote it, which of its sectors
Blank == <<None, 0>>

TypeOK ==
    /\ pc \in [Thread -> {"out", "lock", "select", "expect", "hlt", "wait", "busy_wait",
                          "move", "next", "panic"}]
    /\ \A t \in Thread : op[t] \in Call /\ secs_done[t] \in 0..MAX_SECS
                         /\ moved[t] \in 0..PER_CMD /\ Len(buf[t]) <= MAX_SECS
    /\ holder \in Thread \cup {None}
    /\ expecting_intr \in BOOLEAN /\ disk_done \in 0..1
    /\ dev.state \in {"idle", "reading", "accepting", "storing", "drq"}
    /\ dev.left \in 0..PER_CMD /\ dev.intrq \in BOOLEAN /\ irq \in BOOLEAN
    /\ disk \in [LBA -> Data] /\ ops \in 0..MAX_OPS

\* After ide_init
Init ==
    /\ pc = [t \in Thread |-> "out"]
    /\ op = [t \in Thread |-> [kind |-> "read", lba |-> 0, sec_cnt |-> 1]]
    /\ secs_done = [t \in Thread |-> 0] /\ moved = [t \in Thread |-> 0]
    /\ buf = [t \in Thread |-> <<>>]
    /\ holder = None /\ expecting_intr = FALSE /\ disk_done = 0
    /\ dev = [lba |-> 0, cnt |-> 0, at |-> 0, left |-> 0, state |-> "idle", latch |-> Blank,
              intrq |-> FALSE]
    /\ irq = FALSE /\ disk = [l \in LBA |-> Blank] /\ orig = disk /\ ops = 0

----------------------------------------------------------------------------
(* The driver.                                                             *)

At(t, here) == pc[t] = here /\ ~irq
Goto(t, there) == pc' = [pc EXCEPT ![t] = there]

\* Sectors of the next command, and a count as the uint8_t register holds it
SecsOp(t) == IF secs_done[t] + PER_CMD <= op[t].sec_cnt THEN PER_CMD
             ELSE op[t].sec_cnt - secs_done[t]
AsByte(n) == n % PER_CMD
Sectors(n) == IF n = 0 THEN PER_CMD ELSE n

\* ide_read and ide_write are called, with interrupts enabled
ide_call(t) ==
    /\ At(t, "out") /\ ops < MAX_OPS
    /\ \E c \in Call : c.lba + c.sec_cnt <= LBA_CNT /\ op' = [op EXCEPT ![t] = c]
    /\ buf' = [buf EXCEPT ![t] = <<>>] /\ secs_done' = [secs_done EXCEPT ![t] = 0]
    /\ ops' = ops + 1
    /\ Goto(t, "lock")
    /\ UNCHANGED <<moved, channel, dev, irq, disk, orig>>

\* lock_acquire and select_disk
ide_lock(t) ==
    /\ At(t, "lock") /\ holder = None
    /\ holder' = t /\ orig' = disk
    /\ Goto(t, "select")
    /\ UNCHANGED <<op, secs_done, moved, buf, expecting_intr, disk_done, dev, irq, disk, ops>>

FirstSectorFirst(t) == op[t].lba          \* mutant: sectors done are not added
FirstSector(t) == op[t].lba + secs_done[t]

\* select_sector; ide_write passes secs_done for the count, which is 0 in a byte
select_sector(t) ==
    /\ At(t, "select")
    /\ dev' = [dev EXCEPT !.lba = FirstSector(t),
                          !.cnt = AsByte(IF op[t].kind = "read" THEN SecsOp(t)
                                         ELSE secs_done[t])]
    /\ moved' = [moved EXCEPT ![t] = 0]
    /\ Goto(t, "expect")
    /\ UNCHANGED <<op, secs_done, buf, channel, irq, disk, orig, ops>>

\* cmd_out up to its hlt, which the timer ends
cmd_out_expect(t) ==
    /\ At(t, "expect")
    /\ expecting_intr' = TRUE
    /\ Goto(t, "hlt")
    /\ UNCHANGED <<op, secs_done, moved, buf, holder, disk_done, dev, irq, disk, orig, ops>>

AfterCommandRead(t) == "wait"            \* mutant: a write waits before it has sent the data
AfterCommand(t) == IF op[t].kind = "read" THEN "wait" ELSE "busy_wait"

\* The outb of cmd_out: the device clears its interrupt and begins
cmd_out(t) ==
    /\ At(t, "hlt")
    /\ dev' = IF dev.state \in {"reading", "accepting", "storing"} THEN dev
              ELSE [dev EXCEPT !.at = dev.lba, !.left = Sectors(dev.cnt), !.intrq = FALSE,
                               !.state = IF op[t].kind = "read" THEN "reading" ELSE "accepting"]
    /\ Goto(t, AfterCommand(t))
    /\ UNCHANGED <<op, secs_done, moved, buf, channel, irq, disk, orig, ops>>

\* sema_down(&disk_done); blocks until the handler has counted it up
sema_down(t) ==
    /\ At(t, "wait") /\ disk_done > 0
    /\ op[t].kind = "write" /\ DATA_WAITS => dev.state # "storing"
    /\ disk_done' = disk_done - 1
    /\ Goto(t, IF op[t].kind = "read" THEN "busy_wait" ELSE "next")
    /\ UNCHANGED <<op, secs_done, moved, buf, holder, expecting_intr, dev, irq, disk, orig, ops>>

\* busy_wait: sleeps while the device is busy, then reads the status, which
\* clears the interrupt of the device; without data to move the kernel panics
busy_wait(t) ==
    /\ At(t, "busy_wait") /\ dev.state \in {"idle", "drq"}
    /\ dev' = [dev EXCEPT !.intrq = FALSE]
    /\ Goto(t, IF dev.state = "drq" THEN "move" ELSE "panic")
    /\ UNCHANGED <<op, secs_done, moved, buf, channel, irq, disk, orig, ops>>

MoveOn(t) ==
    /\ moved' = [moved EXCEPT ![t] = @ + 1]
    /\ Goto(t, IF moved[t] + 1 < Sectors(AsByte(SecsOp(t))) THEN "move"
               ELSE IF op[t].kind = "read" THEN "next" ELSE "wait")
    /\ UNCHANGED <<op, secs_done, channel, irq, disk, orig, ops>>

\* One sector of read_from_sector's insw
read_from_sector(t) ==
    /\ At(t, "move") /\ op[t].kind = "read" /\ dev.state = "drq"
    /\ buf' = [buf EXCEPT ![t] = Append(@, disk[dev.at])]
    /\ dev' = [dev EXCEPT !.at = @ + 1, !.left = @ - 1,
                          !.state = IF dev.left = 1 THEN "idle" ELSE "reading"]
    /\ MoveOn(t)

\* One sector of write2sector's outsw
write2sector(t) ==
    /\ At(t, "move") /\ op[t].kind = "write" /\ dev.state = "drq"
    /\ dev' = [dev EXCEPT !.latch = <<t, secs_done[t] + moved[t] + 1>>, !.state = "storing"]
    /\ MoveOn(t)
    /\ UNCHANGED buf

\* The end of the loop, lock_release
ide_next(t) ==
    /\ At(t, "next")
    /\ LET done == secs_done[t] + SecsOp(t)
       IN  /\ secs_done' = [secs_done EXCEPT ![t] = done]
           /\ Goto(t, IF done < op[t].sec_cnt THEN "select" ELSE "out")
           /\ holder' = IF done < op[t].sec_cnt THEN holder ELSE None
    /\ UNCHANGED <<op, moved, buf, expecting_intr, disk_done, dev, irq, disk, orig, ops>>

intr_hd_handler_keeps(expected) == expected   \* mutant: the next interrupt counts again
StillExpected(expected) == FALSE

\* intr_hd_handler: an interrupt nobody expects is ignored, its status not read
intr_hd_handler ==
    /\ irq /\ irq' = FALSE
    /\ IF expecting_intr
       THEN /\ expecting_intr' = StillExpected(expecting_intr)
            /\ disk_done' = disk_done + 1
            /\ dev' = [dev EXCEPT !.intrq = FALSE]
       ELSE UNCHANGED <<expecting_intr, disk_done, dev>>
    /\ UNCHANGED <<pc, op, secs_done, moved, buf, holder, disk, orig, ops>>

----------------------------------------------------------------------------
(* The device.  Its interrupt reaches the processor when the line rises.   *)

DeviceReads ==
    /\ dev.state = "reading"
    /\ dev' = [dev EXCEPT !.state = "drq", !.intrq = TRUE]
    /\ irq' = (irq \/ ~dev.intrq)
    /\ UNCHANGED <<pc, op, secs_done, moved, buf, channel, disk, orig, ops>>

\* The first sector of a write is asked for without an interrupt
DeviceAccepts ==
    /\ dev.state = "accepting"
    /\ dev' = [dev EXCEPT !.state = "drq"]
    /\ UNCHANGED <<pc, op, secs_done, moved, buf, channel, irq, disk, orig, ops>>

DeviceStores ==
    /\ dev.state = "storing"
    /\ disk' = [disk EXCEPT ![dev.at] = dev.latch]
    /\ dev' = [dev EXCEPT !.at = @ + 1, !.left = @ - 1, !.intrq = TRUE,
                          !.state = IF dev.left = 1 THEN "idle" ELSE "drq"]
    /\ irq' = (irq \/ ~dev.intrq)
    /\ UNCHANGED <<pc, op, secs_done, moved, buf, channel, orig, ops>>

Driver(t) ==
    \/ ide_lock(t) \/ select_sector(t) \/ cmd_out_expect(t) \/ cmd_out(t) \/ sema_down(t)
    \/ busy_wait(t) \/ read_from_sector(t) \/ write2sector(t) \/ ide_next(t)

Device == DeviceReads \/ DeviceAccepts \/ DeviceStores

Next == (\E t \in Thread : ide_call(t) \/ Driver(t)) \/ intr_hd_handler \/ Device

\* A thread that can go on runs again, the processor takes its interrupts, the
\* device answers
Fairness ==
    /\ \A t \in Thread : WF_vars(Driver(t))
    /\ WF_vars(intr_hd_handler) /\ WF_vars(Device)

Spec == Init /\ [][Next]_vars /\ Fairness

----------------------------------------------------------------------------
(* Properties.                                                             *)

\* When a call is through, ide_read has filled the buffer with the sectors it
\* was asked for and changed nothing, ide_write has stored each of its sectors
\* at its own place and nowhere else, however many commands it took.
Transferred ==
    \A t \in Thread : holder = t /\ pc[t] = "next" /\ secs_done[t] + SecsOp(t) = op[t].sec_cnt =>
        LET mine == op[t].lba..(op[t].lba + op[t].sec_cnt - 1)
        IN  IF op[t].kind = "read"
            THEN disk = orig /\ buf[t] = [i \in 1..op[t].sec_cnt |-> disk[op[t].lba + i - 1]]
            ELSE disk = [l \in LBA |-> IF l \in mine THEN <<t, l - op[t].lba + 1>> ELSE orig[l]]

\* Whoever takes the lock finds no unit in disk_done, no expected interrupt, no
\* interrupt on its way and a device that takes a command: the interrupts of a
\* call for several sectors all fall into that call.
NothingLeft ==
    holder = None => /\ disk_done = 0 /\ ~expecting_intr /\ ~irq
                     /\ dev.state \in {"idle", "drq"}

\* No call waits for ever for an interrupt that has been and gone: the thread
\* that holds the channel gives it back.
Released == \A t \in Thread : holder = t ~> holder # t
=============================================================================
