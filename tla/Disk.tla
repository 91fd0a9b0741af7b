-------------------------------- MODULE Disk ---------------------------------
(***************************************************************************)
(* The disk driver, kernel/hardware/pio.c, and the device as the driver    *)
(* uses it.  Reads run with interrupts enabled: one process may begin a    *)
(* read while the reads of others are suspended, and the scheduler, whose  *)
(* queue is first in first out, lets any of them go on.  write() makes the *)
(* same task but for its type, which execute_task() does not look at.      *)
(*                                                                         *)
(* A clash, a task pushed while that of another read is queued or current, *)
(* ends a behaviour: from there on two loops work on one __current and one *)
(* device.  Without one, an activation that is past its push is the only   *)
(* one that uses them, so a step may use __current several times.          *)
(***************************************************************************)
EXTENDS Integers, Sequences, Functions

CONSTANTS
  Sectors,      (* sectors of the disk, as numbers                         *)
  MaxCount,     (* bound: sectors in one read                              *)
  MaxReads      (* bound: reads                                            *)

ASSUME DiskAssumption ==
  /\ Sectors \subseteq Nat /\ \A a, b \in Sectors : a .. b \subseteq Sectors
  /\ MaxCount \in Nat \ {0} /\ MaxReads \in Nat

Reads  == 1 .. MaxReads
NoTask == 0                     \* the null pointer
Empty  == -1                    \* a part of a buffer that is not filled yet

VARIABLES
  asked,        (* the arguments of each read, in order: its task          *)
  tasks,        (* __tasks, by the number of the read                      *)
  current,      (* __current                                               *)
  at,           (* where the activation of each read is                    *)
  count,        (* i of its loop: how many sectors it has taken            *)
  buffer,       (* what the buffer of each read holds                      *)
  registers,    (* of the device: sector and count                         *)
  next, left,   (* of the device: what it has still to deliver             *)
  ready,        (* status: not busy, and data is requested                 *)
  broken,       (* the device fails and never requests data again          *)
  clashed       (* a task was pushed while another was queued or current   *)

driver == <<tasks, current>>
device == <<registers, next, left, ready, broken>>
vars   == <<asked, driver, at, count, buffer, device, clashed>>

Labels == {"idle", "push", "take", "setup", "command", "next", "wait", "transfer", "returned"}

Requests == {q \in [lba : Sectors, count : 1 .. MaxCount] : q.lba + q.count - 1 \in Sectors}

Init ==
  /\ asked = <<>> /\ tasks = <<>> /\ current = NoTask
  /\ at = [r \in Reads |-> "idle"] /\ count = [r \in Reads |-> 0]
  /\ buffer = [r \in Reads |-> [i \in 0 .. MaxCount - 1 |-> Empty]]
  /\ registers = [lba |-> 0, count |-> 0] /\ next = 0 /\ left = 0
  /\ ready = FALSE /\ broken = FALSE
  /\ clashed = FALSE

-----------------------------------------------------------------------------
\* The activation of r goes from label l to label m.
Goes(r, l, m) ==
  /\ ~clashed /\ at[r] = l
  /\ at' = [at EXCEPT ![r] = m]
  /\ UNCHANGED asked

\* read(), up to its push: by a program, while any others are suspended
Begin(q) ==
  /\ ~clashed /\ Len(asked) < MaxReads
  /\ asked' = Append(asked, q)
  /\ at' = [at EXCEPT ![Len(asked) + 1] = "push"]
  /\ UNCHANGED <<driver, count, buffer, device, clashed>>

Clashes == tasks # <<>> \/ current # NoTask

Push(r) ==
  /\ Goes(r, "push", "take")
  /\ tasks' = Append(tasks, r)
  /\ clashed' = Clashes
  /\ UNCHANGED <<current, count, buffer, device>>

Take(r) ==
  /\ Goes(r, "take", "setup")
  /\ IF current = NoTask
     THEN current' = Head(tasks) /\ tasks' = Tail(tasks)
     ELSE UNCHANGED driver
  /\ UNCHANGED <<count, buffer, device, clashed>>

CountForLong(q) == q.count + 1  \* fault: one sector too many
CountFor(q) == q.count

Setup(r) ==
  /\ Goes(r, "setup", "command")
  /\ registers' = [lba |-> asked[current].lba, count |-> CountFor(asked[current])]
  /\ UNCHANGED <<driver, count, buffer, next, left, ready, broken, clashed>>

Command(r) ==
  /\ Goes(r, "command", "next")
  /\ next' = registers.lba /\ left' = registers.count /\ ready' = FALSE
  /\ UNCHANGED <<driver, count, buffer, registers, broken, clashed>>

MoreAtMost(n) == n <= asked[current].count      \* fault: one sector too many
More(n) == n < asked[current].count

Poll(r) ==                      \* the loop test, then wait()
  /\ Goes(r, "next", "wait")
  /\ More(count[r])
  /\ UNCHANGED <<driver, count, buffer, device, clashed>>

Wait(r) ==
  /\ Goes(r, "wait", "transfer")
  /\ ready
  /\ UNCHANGED <<driver, count, buffer, device, clashed>>

\* insw(): what the device has, into the next 512 bytes of the task's buffer
Transfer(r) ==
  /\ Goes(r, "transfer", "next")
  /\ buffer' = [buffer EXCEPT ![current][count[r]] = next]
  /\ next' = next + 1 /\ left' = left - 1 /\ ready' = FALSE
  /\ count' = [count EXCEPT ![r] = @ + 1]
  /\ UNCHANGED <<driver, registers, broken, clashed>>

AfterTaskKept == current        \* fault: __current is not reset
AfterTask == NoTask

Finish(r) ==
  /\ Goes(r, "next", "returned")
  /\ ~More(count[r])
  /\ current' = AfterTask
  /\ UNCHANGED <<tasks, count, buffer, device, clashed>>

Step(r) ==
  \/ Push(r)
  \/ Take(r)
  \/ Setup(r)
  \/ Command(r)
  \/ Poll(r)
  \/ Wait(r)
  \/ Transfer(r)
  \/ Finish(r)

(***************************************************************************)
(* The device                                                              *)
(***************************************************************************)
Deliver ==
  /\ ~clashed /\ ~broken /\ left > 0 /\ ~ready
  /\ ready' = TRUE
  /\ UNCHANGED <<asked, driver, at, count, buffer, registers, next, left, broken, clashed>>

Fail ==
  /\ ~clashed /\ ~broken /\ ~ready
  /\ broken' = TRUE
  /\ UNCHANGED <<asked, driver, at, count, buffer, registers, next, left, ready, clashed>>

Next ==
  \/ \E q \in Requests : Begin(q)
  \/ \E r \in Reads : Step(r)
  \/ Deliver
  \/ Fail

\* Every process gets its turn, and the device answers until it fails.
Spec == Init /\ [][Next]_vars /\ (\A r \in Reads : WF_vars(Step(r))) /\ WF_vars(Deliver)

-----------------------------------------------------------------------------
TypeOK ==
  /\ asked \in Seq(Requests) /\ Len(asked) <= MaxReads
  /\ tasks \in Seq(DOMAIN asked) /\ current \in DOMAIN asked \cup {NoTask}
  /\ at \in [Reads -> Labels] /\ count \in [Reads -> 0 .. MaxCount]
  /\ \A r \in Reads : Range(buffer[r]) \subseteq Sectors \cup {Empty}
  /\ registers.count \in 0 .. MaxCount /\ left \in 0 .. MaxCount /\ (ready => left > 0)
  /\ broken \in BOOLEAN /\ clashed \in BOOLEAN

(***************************************************************************)
(* A read returns with its sectors in its buffer, in order, and leaves     *)
(* neither a task nor unread data behind, as long as no task is pushed     *)
(* while that of another read is in the driver (pio.c:28-43, 53).  Reads   *)
(* that are suspended before their push disturb nobody.                    *)
(***************************************************************************)
Served(r) == \A i \in 0 .. asked[r].count - 1 : buffer[r][i] = asked[r].lba + i

InDriver(r) == at[r] \notin {"idle", "push", "returned"}

ReadDelivers ==
  ~clashed =>
    /\ \A r \in Reads : at[r] = "returned" => Served(r)
    /\ (\A r \in Reads : ~InDriver(r)) => tasks = <<>> /\ current = NoTask /\ left = 0

(***************************************************************************)
(* A read returns unless the device fails, for which wait() has no way     *)
(* out (pio.c:19-25), or reads clash.                                      *)
(***************************************************************************)
ReadReturns ==
  \A r \in Reads :
    r \in DOMAIN asked ~> at[r] = "returned" \/ broken \/ clashed
=============================================================================
