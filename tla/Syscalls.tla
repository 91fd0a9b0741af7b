------------------------------ MODULE Syscalls -------------------------------
(***************************************************************************)
(* The system calls of kernel/interrupt/syscall.c that create, block, end  *)
(* and reap processes, over the scheduler.  Each action is one pass        *)
(* through handler(), with the call of schedule() it ends in.              *)
(***************************************************************************)
EXTENDS Scheduler

InUser == ~halted /\ current # NoProc

-----------------------------------------------------------------------------
(***************************************************************************)
(* notify_parent_complete(p).  The first slot that names p is looked up in *)
(* the parent; a waiting parent is woken with the pid in its saved eax, a  *)
(* ready one gets the completed bit, any other state changes nothing.      *)
(***************************************************************************)
Known(p) == parent[p] # NoProc /\ \E i \in Slots : child[parent[p]][i] = p

FirstSlot(p, i) ==      \* the slot the search of child[] stops at
  /\ child[parent[p]][i] = p
  /\ \A j \in 0 .. i - 1 : child[parent[p]][j] # p

\* fault: an ended parent is woken as well
WakesEnded(p, st) == Known(p) /\ st[parent[p]] \in {"WAITING", "DONE"}
Wakes(p, st) == Known(p) /\ st[parent[p]] = "WAITING"

\* fault: the completed bit is meant for a running parent
MarksRunning(p, st) == Known(p) /\ st[parent[p]] = "RUNNING"
Marks(p, st) == Known(p) /\ st[parent[p]] = "READY"

NotifiedStates(p, st) ==
  IF Wakes(p, st) THEN [st EXCEPT ![parent[p]] = "READY"] ELSE st

NotifiedEaxStale(p, st) == contextEax   \* fault: the pid is not handed over
NotifiedEax(p, st) ==
  IF Wakes(p, st) THEN [contextEax EXCEPT ![parent[p]] = p] ELSE contextEax

NotifyParentComplete(p, st) ==
  \/ /\ Wakes(p, st)
     /\ \E i \in Slots :
          /\ FirstSlot(p, i)
          /\ child' = [child EXCEPT ![parent[p]][i] = NoProc]
          /\ childBitmap' = [childBitmap EXCEPT ![parent[p]] = @ \ {i}]
     /\ UNCHANGED childCompleted
  \/ /\ Marks(p, st)
     /\ \E i \in Slots :
          /\ FirstSlot(p, i)
          /\ childCompleted' = [childCompleted EXCEPT ![parent[p]] = @ \cup {i}]
     /\ UNCHANGED <<child, childBitmap>>
  \/ /\ ~Wakes(p, st) /\ ~Marks(p, st)
     /\ UNCHANGED <<child, childBitmap, childCompleted>>

(***************************************************************************)
(* create() and notify_parent_create(): the new process takes the next pid *)
(* and the first free slot of its parent.  Nothing compares __pid with the *)
(* size of __all: CreateBeyond below is what happens without HasEntry.     *)
(***************************************************************************)
HasEntry == nextPid < TableSize

NewPidNext == nextPid + 1       \* fault: __pid is incremented before its use
NewPid == nextPid

Register(new) ==
  \E i \in Slots \ childBitmap[current] :
    /\ 0 .. i - 1 \subseteq childBitmap[current]
    /\ nextPid' = nextPid + 1
    /\ parent' = [parent EXCEPT ![new] = current]
    /\ child' = [child EXCEPT ![current][i] = new]
    /\ childBitmap' = [childBitmap EXCEPT ![current] = @ \cup {i}]
    /\ UNCHANGED <<childCompleted, signal>>

-----------------------------------------------------------------------------
(***************************************************************************)
(* fork(): the child starts from the parent's last saved context.          *)
(***************************************************************************)
ForkRefused ==
  /\ InUser
  /\ childBitmap[current] = Slots
  /\ frameEax' = -1
  /\ UNCHANGED <<nextPid, all, current, start, ready, waiting, state, family,
                 contextEax, halted, rekilled>>

Fork ==
  /\ InUser /\ HasEntry
  /\ childBitmap[current] # Slots
  /\ Register(NewPid)
  /\ all' = all \cup {NewPid}
  /\ start' = Append(start, NewPid)
  /\ state' = [state EXCEPT ![NewPid] = "START"]
  /\ contextEax' = [contextEax EXCEPT ![NewPid] = contextEax[current]]
  /\ frameEax' = NewPid
  /\ UNCHANGED <<current, ready, waiting, halted, rekilled>>

(***************************************************************************)
(* execve(): a new process runs the file while the caller waits.  A caller *)
(* with a full bitmap, a missing file or one that is not an ELF executable *)
(* gets -1, and still gives up the processor.                              *)
(***************************************************************************)
ExecveRefused ==
  /\ InUser
  /\ Schedule(state, start, all, contextEax, -1)
  /\ UNCHANGED <<nextPid, family, rekilled>>

Execve ==
  /\ InUser /\ HasEntry
  /\ childBitmap[current] # Slots
  /\ Register(NewPid)
  /\ Schedule([state EXCEPT ![NewPid] = "START", ![current] = "WAITING"],
              Append(start, NewPid), all \cup {NewPid}, contextEax, NewPid)
  /\ UNCHANGED rekilled

(***************************************************************************)
(* wait()                                                                  *)
(***************************************************************************)
WaitNoChild ==
  /\ InUser
  /\ childBitmap[current] = {}
  /\ frameEax' = -1
  /\ UNCHANGED <<nextPid, all, current, start, ready, waiting, state, family,
                 contextEax, halted, rekilled>>

WaitBlock ==
  /\ InUser
  /\ childBitmap[current] # {}
  /\ childCompleted[current] = {}
  /\ Schedule([state EXCEPT ![current] = "WAITING"], start, all, contextEax, 0)
  /\ UNCHANGED <<nextPid, family, rekilled>>

\* fault: child_bitmap keeps the bit of the reaped child
WaitReapKeepsBit ==
  /\ InUser
  /\ childBitmap[current] # {}
  /\ \E i \in childCompleted[current] :
       /\ 0 .. i - 1 \cap childCompleted[current] = {}
       /\ frameEax' = child[current][i]
       /\ child' = [child EXCEPT ![current][i] = NoProc]
       /\ childCompleted' = [childCompleted EXCEPT ![current] = @ \ {i}]
  /\ UNCHANGED <<nextPid, all, current, start, ready, waiting, state, signal,
                 parent, childBitmap, contextEax, halted, rekilled>>

WaitReap ==
  /\ InUser
  /\ childBitmap[current] # {}
  /\ \E i \in childCompleted[current] :
       /\ 0 .. i - 1 \cap childCompleted[current] = {}
       /\ frameEax' = child[current][i]
       /\ child' = [child EXCEPT ![current][i] = NoProc]
       /\ childBitmap' = [childBitmap EXCEPT ![current] = @ \ {i}]
       /\ childCompleted' = [childCompleted EXCEPT ![current] = @ \ {i}]
  /\ UNCHANGED <<nextPid, all, current, start, ready, waiting, state, signal,
                 parent, contextEax, halted, rekilled>>

(***************************************************************************)
(* kill(pid, sig) with a nonzero signal, of any process in the table; an   *)
(* entry of the table that is null is refused.                             *)
(***************************************************************************)
KillMissing ==
  /\ InUser
  /\ \E p \in 0 .. TableSize - 1 : p \notin all
  /\ frameEax' = -1
  /\ UNCHANGED <<nextPid, all, current, start, ready, waiting, state, family,
                 contextEax, halted, rekilled>>

KilledNot(p) == state   \* fault: the state is not set
Killed(p) == [state EXCEPT ![p] = "DONE"]

KillOther(p) ==
  /\ InUser
  /\ p \in all /\ p # current
  /\ signal' = [signal EXCEPT ![p] = TRUE]
  /\ NotifyParentComplete(p, Killed(p))
  /\ state' = NotifiedStates(p, Killed(p))
  /\ contextEax' = NotifiedEax(p, Killed(p))
  /\ frameEax' = 0
  /\ rekilled' = (rekilled \/ state[p] = "DONE")
  /\ UNCHANGED <<nextPid, all, current, start, ready, waiting, parent, halted>>

KillSelf ==
  /\ InUser
  /\ signal' = [signal EXCEPT ![current] = TRUE]
  /\ NotifyParentComplete(current, Killed(current))
  /\ Schedule(NotifiedStates(current, Killed(current)), start, all,
              NotifiedEax(current, Killed(current)), 0)
  /\ UNCHANGED <<nextPid, parent, rekilled>>

(***************************************************************************)
(* exit(code)                                                              *)
(***************************************************************************)
Exit ==
  /\ InUser
  /\ NotifyParentComplete(current, Killed(current))
  /\ Schedule(NotifiedStates(current, Killed(current)), start, all,
              NotifiedEax(current, Killed(current)), frameEax)
  /\ UNCHANGED <<nextPid, parent, signal, rekilled>>

Halt ==
  /\ halted' = TRUE
  /\ UNCHANGED <<nextPid, all, current, start, ready, waiting, state, family,
                 contextEax, frameEax, rekilled>>

(***************************************************************************)
(* A processor exception of the running program, or of the kernel on its   *)
(* behalf: exception.handler() reports it and stops the machine.           *)
(***************************************************************************)
Exception == InUser /\ Halt

(***************************************************************************)
(* What the code does not look at: the process that create() puts behind   *)
(* the last entry of __all, and a pid given to kill() that has no entry.   *)
(* What is written or followed there is decided by the linker, so that the *)
(* behaviours end here; no property is claimed for what comes after.       *)
(***************************************************************************)
CreateBeyond == InUser /\ ~HasEntry /\ childBitmap[current] # Slots /\ Halt
KillBeyond   == InUser /\ Halt

-----------------------------------------------------------------------------
Next ==
  \/ Tick
  \/ ForkRefused \/ Fork
  \/ ExecveRefused \/ Execve
  \/ WaitNoChild \/ WaitBlock \/ WaitReap
  \/ CreateBeyond \/ KillBeyond
  \/ KillMissing \/ KillSelf \/ \E p \in Pids : KillOther(p)
  \/ Exit
  \/ Exception

Spec == Init /\ [][Next]_vars

\* The timer keeps firing; nothing is assumed of the programs.
FairSpec == Spec /\ WF_vars(Tick)

-----------------------------------------------------------------------------
TypeOK ==
  /\ nextPid \in 1 .. TableSize
  /\ all \subseteq Pids
  /\ current \in Pids \cup {NoProc}
  /\ start \in Seq(Pids) /\ ready \in Seq(Pids) /\ waiting \in Seq(Pids)
  /\ state \in [Pids -> States]
  /\ signal \in [Pids -> BOOLEAN]
  /\ parent \in [Pids -> Pids \cup {NoProc}]
  /\ child \in [Pids -> [Slots -> Pids \cup {NoProc}]]
  /\ childBitmap \in [Pids -> SUBSET Slots]
  /\ childCompleted \in [Pids -> SUBSET Slots]
  /\ contextEax \in [Pids -> Pids \cup {-1, 0}]
  /\ frameEax \in Pids \cup {-1, 0}
  /\ halted \in BOOLEAN

Queued == Range(start) \cup Range(ready) \cup Range(waiting)

(***************************************************************************)
(* Every process of the table is in exactly one place: it is the current   *)
(* one or it stands once in one queue.  No queue holds a freed PCB, and    *)
(* none is lost by schedule() (scheduler.c:83-142); only a panic strands   *)
(* dead processes in __done.                                               *)
(***************************************************************************)
QueuesPartition ==
  /\ IsInjective(start) /\ IsInjective(ready) /\ IsInjective(waiting)
  /\ Range(start) \cap Range(ready) = {}
  /\ Range(start) \cap Range(waiting) = {}
  /\ Range(ready) \cap Range(waiting) = {}
  /\ current \notin Queued
  /\ Queued \cup ({current} \ {NoProc}) \subseteq all
  /\ \A p \in all \ (Queued \cup {current}) : halted /\ state[p] = "DONE"

(***************************************************************************)
(* A process's state fits the place it is in, so the branches that         *)
(* scheduler.c marks "unreachable?" (lines 62 and 119), and its case of a  *)
(* waiting process found in __ready (line 115), are indeed never taken,    *)
(* whatever kill() does to processes that stand in a queue.                *)
(***************************************************************************)
StatesMatchQueues ==
  /\ \A p \in Pids : state[p] = "RUNNING" <=> p = current
  /\ \A p \in Range(start) : state[p] \in {"START", "DONE"}
  /\ \A p \in Range(ready) : state[p] \in {"READY", "DONE"}
  /\ \A p \in Range(waiting) : state[p] \in {"WAITING", "READY", "DONE"}
  /\ all \subseteq 1 .. nextPid - 1
  /\ \A p \in Pids \ all : state[p] = IF p < nextPid THEN "DONE" ELSE "NONE"

(***************************************************************************)
(* child[], child_bitmap and child_completed_bitmap agree in every PCB,    *)
(* live or freed, and a pid stands in one slot of one parent, its own:     *)
(* fork(), execve(), wait() and notify_parent_complete() update them       *)
(* separately (syscall.c:41-67, 208-211).  A completed bit may outlive its *)
(* slot once kill() was called for a process that had ended but not been   *)
(* freed: kill() does not look, and reports the end a second time          *)
(* (syscall.c:274-282).                                                    *)
(***************************************************************************)
ChildTablesAgree ==
  \A p \in Pids :
    /\ childBitmap[p] = {i \in Slots : child[p][i] # NoProc}
    /\ ~rekilled => childCompleted[p] \subseteq childBitmap[p]
    /\ \A i \in childBitmap[p] :
         /\ child[p][i] < nextPid /\ parent[child[p][i]] = p
         /\ \A j \in childBitmap[p] : child[p][i] = child[p][j] => i = j

(***************************************************************************)
(* The exit of a child is never lost: while its parent lives and has not   *)
(* been told, the slot of the ended child carries the completed bit.       *)
(***************************************************************************)
ExitIsReported ==
  \A p \in all : state[p] # "DONE" =>
    \A i \in childBitmap[p] :
      state[child[p][i]] = "DONE" /\ ~signal[child[p][i]] => i \in childCompleted[p]

(***************************************************************************)
(* A completed bit always stands for a child that has ended for good, so   *)
(* wait() (syscall.c:205-213) never reports one that still runs: not even  *)
(* one killed in __start, which schedule() revives.                        *)
(***************************************************************************)
CompletedChildrenEnded ==
  ~rekilled => \A p \in all : \A i \in childCompleted[p] : state[child[p][i]] = "DONE"

(***************************************************************************)
(* A process woken from wait() or execve() and not yet loaded holds, in    *)
(* its saved eax, a child of its own that has ended and whose slot is free *)
(* again: a later completion does not overwrite the answer                 *)
(* (syscall.c:40-48).                                                      *)
(***************************************************************************)
WokenHoldsItsChild ==
  \A p \in Range(waiting) : state[p] = "READY" =>
    LET c == contextEax[p]
    IN  /\ c \in Pids /\ parent[c] = p
        /\ c \notin Range(child[p])
        /\ state[c] = "DONE"

(***************************************************************************)
(* A process that has been killed once it was admitted, or has exited,     *)
(* never runs again (syscall.c:274-282, 312-317).                          *)
(***************************************************************************)
DoneIsFinal ==
  [][\A p \in Pids : state[p] = "DONE" /\ p \notin Range(start)
                       => state'[p] = "DONE"]_vars

(***************************************************************************)
(* Round robin: a process is not loaded while a ready process stands in    *)
(* front of it, and a new process not before those already ready.          *)
(***************************************************************************)
NoOvertaking ==
  [][\A i \in DOMAIN ready : state[ready[i]] = "READY" =>
       /\ \A j \in DOMAIN ready : i < j => current' # ready[j]
       /\ current' \notin Range(start)]_vars

(***************************************************************************)
(* No starvation: under a timer that keeps firing, a process in __start or *)
(* __ready runs, and so does a woken process once it heads __waiting,      *)
(* unless it is killed or the scheduler has panicked.                      *)
(***************************************************************************)
WokenAtFront(p) == waiting # <<>> /\ p = waiting[1] /\ state[p] = "READY"

ReadyRuns ==
  \A p \in Pids :
    p \in Range(start) \cup Range(ready) \/ WokenAtFront(p)
      ~> p = current \/ state[p] = "DONE" \/ halted

(***************************************************************************)
(* The memory of an ended process is given back, unless it was killed      *)
(* while in __start or __waiting.                                          *)
(***************************************************************************)
EndedAreFreed ==
  \A p \in Pids :
    state[p] = "DONE" /\ p \notin Range(start) \cup Range(waiting)
      ~> p \notin all \/ halted

-----------------------------------------------------------------------------
(***************************************************************************)
(* What comments of the code say and the code does not do.                 *)
(***************************************************************************)

\* syscall.c:198: the pid of a killed or exited process is returned to the
\* waiting parent.  So a process that waits has a child that can still end.
WaiterHasLiveChild ==
  \A p \in all : state[p] = "WAITING" =>
    \E i \in childBitmap[p] : state[child[p][i]] # "DONE"

\* syscall.c:207: what a completed bit stands for is a completed child.
CompletedSlotNamesChild ==
  \A p \in all : \A i \in childCompleted[p] :
    child[p][i] # NoProc /\ state[child[p][i]] = "DONE"

\* scheduler.c:98, 126: the waiting queue is checked for resolved processes
\* before the scheduler panics over an empty ready queue.
PanicOnlyWhenNoneReady ==
  halted /\ current = NoProc => \A p \in all : state[p] # "READY"
=============================================================================
