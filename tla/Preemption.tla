----------------------------- MODULE Preemption ------------------------------
(***************************************************************************)
(* The system calls of Syscalls, cut at the points between which the timer *)
(* may interrupt them.  The gate of int 0x80 is a trap gate                *)
(* (interrupt/idt.c:43), so a handler runs with interrupts enabled; the    *)
(* gate of the timer is an interrupt gate, so a schedule() called by the   *)
(* timer is one step here as it is there.                                  *)
(*                                                                         *)
(* A handler that is interrupted leaves its activation on the kernel       *)
(* stack.  An interrupt inside the kernel does not switch stacks or        *)
(* privilege, and an iret to ring 0 loads neither esp nor a cs of its own: *)
(* the process that schedule() picks runs in ring 0 on top of that         *)
(* activation, and a suspended handler goes on correctly only if its       *)
(* activation is the top of the stack again and esp is where it was.       *)
(* Anything else is undefined, and ends a behaviour.                       *)
(*                                                                         *)
(* Some steps stand for several instructions on shared state; Inner names  *)
(* them.  A timer that cuts into one of them ends a behaviour, too: it is  *)
(* recorded, and each property says that it claims nothing from there on.  *)
(***************************************************************************)
EXTENDS Syscalls

CONSTANTS
  MaxDepth,     (* bound: activations on the kernel stack of 4096 bytes    *)
  MaxNested     (* bound: timer interrupts that hit a handler              *)

ASSUME PreemptionAssumption == MaxDepth \in Nat /\ MaxNested \in Nat

Ksmain  == 1    \* the process that kmain() creates first
Outside == -1   \* a pid given to kill() for which __all has no entry

VARIABLES
  mode,         (* "user": current's program runs; "kernel": a handler     *)
  ring,         (* the privilege level at which programs run               *)
  switched,     (* ksmain() has gone to ring 3                             *)
  kstack,       (* the activations of handler(), oldest first              *)
  resume,       (* where pcb->eip leads: 0 to the program, n to the        *)
                (* activation at depth n, -1 to one that is overwritten    *)
  done,         (* __done, as a set                                        *)
  hits,         (* history: where the timer has hit a handler              *)
  nested,       (* history: how often it has                               *)
  wild          (* what follows is undefined: a handler was resumed where  *)
                (* it was not suspended, or a step was cut in two          *)

history == <<hits, nested>>
cpu     == <<mode, ring, switched, kstack, resume, wild>>
pvars   == <<vars, cpu, done, history>>

Calls  == {"fork", "execve", "wait", "kill", "exit"}
Labels == Calls \cup
  {"register", "copy",                    \* in fork(), behind create()
   "load", "sleep",                       \* in execve(), behind create()
   "block", "blocked",                    \* in wait()
   "killing", "tell", "report",           \* in kill() and exit()
   "park", "leave",                       \* before the call of schedule()
   "choose", "hold", "drain",             \* in schedule()
   "return"}                              \* before iret

\* What the step at a label does in several instructions, create() being the
\* one at fork and execve: the windows that the labels do not show.
Inner == [fork     |-> "creating",        \* scheduler.c:153-168
          execve   |-> "creating",
          register |-> "registering",     \* syscall.c:60-63
          load     |-> "registering",
          wait     |-> "reaping",         \* syscall.c:205-211
          tell     |-> "telling",         \* syscall.c:37-48
          report   |-> "telling",
          park     |-> "saving",          \* scheduler.c:37-87
          leave    |-> "saving",
          choose   |-> "choosing",        \* scheduler.c:90-121
          hold     |-> "loading",         \* scheduler.c:68-80, 131
          drain    |-> "draining"]        \* scheduler.c:133-141

Torn == {Inner[l] : l \in DOMAIN Inner}

PInit ==
  /\ Init
  /\ mode = "user" /\ ring = 0 /\ switched = FALSE
  /\ kstack = <<>>
  /\ resume = [p \in Pids |-> 0]
  /\ done = {}
  /\ hits = {} /\ nested = 0
  /\ wild = FALSE

-----------------------------------------------------------------------------
Top == kstack[Len(kstack)]
Me  == Top.proc

At(l) == ~halted /\ ~wild /\ mode = "kernel" /\ Top.at = l

Goto(l, a) ==
  kstack' = [kstack EXCEPT ![Len(kstack)].at = l, ![Len(kstack)].arg = a]

\* A step of a handler: it goes to label l with local value a.
Step(l, a) ==
  /\ Goto(l, a)
  /\ UNCHANGED <<mode, ring, switched, resume, wild, done, history>>

(***************************************************************************)
(* iret to the place that eip in the frame names: level is the cs in the   *)
(* frame, below the activations that remain on the stack.  An iret within  *)
(* ring 0 leaves esp as it is, and what programs that ran there in between *)
(* have pushed is unknown: even a handler whose activation is on top again *)
(* may go on with an esp that is not its own.                              *)
(***************************************************************************)
InPlace(eip, level, below) == level = 0 /\ eip = Len(below)

Iret(eip, level, below) ==
  /\ kstack' = below
  /\ mode' = IF eip = 0 THEN "user" ELSE "kernel"
  /\ ring' = IF eip = 0 THEN level ELSE ring
  /\ wild' \in {eip # 0, eip # 0 /\ ~InPlace(eip, level, below)}
  /\ UNCHANGED switched

Below == SubSeq(kstack, 1, Len(kstack) - 1)

(***************************************************************************)
(* int 0x80.  From ring 3 the processor starts on the empty stack of the   *)
(* task state segment, from ring 0 it goes on where it is.                 *)
(***************************************************************************)
EntryStack == IF ring = 3 THEN <<>> ELSE kstack

Enter(call, a) ==
  /\ InUser /\ ~wild /\ mode = "user"
  /\ current # Ksmain \/ switched
  /\ Len(EntryStack) < MaxDepth
  /\ kstack' = Append(EntryStack,
       [proc |-> current, ring |-> ring, eip |-> 0, at |-> call, arg |-> a])
  /\ mode' = "kernel"
  /\ UNCHANGED <<vars, ring, switched, resume, wild, done, history>>

Return ==
  /\ At("return")
  /\ frameEax' = Top.arg
  /\ kstack' = Below
  /\ mode' = "user" /\ ring' = Top.ring
  /\ UNCHANGED <<nextPid, all, current, start, ready, waiting, state, family, contextEax,
                 halted, rekilled, switched, resume, wild, done, history>>

(***************************************************************************)
(* ksmain() goes to ring 3.  From here on interrupts use the stack of the  *)
(* task state segment; what was on the boot stack is never returned to.    *)
(***************************************************************************)
UserRingKernel == 0             \* fault: the frame of iret has the kernel's cs
UserRing == 3

SwitchRing3 ==
  /\ InUser /\ ~wild /\ mode = "user"
  /\ current = Ksmain /\ ~switched
  /\ switched' = TRUE
  /\ ring' = UserRing
  /\ kstack' = <<>>
  /\ resume' = [p \in Pids |-> IF resume[p] = 0 THEN 0 ELSE -1]
  /\ UNCHANGED <<vars, mode, wild, done, history>>

-----------------------------------------------------------------------------
(***************************************************************************)
(* fork() and execve()                                                     *)
(***************************************************************************)
CreateChild ==
  /\ HasEntry
  /\ childBitmap[Me] # Slots
  /\ nextPid' = nextPid + 1
  /\ all' = all \cup {NewPid}
  /\ start' = Append(start, NewPid)
  /\ state' = [state EXCEPT ![NewPid] = "START"]
  /\ UNCHANGED <<current, ready, waiting, family, contextEax, frameEax, halted, rekilled>>

NotifyParentCreate(new) ==
  \E i \in Slots \ childBitmap[Me] :
    /\ 0 .. i - 1 \subseteq childBitmap[Me]
    /\ parent' = [parent EXCEPT ![new] = Me]
    /\ child' = [child EXCEPT ![Me][i] = new]
    /\ childBitmap' = [childBitmap EXCEPT ![Me] = @ \cup {i}]
    /\ UNCHANGED <<nextPid, all, current, start, ready, waiting, state, signal,
                   childCompleted, contextEax, frameEax, halted, rekilled>>

ForkSteps ==
  \/ At("fork") /\ childBitmap[Me] = Slots /\ Step("return", -1) /\ UNCHANGED vars
  \/ At("fork") /\ CreateChild /\ Step("register", NewPid)
  \/ At("register") /\ NotifyParentCreate(Top.arg) /\ Step("copy", Top.arg)
  \/ /\ At("copy")
     /\ contextEax' = [contextEax EXCEPT ![Top.arg] = contextEax[Me]]
     /\ Step("return", Top.arg)
     /\ UNCHANGED <<nextPid, all, current, start, ready, waiting, state, family,
                    frameEax, halted, rekilled>>

SetState(p, s) ==
  /\ state' = [state EXCEPT ![p] = s]
  /\ UNCHANGED <<nextPid, all, current, start, ready, waiting, family,
                 contextEax, frameEax, halted, rekilled>>

ExecveSteps ==
  \/ At("execve") /\ Step("leave", -1) /\ UNCHANGED vars
  \/ At("execve") /\ CreateChild /\ Step("load", NewPid)
  \/ At("load") /\ NotifyParentCreate(Top.arg) /\ Step("sleep", Top.arg)
  \/ At("sleep") /\ SetState(Me, "WAITING") /\ Step("park", Top.arg)

(***************************************************************************)
(* wait(), kill() and exit()                                               *)
(***************************************************************************)
Reap ==
  \E i \in childCompleted[Me] :
    /\ 0 .. i - 1 \cap childCompleted[Me] = {}
    /\ Step("return", child[Me][i])
    /\ child' = [child EXCEPT ![Me][i] = NoProc]
    /\ childBitmap' = [childBitmap EXCEPT ![Me] = @ \ {i}]
    /\ childCompleted' = [childCompleted EXCEPT ![Me] = @ \ {i}]
    /\ UNCHANGED <<nextPid, all, current, start, ready, waiting, state, signal,
                   parent, contextEax, frameEax, halted, rekilled>>

MustBlockAlways == TRUE         \* fault: the completed bits are not looked at
MustBlock == childCompleted[Me] = {}

WaitSteps ==
  \/ At("wait") /\ childBitmap[Me] = {} /\ Step("return", -1) /\ UNCHANGED vars
  \/ At("wait") /\ childBitmap[Me] # {} /\ Reap
  \/ /\ At("wait") /\ childBitmap[Me] # {} /\ MustBlock
     /\ Step("block", 0) /\ UNCHANGED vars
  \/ At("block") /\ SetState(Me, "WAITING") /\ Step("blocked", 0)
  \/ At("blocked") /\ state[Me] = "WAITING" /\ Step("park", 0) /\ UNCHANGED vars
  \/ At("blocked") /\ state[Me] # "WAITING" /\ Step("return", 0) /\ UNCHANGED vars

Tell(p) ==
  /\ NotifyParentComplete(p, state)
  /\ state' = NotifiedStates(p, state)
  /\ contextEax' = NotifiedEax(p, state)
  /\ UNCHANGED <<nextPid, all, current, start, ready, waiting, signal, parent,
                 frameEax, halted, rekilled>>

KillSteps ==
  \/ At("kill") /\ Top.arg \in Pids \ all /\ Step("return", -1) /\ UNCHANGED vars
  \/ At("kill") /\ Top.arg \in all /\ Step("killing", Top.arg) /\ UNCHANGED vars
  \/ /\ At("killing")
     /\ signal' = [signal EXCEPT ![Top.arg] = TRUE]
     /\ state' = [state EXCEPT ![Top.arg] = "DONE"]
     /\ rekilled' = (rekilled \/ state[Top.arg] = "DONE")
     /\ Step("tell", Top.arg)
     /\ UNCHANGED <<nextPid, all, current, start, ready, waiting, parent, child,
                    childBitmap, childCompleted, contextEax, frameEax, halted>>
  \/ At("tell") /\ Tell(Top.arg) /\ Step(IF Top.arg = Me THEN "leave" ELSE "return", 0)

\* create() or kill() outside the table, which ends a behaviour.
BeyondTable ==
  /\ \/ (At("fork") \/ At("execve")) /\ ~HasEntry /\ childBitmap[Me] # Slots
     \/ At("kill") /\ Top.arg = Outside
  /\ Halt
  /\ UNCHANGED <<cpu, done, history>>

ExitSteps ==
  \/ At("exit") /\ SetState(Me, "DONE") /\ Step("report", Top.arg)
  \/ At("report") /\ Tell(Me) /\ Step("leave", Top.arg)

-----------------------------------------------------------------------------
(***************************************************************************)
(* schedule(), called by a handler with the frame of its own call.         *)
(***************************************************************************)
AfterSaveKept == current        \* fault: __current is not reset
AfterSave == NoProc

Save ==
  /\ At("park") \/ At("leave")
  /\ ready' = SavedReady(state)
  /\ waiting' = SavedWaiting(state)
  /\ done' = done \cup SavedDone(state)
  /\ state' = AdmittedStates(state, <<>>)
  /\ contextEax' = SavedEax(contextEax, Top.arg)
  /\ resume' = [resume EXCEPT ![current] = 0]
  /\ current' = AfterSave
  /\ Goto("choose", 0)
  /\ UNCHANGED <<nextPid, all, start, family, frameEax, halted, rekilled,
                 mode, ring, switched, wild, history>>

\* New and resolved processes become ready; the first ready one is popped.
Choose ==
  /\ At("choose")
  /\ \E n \in 0 .. Len(waiting) :
       LET st   == AdmittedStates(state, start)
           r    == (ready \o start) \o SubSeq(waiting, 1, n)
           rest == SubSeq(waiting, n + 1, Len(waiting))
       IN  /\ ResolvedPrefix(waiting, st, n)
           /\ start' = <<>>
           /\ state' = st
           /\ \/ \E k \in 1 .. Len(r) :
                   /\ FirstReady(r, st, k)
                   /\ ready' = SubSeq(r, k + 1, Len(r))
                   /\ waiting' = rest \o Pick(r, WaitingIn(r, st, k))
                   /\ done' = done \cup DoneIn(r, st, k)
                   /\ Goto("hold", r[k])
                   /\ UNCHANGED halted
              \/ /\ \A k \in 1 .. Len(r) : st[r[k]] # "READY"
                 /\ ready' = <<>>
                 /\ waiting' = rest \o Pick(r, WaitingIn(r, st, Len(r) + 1))
                 /\ done' = done \cup DoneIn(r, st, Len(r) + 1)
                 /\ halted' = TRUE
                 /\ UNCHANGED kstack
  /\ UNCHANGED <<nextPid, all, current, family, contextEax, frameEax, rekilled,
                 mode, ring, switched, resume, wild, history>>

LoadCurrent ==
  /\ At("hold")
  /\ current' = Top.arg
  /\ state' = [state EXCEPT ![Top.arg] = "RUNNING"]
  /\ kstack' = [kstack EXCEPT ![Len(kstack)] =
       [Top EXCEPT !.at = "drain", !.eip = resume[Top.arg], !.arg = contextEax[Top.arg]]]
  /\ UNCHANGED <<nextPid, all, start, ready, waiting, family, contextEax, frameEax,
                 halted, rekilled, mode, ring, switched, resume, wild, done, history>>

Drain ==
  /\ At("drain")
  /\ all' = all \ done
  /\ done' = {}
  /\ frameEax' = Top.arg
  /\ Iret(Top.eip, Top.ring, Below)
  /\ UNCHANGED <<nextPid, current, start, ready, waiting, state, family,
                 contextEax, halted, rekilled, resume, history>>

(***************************************************************************)
(* The timer, in a program or in a handler.  What it saves of a handler is *)
(* the place in it; eax is then a register of the kernel.                  *)
(***************************************************************************)
SavedPlace == IF mode = "kernel" THEN Len(kstack) ELSE 0

Timer ==
  /\ ~halted /\ ~wild
  /\ mode = "kernel" => nested < MaxNested
  /\ resume' = IF current = NoProc THEN resume
               ELSE [resume EXCEPT ![current] = SavedPlace]
  /\ LET eax  == IF mode = "kernel" THEN 0 ELSE frameEax
         dead == SavedDone(state) \cup done
         w    == SavedWaiting(state)
         st   == AdmittedStates(state, start)
     IN  \E n \in 0 .. Len(w) :
           LET r    == (SavedReady(state) \o start) \o SubSeq(w, 1, n)
               rest == SubSeq(w, n + 1, Len(w))
           IN  /\ ResolvedPrefix(w, st, n)
               /\ \/ /\ Load(r, rest, st, SavedEax(contextEax, eax), dead, all)
                     /\ done' = {}
                     /\ Iret(resume'[current'], IF mode = "kernel" THEN 0 ELSE ring, kstack)
                  \/ /\ Panic(r, rest, st, eax, all)
                     /\ done' = dead \cup DoneIn(r, st, Len(r) + 1)
                     /\ UNCHANGED <<mode, ring, switched, kstack, wild>>
         /\ start' = <<>>
         /\ contextEax' = SavedEax(contextEax, eax)
  /\ hits' = IF mode = "kernel" THEN hits \cup {Top.at} ELSE hits
  /\ nested' = IF mode = "kernel" THEN nested + 1 ELSE nested
  /\ UNCHANGED <<nextPid, family, rekilled>>

\* The timer cuts into the step that the handler at the top is about to make.
TimerWithin ==
  /\ ~halted /\ ~wild /\ mode = "kernel"
  /\ nested < MaxNested
  /\ Top.at \in DOMAIN Inner
  /\ hits' = hits \cup {Inner[Top.at]}
  /\ nested' = nested + 1
  /\ wild' = TRUE
  /\ UNCHANGED <<vars, mode, ring, switched, kstack, resume, done>>

PNext ==
  \/ Timer \/ TimerWithin
  \/ SwitchRing3
  \/ \E call \in Calls \ {"kill"} : Enter(call, frameEax)
  \/ \E p \in Pids \cup {Outside} : Enter("kill", p)
  \/ BeyondTable
  \/ ForkSteps \/ ExecveSteps \/ WaitSteps \/ KillSteps \/ ExitSteps
  \/ Save \/ Choose \/ LoadCurrent \/ Drain
  \/ Return

PSpec == PInit /\ [][PNext]_pvars
-----------------------------------------------------------------------------
PTypeOK ==
  /\ TypeOK
  /\ mode \in {"user", "kernel"} /\ ring \in {0, 3}
  /\ switched \in BOOLEAN /\ wild \in BOOLEAN
  /\ kstack \in Seq([proc : Pids, ring : {0, 3}, eip : -1 .. MaxDepth,
                     at : Labels, arg : Pids \cup {-1, 0}])
  /\ Len(kstack) <= MaxDepth
  /\ resume \in [Pids -> -1 .. MaxDepth]
  /\ done \subseteq all
  /\ hits \subseteq Labels \cup Torn
  /\ nested \in 0 .. MaxNested

Hit(windows) == hits \cap windows # {}

InHand == {kstack[i].arg : i \in {j \in DOMAIN kstack : kstack[j].at = "hold"}}

(***************************************************************************)
(* The timer may stop schedule() between any two of the steps above but    *)
(* after the pop of the next process and before load_current()             *)
(* (scheduler.c:107-130): at every other of these points, mid-call too,    *)
(* each process of the table is in exactly one place that some schedule()  *)
(* will look at.  Windows besides, where nothing is claimed: create()      *)
(* between table and queue (scheduler.c:157-167), save_current() before    *)
(* __current is null (52-87), each pop or push of the loops (90-121),      *)
(* load_current() before __current is set (68-131) and the drain           *)
(* (133-141); and the three of the child tables, see FamilyKept.           *)
(***************************************************************************)
PlacesKept ==
  ~halted /\ ~Hit({"hold"} \cup Torn) =>
    LET places == <<Range(start), Range(ready), Range(waiting), done, InHand,
                    {current} \ {NoProc}>>
    IN  /\ IsInjective(start) /\ IsInjective(ready) /\ IsInjective(waiting)
        /\ \A p \in all : \E n \in DOMAIN places :
             \A m \in DOMAIN places : p \in places[m] <=> m = n
        /\ \A n \in DOMAIN places : places[n] \subseteq all

(***************************************************************************)
(* Wherever between its steps the timer stops a handler, once a program    *)
(* runs again the states fit the queues: the branches scheduler.c:62, 115  *)
(* and 119 stay dead code.  The windows are those inside steps: a process  *)
(* saved twice (52-87), queued twice (101-102), RUNNING but not current    *)
(* (80-131), or in the table before it has a state (157-159).              *)
(***************************************************************************)
StatesFit == mode = "user" /\ ~wild /\ ~Hit(Torn) => StatesMatchQueues

(***************************************************************************)
(* The parent's view of its children survives every interruption between   *)
(* steps but those between create() and notify_parent_create()             *)
(* (syscall.c:178-180, 110-158), between the two and the copy of the       *)
(* context, which takes its answer from a child that was woken first       *)
(* (181), and between the state and the notice of exit() (314-316).  The   *)
(* windows inside steps: bit and child[] are set one after the other       *)
(* (62-63) and cleared one after the other (42-45, 208-211), and a bit     *)
(* that is set while another is cleared or set may be lost (48, 209); and  *)
(* those of create() and schedule(), which lose a parent or its state.     *)
(***************************************************************************)
FamilyKept ==
  mode = "user" /\ ~wild /\ ~Hit({"register", "copy", "load", "report"} \cup Torn) =>
    ChildTablesAgree /\ ExitIsReported /\ CompletedChildrenEnded /\ WokenHoldsItsChild

(***************************************************************************)
(* No wakeup is lost: a sleeper was saved in its program, so the pid put   *)
(* in its eax is its answer, and one that sleeps in wait() (whose saved    *)
(* eax is 0) has no completed child already.  The windows between steps    *)
(* are those of wait() between its check and the save in schedule()        *)
(* (196-201, 394-396), and that of fork() before it has copied the context *)
(* (178-181).  The windows inside steps: save_current() before __current   *)
(* is null (scheduler.c:52-87), where a sleeper is saved again in its      *)
(* handler, the notice between the look at the parent's state and the bit  *)
(* (syscall.c:40-48), and the others of Torn.                              *)
(***************************************************************************)
SleepersAnswerable ==
  ~wild /\ ~Hit({"register", "copy", "block", "blocked", "park"} \cup Torn) =>
    \A p \in Range(waiting) : state[p] = "WAITING" =>
      resume[p] = 0 /\ (contextEax[p] = 0 => childCompleted[p] = {})

(***************************************************************************)
(* Once ksmain() has switched, programs run in ring 3 as long as the timer *)
(* has hit no handler.  One hit is enough to lose that: load_current()     *)
(* does not set cs (scheduler.c:67-81).                                    *)
(***************************************************************************)
RingKept == switched /\ mode = "user" /\ hits = {} => ring = 3
=============================================================================
