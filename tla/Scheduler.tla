------------------------------ MODULE Scheduler ------------------------------
(***************************************************************************)
(* The process table and the round-robin scheduler of                      *)
(* kernel/multitasking/scheduler.c.                                        *)
(*                                                                         *)
(* A process is named by its pid: create() never uses a pid twice, and a   *)
(* freed PCB keeps its last contents here, as the block does on the kernel *)
(* heap until it is allocated again.  The three queues that survive a      *)
(* handler are sequences; __done is filled and drained inside one call of  *)
(* schedule(), so it is the set of dead processes of that call.            *)
(***************************************************************************)
EXTENDS Integers, Sequences, FiniteSets, Functions

CONSTANTS
  TableSize,    (* entries of __all: 128 in the code                       *)
  ChildSlots,   (* entries of child[]: 32 in the code                      *)
  BootCount     (* processes kmain() creates: 4 in the code                *)

ASSUME SchedulerAssumption ==
  /\ TableSize \in Nat
  /\ ChildSlots \in Nat \ {0}
  /\ BootCount \in 1 .. TableSize - 1

Pids   == 1 .. TableSize - 1
NoProc == 0                       (* the null PCB pointer, and the empty child[] entry *)
Slots  == 0 .. ChildSlots - 1

States == {"NONE", "START", "READY", "RUNNING", "WAITING", "DONE"}

VARIABLES
  nextPid,        (* __pid                                                 *)
  all,            (* pids whose entry of __all is not null                 *)
  current,        (* __current                                             *)
  start,          (* __start, __ready, __waiting: queues of PCBs           *)
  ready,
  waiting,
  state,          (* pcb->state; "NONE" before create()                    *)
  signal,         (* pcb->signal # 0                                       *)
  parent,         (* pcb->parent                                           *)
  child,          (* pcb->child                                            *)
  childBitmap,    (* pcb->child_bitmap, as a set of slots                  *)
  childCompleted, (* pcb->child_completed_bitmap, as a set of slots        *)
  contextEax,     (* pcb->context.eax                                      *)
  frameEax,       (* eax of the current process                            *)
  halted,         (* the machine was stopped: by schedule(), in its panic  *)
                  (* path, or by exception.handler(); or memory outside    *)
                  (* __all was used, and nothing is known of what follows  *)
  rekilled        (* history: kill() was called for a process in the table *)
                  (* that had ended already                                *)

family == <<signal, parent, child, childBitmap, childCompleted>>
vars   == <<nextPid, all, current, start, ready, waiting, state, family,
            contextEax, frameEax, halted, rekilled>>

(***************************************************************************)
(* After kmain(): BootCount processes without a parent, none has run.      *)
(***************************************************************************)
Init ==
  /\ nextPid = BootCount + 1
  /\ all = 1 .. BootCount
  /\ current = NoProc
  /\ start = [i \in 1 .. BootCount |-> i]
  /\ ready = <<>>
  /\ waiting = <<>>
  /\ state = [p \in Pids |-> IF p <= BootCount THEN "START" ELSE "NONE"]
  /\ signal = [p \in Pids |-> FALSE]
  /\ parent = [p \in Pids |-> NoProc]
  /\ child = [p \in Pids |-> [i \in Slots |-> NoProc]]
  /\ childBitmap = [p \in Pids |-> {}]
  /\ childCompleted = [p \in Pids |-> {}]
  /\ contextEax = [p \in Pids |-> 0]
  /\ frameEax = 0
  /\ halted = FALSE /\ rekilled = FALSE

(***************************************************************************)
(* The loop over __ready.  Its first process in state READY, at position   *)
(* k, is loaded; what was in front of it goes to __done or __waiting, and  *)
(* __done is then freed.  dead holds what is in __done already.            *)
(***************************************************************************)
Pick(q, I) ==           \* the elements of q at the positions I, in order
  [j \in 1 .. Cardinality(I) |->
     q[CHOOSE i \in I : Cardinality({h \in I : h < i}) = j - 1]]

FirstReadyAny(r, st, k) == st[r[k]] = "READY"   \* fault: any ready process
FirstReady(r, st, k) ==
  st[r[k]] = "READY" /\ \A i \in 1 .. k - 1 : st[r[i]] # "READY"

WaitingIn(r, st, k) == {i \in 1 .. k - 1 : st[r[i]] = "WAITING"}

\* fault: the last process passed over is forgotten
DoneInShort(r, st, k) == {r[i] : i \in {h \in 1 .. k - 2 : st[r[h]] = "DONE"}}
DoneIn(r, st, k) == {r[i] : i \in {h \in 1 .. k - 1 : st[r[h]] = "DONE"}}

Load(r, w, st, ctx, dead, table) ==
  \E k \in 1 .. Len(r) :
    /\ FirstReady(r, st, k)
    /\ current' = r[k]
    /\ state' = [st EXCEPT ![r[k]] = "RUNNING"]
    /\ frameEax' = ctx[r[k]]
    /\ ready' = SubSeq(r, k + 1, Len(r))
    /\ waiting' = w \o Pick(r, WaitingIn(r, st, k))
    /\ all' = table \ (dead \cup DoneIn(r, st, k))
    /\ halted' = FALSE

\* No process is ready: cli; hlt.  Nothing is drained or freed any more.
Panic(r, w, st, eax, table) ==
  /\ \A i \in 1 .. Len(r) : st[r[i]] # "READY"
  /\ current' = NoProc
  /\ state' = st
  /\ frameEax' = eax
  /\ ready' = <<>>
  /\ waiting' = w \o Pick(r, WaitingIn(r, st, Len(r) + 1))
  /\ all' = table
  /\ halted' = TRUE

(***************************************************************************)
(* schedule(frame): save the current process, admit new processes, move    *)
(* the resolved prefix of __waiting, load the next ready process.  The     *)
(* arguments are the fields as the caller leaves them: states, __start,    *)
(* __all, saved eax values, and eax in the frame.                          *)
(***************************************************************************)
Saved(st, s) == current # NoProc /\ st[current] = s

\* fault: the preempted process goes to the front
SavedReadyFront(st) == IF Saved(st, "RUNNING") THEN <<current>> \o ready ELSE ready
SavedReady(st) == IF Saved(st, "RUNNING") THEN Append(ready, current) ELSE ready
SavedWaiting(st) == IF Saved(st, "WAITING") THEN Append(waiting, current) ELSE waiting

SavedDoneNone(st) == {}   \* fault: an ended process is not put in __done
SavedDone(st) == IF Saved(st, "DONE") THEN {current} ELSE {}

SavedEax(ctx, eax) == IF current = NoProc THEN ctx ELSE [ctx EXCEPT ![current] = eax]

\* fault: the preempted process keeps its state
AdmittedStatesStale(st, fresh) ==
  [p \in Pids |-> IF p \in Range(fresh) THEN "READY" ELSE st[p]]
AdmittedStates(st, fresh) ==
  [p \in Pids |-> IF p \in Range(fresh) \/ (p = current /\ Saved(st, "RUNNING"))
                  THEN "READY" ELSE st[p]]

\* The scan of __waiting stops at its first process that is not READY.
ResolvedPrefix(w, st, n) ==
  /\ \A i \in 1 .. n : st[w[i]] = "READY"
  /\ n < Len(w) => st[w[n + 1]] # "READY"

Schedule(st, fresh, table, ctx, eax) ==
  LET w   == SavedWaiting(st)
      st1 == AdmittedStates(st, fresh)
  IN  \E n \in 0 .. Len(w) :
        LET r    == (SavedReady(st) \o fresh) \o SubSeq(w, 1, n)
            rest == SubSeq(w, n + 1, Len(w))
        IN  /\ ResolvedPrefix(w, st1, n)
            /\ start' = <<>>
            /\ contextEax' = SavedEax(ctx, eax)
            /\ \/ Load(r, rest, st1, SavedEax(ctx, eax), SavedDone(st), table)
               \/ Panic(r, rest, st1, eax, table)

(***************************************************************************)
(* The timer interrupt: pit.handler() calls its one listener, schedule().  *)
(***************************************************************************)
Tick ==
  /\ ~halted
  /\ Schedule(state, start, all, contextEax, frameEax)
  /\ UNCHANGED <<nextPid, family, rekilled>>
=============================================================================
