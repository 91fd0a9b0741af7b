--------------------------- MODULE PreemptionProofs --------------------------
(***************************************************************************)
(* Proofs about the handlers that the timer cuts into, for tables of every *)
(* size, any depth of the kernel stack and any number of interruptions.    *)
(***************************************************************************)
EXTENDS Preemption, SyscallsProofs

USE DEF NewPid

(***************************************************************************)
(* The stack of activations.  Every activation that can still be resumed   *)
(* has one process that will resume it, own[n] for the one at depth n: the *)
(* one that runs it, the one whose saved eip leads to it, or the one that  *)
(* drain is about to return to.  So no activation is ever resumed twice.   *)
(***************************************************************************)
Places  == 1 .. MaxDepth
Special == {"choose", "hold", "drain"}

Owned(own) ==
  /\ \A n \in DOMAIN kstack :
       /\ kstack[n].at \in {"choose", "hold"} => own[n] = NoProc
       /\ kstack[n].at \notin {"choose", "hold", "drain"} => own[n] = kstack[n].proc
       /\ kstack[n].at = "drain" /\ kstack[n].eip > 0 =>
            kstack[n].eip < n /\ own[kstack[n].eip] = own[n]
  /\ \A p \in Pids \ {current} : resume[p] > 0 =>
       resume[p] \in DOMAIN kstack /\ own[resume[p]] = p
  /\ mode = "kernel" => own[Len(kstack)] = current

Resumable == ~halted /\ ~wild => \E own \in [Places -> Pids \cup {NoProc}] : Owned(own)

\* Only the oldest activation was entered from ring 3.
Rings ==
  /\ mode = "kernel" /\ ~wild => kstack # <<>>
  /\ mode = "user" /\ ring = 3 => kstack = <<>>
  /\ \A n \in DOMAIN kstack : kstack[n].ring = 3 => n = 1

\* An activation remains on the stack of a program only if the timer has hit it.
Depths ==
  /\ Len(kstack) <= nested + (IF mode = "kernel" THEN 1 ELSE 0)
  /\ hits = {} <=> nested = 0
  /\ nested = 0 => \A p \in Pids : resume[p] = 0
  /\ nested = 0 => \A n \in DOMAIN kstack : kstack[n].at = "drain" => kstack[n].eip = 0
  /\ switched /\ nested = 0 =>
       (mode = "user" => ring = 3) /\ (mode = "kernel" => kstack[1].ring = 3)

(***************************************************************************)
(* Where the processes are, and in which state.                            *)
(***************************************************************************)
Standing ==
  /\ IsInjective(start) /\ IsInjective(ready) /\ IsInjective(waiting)
  /\ Range(start) \cap Range(ready) = {}
  /\ Range(start) \cap Range(waiting) = {}
  /\ Range(ready) \cap Range(waiting) = {}
  /\ current \notin Queued /\ done \cap Queued = {} /\ InHand \cap Queued = {}
  /\ current \notin done \cup InHand /\ done \cap InHand = {}
  /\ Queued \cup done \cup InHand \cup ({current} \ {NoProc}) \subseteq all

\* Two activations do not hold the same process.
Holding == {n \in DOMAIN kstack : kstack[n].at = "hold"}

Held ==
  /\ \A m, n \in Holding : kstack[m].arg = kstack[n].arg => m = n
  /\ "hold" \notin hits =>
       /\ \A n \in Holding : n = Len(kstack) /\ mode = "kernel"
       /\ all \subseteq Queued \cup done \cup InHand \cup {current}

Fitting ==
  /\ \A p \in Pids : state[p] = "RUNNING" => p = current
  /\ \A p \in Range(start) : state[p] \in {"START", "DONE"}
  /\ \A p \in Range(ready) \cup InHand : state[p] \in {"READY", "DONE"}
  /\ \A p \in Range(waiting) : state[p] \in {"WAITING", "READY", "DONE"}
  /\ \A p \in done : state[p] = "DONE"
  /\ all \subseteq 1 .. nextPid - 1
  /\ \A p \in Pids \ all : state[p] = IF p < nextPid THEN "DONE" ELSE "NONE"

\* A call that has set the state of its process ends in schedule().
Running ==
  current # NoProc =>
    /\ state[current] \in {"RUNNING", "WAITING", "DONE"}
    /\ mode = "user" => state[current] = "RUNNING"
    /\ state[current] = "WAITING" => Top.at \in {"blocked", "park"}
    /\ state[current] = "DONE" => Top.at \in {"tell", "report", "leave"}
    /\ state[current] = "DONE" /\ Top.at = "tell" => Top.arg = current

Arguments ==
  \A n \in DOMAIN kstack :
    /\ kstack[n].at \in {"register", "copy", "load", "sleep", "hold", "killing", "tell"} =>
         kstack[n].arg \in Pids
    /\ kstack[n].at = "killing" => kstack[n].arg < nextPid
Activations ==
  [proc : Pids, ring : {0, 3}, eip : -1 .. MaxDepth, at : Labels, arg : Pids \cup {-1, 0}]

CpuTypes ==
  /\ mode \in {"user", "kernel"} /\ ring \in {0, 3}
  /\ switched \in BOOLEAN /\ wild \in BOOLEAN
  /\ kstack \in Seq(Activations) /\ Len(kstack) <= MaxDepth
  /\ resume \in [Pids -> -1 .. MaxDepth]
  /\ hits \subseteq Labels \cup Torn
  /\ nested \in 0 .. MaxNested

Stacked == CpuTypes /\ Resumable /\ Rings /\ Depths
Placed  == Standing /\ Held /\ Fitting /\ Running /\ Arguments
PInv    == TypeOK /\ Stacked /\ Placed

-----------------------------------------------------------------------------
(***************************************************************************)
(* The activations on the stack.                                           *)
(***************************************************************************)
LEMMA OnStack ==
  ASSUME CpuTypes, NEW n \in DOMAIN kstack
  PROVE  /\ kstack[n].proc \in Pids /\ kstack[n].ring \in {0, 3}
         /\ kstack[n].eip \in -1 .. MaxDepth /\ kstack[n].at \in Labels
         /\ kstack[n].arg \in Pids \cup {-1, 0}
         /\ n \in Places /\ n \in Nat /\ n <= Len(kstack)
<1>1. kstack[n] \in Activations
  BY DEF CpuTypes
<1>2. n \in 1 .. Len(kstack) /\ Len(kstack) \in Nat /\ Len(kstack) <= MaxDepth
  BY DEF CpuTypes
<1> QED
  BY <1>1, <1>2, PreemptionAssumption DEF Activations, Places

LEMMA TopOfStack ==
  ASSUME CpuTypes, kstack # <<>>
  PROVE  /\ Len(kstack) \in DOMAIN kstack /\ Len(kstack) \in Nat \ {0} /\ Len(kstack) \in Places
         /\ Top.proc \in Pids /\ Top.ring \in {0, 3} /\ Top.eip \in -1 .. MaxDepth
         /\ Top.at \in Labels /\ Top.arg \in Pids \cup {-1, 0}
<1>1. Len(kstack) \in DOMAIN kstack /\ Len(kstack) \in Nat \ {0}
  BY DEF CpuTypes
<1> QED
  BY <1>1, OnStack DEF Top

\* A step inside a handler changes the label and the local value of the top.
LEMMA Moving ==
  ASSUME CpuTypes, kstack # <<>>, NEW l \in Labels, NEW a \in Pids \cup {-1, 0}, Goto(l, a)
  PROVE  /\ kstack' \in Seq(Activations) /\ Len(kstack') = Len(kstack)
         /\ DOMAIN kstack' = DOMAIN kstack
         /\ \A n \in DOMAIN kstack :
              /\ kstack'[n].proc = kstack[n].proc /\ kstack'[n].ring = kstack[n].ring
              /\ kstack'[n].eip = kstack[n].eip
              /\ n # Len(kstack) => kstack'[n] = kstack[n]
         /\ Top'.at = l /\ Top'.arg = a /\ Top'.proc = Top.proc
<1> DEFINE t == [Top EXCEPT !.at = l, !.arg = a]
<1>1. kstack \in Seq(Activations) /\ Len(kstack) \in DOMAIN kstack
  BY TopOfStack DEF CpuTypes
<1>2. Top \in Activations
  BY <1>1 DEF Top
<1>3. /\ t \in Activations /\ t.at = l /\ t.arg = a /\ t.proc = Top.proc
      /\ t.ring = Top.ring /\ t.eip = Top.eip
  BY <1>2 DEF Activations
<1>4. kstack' = [kstack EXCEPT ![Len(kstack)] = t]
  BY <1>1, <1>2 DEF Goto, Top, Activations
<1> HIDE DEF t
<1>5. /\ kstack' \in Seq(Activations) /\ Len(kstack') = Len(kstack)
      /\ DOMAIN kstack' = DOMAIN kstack
      /\ kstack'[Len(kstack)] = t
      /\ \A n \in DOMAIN kstack : n # Len(kstack) => kstack'[n] = kstack[n]
  BY <1>1, <1>3, <1>4
<1>6. Top' = t
  BY <1>5 DEF Top
<1>7. ASSUME NEW n \in DOMAIN kstack
      PROVE  /\ kstack'[n].proc = kstack[n].proc /\ kstack'[n].ring = kstack[n].ring
             /\ kstack'[n].eip = kstack[n].eip
  <2>1. CASE n = Len(kstack)
    BY <2>1, <1>3, <1>5 DEF Top
  <2>2. CASE n # Len(kstack)
    BY <2>2, <1>5
  <2> QED
    BY <2>1, <2>2
<1> QED
  BY <1>3, <1>5, <1>6, <1>7

(***************************************************************************)
(* A step of a handler before it calls schedule().                         *)
(***************************************************************************)
LEMMA StepStacked ==
  ASSUME Stacked, mode = "kernel", ~wild, Top.at \notin Special,
         NEW l \in Labels \ Special, NEW a \in Pids \cup {-1, 0}, Step(l, a),
         UNCHANGED <<current, halted>>
  PROVE  /\ Stacked' /\ Top'.at = l /\ Top'.arg = a /\ InHand' = InHand /\ Holding' = Holding
         /\ \A n \in Holding : kstack'[n] = kstack[n]
         /\ Len(kstack') = Len(kstack) /\ DOMAIN kstack' = DOMAIN kstack
         /\ \A n \in DOMAIN kstack : n # Len(kstack) => kstack'[n] = kstack[n]
<1> USE DEF Special
<1>1. /\ Goto(l, a) /\ CpuTypes /\ kstack # <<>>
      /\ UNCHANGED <<mode, ring, switched, resume, wild, hits, nested>>
  BY DEF Step, Stacked, Rings, history
<1>2. /\ kstack' \in Seq(Activations) /\ Len(kstack') = Len(kstack)
      /\ DOMAIN kstack' = DOMAIN kstack
      /\ \A n \in DOMAIN kstack :
           /\ kstack'[n].proc = kstack[n].proc /\ kstack'[n].ring = kstack[n].ring
           /\ kstack'[n].eip = kstack[n].eip
           /\ n # Len(kstack) => kstack'[n] = kstack[n]
      /\ Top'.at = l /\ Top'.arg = a
  BY <1>1, Moving
<1>3. \A n \in DOMAIN kstack :
        /\ kstack[n].at \in Special \/ kstack'[n].at \in Special => kstack'[n] = kstack[n]
  BY <1>2 DEF Top
<1>4. CpuTypes'
  BY <1>1, <1>2 DEF CpuTypes, Activations
<1>5. Resumable'
  <2> SUFFICES ASSUME ~halted, ~wild
               PROVE  \E own \in [Places -> Pids \cup {NoProc}] : Owned(own)'
    BY <1>1 DEF Resumable
  <2>1. PICK own \in [Places -> Pids \cup {NoProc}] : Owned(own)
    BY DEF Stacked, Resumable
  <2>2. Owned(own)'
    BY <2>1, <1>1, <1>2, <1>3 DEF Owned
  <2> QED
    BY <2>2
<1>6. Rings'
  BY <1>1, <1>2 DEF Stacked, Rings
<1>7. Depths'
  <2>1. \A n \in DOMAIN kstack' : kstack'[n].at = "drain" =>
          n \in DOMAIN kstack /\ kstack[n].at = "drain" /\ kstack'[n].eip = kstack[n].eip
    BY <1>2, <1>3
  <2>2. 1 \in DOMAIN kstack /\ kstack'[1].ring = kstack[1].ring
    <3>1. 1 \in DOMAIN kstack
      BY <1>1, TopOfStack DEF CpuTypes
    <3> QED
      BY <1>2, <3>1
  <2> QED
    BY <1>1, <1>2, <2>1, <2>2 DEF Stacked, Depths
<1>8. Holding' = Holding
  BY <1>2, <1>3 DEF Holding
<1>9. InHand' = InHand
  BY <1>2, <1>3 DEF InHand
<1> QED
  BY <1>2, <1>3, <1>4, <1>5, <1>6, <1>7, <1>8, <1>9 DEF Stacked, Holding

-----------------------------------------------------------------------------
(***************************************************************************)
(* What schedule() does to the queues: rd is __ready, fr __start and w     *)
(* __waiting, of which n are resolved.                                     *)
(***************************************************************************)
\* r and rest are what the queues rd, fr and w are sorted into.
Sorted(rd, fr, w, st, r, rest) ==
  /\ r \in Seq(Pids) /\ IsInjective(r) /\ rest \in Seq(Pids) /\ IsInjective(rest)
  /\ Range(r) \cup Range(rest) = Range(rd) \cup Range(fr) \cup Range(w)
  /\ Range(r) \cap Range(rest) = {} /\ Range(rest) \subseteq Range(w)
  /\ \A p \in Range(r) : st[p] \in {"READY", "DONE"}

LEMMA Sorting ==
  ASSUME NEW rd \in Seq(Pids), NEW fr \in Seq(Pids), NEW w \in Seq(Pids),
         IsInjective(rd), IsInjective(fr), IsInjective(w),
         Range(rd) \cap Range(fr) = {}, Range(rd) \cap Range(w) = {},
         Range(fr) \cap Range(w) = {},
         NEW st, \A p \in Range(rd) \cup Range(fr) : st[p] \in {"READY", "DONE"},
         NEW n \in 0 .. Len(w), ResolvedPrefix(w, st, n)
  PROVE  Sorted(rd, fr, w, st, (rd \o fr) \o SubSeq(w, 1, n), SubSeq(w, n + 1, Len(w)))
<1> DEFINE front == SubSeq(w, 1, n)
           back  == SubSeq(w, n + 1, Len(w))
           t     == rd \o fr
<1>1. /\ front \in Seq(Pids) /\ IsInjective(front) /\ back \in Seq(Pids) /\ IsInjective(back)
      /\ Range(front) \cup Range(back) = Range(w) /\ Range(front) \cap Range(back) = {}
      /\ \A p \in Range(front) : st[p] = "READY"
  <2>1. \A p \in Range(front) : st[p] = "READY"
    BY PrefixFacts DEF ResolvedPrefix
  <2> QED
    BY <2>1, PrefixFacts, SuffixFacts, SplitFacts
<1> HIDE DEF front, back
<1>2. t \in Seq(Pids) /\ IsInjective(t) /\ Range(t) = Range(rd) \cup Range(fr)
  BY ConcatFacts
<1>3. Range(t) \cap Range(front) = {}
  BY <1>1, <1>2
<1> HIDE DEF t
<1>4. /\ t \o front \in Seq(Pids) /\ IsInjective(t \o front)
      /\ Range(t \o front) = Range(t) \cup Range(front)
  BY <1>1, <1>2, <1>3, ConcatFacts
<1>5. Sorted(rd, fr, w, st, t \o front, back)
  BY <1>1, <1>2, <1>4 DEF Sorted
<1>6. (rd \o fr) \o SubSeq(w, 1, n) = t \o front /\ SubSeq(w, n + 1, Len(w)) = back
  BY DEF t, front, back
<1> QED
  BY <1>5, <1>6

\* r falls into the ended processes d, the ready one x, and those behind it, b.
Parted(r, st, d, x, b) ==
  /\ b \in Seq(Pids) /\ IsInjective(b)
  /\ Range(r) = d \cup {x} \cup Range(b)
  /\ x \notin d \cup Range(b) /\ d \cap Range(b) = {}
  /\ x \in Pids /\ st[x] = "READY" /\ \A p \in d : st[p] = "DONE"

LEMMA Popping ==
  ASSUME NEW r \in Seq(Pids), IsInjective(r), NEW rest \in Seq(Pids),
         NEW st, \A p \in Range(r) : st[p] \in {"READY", "DONE"},
         NEW k \in 1 .. Len(r), FirstReady(r, st, k)
  PROVE  /\ Parted(r, st, DoneIn(r, st, k), r[k], SubSeq(r, k + 1, Len(r)))
         /\ rest \o Pick(r, WaitingIn(r, st, k)) = rest
<1> DEFINE b == SubSeq(r, k + 1, Len(r))
           d == DoneIn(r, st, k)
<1>1. /\ Len(r) \in Nat /\ DOMAIN r = 1 .. Len(r) /\ Range(r) = {r[i] : i \in 1 .. Len(r)}
      /\ \A i \in 1 .. Len(r) : r[i] \in Pids /\ st[r[i]] \in {"READY", "DONE"}
      /\ \A i, j \in 1 .. Len(r) : r[i] = r[j] => i = j
  <2>1. Len(r) \in Nat /\ DOMAIN r = 1 .. Len(r) /\ \A i \in 1 .. Len(r) : r[i] \in Pids
    OBVIOUS
  <2>2. Range(r) = {r[i] : i \in 1 .. Len(r)}
    BY <2>1 DEF Range
  <2>3. \A i \in 1 .. Len(r) : r[i] \in Range(r)
    BY <2>2
  <2> QED
    BY <2>1, <2>2, <2>3 DEF IsInjective
<1>2. /\ b \in Seq(Pids) /\ IsInjective(b) /\ Range(b) = {r[i] : i \in k + 1 .. Len(r)}
  <2>1. k \in 0 .. Len(r)
    BY <1>1
  <2> QED
    BY <2>1, SuffixFacts
<1>3. {h \in 1 .. k - 1 : st[r[h]] = "DONE"} = 1 .. k - 1
  BY <1>1 DEF FirstReady
<1>4. d = {r[i] : i \in 1 .. k - 1} /\ \A i \in 1 .. k - 1 : st[r[i]] = "DONE"
  BY <1>3 DEF DoneIn
<1>5. WaitingIn(r, st, k) = {}
  BY <1>4 DEF WaitingIn
<1>6. rest \o Pick(r, WaitingIn(r, st, k)) = rest
  BY <1>5, PickNothing, ConcatEmptySeq
<1>7. /\ Range(r) = d \cup {r[k]} \cup Range(b)
      /\ r[k] \notin d \cup Range(b) /\ d \cap Range(b) = {}
  BY <1>1, <1>2, <1>4
<1> QED
  BY <1>1, <1>2, <1>4, <1>6, <1>7 DEF FirstReady, Parted

\* Only ended processes are left when there is no ready one.
LEMMA NoneReady ==
  ASSUME NEW r \in Seq(Pids), NEW rest \in Seq(Pids),
         NEW st, \A p \in Range(r) : st[p] \in {"READY", "DONE"},
         \A k \in 1 .. Len(r) : st[r[k]] # "READY",
         NEW d, d = DoneIn(r, st, Len(r) + 1)
  PROVE  /\ d = Range(r) /\ \A p \in d : st[p] = "DONE"
         /\ rest \o Pick(r, WaitingIn(r, st, Len(r) + 1)) = rest
<1>1. /\ Len(r) \in Nat /\ DOMAIN r = 1 .. Len(r) /\ Range(r) = {r[i] : i \in 1 .. Len(r)}
      /\ \A i \in 1 .. Len(r) : st[r[i]] = "DONE"
      /\ (Len(r) + 1) - 1 = Len(r)
  BY DEF Range
<1>2. WaitingIn(r, st, Len(r) + 1) = {}
  BY <1>1 DEF WaitingIn
<1>3. rest \o Pick(r, WaitingIn(r, st, Len(r) + 1)) = rest
  BY <1>2, PickNothing, ConcatEmptySeq
<1>4. {h \in 1 .. Len(r) : st[r[h]] = "DONE"} = 1 .. Len(r)
  BY <1>1
<1>5. d = Range(r)
  BY <1>1, <1>4 DEF DoneIn
<1> QED
  BY <1>1, <1>3, <1>5

-----------------------------------------------------------------------------
(***************************************************************************)
(* A handler that has not called schedule() acts for the current process.  *)
(***************************************************************************)
LEMMA MeIsCurrent ==
  ASSUME PInv, ~halted, ~wild, mode = "kernel", Top.at \notin Special
  PROVE  /\ Me = current /\ current \in Pids /\ kstack # <<>>
         /\ state[current] \in {"RUNNING", "WAITING", "DONE"}
         /\ state[current] = "WAITING" => Top.at \in {"blocked", "park"}
         /\ state[current] = "DONE" => Top.at \in {"tell", "report", "leave"}
         /\ state[current] = "DONE" /\ Top.at = "tell" => Top.arg = current
<1>1. CpuTypes /\ kstack # <<>> /\ Resumable
  BY DEF PInv, Stacked, Rings
<1>2. PICK own \in [Places -> Pids \cup {NoProc}] : Owned(own)
  BY <1>1 DEF Resumable
<1>3. Len(kstack) \in DOMAIN kstack /\ Top.proc \in Pids
  BY <1>1, TopOfStack
<1>4. own[Len(kstack)] = Top.proc /\ own[Len(kstack)] = current
  BY <1>2, <1>3 DEF Owned, Special, Top
<1>5. current # NoProc
  BY <1>3, <1>4, NoProcNotAPid
<1> QED
  BY <1>1, <1>3, <1>4, <1>5 DEF Me, PInv, Placed, Running

LEMMA HandlerStep ==
  ASSUME PInv, ~halted, ~wild, mode = "kernel", Top.at \notin Special,
         NEW l \in Labels \ Special, NEW a \in Pids \cup {-1, 0}, Step(l, a),
         UNCHANGED <<nextPid, all, current, start, ready, waiting, halted>>,
         \A p \in Pids \ {current} :
           \/ state'[p] = state[p]
           \/ state[p] = "WAITING" /\ state'[p] = "READY"
           \/ state'[p] = "DONE" /\ p < nextPid,
         state'[current] \in {"RUNNING", "WAITING", "DONE"},
         state'[current] = "WAITING" => l \in {"blocked", "park"},
         state'[current] = "DONE" => l \in {"tell", "report", "leave"},
         state'[current] = "DONE" /\ l = "tell" => a = current,
         l \in {"register", "copy", "load", "sleep", "killing", "tell"} => a \in Pids,
         l = "killing" => a < nextPid
  PROVE  Stacked' /\ Placed'
<1>1. /\ Stacked' /\ Top'.at = l /\ Top'.arg = a /\ InHand' = InHand /\ Holding' = Holding
      /\ \A n \in Holding : kstack'[n] = kstack[n]
      /\ Len(kstack') = Len(kstack) /\ DOMAIN kstack' = DOMAIN kstack
      /\ \A n \in DOMAIN kstack : n # Len(kstack) => kstack'[n] = kstack[n]
  BY StepStacked DEF PInv
<1>2. UNCHANGED <<done, mode, hits>>
  BY DEF Step, history
<1>3. current \in Pids /\ kstack # <<>>
  BY MeIsCurrent
<1>4. Standing'
  BY <1>1, <1>2 DEF PInv, Placed, Standing, Queued
<1>5. Held'
  BY <1>1, <1>2 DEF PInv, Placed, Held, Queued
<1>6. Fitting'
  <2>1. current \notin Queued \cup done \cup InHand /\ current \in all /\ all \subseteq Pids
    BY <1>3, NoProcNotAPid DEF PInv, Placed, Standing, TypeOK
  <2>2. Queued \cup done \cup InHand \subseteq Pids
    BY <2>1 DEF PInv, Placed, Standing
  <2>3. \A p \in Pids : state'[p] = "RUNNING" => p = current
    BY DEF PInv, Placed, Fitting
  <2>4. \A p \in Range(start) : state'[p] \in {"START", "DONE"}
    BY <2>1, <2>2 DEF PInv, Placed, Fitting, Queued
  <2>5. \A p \in Range(ready) \cup InHand : state'[p] \in {"READY", "DONE"}
    BY <2>1, <2>2 DEF PInv, Placed, Fitting, Queued
  <2>6. \A p \in Range(waiting) : state'[p] \in {"WAITING", "READY", "DONE"}
    BY <2>1, <2>2 DEF PInv, Placed, Fitting, Queued
  <2>7. \A p \in done : state'[p] = "DONE"
    <3> SUFFICES ASSUME NEW p \in done PROVE state'[p] = "DONE"
      OBVIOUS
    <3>1. p \in Pids \ {current} /\ state[p] = "DONE"
      BY <2>1, <2>2 DEF PInv, Placed, Fitting
    <3> QED
      BY <3>1
  <2>8. \A p \in Pids \ all : state'[p] = IF p < nextPid THEN "DONE" ELSE "NONE"
    <3> SUFFICES ASSUME NEW p \in Pids \ all
                 PROVE  state'[p] = IF p < nextPid THEN "DONE" ELSE "NONE"
      OBVIOUS
    <3>1. state[p] = (IF p < nextPid THEN "DONE" ELSE "NONE") /\ p # current
      BY <2>1 DEF PInv, Placed, Fitting
    <3> QED
      BY <3>1
  <2> QED
    BY <1>1, <1>2, <2>3, <2>4, <2>5, <2>6, <2>7, <2>8 DEF PInv, Placed, Fitting
<1>7. Running'
  BY <1>1, <1>2 DEF Running
<1>8. Arguments'
  <2> SUFFICES ASSUME NEW n \in DOMAIN kstack
               PROVE  /\ kstack'[n].at \in {"register", "copy", "load", "sleep", "hold", "killing", "tell"} =>
                           kstack'[n].arg \in Pids
                      /\ kstack'[n].at = "killing" => kstack'[n].arg < nextPid
    BY <1>1 DEF Arguments
  <2>1. CASE n = Len(kstack)
    BY <2>1, <1>1 DEF Top, Special
  <2>2. CASE n # Len(kstack)
    BY <2>2, <1>1 DEF PInv, Placed, Arguments
  <2> QED
    BY <2>1, <2>2
<1> QED
  BY <1>1, <1>4, <1>5, <1>6, <1>7, <1>8 DEF Placed

LEMMA Active ==
  ASSUME PInv, NEW m \in Labels \ Special, At(m)
  PROVE  /\ ~halted /\ ~wild /\ mode = "kernel" /\ Top.at = m /\ Top.at \notin Special
         /\ Me = current /\ current \in Pids /\ Top.arg \in Pids \cup {-1, 0}
         /\ state[current] \in {"RUNNING", "WAITING", "DONE"}
         /\ state[current] = "WAITING" => m \in {"blocked", "park"}
         /\ state[current] = "DONE" => m \in {"tell", "report", "leave"}
         /\ state[current] = "DONE" /\ m = "tell" => Top.arg = current
         /\ m \in {"register", "copy", "load", "sleep", "killing", "tell"} => Top.arg \in Pids
         /\ m = "killing" => Top.arg < nextPid
<1>1. ~halted /\ ~wild /\ mode = "kernel" /\ Top.at = m /\ Top.at \notin Special
  BY DEF At
<1>2. /\ Me = current /\ current \in Pids /\ kstack # <<>>
      /\ state[current] \in {"RUNNING", "WAITING", "DONE"}
      /\ state[current] = "WAITING" => m \in {"blocked", "park"}
      /\ state[current] = "DONE" => m \in {"tell", "report", "leave"}
      /\ state[current] = "DONE" /\ m = "tell" => Top.arg = current
  BY <1>1, MeIsCurrent
<1>3. Len(kstack) \in DOMAIN kstack /\ Top.arg \in Pids \cup {-1, 0}
  BY <1>2, TopOfStack DEF PInv, Stacked
<1>4. /\ m \in {"register", "copy", "load", "sleep", "killing", "tell"} => Top.arg \in Pids
      /\ m = "killing" => Top.arg < nextPid
  BY <1>1, <1>3 DEF PInv, Placed, Arguments, Top
<1> QED
  BY <1>1, <1>2, <1>3, <1>4

\* The labels in front of schedule(), one by one.
LEMMA LabelNames ==
  /\ {"fork", "execve", "wait", "kill", "exit", "register", "copy", "load", "sleep", "block",
      "blocked", "killing", "tell", "report", "park", "leave", "return"} \subseteq Labels \ Special
  /\ Special \subseteq Labels
BY DEF Labels, Calls, Special

\* A step that changes nothing but the place in the handler.
LEMMA QuietHandler ==
  ASSUME PInv, NEW m \in Labels \ Special, At(m),
         NEW l \in Labels \ Special, NEW a \in Pids \cup {-1, 0}, Step(l, a), UNCHANGED vars,
         m \notin {"park", "tell", "report", "leave"},
         m = "blocked" => l = "park" \/ state[current] # "WAITING",
         l \in {"register", "copy", "load", "sleep", "killing", "tell"} => a \in all
  PROVE  PInv'
<1>1. /\ ~halted /\ ~wild /\ mode = "kernel" /\ Top.at \notin Special
      /\ state[current] \in {"RUNNING", "WAITING", "DONE"}
      /\ state[current] = "WAITING" => m \in {"blocked", "park"}
      /\ state[current] = "DONE" => m \in {"tell", "report", "leave"}
  BY Active
<1>2. UNCHANGED <<nextPid, all, current, start, ready, waiting, state, halted>>
  BY DEF vars
<1>3. a \in all => a \in Pids /\ a < nextPid
  <2>1. all \subseteq Pids /\ all \subseteq 1 .. nextPid - 1 /\ nextPid \in Nat
    BY SchedulerAssumption DEF PInv, Placed, Fitting, TypeOK
  <2> QED
    BY <2>1
<1>4. TypeOK'
  BY DEF PInv, TypeOK, vars, family
<1>5. /\ state'[current] = "WAITING" => l \in {"blocked", "park"}
      /\ state'[current] # "DONE"
  BY <1>1, <1>2
<1>6. /\ l \in {"register", "copy", "load", "sleep", "killing", "tell"} => a \in Pids
      /\ l = "killing" => a < nextPid
  BY <1>3
<1>7. Stacked' /\ Placed'
  BY <1>1, <1>2, <1>5, <1>6, HandlerStep
<1> QED
  BY <1>4, <1>7 DEF PInv

\* A step that leaves the states alone.
LEMMA StatelessHandler ==
  ASSUME PInv, NEW m \in Labels \ Special, At(m),
         NEW l \in Labels \ Special, NEW a \in Pids \cup {-1, 0}, Step(l, a),
         UNCHANGED <<nextPid, all, current, start, ready, waiting, state, halted>>,
         state[current] = "RUNNING",
         l \in {"register", "copy", "load", "sleep", "tell"} => a \in Pids, l # "killing"
  PROVE  Stacked' /\ Placed'
BY Active, HandlerStep

LEMMA SetStateStep ==
  ASSUME PInv, NEW m \in Labels \ Special, At(m), NEW s \in {"WAITING", "DONE"}, SetState(Me, s),
         NEW l \in Labels \ Special, NEW a \in Pids \cup {-1, 0}, Step(l, a),
         s = "WAITING" => l \in {"blocked", "park"},
         s = "DONE" => l = "report",
         l \in {"register", "copy", "load", "sleep", "tell"} => a \in Pids, l # "killing"
  PROVE  PInv'
<1>1. /\ Me = current /\ current \in Pids
      /\ ~halted /\ ~wild /\ mode = "kernel" /\ Top.at \notin Special
  BY Active
<1>2. /\ state' = [state EXCEPT ![current] = s] /\ state \in [Pids -> States]
      /\ UNCHANGED <<nextPid, all, current, start, ready, waiting, family, contextEax,
                     frameEax, halted, rekilled>>
  BY <1>1 DEF SetState, PInv, TypeOK
<1>3. /\ state'[current] = s /\ \A p \in Pids \ {current} : state'[p] = state[p]
      /\ state' \in [Pids -> States]
  BY <1>1, <1>2 DEF States
<1>4. TypeOK'
  BY <1>2, <1>3 DEF PInv, TypeOK, family
<1>5. Stacked' /\ Placed'
  BY <1>1, <1>2, <1>3, HandlerStep
<1> QED
  BY <1>4, <1>5 DEF PInv

LEMMA NotifyParentCreateStep ==
  ASSUME PInv, NEW m \in {"register", "load"}, At(m), NotifyParentCreate(Top.arg),
         NEW l \in {"copy", "sleep"}, Step(l, Top.arg)
  PROVE  PInv'
<1>1. m \in Labels \ Special /\ l \in Labels \ Special
  BY LabelNames
<1>2. /\ Me = current /\ current \in Pids /\ Top.arg \in Pids
      /\ state[current] = "RUNNING"
  BY <1>1, Active
<1>3. PICK i \in Slots :
        /\ parent' = [parent EXCEPT ![Top.arg] = current]
        /\ child' = [child EXCEPT ![current][i] = Top.arg]
        /\ childBitmap' = [childBitmap EXCEPT ![current] = @ \cup {i}]
        /\ UNCHANGED <<nextPid, all, current, start, ready, waiting, state, signal,
                       childCompleted, contextEax, frameEax, halted, rekilled>>
  BY <1>2 DEF NotifyParentCreate
<1>4. /\ parent' \in [Pids -> Pids \cup {NoProc}]
      /\ child' \in [Pids -> [Slots -> Pids \cup {NoProc}]]
      /\ childBitmap' \in [Pids -> SUBSET Slots]
  BY <1>2, <1>3 DEF PInv, TypeOK
<1>5. TypeOK'
  BY <1>3, <1>4 DEF PInv, TypeOK
<1>6. Stacked' /\ Placed'
  BY <1>1, <1>2, <1>3, StatelessHandler
<1> QED
  BY <1>5, <1>6 DEF PInv

(***************************************************************************)
(* create() puts a new process in the table and in __start.                *)
(***************************************************************************)
LEMMA CreateStep ==
  ASSUME PInv, NEW m \in {"fork", "execve"}, At(m), CreateChild,
         NEW l \in {"register", "load"}, Step(l, nextPid)
  PROVE  PInv'
<1> DEFINE n == nextPid
<1>1. m \in Labels \ Special /\ l \in Labels \ Special
  BY LabelNames
<1>2. /\ ~halted /\ ~wild /\ mode = "kernel" /\ Top.at \notin Special
      /\ current \in Pids /\ state[current] = "RUNNING"
  BY <1>1, Active
<1>3. /\ n \in Pids /\ n \in Nat /\ n + 1 \in 1 .. TableSize /\ n \notin all /\ all \subseteq Pids
      /\ all \subseteq 1 .. n - 1 /\ state[n] = "NONE"
  <2>1. n \in Pids /\ n \in Nat /\ n + 1 \in 1 .. TableSize
    BY SchedulerAssumption DEF CreateChild, HasEntry, PInv, TypeOK, Pids
  <2>2. all \subseteq Pids /\ all \subseteq 1 .. n - 1
    BY DEF PInv, TypeOK, Placed, Fitting
  <2>3. n \notin all
    BY <2>1, <2>2
  <2>4. state[n] = "NONE"
    BY <2>1, <2>3 DEF PInv, Placed, Fitting
  <2> QED
    BY <2>1, <2>2, <2>3, <2>4
<1>4. /\ nextPid' = n + 1 /\ all' = all \cup {n} /\ start' = Append(start, n)
      /\ state' = [state EXCEPT ![n] = "START"]
      /\ UNCHANGED <<current, ready, waiting, family, contextEax, frameEax, halted, rekilled>>
      /\ UNCHANGED <<done, mode, hits>>
  BY DEF CreateChild, Step, history
<1> HIDE DEF n
<1>5. /\ Stacked' /\ Top'.at = l /\ Top'.arg = n /\ InHand' = InHand /\ Holding' = Holding
      /\ \A k \in Holding : kstack'[k] = kstack[k]
      /\ Len(kstack') = Len(kstack) /\ DOMAIN kstack' = DOMAIN kstack
      /\ \A k \in DOMAIN kstack : k # Len(kstack) => kstack'[k] = kstack[k]
  <2>1. Step(l, n)
    BY DEF n
  <2> QED
    BY <1>1, <1>2, <1>3, <1>4, <2>1, StepStacked DEF PInv
<1>6. /\ start \in Seq(Pids) /\ IsInjective(start) /\ n \notin Range(start)
      /\ n \notin Queued \cup done \cup InHand \cup {current}
  <2>1. Queued \cup done \cup InHand \cup ({current} \ {NoProc}) \subseteq all
    BY DEF PInv, Placed, Standing
  <2> QED
    BY <1>2, <1>3, <2>1, NoProcNotAPid DEF PInv, TypeOK, Placed, Standing, Queued
<1>7. start' \in Seq(Pids) /\ IsInjective(start') /\ Range(start') = Range(start) \cup {n}
  BY <1>3, <1>4, <1>6, AppendFacts
<1>8. /\ state' \in [Pids -> States] /\ state'[n] = "START"
      /\ \A p \in Pids \ {n} : state'[p] = state[p]
  BY <1>3, <1>4 DEF PInv, TypeOK, States
<1>9. TypeOK'
  <2>1. nextPid' \in 1 .. TableSize /\ all' \subseteq Pids
    BY <1>3, <1>4
  <2> QED
    BY <1>4, <1>7, <1>8, <2>1 DEF PInv, TypeOK, family
<1>10. Standing'
  BY <1>4, <1>5, <1>6, <1>7 DEF PInv, Placed, Standing, Queued
<1>11. Held'
  BY <1>4, <1>5, <1>7 DEF PInv, Placed, Held, Queued
<1>12. Fitting'
  <2>1. all' \subseteq 1 .. nextPid' - 1
    <3>1. n \in 1 .. n /\ (n + 1) - 1 = n /\ 1 .. n - 1 \subseteq 1 .. n
      BY <1>3, SchedulerAssumption DEF Pids
    <3> QED
      BY <1>3, <1>4, <3>1
  <2>2. Queued \cup done \cup InHand \subseteq Pids
    BY <1>3 DEF PInv, Placed, Standing
  <2>3. \A p \in Pids \ all' : state'[p] = IF p < nextPid' THEN "DONE" ELSE "NONE"
    <3> SUFFICES ASSUME NEW p \in Pids \ all'
                 PROVE  state'[p] = IF p < nextPid' THEN "DONE" ELSE "NONE"
      OBVIOUS
    <3>1. p \in Pids \ all /\ p # n
      BY <1>4
    <3>2. state'[p] = IF p < n THEN "DONE" ELSE "NONE"
      BY <1>8, <3>1 DEF n, PInv, Placed, Fitting
    <3>3. p \in Int /\ (p < n + 1 <=> p < n)
      BY <1>3, <3>1, SchedulerAssumption DEF Pids
    <3> QED
      BY <1>4, <3>2, <3>3
  <2>4. \A p \in Pids : state'[p] = "RUNNING" => p = current
    BY <1>8 DEF PInv, Placed, Fitting
  <2>5. \A p \in Queued \cup done \cup InHand : state'[p] = state[p]
    BY <1>6, <1>8, <2>2
  <2>6. \A p \in Range(start') : state'[p] \in {"START", "DONE"}
    BY <1>7, <1>8, <2>5 DEF PInv, Placed, Fitting, Queued
  <2> QED
    BY <1>4, <1>5, <2>1, <2>3, <2>4, <2>5, <2>6 DEF PInv, Placed, Fitting, Queued
<1>13. Running'
  <2>1. state'[current] = "RUNNING"
    BY <1>2, <1>6, <1>8
  <2> QED
    BY <1>4, <2>1 DEF Running
<1>14. Arguments'
  <2> SUFFICES ASSUME NEW k \in DOMAIN kstack
               PROVE  /\ kstack'[k].at \in {"register", "copy", "load", "sleep", "hold", "killing", "tell"} =>
                           kstack'[k].arg \in Pids
                      /\ kstack'[k].at = "killing" => kstack'[k].arg < nextPid'
    BY <1>5 DEF Arguments
  <2>1. CASE k = Len(kstack)
    BY <2>1, <1>3, <1>5 DEF Top
  <2>2. CASE k # Len(kstack)
    <3>1. kstack[k].at = "killing" => kstack[k].arg \in Pids /\ kstack[k].arg < n
      BY DEF n, PInv, Placed, Arguments
    <3>2. kstack[k].at = "killing" => kstack[k].arg < n + 1
      BY <1>3, <3>1, SchedulerAssumption DEF Pids
    <3> QED
      BY <2>2, <1>4, <1>5, <3>2 DEF PInv, Placed, Arguments
  <2> QED
    BY <2>1, <2>2
<1> QED
  BY <1>5, <1>9, <1>10, <1>11, <1>12, <1>13, <1>14 DEF PInv, Placed

LEMMA CopyStep ==
  ASSUME PInv, At("copy"), Step("return", Top.arg),
         contextEax' = [contextEax EXCEPT ![Top.arg] = contextEax[Me]],
         UNCHANGED <<nextPid, all, current, start, ready, waiting, state, family,
                     frameEax, halted, rekilled>>
  PROVE  PInv'
<1>1. "copy" \in Labels \ Special /\ "return" \in Labels \ Special
  BY LabelNames
<1>2. /\ Me = current /\ current \in Pids /\ Top.arg \in Pids
      /\ state[current] = "RUNNING"
  BY <1>1, Active
<1>3. contextEax' \in [Pids -> Pids \cup {-1, 0}]
  BY <1>2 DEF PInv, TypeOK
<1>4. TypeOK'
  BY <1>3 DEF PInv, TypeOK, family
<1>5. Stacked' /\ Placed'
  BY <1>1, <1>2, StatelessHandler
<1> QED
  BY <1>4, <1>5 DEF PInv

LEMMA ReapStep == ASSUME PInv, At("wait"), Reap PROVE PInv'
<1>1. "wait" \in Labels \ Special /\ "return" \in Labels \ Special
  BY LabelNames
<1>2. Me = current /\ current \in Pids /\ state[current] = "RUNNING"
  BY <1>1, Active
<1>3. childCompleted[current] \subseteq Slots
  BY <1>2 DEF PInv, TypeOK
<1>4. PICK i \in Slots :
        /\ Step("return", child[current][i])
        /\ child' = [child EXCEPT ![current][i] = NoProc]
        /\ childBitmap' = [childBitmap EXCEPT ![current] = @ \ {i}]
        /\ childCompleted' = [childCompleted EXCEPT ![current] = @ \ {i}]
        /\ UNCHANGED <<nextPid, all, current, start, ready, waiting, state, signal,
                       parent, contextEax, frameEax, halted, rekilled>>
  BY <1>2, <1>3 DEF Reap
<1>5. /\ child[current][i] \in Pids \cup {-1, 0}
      /\ child' \in [Pids -> [Slots -> Pids \cup {NoProc}]]
      /\ childBitmap' \in [Pids -> SUBSET Slots]
      /\ childCompleted' \in [Pids -> SUBSET Slots]
  BY <1>2, <1>4 DEF PInv, TypeOK, NoProc
<1>6. TypeOK'
  BY <1>4, <1>5 DEF PInv, TypeOK
<1>7. Stacked' /\ Placed'
  BY <1>1, <1>2, <1>4, <1>5, StatelessHandler
<1> QED
  BY <1>6, <1>7 DEF PInv

LEMMA KillingStep ==
  ASSUME PInv, At("killing"), Step("tell", Top.arg),
         signal' = [signal EXCEPT ![Top.arg] = TRUE],
         state' = [state EXCEPT ![Top.arg] = "DONE"],
         UNCHANGED <<nextPid, all, current, start, ready, waiting, parent, child,
                     childBitmap, childCompleted, contextEax, frameEax, halted>>
  PROVE  PInv'
<1>1. "killing" \in Labels \ Special /\ "tell" \in Labels \ Special
  BY LabelNames
<1>2. /\ ~halted /\ ~wild /\ mode = "kernel" /\ Top.at \notin Special
      /\ Me = current /\ current \in Pids /\ Top.arg \in Pids /\ Top.arg < nextPid
      /\ state[current] = "RUNNING"
  BY <1>1, Active
<1>3. /\ signal' \in [Pids -> BOOLEAN] /\ state' \in [Pids -> States]
      /\ \A p \in Pids : state'[p] = IF p = Top.arg THEN "DONE" ELSE state[p]
  BY <1>2 DEF PInv, TypeOK, States
<1>4. TypeOK'
  BY <1>3 DEF PInv, TypeOK
<1>5. /\ \A p \in Pids \ {current} :
           state'[p] = state[p] \/ (state'[p] = "DONE" /\ p < nextPid)
      /\ state'[current] \in {"RUNNING", "DONE"}
      /\ state'[current] = "DONE" => Top.arg = current
  BY <1>2, <1>3
<1>6. Stacked' /\ Placed'
  BY <1>1, <1>2, <1>5, HandlerStep
<1> QED
  BY <1>4, <1>6 DEF PInv

\* notify_parent_complete() of kill() and exit().
LEMMA TellStep ==
  ASSUME PInv, NEW m \in {"tell", "report"}, At(m), NEW p \in Pids, Tell(p),
         NEW l \in {"leave", "return"}, NEW a \in Pids \cup {-1, 0}, Step(l, a),
         l = "return" => state[current] # "DONE"
  PROVE  PInv'
<1>1. m \in Labels \ Special /\ l \in Labels \ Special
  BY LabelNames
<1>2. /\ ~halted /\ ~wild /\ mode = "kernel" /\ Top.at \notin Special
      /\ current \in Pids /\ state[current] \in {"RUNNING", "DONE"}
  BY <1>1, Active
<1>3. /\ NotifyParentComplete(p, state) /\ state \in [Pids -> States]
      /\ state' = NotifiedStates(p, state) /\ contextEax' = NotifiedEax(p, state)
      /\ UNCHANGED <<nextPid, all, current, start, ready, waiting, signal, parent,
                     frameEax, halted, rekilled>>
  BY DEF Tell, PInv, TypeOK
<1>4. /\ child' \in [Pids -> [Slots -> Pids \cup {NoProc}]]
      /\ childBitmap' \in [Pids -> SUBSET Slots]
      /\ childCompleted' \in [Pids -> SUBSET Slots]
      /\ state' \in [Pids -> States]
      /\ contextEax' \in [Pids -> Pids \cup {-1, 0}]
      /\ \A q \in Pids : state'[q] = state[q] \/ (state[q] = "WAITING" /\ state'[q] = "READY")
  BY <1>3, NotifyStep DEF PInv
<1>5. TypeOK'
  BY <1>3, <1>4 DEF PInv, TypeOK
<1>6. state'[current] = state[current]
  BY <1>2, <1>4
<1>7. Stacked' /\ Placed'
  BY <1>1, <1>2, <1>3, <1>4, <1>6, HandlerStep
<1> QED
  BY <1>5, <1>7 DEF PInv

-----------------------------------------------------------------------------
LEMMA ForkStepsKeep == ASSUME PInv, ForkSteps PROVE PInv'
<1> USE LabelNames
<1>1. CASE At("fork") /\ childBitmap[Me] = Slots /\ Step("return", -1) /\ UNCHANGED vars
  BY <1>1, QuietHandler
<1>2. CASE At("fork") /\ CreateChild /\ Step("register", nextPid)
  BY <1>2, CreateStep
<1>3. CASE At("register") /\ NotifyParentCreate(Top.arg) /\ Step("copy", Top.arg)
  BY <1>3, NotifyParentCreateStep
<1>4. CASE /\ At("copy")
           /\ contextEax' = [contextEax EXCEPT ![Top.arg] = contextEax[Me]]
           /\ Step("return", Top.arg)
           /\ UNCHANGED <<nextPid, all, current, start, ready, waiting, state, family,
                          frameEax, halted, rekilled>>
  BY <1>4, CopyStep
<1> QED
  BY <1>1, <1>2, <1>3, <1>4 DEF ForkSteps

LEMMA ExecveStepsKeep == ASSUME PInv, ExecveSteps PROVE PInv'
<1> USE LabelNames
<1>1. CASE At("execve") /\ Step("leave", -1) /\ UNCHANGED vars
  BY <1>1, QuietHandler
<1>2. CASE At("execve") /\ CreateChild /\ Step("load", nextPid)
  BY <1>2, CreateStep
<1>3. CASE At("load") /\ NotifyParentCreate(Top.arg) /\ Step("sleep", Top.arg)
  BY <1>3, NotifyParentCreateStep
<1>4. CASE At("sleep") /\ SetState(Me, "WAITING") /\ Step("park", Top.arg)
  <2>1. Top.arg \in Pids
    BY <1>4, Active
  <2> QED
    BY <1>4, <2>1, SetStateStep
<1> QED
  BY <1>1, <1>2, <1>3, <1>4 DEF ExecveSteps

LEMMA WaitStepsKeep == ASSUME PInv, WaitSteps PROVE PInv'
<1> USE LabelNames
<1>1. CASE At("wait") /\ childBitmap[Me] = {} /\ Step("return", -1) /\ UNCHANGED vars
  BY <1>1, QuietHandler
<1>2. CASE At("wait") /\ childBitmap[Me] # {} /\ Reap
  BY <1>2, ReapStep
<1>3. CASE At("wait") /\ Step("block", 0) /\ UNCHANGED vars
  BY <1>3, QuietHandler
<1>4. CASE At("block") /\ SetState(Me, "WAITING") /\ Step("blocked", 0)
  BY <1>4, SetStateStep
<1>5. CASE At("blocked") /\ state[Me] = "WAITING" /\ Step("park", 0) /\ UNCHANGED vars
  BY <1>5, QuietHandler
<1>6. CASE At("blocked") /\ state[Me] # "WAITING" /\ Step("return", 0) /\ UNCHANGED vars
  <2>1. Me = current
    BY <1>6, Active
  <2> QED
    BY <1>6, <2>1, QuietHandler
<1> QED
  BY <1>1, <1>2, <1>3, <1>4, <1>5, <1>6 DEF WaitSteps

LEMMA KillStepsKeep == ASSUME PInv, KillSteps PROVE PInv'
<1> USE LabelNames
<1>1. CASE At("kill") /\ Step("return", -1) /\ UNCHANGED vars
  BY <1>1, QuietHandler
<1>2. CASE At("kill") /\ Top.arg \in all /\ Step("killing", Top.arg) /\ UNCHANGED vars
  <2>1. Top.arg \in Pids \cup {-1, 0}
    BY <1>2, Active
  <2> QED
    BY <1>2, <2>1, QuietHandler
<1>3. CASE /\ At("killing")
           /\ signal' = [signal EXCEPT ![Top.arg] = TRUE]
           /\ state' = [state EXCEPT ![Top.arg] = "DONE"]
           /\ rekilled' = (rekilled \/ state[Top.arg] = "DONE")
           /\ Step("tell", Top.arg)
           /\ UNCHANGED <<nextPid, all, current, start, ready, waiting, parent, child,
                          childBitmap, childCompleted, contextEax, frameEax, halted>>
  BY <1>3, KillingStep
<1>4. CASE At("tell") /\ Tell(Top.arg) /\ Step(IF Top.arg = Me THEN "leave" ELSE "return", 0)
  <2>1. /\ Top.arg \in Pids /\ Me = current
        /\ state[current] = "DONE" => Top.arg = current
    BY <1>4, Active
  <2>2. CASE Top.arg = Me
    <3>1. Step("leave", 0)
      BY <1>4, <2>2
    <3> QED
      BY <1>4, <2>1, <3>1, TellStep
  <2>3. CASE Top.arg # Me
    <3>1. Step("return", 0) /\ state[current] # "DONE"
      BY <1>4, <2>1, <2>3
    <3> QED
      BY <1>4, <2>1, <3>1, TellStep
  <2> QED
    BY <2>2, <2>3
<1> QED
  BY <1>1, <1>2, <1>3, <1>4 DEF KillSteps

LEMMA ExitStepsKeep == ASSUME PInv, ExitSteps PROVE PInv'
<1> USE LabelNames
<1>1. CASE At("exit") /\ SetState(Me, "DONE") /\ Step("report", Top.arg)
  <2>1. Top.arg \in Pids \cup {-1, 0}
    BY <1>1, Active
  <2> QED
    BY <1>1, <2>1, SetStateStep
<1>2. CASE At("report") /\ Tell(Me) /\ Step("leave", Top.arg)
  <2>1. Top.arg \in Pids \cup {-1, 0} /\ Me \in Pids
    BY <1>2, Active
  <2> QED
    BY <1>2, <2>1, TellStep
<1> QED
  BY <1>1, <1>2 DEF ExitSteps

-----------------------------------------------------------------------------
(***************************************************************************)
(* The steps that push an activation and that drop the top one.            *)
(***************************************************************************)
LEMMA Pushed ==
  ASSUME CpuTypes, Len(kstack) < MaxDepth, NEW x \in Activations, kstack' = Append(kstack, x)
  PROVE  /\ kstack' \in Seq(Activations) /\ Len(kstack') = Len(kstack) + 1
         /\ DOMAIN kstack' = DOMAIN kstack \cup {Len(kstack) + 1}
         /\ Len(kstack) + 1 \in Places /\ Len(kstack) + 1 \notin DOMAIN kstack
         /\ \A n \in DOMAIN kstack : kstack'[n] = kstack[n] /\ n \in Nat /\ n <= Len(kstack)
         /\ kstack'[Len(kstack) + 1] = x
<1>1. kstack \in Seq(Activations) /\ Len(kstack) \in Nat /\ DOMAIN kstack = 1 .. Len(kstack)
  BY DEF CpuTypes
<1>2. /\ kstack' \in Seq(Activations) /\ Len(kstack') = Len(kstack) + 1
      /\ \A n \in 1 .. Len(kstack) : kstack'[n] = kstack[n]
      /\ kstack'[Len(kstack) + 1] = x
  BY <1>1
<1>3. DOMAIN kstack' = 1 .. Len(kstack) + 1
  BY <1>2
<1> QED
  BY <1>1, <1>2, <1>3, PreemptionAssumption DEF Places

LEMMA Popped ==
  ASSUME CpuTypes, kstack # <<>>, kstack' = Below
  PROVE  /\ kstack' \in Seq(Activations) /\ Len(kstack') = Len(kstack) - 1
         /\ DOMAIN kstack' = DOMAIN kstack \ {Len(kstack)}
         /\ \A n \in DOMAIN kstack' : kstack'[n] = kstack[n] /\ n \in Nat /\ n < Len(kstack)
         /\ Len(kstack) = 1 => kstack' = <<>>
<1>1. /\ kstack \in Seq(Activations) /\ Len(kstack) \in Nat \ {0}
      /\ DOMAIN kstack = 1 .. Len(kstack)
  BY TopOfStack DEF CpuTypes
<1>2. Len(kstack) - 1 \in 0 .. Len(kstack) /\ Len(kstack) - 1 \in Nat
  BY <1>1
<1>3. /\ Below \in Seq(Activations) /\ Len(Below) = Len(kstack) - 1
      /\ \A n \in 1 .. Len(kstack) - 1 : Below[n] = kstack[n]
  BY <1>1, <1>2, PrefixFacts DEF Below
<1>4. DOMAIN kstack' = 1 .. Len(kstack) - 1
  BY <1>3
<1> QED
  BY <1>1, <1>3, <1>4

-----------------------------------------------------------------------------
\* What holds while a program runs.
LEMMA InProgram ==
  ASSUME PInv, InUser, ~wild, mode = "user"
  PROVE  /\ ~halted /\ current \in Pids /\ state[current] = "RUNNING"
         /\ CpuTypes /\ (ring = 3 => kstack = <<>>)
         /\ "hold" \notin hits => Holding = {}
<1>1. ~halted /\ current \in Pids /\ current # NoProc
  BY DEF InUser, PInv, TypeOK
<1> QED
  BY <1>1 DEF PInv, Stacked, Rings, Placed, Running, Held

LEMMA EnterStep ==
  ASSUME PInv, NEW call \in Calls, NEW a \in Pids \cup {-1, 0}, Enter(call, a)
  PROVE  PInv'
<1> DEFINE L == Len(kstack)
           x == [proc |-> current, ring |-> ring, eip |-> 0, at |-> call, arg |-> a]
<1>1. /\ ~halted /\ ~wild /\ mode = "user" /\ current \in Pids /\ state[current] = "RUNNING"
      /\ CpuTypes /\ (ring = 3 => kstack = <<>>)
      /\ "hold" \notin hits => Holding = {}
  BY InProgram DEF Enter
<1>2. /\ EntryStack = kstack /\ Len(kstack) < MaxDepth
      /\ kstack' = Append(kstack, x) /\ mode' = "kernel"
      /\ UNCHANGED <<ring, switched, resume, wild, done, hits, nested>>
      /\ UNCHANGED vars
  BY <1>1 DEF Enter, EntryStack, history
<1>3. call \in Labels /\ call \notin Special
      /\ call \notin {"register", "copy", "load", "sleep", "hold", "killing", "tell"}
  BY DEF Labels, Calls, Special
<1>4. x \in Activations
  BY <1>1, <1>3, PreemptionAssumption DEF Activations, CpuTypes
<1>5. /\ x.proc = current /\ x.ring = ring /\ x.at = call /\ x.arg = a /\ x.eip = 0
  OBVIOUS
<1> HIDE DEF x
<1>6. /\ kstack' \in Seq(Activations) /\ Len(kstack') = L + 1
      /\ DOMAIN kstack' = DOMAIN kstack \cup {L + 1}
      /\ L + 1 \in Places /\ L + 1 \notin DOMAIN kstack
      /\ \A n \in DOMAIN kstack : kstack'[n] = kstack[n] /\ n \in Nat /\ n <= L
      /\ kstack'[L + 1] = x
  BY <1>1, <1>2, <1>4, Pushed
<1>7. L \in Nat /\ DOMAIN kstack = 1 .. L
  BY <1>1 DEF CpuTypes
<1>8. UNCHANGED <<nextPid, all, current, start, ready, waiting, state, family, contextEax,
                  frameEax, halted, rekilled>>
  BY <1>2 DEF vars
<1>9. CpuTypes'
  BY <1>1, <1>2, <1>6, <1>7, PreemptionAssumption DEF CpuTypes, Activations
<1>10. Resumable'
  <2>1. PICK own \in [Places -> Pids \cup {NoProc}] : Owned(own)
    BY <1>1 DEF PInv, Stacked, Resumable
  <2>2. PICK o \in [Places -> Pids \cup {NoProc}] :
          o[L + 1] = current /\ \A n \in DOMAIN kstack : o[n] = own[n]
    <3>1. /\ [own EXCEPT ![L + 1] = current] \in [Places -> Pids \cup {NoProc}]
          /\ [own EXCEPT ![L + 1] = current][L + 1] = current
          /\ \A n \in DOMAIN kstack : [own EXCEPT ![L + 1] = current][n] = own[n]
      BY <1>1, <1>6, OnStack
    <3> QED
      BY <3>1
  <2>3. Owned(o)'
    <3>1. ASSUME NEW n \in DOMAIN kstack
          PROVE  /\ kstack'[n].at \in {"choose", "hold"} => o[n] = NoProc
                 /\ kstack'[n].at \notin {"choose", "hold", "drain"} => o[n] = kstack'[n].proc
                 /\ kstack'[n].at = "drain" /\ kstack'[n].eip > 0 =>
                      kstack'[n].eip < n /\ o[kstack'[n].eip] = o[n]
      <4>1. kstack'[n] = kstack[n] /\ o[n] = own[n]
        BY <1>6, <2>2
      <4>2. kstack[n].at = "drain" /\ kstack[n].eip > 0 => kstack[n].eip \in DOMAIN kstack
        BY <1>1, <1>7, <2>1, OnStack DEF Owned
      <4> QED
        BY <2>1, <2>2, <4>1, <4>2 DEF Owned
    <3>2. \A p \in Pids \ {current} : resume[p] > 0 =>
            resume[p] \in DOMAIN kstack /\ o[resume[p]] = p
      BY <2>1, <2>2 DEF Owned
    <3>3. /\ kstack'[L + 1].at \notin {"choose", "hold", "drain"}
          /\ o[L + 1] = kstack'[L + 1].proc
      BY <1>3, <1>5, <1>6, <2>2 DEF Special
    <3> QED
      BY <1>2, <1>6, <1>8, <2>2, <3>1, <3>2, <3>3 DEF Owned
  <2> QED
    BY <2>2, <2>3 DEF Resumable
<1>11. Rings'
  <2>1. kstack' # <<>>
    BY <1>6, <1>7
  <2>2. ring = 3 => L + 1 = 1
    BY <1>1
  <2> QED
    BY <1>2, <1>5, <1>6, <2>1, <2>2 DEF PInv, Stacked, Rings
<1>12. Depths'
  <2>1. \A n \in DOMAIN kstack' : kstack'[n].at = "drain" =>
          n \in DOMAIN kstack /\ kstack[n].at = "drain" /\ kstack'[n].eip = kstack[n].eip
    BY <1>3, <1>5, <1>6 DEF Special
  <2>2. switched /\ nested = 0 => kstack'[1].ring = 3
    <3> SUFFICES ASSUME switched, nested = 0 PROVE kstack'[1].ring = 3
      OBVIOUS
    <3>1. ring = 3
      BY <1>1 DEF PInv, Stacked, Depths
    <3>2. L + 1 = 1
      BY <1>1, <3>1
    <3> QED
      BY <1>5, <1>6, <3>1, <3>2
  <2>3. Len(kstack') <= nested + 1
    BY <1>1, <1>6, <1>7 DEF PInv, Stacked, Depths, CpuTypes
  <2> QED
    BY <1>2, <2>1, <2>2, <2>3 DEF PInv, Stacked, Depths
<1>13. Holding' = Holding /\ InHand' = InHand
  <2>1. Holding' = Holding
    BY <1>3, <1>5, <1>6 DEF Holding, Special
  <2> QED
    BY <1>6, <2>1 DEF InHand, Holding
<1>14. TypeOK'
  BY <1>8 DEF PInv, TypeOK, family
<1>15. Standing' /\ Fitting'
  BY <1>2, <1>8, <1>13 DEF PInv, Placed, Standing, Fitting, Queued
<1>16. Held'
  BY <1>1, <1>2, <1>6, <1>8, <1>13 DEF PInv, Placed, Held, Holding, Queued
<1>17. Running'
  BY <1>1, <1>2, <1>8 DEF Running
<1>18. Arguments'
  BY <1>3, <1>5, <1>6, <1>8 DEF PInv, Placed, Arguments
<1> QED
  BY <1>9, <1>10, <1>11, <1>12, <1>14, <1>15, <1>16, <1>17, <1>18
     DEF PInv, Stacked, Placed

\* iret of a call that returns to its program.
LEMMA DroppedStacked ==
  ASSUME Stacked, ~wild, ~halted, mode = "kernel", Top.at \notin {"choose", "hold"},
         kstack' = Below, mode' = "user", ring' = Top.ring,
         Top.at = "drain" => Top.eip = 0,
         UNCHANGED <<current, halted, switched, resume, wild, hits, nested>>
  PROVE  Stacked'
<1> DEFINE L == Len(kstack)
<1>1. CpuTypes /\ kstack # <<>>
  BY DEF Stacked, Rings
<1>2. /\ kstack' \in Seq(Activations) /\ Len(kstack') = L - 1
      /\ DOMAIN kstack' = DOMAIN kstack \ {L}
      /\ \A n \in DOMAIN kstack' : kstack'[n] = kstack[n] /\ n \in Nat /\ n < L
      /\ L = 1 => kstack' = <<>>
  BY <1>1, Popped
<1>3. L \in DOMAIN kstack /\ L \in Nat \ {0} /\ Top.ring \in {0, 3} /\ DOMAIN kstack = 1 .. L
  BY <1>1, TopOfStack DEF CpuTypes
<1>4. CpuTypes'
  BY <1>1, <1>2, <1>3, PreemptionAssumption DEF CpuTypes, Activations
<1>5. Resumable'
  <2>1. PICK own \in [Places -> Pids \cup {NoProc}] : Owned(own)
    BY DEF Stacked, Resumable
  <2>2. \A p \in Pids \ {current} : resume[p] > 0 =>
          resume[p] \in DOMAIN kstack' /\ own[resume[p]] = p
    BY <1>2, <2>1 DEF Owned
  <2>3. \A n \in DOMAIN kstack' :
          /\ kstack'[n].at \in {"choose", "hold"} => own[n] = NoProc
          /\ kstack'[n].at \notin {"choose", "hold", "drain"} => own[n] = kstack'[n].proc
          /\ kstack'[n].at = "drain" /\ kstack'[n].eip > 0 =>
               kstack'[n].eip < n /\ own[kstack'[n].eip] = own[n]
    BY <1>2, <2>1 DEF Owned
  <2>4. Owned(own)'
    BY <2>2, <2>3 DEF Owned
  <2> QED
    BY <2>4 DEF Resumable
<1>6. Rings'
  <2>1. Top.ring = 3 => L = 1
    BY <1>3 DEF Stacked, Rings, Top
  <2> QED
    BY <1>2, <2>1 DEF Stacked, Rings
<1>7. Depths'
  <2>1. \A n \in DOMAIN kstack' : kstack'[n].at = "drain" =>
          n \in DOMAIN kstack /\ kstack[n].at = "drain" /\ kstack'[n].eip = kstack[n].eip
    BY <1>2
  <2>2. Len(kstack') <= nested
    BY <1>1, <1>2, <1>3 DEF Stacked, Depths, CpuTypes
  <2>3. Len(kstack') <= nested + 0
    BY <1>1, <2>2 DEF CpuTypes
  <2>4. switched /\ nested = 0 => Top.ring = 3
    <3> SUFFICES ASSUME switched, nested = 0 PROVE Top.ring = 3
      OBVIOUS
    <3>1. L <= 1 /\ kstack[1].ring = 3
      BY DEF Stacked, Depths
    <3>2. L = 1
      BY <1>3, <3>1
    <3> QED
      BY <3>1, <3>2 DEF Top
  <2> QED
    BY <1>2, <2>1, <2>3, <2>4 DEF Stacked, Depths
<1> QED
  BY <1>4, <1>5, <1>6, <1>7 DEF Stacked

\* The activations that remain are those there were, but the top one.
LEMMA DroppedPlaced ==
  ASSUME CpuTypes, kstack # <<>>, kstack' = Below, Top.at # "hold"
  PROVE  /\ Holding' = Holding /\ InHand' = InHand
         /\ \A n \in DOMAIN kstack' : n \in DOMAIN kstack /\ kstack'[n] = kstack[n]
         /\ \A n \in Holding : n # Len(kstack)
<1>1. /\ DOMAIN kstack' = DOMAIN kstack \ {Len(kstack)}
      /\ \A n \in DOMAIN kstack' : kstack'[n] = kstack[n]
  BY Popped
<1>2. Holding' = Holding
  BY <1>1 DEF Holding, Top
<1> QED
  BY <1>1, <1>2 DEF InHand, Holding, Top

LEMMA ReturnStep == ASSUME PInv, Return PROVE PInv'
<1>1. "return" \in Labels \ Special
  BY LabelNames
<1>2. /\ ~halted /\ ~wild /\ mode = "kernel" /\ Top.at = "return"
      /\ current \in Pids /\ Top.arg \in Pids \cup {-1, 0} /\ state[current] = "RUNNING"
  BY <1>1, Active DEF Return
<1>3. /\ frameEax' = Top.arg /\ kstack' = Below /\ mode' = "user" /\ ring' = Top.ring
      /\ UNCHANGED <<nextPid, all, current, start, ready, waiting, state, family, contextEax,
                     halted, rekilled, switched, resume, wild, done, hits, nested>>
  BY DEF Return, history
<1>4. CpuTypes /\ kstack # <<>>
  BY <1>2 DEF PInv, Stacked, Rings
<1>5. Stacked'
  BY <1>2, <1>3, DroppedStacked DEF PInv
<1>6. TypeOK'
  BY <1>2, <1>3 DEF PInv, TypeOK, family
<1>7. /\ Holding' = Holding /\ InHand' = InHand
      /\ \A n \in DOMAIN kstack' : n \in DOMAIN kstack /\ kstack'[n] = kstack[n]
      /\ \A n \in Holding : n # Len(kstack)
  BY <1>2, <1>3, <1>4, DroppedPlaced
<1>8. Standing' /\ Fitting'
  BY <1>3, <1>7 DEF PInv, Placed, Standing, Fitting, Queued
<1>9. Held'
  BY <1>3, <1>7 DEF PInv, Placed, Held, Holding, Queued
<1>10. Running'
  BY <1>2, <1>3 DEF Running
<1>11. Arguments'
  BY <1>3, <1>7 DEF PInv, Placed, Arguments
<1> QED
  BY <1>5, <1>6, <1>8, <1>9, <1>10, <1>11 DEF PInv, Placed

LEMMA SwitchStep == ASSUME PInv, SwitchRing3 PROVE PInv'
<1>1. /\ ~halted /\ ~wild /\ mode = "user" /\ current \in Pids /\ state[current] = "RUNNING"
      /\ CpuTypes /\ ~switched
      /\ "hold" \notin hits => Holding = {}
  BY InProgram DEF SwitchRing3
<1>2. /\ switched' = TRUE /\ ring' = 3 /\ kstack' = <<>>
      /\ resume' = [p \in Pids |-> IF resume[p] = 0 THEN 0 ELSE -1]
      /\ UNCHANGED <<nextPid, all, current, start, ready, waiting, state, family, contextEax,
                     frameEax, halted, rekilled, mode, wild, done, hits, nested>>
  BY DEF SwitchRing3, UserRing, vars, history
<1>3. /\ kstack' \in Seq(Activations) /\ Len(kstack') = 0 /\ DOMAIN kstack' = {}
  BY <1>2
<1>4. /\ resume' \in [Pids -> -1 .. MaxDepth]
      /\ \A p \in Pids : resume'[p] \in {0, -1} /\ (resume[p] = 0 => resume'[p] = 0)
  BY <1>2, PreemptionAssumption
<1>5. CpuTypes'
  BY <1>1, <1>2, <1>3, <1>4, PreemptionAssumption DEF CpuTypes
<1>6. Resumable'
  <2>1. PICK own \in [Places -> Pids \cup {NoProc}] : Owned(own)
    BY <1>1 DEF PInv, Stacked, Resumable
  <2>2. Owned(own)'
    BY <1>1, <1>2, <1>3, <1>4 DEF Owned
  <2> QED
    BY <2>2 DEF Resumable
<1>7. Rings'
  BY <1>1, <1>2, <1>3 DEF Rings
<1>8. Depths'
  <2>1. nested \in Nat
    BY <1>1 DEF CpuTypes
  <2>2. nested = 0 => \A p \in Pids : resume'[p] = 0
    BY <1>4 DEF PInv, Stacked, Depths
  <2> QED
    BY <1>1, <1>2, <1>3, <2>1, <2>2 DEF PInv, Stacked, Depths
<1>9. Holding' = {} /\ InHand' = {} /\ ("hold" \notin hits => InHand = {})
  BY <1>1, <1>3 DEF Holding, InHand
<1>10. TypeOK'
  BY <1>2 DEF PInv, TypeOK, family
<1>11. Standing' /\ Fitting'
  BY <1>2, <1>9 DEF PInv, Placed, Standing, Fitting, Queued
<1>12. Held'
  BY <1>2, <1>9 DEF PInv, Placed, Held, Queued
<1>13. Running' /\ Arguments'
  BY <1>1, <1>2, <1>3 DEF Running, Arguments
<1> QED
  BY <1>5, <1>6, <1>7, <1>8, <1>10, <1>11, <1>12, <1>13 DEF PInv, Stacked, Placed

-----------------------------------------------------------------------------
(***************************************************************************)
(* The first half of schedule(): the current process is saved, and fr is   *)
(* what the call admits.                                                   *)
(***************************************************************************)
LEMMA Saving ==
  ASSUME PInv, NEW fr \in {<<>>, start},
         NEW st, st = AdmittedStates(state, fr),
         NEW rd, rd = SavedReady(state), NEW w, w = SavedWaiting(state),
         NEW d, d = SavedDone(state)
  PROVE  /\ rd \in Seq(Pids) /\ IsInjective(rd) /\ w \in Seq(Pids) /\ IsInjective(w)
         /\ fr \in Seq(Pids) /\ IsInjective(fr) /\ Range(fr) \subseteq Range(start)
         /\ Range(rd) \cup Range(w) \cup d =
              Range(ready) \cup Range(waiting) \cup ({current} \ {NoProc})
         /\ Range(rd) \cap Range(w) = {} /\ d \cap (Range(rd) \cup Range(w)) = {}
         /\ Range(start) \cap (Range(rd) \cup Range(w) \cup d) = {}
         /\ (done \cup InHand) \cap (Range(rd) \cup Range(w) \cup d) = {}
         /\ d \subseteq Pids /\ st \in [Pids -> States]
         /\ \A p \in Pids : st[p] # "RUNNING"
         /\ \A p \in Pids \ Range(fr) : st[p] = state[p] \/ p = current
         /\ \A p \in Range(fr) : st[p] = "READY"
         /\ \A p \in Range(rd) : st[p] \in {"READY", "DONE"}
         /\ \A p \in Range(w) : st[p] \in {"WAITING", "READY", "DONE"}
         /\ \A p \in d \cup done : st[p] = "DONE"
<1> USE NoProcNotAPid
<1>1. /\ ready \in Seq(Pids) /\ waiting \in Seq(Pids) /\ start \in Seq(Pids)
      /\ IsInjective(ready) /\ IsInjective(waiting) /\ IsInjective(start)
      /\ current \in Pids \cup {NoProc} /\ state \in [Pids -> States] /\ all \subseteq Pids
      /\ Queued = Range(start) \cup Range(ready) \cup Range(waiting)
  BY DEF PInv, TypeOK, Placed, Standing, Queued
<1>2. /\ Range(start) \cap Range(ready) = {} /\ Range(start) \cap Range(waiting) = {}
      /\ Range(ready) \cap Range(waiting) = {}
      /\ current \notin Queued \cup done \cup InHand
      /\ (done \cup InHand) \cap Queued = {} /\ Queued \cup done \cup InHand \subseteq Pids
  BY <1>1 DEF PInv, Placed, Standing
<1>3. fr \in Seq(Pids) /\ IsInjective(fr) /\ Range(fr) \subseteq Range(start)
  BY <1>1, EmptyFacts
<1>4. /\ st \in [Pids -> States]
      /\ \A p \in Pids : st[p] = IF p \in Range(fr) \/ (p = current /\ state[p] = "RUNNING")
                                 THEN "READY" ELSE state[p]
  BY <1>1 DEF AdmittedStates, Saved, States
<1>5. /\ \A p \in Pids : state[p] = "RUNNING" => p = current
      /\ \A p \in Range(ready) \cup InHand : state[p] \in {"READY", "DONE"}
      /\ \A p \in Range(waiting) : state[p] \in {"WAITING", "READY", "DONE"}
      /\ \A p \in done : state[p] = "DONE"
  BY DEF PInv, Placed, Fitting
<1>6. /\ \A p \in Pids : st[p] # "RUNNING"
      /\ \A p \in Range(fr) : st[p] = "READY"
      /\ \A p \in Pids \ Range(fr) : st[p] = state[p] \/ p = current
      /\ \A p \in Range(ready) : st[p] \in {"READY", "DONE"}
      /\ \A p \in Range(waiting) : st[p] \in {"WAITING", "READY", "DONE"}
      /\ \A p \in done : st[p] = "DONE"
  <2>1. Range(fr) \subseteq Pids /\ current \notin Range(fr)
    BY <1>1, <1>2, <1>3
  <2>2. \A p \in Queued \cup done : p # current /\ p \in Pids
    BY <1>2
  <2>3. \A p \in done : p \notin Range(fr)
    BY <1>1, <1>2, <1>3
  <2> QED
    BY <1>1, <1>2, <1>3, <1>4, <1>5, <2>1, <2>2, <2>3
<1>7. current # NoProc =>
        /\ current \in Pids /\ current \notin Range(fr)
        /\ state[current] \in {"RUNNING", "WAITING", "DONE"}
  BY <1>1, <1>2, <1>3 DEF PInv, Placed, Running
<1>8. CASE current = NoProc
  <2>1. rd = ready /\ w = waiting /\ d = {}
    BY <1>8 DEF SavedReady, SavedWaiting, SavedDone, Saved
  <2> QED
    BY <1>1, <1>2, <1>3, <1>4, <1>6, <1>8, <2>1
<1>9. CASE current # NoProc /\ state[current] = "RUNNING"
  <2>1. rd = Append(ready, current) /\ w = waiting /\ d = {}
    BY <1>9 DEF SavedReady, SavedWaiting, SavedDone, Saved
  <2>2. /\ rd \in Seq(Pids) /\ IsInjective(rd) /\ Range(rd) = Range(ready) \cup {current}
    BY <1>1, <1>2, <1>7, <1>9, <2>1, AppendFacts
  <2>3. st[current] = "READY"
    BY <1>4, <1>7, <1>9
  <2> QED
    BY <1>1, <1>2, <1>3, <1>4, <1>6, <1>7, <1>9, <2>1, <2>2, <2>3
<1>10. CASE current # NoProc /\ state[current] = "WAITING"
  <2>1. rd = ready /\ w = Append(waiting, current) /\ d = {}
    BY <1>10 DEF SavedReady, SavedWaiting, SavedDone, Saved
  <2>2. /\ w \in Seq(Pids) /\ IsInjective(w) /\ Range(w) = Range(waiting) \cup {current}
    BY <1>1, <1>2, <1>7, <1>10, <2>1, AppendFacts
  <2>3. st[current] = "WAITING"
    BY <1>4, <1>7, <1>10
  <2> QED
    BY <1>1, <1>2, <1>3, <1>4, <1>6, <1>7, <1>10, <2>1, <2>2, <2>3
<1>11. CASE current # NoProc /\ state[current] = "DONE"
  <2>1. rd = ready /\ w = waiting /\ d = {current}
    BY <1>11 DEF SavedReady, SavedWaiting, SavedDone, Saved
  <2>2. st[current] = "DONE"
    BY <1>4, <1>7, <1>11
  <2> QED
    BY <1>1, <1>2, <1>3, <1>4, <1>6, <1>7, <1>11, <2>1, <2>2
<1> QED
  BY <1>7, <1>8, <1>9, <1>10, <1>11

\* A step of schedule() changes the label and the local value of the top.
LEMMA GotoStacked ==
  ASSUME Stacked, mode = "kernel", ~wild, Top.at # "drain",
         NEW l \in Labels \ {"drain"}, NEW a \in Pids \cup {-1, 0}, Goto(l, a),
         UNCHANGED <<mode, ring, switched, wild, hits, nested>>,
         resume' \in [Pids -> -1 .. MaxDepth],
         \A p \in Pids : resume'[p] = resume[p] \/ resume'[p] = 0,
         Resumable'
  PROVE  Stacked'
<1>1. CpuTypes /\ kstack # <<>>
  BY DEF Stacked, Rings
<1>2. /\ kstack' \in Seq(Activations) /\ Len(kstack') = Len(kstack)
      /\ DOMAIN kstack' = DOMAIN kstack
      /\ \A n \in DOMAIN kstack :
           /\ kstack'[n].proc = kstack[n].proc /\ kstack'[n].ring = kstack[n].ring
           /\ kstack'[n].eip = kstack[n].eip
           /\ n # Len(kstack) => kstack'[n] = kstack[n]
      /\ Top'.at = l
  BY <1>1, Moving
<1>3. CpuTypes'
  BY <1>1, <1>2 DEF CpuTypes, Activations
<1>4. Rings'
  BY <1>1, <1>2, TopOfStack DEF Stacked, Rings
<1>5. Depths'
  <2>1. \A n \in DOMAIN kstack' : kstack'[n].at = "drain" =>
          n \in DOMAIN kstack /\ kstack[n].at = "drain" /\ kstack'[n].eip = kstack[n].eip
    BY <1>2 DEF Top
  <2>2. 1 \in DOMAIN kstack /\ kstack'[1].ring = kstack[1].ring
    <3>1. 1 \in DOMAIN kstack
      BY <1>1, TopOfStack DEF CpuTypes
    <3> QED
      BY <1>2, <3>1
  <2>3. resume \in [Pids -> Int]
    BY <1>1 DEF CpuTypes
  <2>4. nested = 0 => \A p \in Pids : resume'[p] = 0
    BY <2>3 DEF Stacked, Depths
  <2> QED
    BY <1>1, <1>2, <2>1, <2>2, <2>4 DEF Stacked, Depths
<1> QED
  BY <1>3, <1>4, <1>5 DEF Stacked

LEMMA SaveStep == ASSUME PInv, Save PROVE PInv'
<1> USE NoProcNotAPid
<1> DEFINE L == Len(kstack)
<1>1. PICK m \in {"park", "leave"} : At(m) /\ m \in Labels \ Special
  BY LabelNames DEF Save
<1>2. /\ ~halted /\ ~wild /\ mode = "kernel" /\ Top.at = m /\ Top.at \notin Special
      /\ Me = current /\ current \in Pids /\ Top.arg \in Pids \cup {-1, 0}
  BY <1>1, Active
<1>3. /\ ready' = SavedReady(state) /\ waiting' = SavedWaiting(state)
      /\ done' = done \cup SavedDone(state)
      /\ state' = AdmittedStates(state, <<>>)
      /\ contextEax' = SavedEax(contextEax, Top.arg)
      /\ resume' = [resume EXCEPT ![current] = 0]
      /\ current' = NoProc
      /\ Goto("choose", 0)
      /\ UNCHANGED <<nextPid, all, start, family, frameEax, halted, rekilled,
                     mode, ring, switched, wild, hits, nested>>
  BY DEF Save, AfterSave, history
<1>4. CpuTypes /\ kstack # <<>>
  BY <1>2 DEF PInv, Stacked, Rings
<1>5. L \in DOMAIN kstack /\ L \in Nat \ {0} /\ L \in Places
  BY <1>4, TopOfStack
<1>6. "choose" \in Labels \ {"drain"}
  BY DEF Labels
<1>7. /\ Len(kstack') = Len(kstack) /\ DOMAIN kstack' = DOMAIN kstack
      /\ \A n \in DOMAIN kstack : n # L => kstack'[n] = kstack[n]
      /\ Top'.at = "choose"
  BY <1>3, <1>4, <1>6, Moving
<1>8. kstack'[L].at = "choose" /\ kstack[L].at = m
  BY <1>2, <1>7 DEF Top
<1>9. /\ resume' \in [Pids -> -1 .. MaxDepth] /\ resume'[current] = 0
      /\ \A p \in Pids : p # current => resume'[p] = resume[p]
  BY <1>2, <1>3, <1>4, PreemptionAssumption DEF CpuTypes
<1>10. Resumable'
  <2>1. PICK own \in [Places -> Pids \cup {NoProc}] : Owned(own)
    BY <1>2 DEF PInv, Stacked, Resumable
  <2>2. own[L] = current
    BY <1>2, <2>1 DEF Owned
  <2>3. PICK o \in [Places -> Pids \cup {NoProc}] :
          o[L] = NoProc /\ \A n \in Places : n # L => o[n] = own[n]
    <3>1. /\ [own EXCEPT ![L] = NoProc] \in [Places -> Pids \cup {NoProc}]
          /\ [own EXCEPT ![L] = NoProc][L] = NoProc
          /\ \A n \in Places : n # L => [own EXCEPT ![L] = NoProc][n] = own[n]
      BY <1>5
    <3> QED
      BY <3>1
  <2>4. ASSUME NEW n \in DOMAIN kstack, n # L
        PROVE  /\ kstack[n].at \in {"choose", "hold"} => o[n] = NoProc
               /\ kstack[n].at \notin {"choose", "hold", "drain"} => o[n] = kstack[n].proc
               /\ kstack[n].at = "drain" /\ kstack[n].eip > 0 =>
                    kstack[n].eip < n /\ o[kstack[n].eip] = o[n]
    <3>1. n \in Places /\ n \in Nat /\ n < L /\ kstack[n].eip \in -1 .. MaxDepth
      BY <1>4, <1>5, <2>4, OnStack
    <3>2. o[n] = own[n]
      BY <2>3, <2>4, <3>1
    <3>3. kstack[n].at = "drain" /\ kstack[n].eip > 0 =>
            kstack[n].eip < n /\ own[kstack[n].eip] = own[n]
      BY <2>1 DEF Owned
    <3>4. kstack[n].eip > 0 /\ kstack[n].eip < n => kstack[n].eip \in Places /\ kstack[n].eip # L
      BY <1>5, <3>1 DEF Places
    <3> QED
      BY <2>1, <2>3, <3>2, <3>3, <3>4 DEF Owned
  <2>5. ASSUME NEW p \in Pids, resume'[p] > 0
        PROVE  resume'[p] \in DOMAIN kstack /\ o[resume'[p]] = p
    <3>1. p # current /\ resume'[p] = resume[p]
      BY <1>9, <2>5
    <3>2. resume[p] \in DOMAIN kstack /\ own[resume[p]] = p
      BY <2>1, <2>5, <3>1 DEF Owned
    <3>3. resume[p] \in Places /\ resume[p] # L
      BY <1>4, <2>2, <3>1, <3>2, OnStack
    <3> QED
      BY <2>3, <3>1, <3>2, <3>3
  <2>6. Owned(o)'
    BY <1>3, <1>7, <1>8, <2>3, <2>4, <2>5 DEF Owned
  <2> QED
    BY <2>6 DEF Resumable
<1>11. Stacked'
  <2>1. \A p \in Pids : resume'[p] = resume[p] \/ resume'[p] = 0
    BY <1>9
  <2>2. Top.at # "drain"
    BY <1>2 DEF Special
  <2> QED
    BY <1>2, <1>3, <1>6, <1>9, <1>10, <2>1, <2>2, GotoStacked DEF PInv
<1> DEFINE st == AdmittedStates(state, <<>>)
           rd == SavedReady(state)
           w  == SavedWaiting(state)
           d  == SavedDone(state)
<1>12. /\ rd \in Seq(Pids) /\ IsInjective(rd) /\ w \in Seq(Pids) /\ IsInjective(w)
       /\ Range(rd) \cup Range(w) \cup d =
            Range(ready) \cup Range(waiting) \cup ({current} \ {NoProc})
       /\ Range(rd) \cap Range(w) = {} /\ d \cap (Range(rd) \cup Range(w)) = {}
       /\ Range(start) \cap (Range(rd) \cup Range(w) \cup d) = {}
       /\ (done \cup InHand) \cap (Range(rd) \cup Range(w) \cup d) = {}
       /\ d \subseteq Pids /\ st \in [Pids -> States]
       /\ \A p \in Pids : st[p] # "RUNNING"
       /\ \A p \in Pids \ Range(<<>>) : st[p] = state[p] \/ p = current
       /\ \A p \in Range(rd) : st[p] \in {"READY", "DONE"}
       /\ \A p \in Range(w) : st[p] \in {"WAITING", "READY", "DONE"}
       /\ \A p \in d \cup done : st[p] = "DONE"
  BY Saving
<1>13. ready' = rd /\ waiting' = w /\ done' = done \cup d /\ state' = st
  BY <1>3
<1> HIDE DEF st, rd, w, d
<1>14. /\ contextEax' \in [Pids -> Pids \cup {-1, 0}]
  BY <1>2, <1>3 DEF SavedEax, PInv, TypeOK
<1>15. TypeOK'
  BY <1>3, <1>12, <1>13, <1>14 DEF PInv, TypeOK, family
<1>16. Holding' = Holding /\ InHand' = InHand /\ (\A n \in Holding : kstack'[n] = kstack[n])
  <2>1. Holding' = Holding
    BY <1>1, <1>7, <1>8 DEF Holding
  <2>2. \A n \in Holding : kstack'[n] = kstack[n]
    BY <1>1, <1>7, <1>8 DEF Holding
  <2>3. InHand = {kstack[n].arg : n \in Holding} /\ InHand' = {kstack'[n].arg : n \in Holding'}
    BY DEF InHand, Holding
  <2> QED
    BY <2>1, <2>2, <2>3
<1>17. /\ Queued' = Range(start) \cup Range(rd) \cup Range(w)
       /\ Queued' \cup done' = Queued \cup done \cup ({current} \ {NoProc})
  BY <1>3, <1>12, <1>13 DEF Queued
<1>18. Standing'
  <2>1. Queued \cup done \cup InHand \cup {current} \subseteq all /\ all \subseteq Pids
    BY <1>2 DEF PInv, Placed, Standing, TypeOK
  <2>2. /\ IsInjective(start) /\ Range(start) \cap done = {} /\ InHand \cap Range(start) = {}
        /\ done \cap InHand = {}
    BY DEF PInv, Placed, Standing, Queued
  <2>3. Queued' \cup done' \cup InHand' \subseteq all
    BY <1>16, <1>17, <2>1
  <2>4. /\ IsInjective(start') /\ IsInjective(ready') /\ IsInjective(waiting')
        /\ Range(start') \cap Range(ready') = {}
        /\ Range(start') \cap Range(waiting') = {}
        /\ Range(ready') \cap Range(waiting') = {}
    BY <1>3, <1>12, <1>13, <2>2
  <2>5. done' \cap Queued' = {} /\ InHand' \cap Queued' = {} /\ done' \cap InHand' = {}
    BY <1>12, <1>13, <1>16, <1>17, <2>2
  <2>6. current' \notin Queued' /\ current' \notin done' \cup InHand' /\ all' = all
    BY <1>3, <2>1, <2>3
  <2> QED
    BY <1>3, <2>3, <2>4, <2>5, <2>6 DEF Standing
<1>19. Held'
  BY <1>3, <1>7, <1>16, <1>17 DEF PInv, Placed, Held
<1>20. Fitting'
  <2>1. \A p \in Range(start) \cup InHand : p \in Pids /\ p # current
    BY <1>2 DEF PInv, Placed, Standing, TypeOK, Queued
  <2>2. \A p \in Range(start) \cup InHand : st[p] = state[p]
    BY <1>12, <2>1, EmptyFacts
  <2>3. \A p \in Pids \ all : st[p] = state[p]
    BY <1>2, <1>12, EmptyFacts DEF PInv, Placed, Standing
  <2>4. /\ \A p \in Range(start) : state[p] \in {"START", "DONE"}
        /\ \A p \in InHand : state[p] \in {"READY", "DONE"}
        /\ all \subseteq 1 .. nextPid - 1
        /\ \A p \in Pids \ all : state[p] = IF p < nextPid THEN "DONE" ELSE "NONE"
    BY DEF PInv, Placed, Fitting
  <2>5. /\ \A p \in Range(start') : state'[p] \in {"START", "DONE"}
        /\ \A p \in Range(ready') \cup InHand' : state'[p] \in {"READY", "DONE"}
        /\ \A p \in Range(waiting') : state'[p] \in {"WAITING", "READY", "DONE"}
        /\ \A p \in done' : state'[p] = "DONE"
    BY <1>3, <1>12, <1>13, <1>16, <2>2, <2>4
  <2>6. /\ \A p \in Pids : state'[p] = "RUNNING" => p = current'
        /\ all' \subseteq 1 .. nextPid' - 1
        /\ \A p \in Pids \ all' : state'[p] = IF p < nextPid' THEN "DONE" ELSE "NONE"
    BY <1>3, <1>12, <1>13, <2>3, <2>4
  <2> QED
    BY <2>5, <2>6 DEF Fitting
<1>21. Running'
  BY <1>3 DEF Running
<1>22. Arguments'
  BY <1>1, <1>3, <1>7, <1>8 DEF PInv, Placed, Arguments
<1> QED
  BY <1>11, <1>15, <1>18, <1>19, <1>20, <1>21, <1>22 DEF PInv, Placed

-----------------------------------------------------------------------------
(***************************************************************************)
(* The second half: the new processes and the n resolved ones are ready.   *)
(* Chosen(n) is then __ready, and Kept(n) is what stays in __waiting.      *)
(***************************************************************************)
Admitted  == AdmittedStates(state, start)
Chosen(n) == (SavedReady(state) \o start) \o SubSeq(SavedWaiting(state), 1, n)
Kept(n)   == SubSeq(SavedWaiting(state), n + 1, Len(SavedWaiting(state)))

Selected(r, rest, d) ==
  /\ r \in Seq(Pids) /\ IsInjective(r) /\ rest \in Seq(Pids) /\ IsInjective(rest)
  /\ Range(r) \cup Range(rest) \cup d = Queued \cup ({current} \ {NoProc})
  /\ Range(r) \cap Range(rest) = {} /\ d \cap (Range(r) \cup Range(rest)) = {}
  /\ (done \cup InHand) \cap (Range(r) \cup Range(rest) \cup d) = {}
  /\ done \cap InHand = {}
  /\ Queued \cup done \cup InHand \cup ({current} \ {NoProc}) \subseteq all
  /\ all \subseteq Pids /\ Admitted \in [Pids -> States]
  /\ \A p \in Pids : Admitted[p] # "RUNNING"
  /\ \A p \in (Pids \ all) \cup InHand : Admitted[p] = state[p]
  /\ \A p \in Range(r) : Admitted[p] \in {"READY", "DONE"}
  /\ \A p \in Range(rest) : Admitted[p] \in {"WAITING", "READY", "DONE"}
  /\ \A p \in d \cup done : Admitted[p] = "DONE"

LEMMA Selecting ==
  ASSUME PInv, NEW n \in 0 .. Len(SavedWaiting(state)),
         ResolvedPrefix(SavedWaiting(state), Admitted, n)
  PROVE  Selected(Chosen(n), Kept(n), SavedDone(state))
<1> DEFINE rd == SavedReady(state)
           w  == SavedWaiting(state)
           d  == SavedDone(state)
<1>1. /\ rd \in Seq(Pids) /\ IsInjective(rd) /\ w \in Seq(Pids) /\ IsInjective(w)
      /\ start \in Seq(Pids) /\ IsInjective(start)
      /\ Range(rd) \cup Range(w) \cup d =
           Range(ready) \cup Range(waiting) \cup ({current} \ {NoProc})
      /\ Range(rd) \cap Range(w) = {} /\ d \cap (Range(rd) \cup Range(w)) = {}
      /\ Range(start) \cap (Range(rd) \cup Range(w) \cup d) = {}
      /\ (done \cup InHand) \cap (Range(rd) \cup Range(w) \cup d) = {}
      /\ d \subseteq Pids /\ Admitted \in [Pids -> States]
      /\ \A p \in Pids : Admitted[p] # "RUNNING"
      /\ \A p \in Pids \ Range(start) : Admitted[p] = state[p] \/ p = current
      /\ \A p \in Range(start) : Admitted[p] = "READY"
      /\ \A p \in Range(rd) : Admitted[p] \in {"READY", "DONE"}
      /\ \A p \in Range(w) : Admitted[p] \in {"WAITING", "READY", "DONE"}
      /\ \A p \in d \cup done : Admitted[p] = "DONE"
  BY Saving DEF Admitted
<1>2. /\ Chosen(n) = (rd \o start) \o SubSeq(w, 1, n) /\ Kept(n) = SubSeq(w, n + 1, Len(w))
      /\ n \in 0 .. Len(w) /\ ResolvedPrefix(w, Admitted, n)
  BY DEF Chosen, Kept
<1> HIDE DEF rd, w, d
<1>3. \A p \in Range(rd) \cup Range(start) : Admitted[p] \in {"READY", "DONE"}
  BY <1>1
<1>4. Range(rd) \cap Range(start) = {} /\ Range(start) \cap Range(w) = {}
  BY <1>1
<1> DEFINE r    == (rd \o start) \o SubSeq(w, 1, n)
           rest == SubSeq(w, n + 1, Len(w))
<1>sorted. Sorted(rd, start, w, Admitted, r, rest)
  BY <1>1, <1>2, <1>3, <1>4, Sorting
<1> HIDE DEF r, rest
<1>5. /\ r \in Seq(Pids) /\ IsInjective(r) /\ rest \in Seq(Pids) /\ IsInjective(rest)
      /\ Range(r) \cup Range(rest) = Range(rd) \cup Range(start) \cup Range(w)
      /\ Range(r) \cap Range(rest) = {} /\ Range(rest) \subseteq Range(w)
      /\ \A p \in Range(r) : Admitted[p] \in {"READY", "DONE"}
  BY <1>sorted DEF Sorted
<1>6. /\ Queued = Range(start) \cup Range(ready) \cup Range(waiting)
      /\ Queued \cup done \cup InHand \cup ({current} \ {NoProc}) \subseteq all
      /\ all \subseteq Pids /\ done \cap InHand = {}
      /\ (done \cup InHand) \cap Queued = {} /\ current \notin InHand
      /\ current \in all \/ current \notin Pids
  BY NoProcNotAPid DEF PInv, Placed, Standing, TypeOK, Queued
<1>7. Range(r) \cup Range(rest) \cup d = Queued \cup ({current} \ {NoProc})
  BY <1>1, <1>5, <1>6
<1>8. \A p \in (Pids \ all) \cup InHand : Admitted[p] = state[p]
  BY <1>1, <1>6
<1>9. /\ (done \cup InHand) \cap (Range(r) \cup Range(rest) \cup d) = {}
      /\ d \cap (Range(r) \cup Range(rest)) = {}
      /\ \A p \in Range(rest) : Admitted[p] \in {"WAITING", "READY", "DONE"}
  BY <1>1, <1>5, <1>6
<1>10. Selected(r, rest, d)
  BY <1>1, <1>5, <1>6, <1>7, <1>8, <1>9 DEF Selected
<1>11. Chosen(n) = r /\ Kept(n) = rest /\ SavedDone(state) = d
  BY <1>2 DEF r, rest, d
<1> QED
  BY <1>10, <1>11

\* schedule() finds no ready process and stops the machine.
LEMMA Halting ==
  ASSUME PInv, NEW n \in 0 .. Len(SavedWaiting(state)),
         ResolvedPrefix(SavedWaiting(state), Admitted, n),
         \A k \in 1 .. Len(Chosen(n)) : Admitted[Chosen(n)[k]] # "READY",
         start' = <<>>, ready' = <<>>, state' = Admitted, all' = all,
         waiting' = Kept(n) \o Pick(Chosen(n), WaitingIn(Chosen(n), Admitted, Len(Chosen(n)) + 1)),
         done' = done \cup SavedDone(state) \cup
                   DoneIn(Chosen(n), Admitted, Len(Chosen(n)) + 1),
         current' = NoProc, halted' = TRUE, UNCHANGED <<nextPid, family, kstack>>,
         contextEax' \in [Pids -> Pids \cup {-1, 0}], frameEax' \in Pids \cup {-1, 0},
         hits \subseteq hits', mode' = mode
  PROVE  TypeOK' /\ Placed'
<1>1. PICK r, rest, d, e :
        /\ r = Chosen(n) /\ rest = Kept(n) /\ d = SavedDone(state)
        /\ e = DoneIn(r, Admitted, Len(r) + 1)
  OBVIOUS
<1>2. Selected(r, rest, d)
  BY <1>1, Selecting
<1>3. /\ e = Range(r) /\ \A p \in e : Admitted[p] = "DONE"
      /\ rest \o Pick(r, WaitingIn(r, Admitted, Len(r) + 1)) = rest
  <2>1. /\ r \in Seq(Pids) /\ rest \in Seq(Pids)
        /\ \A p \in Range(r) : Admitted[p] \in {"READY", "DONE"}
        /\ \A k \in 1 .. Len(r) : Admitted[r[k]] # "READY"
    BY <1>1, <1>2 DEF Selected
  <2> QED
    BY <1>1, <2>1, NoneReady
<1>4. waiting' = rest /\ done' = done \cup d \cup Range(r)
  BY <1>1, <1>3
<1>5. /\ Range(start') = {} /\ Range(ready') = {}
      /\ start' \in Seq(Pids) /\ ready' \in Seq(Pids)
      /\ IsInjective(start') /\ IsInjective(ready')
  BY EmptyFacts
<1>6. Queued' = Range(rest) /\ InHand' = InHand /\ Holding' = Holding
  BY <1>4, <1>5 DEF Queued, InHand, Holding
<1>7. TypeOK'
  BY <1>2, <1>4, <1>5 DEF PInv, TypeOK, family, Selected
<1>8. Standing'
  <2>1. Queued' \cup done' \cup InHand' \subseteq all /\ NoProc \notin all
    BY <1>2, <1>4, <1>6, NoProcNotAPid DEF Selected
  <2>2. /\ IsInjective(start') /\ IsInjective(ready') /\ IsInjective(waiting')
        /\ Range(start') \cap Range(ready') = {}
        /\ Range(start') \cap Range(waiting') = {}
        /\ Range(ready') \cap Range(waiting') = {}
    BY <1>2, <1>4, <1>5 DEF Selected
  <2>3. done' \cap Queued' = {} /\ InHand' \cap Queued' = {} /\ done' \cap InHand' = {}
    BY <1>2, <1>4, <1>6 DEF Selected
  <2> QED
    BY <2>1, <2>2, <2>3 DEF Standing
<1>9. Held'
  <2>1. all \subseteq Queued \cup done \cup InHand \cup {current} =>
          all \subseteq Queued' \cup done' \cup InHand' \cup {NoProc}
    BY <1>2, <1>4, <1>6 DEF Selected
  <2> QED
    BY <1>6, <2>1 DEF PInv, Placed, Held
<1>10. Fitting'
  <2>1. /\ \A p \in InHand : state[p] \in {"READY", "DONE"}
        /\ all \subseteq 1 .. nextPid - 1
        /\ \A p \in Pids \ all : state[p] = IF p < nextPid THEN "DONE" ELSE "NONE"
    BY DEF PInv, Placed, Fitting
  <2>2. /\ \A p \in Range(start') : state'[p] \in {"START", "DONE"}
        /\ \A p \in Range(ready') \cup InHand' : state'[p] \in {"READY", "DONE"}
        /\ \A p \in Range(waiting') : state'[p] \in {"WAITING", "READY", "DONE"}
        /\ \A p \in done' : state'[p] = "DONE"
    BY <1>2, <1>3, <1>4, <1>5, <1>6, <2>1 DEF Selected
  <2>3. /\ \A p \in Pids : state'[p] = "RUNNING" => p = current'
        /\ all' \subseteq 1 .. nextPid' - 1
        /\ \A p \in Pids \ all' : state'[p] = IF p < nextPid' THEN "DONE" ELSE "NONE"
    BY <1>2, <2>1 DEF Selected
  <2> QED
    BY <2>2, <2>3 DEF Fitting
<1>11. Running' /\ Arguments'
  BY DEF Running, PInv, Placed, Arguments
<1> QED
  BY <1>7, <1>8, <1>9, <1>10, <1>11 DEF Placed

-----------------------------------------------------------------------------
\* Between the save and __current = ..., no process is current.
LEMMA NoneCurrent ==
  ASSUME PInv, NEW m \in {"choose", "hold"}, At(m)
  PROVE  /\ ~halted /\ ~wild /\ mode = "kernel" /\ CpuTypes /\ kstack # <<>>
         /\ Len(kstack) \in DOMAIN kstack /\ Len(kstack) \in Nat \ {0} /\ Len(kstack) \in Places
         /\ Top.at = m /\ kstack[Len(kstack)] = Top /\ current = NoProc
         /\ \E own \in [Places -> Pids \cup {NoProc}] : Owned(own) /\ own[Len(kstack)] = NoProc
<1>1. ~halted /\ ~wild /\ mode = "kernel" /\ Top.at = m
  BY DEF At
<1>2. CpuTypes /\ kstack # <<>>
  BY <1>1 DEF PInv, Stacked, Rings
<1>3. Len(kstack) \in DOMAIN kstack /\ Len(kstack) \in Nat \ {0} /\ Len(kstack) \in Places
  BY <1>2, TopOfStack
<1>4. PICK own \in [Places -> Pids \cup {NoProc}] : Owned(own)
  BY <1>1 DEF PInv, Stacked, Resumable
<1>5. own[Len(kstack)] = NoProc /\ own[Len(kstack)] = current
  BY <1>1, <1>3, <1>4 DEF Owned, Top
<1> QED
  BY <1>1, <1>2, <1>3, <1>4, <1>5 DEF Top

\* __ready has a process to load: it is popped and in the hand of schedule().
LEMMA PoppedStep ==
  ASSUME PInv, At("choose"), NEW n \in 0 .. Len(SavedWaiting(state)),
         ResolvedPrefix(SavedWaiting(state), Admitted, n),
         NEW k \in 1 .. Len(Chosen(n)), FirstReady(Chosen(n), Admitted, k),
         start' = <<>>, state' = Admitted, ready' = SubSeq(Chosen(n), k + 1, Len(Chosen(n))),
         waiting' = Kept(n) \o Pick(Chosen(n), WaitingIn(Chosen(n), Admitted, k)),
         done' = done \cup SavedDone(state) \cup DoneIn(Chosen(n), Admitted, k),
         Goto("hold", Chosen(n)[k]),
         UNCHANGED <<nextPid, all, current, family, contextEax, frameEax, halted, rekilled,
                     mode, ring, switched, resume, wild, hits, nested>>
  PROVE  PInv'
<1> DEFINE L == Len(kstack)
<1>1. /\ ~halted /\ ~wild /\ mode = "kernel" /\ CpuTypes /\ kstack # <<>>
      /\ L \in DOMAIN kstack /\ L \in Nat \ {0} /\ L \in Places
      /\ Top.at = "choose" /\ kstack[L] = Top /\ current = NoProc
      /\ \E own \in [Places -> Pids \cup {NoProc}] : Owned(own) /\ own[L] = NoProc
  BY NoneCurrent
<1>2. PICK r, rest, d, e, b :
        /\ r = Chosen(n) /\ rest = Kept(n) /\ d = SavedDone(state)
        /\ e = DoneIn(r, Admitted, k) /\ b = SubSeq(r, k + 1, Len(r))
  OBVIOUS
<1>3. Selected(r, rest, d) /\ k \in 1 .. Len(r) /\ FirstReady(r, Admitted, k)
  BY <1>2, Selecting
<1>4. /\ b \in Seq(Pids) /\ IsInjective(b)
      /\ Range(r) = e \cup {r[k]} \cup Range(b)
      /\ r[k] \notin e \cup Range(b) /\ e \cap Range(b) = {}
      /\ r[k] \in Pids /\ Admitted[r[k]] = "READY" /\ \A p \in e : Admitted[p] = "DONE"
      /\ rest \o Pick(r, WaitingIn(r, Admitted, k)) = rest
  <2>1. /\ r \in Seq(Pids) /\ IsInjective(r) /\ rest \in Seq(Pids)
        /\ \A p \in Range(r) : Admitted[p] \in {"READY", "DONE"}
    BY <1>3 DEF Selected
  <2>2. k \in 1 .. Len(r) /\ FirstReady(r, Admitted, k)
    BY <1>3
  <2>3. /\ Parted(r, Admitted, DoneIn(r, Admitted, k), r[k], SubSeq(r, k + 1, Len(r)))
        /\ rest \o Pick(r, WaitingIn(r, Admitted, k)) = rest
    BY <2>1, <2>2, Popping
  <2>4. Parted(r, Admitted, e, r[k], b)
    BY <1>2, <2>3
  <2> QED
    BY <2>3, <2>4 DEF Parted
<1>5. PICK x : x = r[k]
  OBVIOUS
<1>6. /\ ready' = b /\ waiting' = rest /\ done' = done \cup d \cup e
      /\ Goto("hold", x) /\ x \in Pids
  BY <1>2, <1>4, <1>5
<1>7. "hold" \in Labels \ {"drain"} /\ x \in Pids \cup {-1, 0}
  BY <1>6 DEF Labels
<1>8. /\ Len(kstack') = L /\ DOMAIN kstack' = DOMAIN kstack
      /\ \A m \in DOMAIN kstack : m # L => kstack'[m] = kstack[m]
      /\ Top'.at = "hold" /\ Top'.arg = x
  BY <1>1, <1>6, <1>7, Moving
<1>9. kstack'[L].at = "hold" /\ kstack'[L].arg = x /\ kstack[L].at = "choose"
  BY <1>1, <1>8 DEF Top
<1>10. Resumable'
  <2>1. PICK own \in [Places -> Pids \cup {NoProc}] : Owned(own) /\ own[L] = NoProc
    BY <1>1
  <2>2. \A m \in DOMAIN kstack :
          /\ kstack'[m].at \in {"choose", "hold"} => own[m] = NoProc
          /\ kstack'[m].at \notin {"choose", "hold", "drain"} => own[m] = kstack'[m].proc
          /\ kstack'[m].at = "drain" /\ kstack'[m].eip > 0 =>
               kstack'[m].eip < m /\ own[kstack'[m].eip] = own[m]
    BY <1>8, <1>9, <2>1 DEF Owned
  <2>3. Owned(own)'
    BY <1>8, <2>1, <2>2 DEF Owned
  <2> QED
    BY <2>3 DEF Resumable
<1>11. Stacked'
  <2>1. resume \in [Pids -> -1 .. MaxDepth] /\ Top.at # "drain"
    BY <1>1 DEF CpuTypes
  <2> QED
    BY <1>1, <1>6, <1>7, <1>10, <2>1, GotoStacked DEF PInv
<1>12. Range(start') = {} /\ start' \in Seq(Pids) /\ IsInjective(start')
  BY EmptyFacts
<1>13. Holding' = Holding \cup {L} /\ InHand' = InHand \cup {x}
       /\ L \notin Holding /\ \A m \in Holding : kstack'[m] = kstack[m]
  <2>1. Holding' = Holding \cup {L} /\ L \notin Holding
    BY <1>1, <1>8, <1>9 DEF Holding
  <2>2. \A m \in Holding : kstack'[m] = kstack[m]
    BY <1>8, <2>1 DEF Holding
  <2>3. InHand = {kstack[m].arg : m \in Holding} /\ InHand' = {kstack'[m].arg : m \in Holding'}
    BY DEF InHand, Holding
  <2> QED
    BY <1>9, <2>1, <2>2, <2>3
<1>14. Queued' = Range(b) \cup Range(rest)
  BY <1>6, <1>12 DEF Queued
<1>15. x \in Range(r) /\ x \notin e \cup Range(b) /\ Admitted[x] = "READY"
  BY <1>4, <1>5
<1>16. TypeOK'
  <2>1. /\ start' \in Seq(Pids) /\ ready' \in Seq(Pids) /\ waiting' \in Seq(Pids)
        /\ state' \in [Pids -> States]
    BY <1>3, <1>4, <1>6, <1>12 DEF Selected
  <2>2. UNCHANGED <<nextPid, all, current, signal, parent, child, childBitmap,
                    childCompleted, contextEax, frameEax, halted>>
    BY DEF family
  <2> QED
    BY <2>1, <2>2 DEF PInv, TypeOK
<1>17. Standing'
  <2>1. Queued' \cup done' \cup InHand' \subseteq all /\ NoProc \notin all
    BY <1>3, <1>4, <1>6, <1>13, <1>14, <1>15, NoProcNotAPid DEF Selected
  <2>2. /\ IsInjective(start') /\ IsInjective(ready') /\ IsInjective(waiting')
        /\ Range(start') \cap Range(ready') = {}
        /\ Range(start') \cap Range(waiting') = {}
        /\ Range(ready') \cap Range(waiting') = {}
    <3>1. IsInjective(b) /\ IsInjective(rest) /\ Range(b) \cap Range(rest) = {}
      BY <1>3, <1>4 DEF Selected
    <3> QED
      BY <1>6, <1>12, <3>1
  <2>3. done' \cap Queued' = {} /\ InHand' \cap Queued' = {} /\ done' \cap InHand' = {}
    BY <1>3, <1>4, <1>6, <1>13, <1>14, <1>15 DEF Selected
  <2> QED
    BY <1>1, <2>1, <2>2, <2>3 DEF Standing
<1>18. Held'
  <2>1. x \notin InHand
    BY <1>3, <1>15 DEF Selected
  <2>2. InHand = {kstack[m].arg : m \in Holding}
    BY DEF InHand, Holding
  <2>3. \A i, m \in Holding' : kstack'[m].arg = kstack'[i].arg => m = i
    <3> SUFFICES ASSUME NEW i \in Holding', NEW m \in Holding', i # m
                 PROVE  kstack'[m].arg # kstack'[i].arg
      OBVIOUS
    <3>1. \A j \in Holding : kstack'[j].arg \in InHand
      BY <1>13, <2>2
    <3>2. i \in Holding /\ m \in Holding => kstack[m].arg # kstack[i].arg
      BY DEF PInv, Placed, Held
    <3> QED
      BY <1>9, <1>13, <2>1, <3>1, <3>2
  <2>4. "hold" \notin hits => Holding = {}
    BY <1>1, <1>13 DEF PInv, Placed, Held
  <2>5. all \subseteq Queued \cup done \cup InHand \cup {current} =>
          all \subseteq Queued' \cup done' \cup InHand' \cup {current}
    BY <1>3, <1>4, <1>5, <1>6, <1>13, <1>14 DEF Selected
  <2> QED
    BY <1>1, <1>8, <1>13, <2>3, <2>4, <2>5 DEF PInv, Placed, Held
<1>19. Fitting'
  <2>1. /\ \A p \in InHand : state[p] \in {"READY", "DONE"}
        /\ all \subseteq 1 .. nextPid - 1
        /\ \A p \in Pids \ all : state[p] = IF p < nextPid THEN "DONE" ELSE "NONE"
    BY DEF PInv, Placed, Fitting
  <2>2. /\ \A p \in Range(start') : state'[p] \in {"START", "DONE"}
        /\ \A p \in Range(ready') \cup InHand' : state'[p] \in {"READY", "DONE"}
        /\ \A p \in Range(waiting') : state'[p] \in {"WAITING", "READY", "DONE"}
        /\ \A p \in done' : state'[p] = "DONE"
    BY <1>3, <1>4, <1>6, <1>12, <1>13, <1>15, <2>1 DEF Selected
  <2>3. /\ \A p \in Pids : state'[p] = "RUNNING" => p = current'
        /\ all' \subseteq 1 .. nextPid' - 1
        /\ \A p \in Pids \ all' : state'[p] = IF p < nextPid' THEN "DONE" ELSE "NONE"
    BY <1>3, <2>1 DEF Selected
  <2> QED
    BY <2>2, <2>3 DEF Fitting
<1>20. Running'
  BY <1>1 DEF Running
<1>21. Arguments'
  BY <1>6, <1>8, <1>9 DEF PInv, Placed, Arguments
<1> QED
  BY <1>11, <1>16, <1>17, <1>18, <1>19, <1>20, <1>21 DEF PInv, Placed

LEMMA ChooseStep == ASSUME PInv, Choose PROVE PInv'
<1>1. /\ ~halted /\ ~wild /\ mode = "kernel" /\ CpuTypes /\ kstack # <<>> /\ current = NoProc
      /\ At("choose")
  BY NoneCurrent DEF Choose
<1>2. /\ SavedReady(state) = ready /\ SavedWaiting(state) = waiting /\ SavedDone(state) = {}
  BY <1>1 DEF SavedReady, SavedWaiting, SavedDone, Saved
<1>3. PICK n \in 0 .. Len(waiting) :
        /\ ResolvedPrefix(waiting, Admitted, n) /\ start' = <<>> /\ state' = Admitted
        /\ \/ \E k \in 1 .. Len(Chosen(n)) :
                /\ FirstReady(Chosen(n), Admitted, k)
                /\ ready' = SubSeq(Chosen(n), k + 1, Len(Chosen(n)))
                /\ waiting' = Kept(n) \o Pick(Chosen(n), WaitingIn(Chosen(n), Admitted, k))
                /\ done' = done \cup DoneIn(Chosen(n), Admitted, k)
                /\ Goto("hold", Chosen(n)[k])
                /\ UNCHANGED halted
           \/ /\ \A k \in 1 .. Len(Chosen(n)) : Admitted[Chosen(n)[k]] # "READY"
              /\ ready' = <<>>
              /\ waiting' = Kept(n) \o
                   Pick(Chosen(n), WaitingIn(Chosen(n), Admitted, Len(Chosen(n)) + 1))
              /\ done' = done \cup DoneIn(Chosen(n), Admitted, Len(Chosen(n)) + 1)
              /\ halted' = TRUE
              /\ UNCHANGED kstack
  BY <1>2 DEF Choose, Chosen, Kept, Admitted
<1>4. UNCHANGED <<nextPid, all, current, family, contextEax, frameEax, rekilled,
                  mode, ring, switched, resume, wild, hits, nested>>
  BY DEF Choose, history
<1>5. /\ n \in 0 .. Len(SavedWaiting(state)) /\ ResolvedPrefix(SavedWaiting(state), Admitted, n)
      /\ \A s : done \cup s = (done \cup SavedDone(state)) \cup s
  BY <1>2, <1>3
<1>6. ASSUME NEW k \in 1 .. Len(Chosen(n)),
             FirstReady(Chosen(n), Admitted, k),
             ready' = SubSeq(Chosen(n), k + 1, Len(Chosen(n))),
             waiting' = Kept(n) \o Pick(Chosen(n), WaitingIn(Chosen(n), Admitted, k)),
             done' = done \cup DoneIn(Chosen(n), Admitted, k),
             Goto("hold", Chosen(n)[k]),
             UNCHANGED halted
      PROVE  PInv'
  <2>1. done' = (done \cup SavedDone(state)) \cup DoneIn(Chosen(n), Admitted, k)
    BY <1>5, <1>6
  <2> QED
    BY <1>1, <1>3, <1>4, <1>5, <1>6, <2>1, PoppedStep
<1>7. ASSUME \A k \in 1 .. Len(Chosen(n)) : Admitted[Chosen(n)[k]] # "READY",
             ready' = <<>>,
             waiting' = Kept(n) \o
               Pick(Chosen(n), WaitingIn(Chosen(n), Admitted, Len(Chosen(n)) + 1)),
             done' = done \cup DoneIn(Chosen(n), Admitted, Len(Chosen(n)) + 1),
             halted' = TRUE, UNCHANGED kstack
      PROVE  PInv'
  <2>1. /\ done' = (done \cup SavedDone(state)) \cup
                     DoneIn(Chosen(n), Admitted, Len(Chosen(n)) + 1)
        /\ current' = NoProc
    BY <1>1, <1>4, <1>5, <1>7
  <2>2. /\ contextEax' \in [Pids -> Pids \cup {-1, 0}] /\ frameEax' \in Pids \cup {-1, 0}
        /\ hits \subseteq hits'
    BY <1>4 DEF PInv, TypeOK
  <2>3. TypeOK' /\ Placed'
    BY <1>3, <1>4, <1>5, <1>7, <2>1, <2>2, Halting
  <2>4. Stacked'
    BY <1>1, <1>4, <1>7 DEF PInv, Stacked, CpuTypes, Resumable, Rings, Depths
  <2> QED
    BY <2>3, <2>4 DEF PInv
<1> QED
  BY <1>3, <1>6, <1>7

LEMMA LoadStep == ASSUME PInv, LoadCurrent PROVE PInv'
<1> DEFINE L == Len(kstack)
<1>1. /\ ~halted /\ ~wild /\ mode = "kernel" /\ CpuTypes /\ kstack # <<>>
      /\ L \in DOMAIN kstack /\ L \in Nat \ {0} /\ L \in Places
      /\ Top.at = "hold" /\ kstack[L] = Top /\ current = NoProc
      /\ \E own \in [Places -> Pids \cup {NoProc}] : Owned(own) /\ own[L] = NoProc
  BY NoneCurrent DEF LoadCurrent
<1>2. PICK x, t :
        /\ x = Top.arg
        /\ t = [Top EXCEPT !.at = "drain", !.eip = resume[x], !.arg = contextEax[x]]
  OBVIOUS
<1>3. L \in Holding /\ x = kstack[L].arg /\ x \in Pids /\ x \in InHand
  BY <1>1, <1>2 DEF Holding, InHand, PInv, Placed, Arguments
<1>4. /\ current' = x /\ state' = [state EXCEPT ![x] = "RUNNING"]
      /\ kstack' = [kstack EXCEPT ![L] = t]
      /\ UNCHANGED <<nextPid, all, start, ready, waiting, family, contextEax, frameEax,
                     halted, rekilled, mode, ring, switched, resume, wild, done, hits, nested>>
  BY <1>2 DEF LoadCurrent, history
<1>5. /\ t \in Activations /\ t.at = "drain" /\ t.eip = resume[x]
      /\ t.ring = Top.ring /\ t.proc = Top.proc
  <2>1. Top \in Activations
    BY <1>1 DEF CpuTypes
  <2>2. resume[x] \in -1 .. MaxDepth /\ contextEax[x] \in Pids \cup {-1, 0} /\ "drain" \in Labels
    BY <1>1, <1>3 DEF CpuTypes, PInv, TypeOK, Labels
  <2> QED
    BY <1>2, <2>1, <2>2 DEF Activations
<1>6. /\ kstack' \in Seq(Activations) /\ Len(kstack') = L /\ DOMAIN kstack' = DOMAIN kstack
      /\ kstack'[L] = t /\ \A n \in DOMAIN kstack : n # L => kstack'[n] = kstack[n]
  BY <1>1, <1>4, <1>5 DEF CpuTypes
<1>7. /\ state' \in [Pids -> States] /\ state'[x] = "RUNNING"
      /\ \A p \in Pids \ {x} : state'[p] = state[p]
  BY <1>3, <1>4 DEF PInv, TypeOK, States
<1>8. CpuTypes'
  BY <1>1, <1>4, <1>6 DEF CpuTypes
<1>9. Resumable'
  <2>1. PICK own \in [Places -> Pids \cup {NoProc}] : Owned(own) /\ own[L] = NoProc
    BY <1>1
  <2>2. PICK o \in [Places -> Pids \cup {NoProc}] :
          o[L] = x /\ \A n \in Places : n # L => o[n] = own[n]
    <3>1. /\ [own EXCEPT ![L] = x] \in [Places -> Pids \cup {NoProc}]
          /\ [own EXCEPT ![L] = x][L] = x
          /\ \A n \in Places : n # L => [own EXCEPT ![L] = x][n] = own[n]
      BY <1>1, <1>3
    <3> QED
      BY <3>1
  <2>3. ASSUME NEW p \in Pids, resume[p] > 0
        PROVE  /\ resume[p] \in DOMAIN kstack /\ own[resume[p]] = p
               /\ resume[p] # L /\ resume[p] < L /\ o[resume[p]] = p
    <3>1. resume[p] \in DOMAIN kstack /\ own[resume[p]] = p /\ p # NoProc
      BY <1>1, <2>1, <2>3, NoProcNotAPid DEF Owned
    <3>2. resume[p] \in Places /\ resume[p] \in Nat /\ resume[p] <= L /\ resume[p] # L
      BY <1>1, <2>1, <3>1, OnStack
    <3> QED
      BY <1>1, <2>2, <3>1, <3>2
  <2>4. ASSUME NEW n \in DOMAIN kstack, n # L
        PROVE  /\ kstack[n].at \in {"choose", "hold"} => o[n] = NoProc
               /\ kstack[n].at \notin {"choose", "hold", "drain"} => o[n] = kstack[n].proc
               /\ kstack[n].at = "drain" /\ kstack[n].eip > 0 =>
                    kstack[n].eip < n /\ o[kstack[n].eip] = o[n]
    <3>1. n \in Places /\ n \in Nat /\ n < L /\ kstack[n].eip \in -1 .. MaxDepth
      BY <1>1, <2>4, OnStack
    <3>2. o[n] = own[n]
      BY <2>2, <2>4, <3>1
    <3>3. kstack[n].at = "drain" /\ kstack[n].eip > 0 =>
            kstack[n].eip < n /\ own[kstack[n].eip] = own[n]
      BY <2>1 DEF Owned
    <3>4. kstack[n].eip > 0 /\ kstack[n].eip < n => kstack[n].eip \in Places /\ kstack[n].eip # L
      BY <1>1, <3>1 DEF Places
    <3> QED
      BY <2>1, <2>2, <3>2, <3>3, <3>4 DEF Owned
  <2>5. t.eip > 0 => t.eip < L /\ o[t.eip] = o[L]
    BY <1>3, <1>5, <2>2, <2>3
  <2>6. Owned(o)'
    BY <1>4, <1>5, <1>6, <2>2, <2>3, <2>4, <2>5 DEF Owned
  <2> QED
    BY <2>6 DEF Resumable
<1>10. \A n \in DOMAIN kstack : kstack'[n].ring = kstack[n].ring
  BY <1>1, <1>5, <1>6
<1>11. Rings'
  <2>1. kstack' # <<>>
    BY <1>1, <1>6
  <2> QED
    BY <1>1, <1>4, <1>6, <1>10, <2>1 DEF PInv, Stacked, Rings
<1>12. Depths'
  <2>1. \A n \in DOMAIN kstack' : kstack'[n].at = "drain" =>
          \/ n \in DOMAIN kstack /\ kstack[n].at = "drain" /\ kstack'[n].eip = kstack[n].eip
          \/ kstack'[n].eip = resume[x]
    BY <1>5, <1>6
  <2>2. 1 \in DOMAIN kstack /\ kstack'[1].ring = kstack[1].ring
    <3>1. 1 \in DOMAIN kstack
      BY <1>1 DEF CpuTypes
    <3> QED
      BY <1>10, <3>1
  <2> QED
    BY <1>1, <1>3, <1>4, <1>6, <2>1, <2>2 DEF PInv, Stacked, Depths
<1>13. Holding' = Holding \ {L} /\ InHand' = InHand \ {x}
       /\ \A n \in Holding' : kstack'[n] = kstack[n]
  <2>1. Holding' = Holding \ {L}
    BY <1>5, <1>6 DEF Holding
  <2>2. \A n \in Holding' : kstack'[n] = kstack[n]
    BY <1>6, <2>1 DEF Holding
  <2>3. InHand = {kstack[n].arg : n \in Holding} /\ InHand' = {kstack'[n].arg : n \in Holding'}
    BY DEF InHand, Holding
  <2>4. \A n \in Holding \ {L} : kstack[n].arg # x
    BY <1>3 DEF PInv, Placed, Held
  <2> QED
    BY <1>3, <2>1, <2>2, <2>3, <2>4
<1>14. TypeOK'
  BY <1>3, <1>4, <1>7 DEF PInv, TypeOK, family
<1>15. Queued' = Queued /\ x \notin Queued /\ x \notin done /\ x \in all
  BY <1>3, <1>4 DEF Queued, PInv, Placed, Standing
<1>16. Standing'
  BY <1>3, <1>4, <1>13, <1>15 DEF PInv, Placed, Standing
<1>17. Held'
  <2>1. "hold" \notin hits => Holding' = {}
    BY <1>13 DEF PInv, Placed, Held
  <2> QED
    BY <1>1, <1>3, <1>4, <1>13, <1>15, <2>1, NoProcNotAPid DEF PInv, Placed, Held, TypeOK
<1>18. Fitting'
  <2>1. Queued \cup done \cup InHand' \subseteq Pids \ {x} /\ all \subseteq Pids
    BY <1>13, <1>15 DEF PInv, Placed, Standing, TypeOK
  <2>2. \A p \in Queued \cup done \cup InHand' \cup (Pids \ all) : state'[p] = state[p]
    BY <1>7, <1>15, <2>1
  <2>3. \A p \in Pids : state'[p] = "RUNNING" => p = x
    BY <1>1, <1>7, NoProcNotAPid DEF PInv, Placed, Fitting
  <2> QED
    BY <1>4, <1>13, <2>2, <2>3 DEF PInv, Placed, Fitting, Queued
<1>19. Running'
  BY <1>1, <1>4, <1>7 DEF Running
<1>20. Arguments'
  BY <1>4, <1>5, <1>6 DEF PInv, Placed, Arguments
<1> QED
  BY <1>8, <1>9, <1>11, <1>12, <1>14, <1>16, <1>17, <1>18, <1>19, <1>20
     DEF PInv, Stacked, Placed

(***************************************************************************)
(* iret at the end of schedule() into a handler: below the top stands its  *)
(* activation, or the machine is on a stack that is not its own.           *)
(***************************************************************************)
LEMMA ResumedStacked ==
  ASSUME Stacked, ~wild, ~halted, mode = "kernel", Top.at = "drain", Top.eip # 0,
         Iret(Top.eip, Top.ring, Below),
         UNCHANGED <<current, halted, resume, hits, nested>>
  PROVE  Stacked'
<1> DEFINE L == Len(kstack)
<1>1. CpuTypes /\ kstack # <<>>
  BY DEF Stacked, Rings
<1>2. /\ L \in DOMAIN kstack /\ L \in Nat \ {0} /\ DOMAIN kstack = 1 .. L /\ kstack[L] = Top
      /\ Top.ring \in {0, 3} /\ Top.eip \in -1 .. MaxDepth
  BY <1>1, TopOfStack DEF CpuTypes, Top
<1>3. /\ kstack' = Below /\ mode' = "kernel" /\ ring' = ring /\ switched' = switched
      /\ wild' \in BOOLEAN /\ (~wild' => Top.ring = 0 /\ Top.eip = Len(Below))
  BY DEF Iret, InPlace
<1>4. /\ kstack' \in Seq(Activations) /\ Len(kstack') = L - 1
      /\ DOMAIN kstack' = DOMAIN kstack \ {L}
      /\ \A n \in DOMAIN kstack' : kstack'[n] = kstack[n] /\ n \in Nat /\ n < L
  BY <1>1, <1>3, Popped
<1>5. ~wild' => Top.eip = L - 1 /\ L - 1 \in Nat \ {0} /\ L - 1 \in DOMAIN kstack'
  <2>1. ~wild' => Top.eip = L - 1
    BY <1>3, <1>4
  <2>2. L - 1 \in Nat /\ (L - 1 # 0 => L - 1 \in 1 .. L /\ L - 1 # L)
    <3>1. \A m \in Nat \ {0} : m - 1 \in Nat /\ (m - 1 # 0 => m - 1 \in 1 .. m /\ m - 1 # m)
      OBVIOUS
    <3> QED
      BY <1>2, <3>1
  <2>3. ~wild' => L - 1 # 0
    BY <2>1
  <2>4. ~wild' => L - 1 \in DOMAIN kstack'
    BY <1>2, <1>4, <2>2, <2>3
  <2> QED
    BY <2>1, <2>2, <2>3, <2>4
<1>6. PICK own \in [Places -> Pids \cup {NoProc}] : Owned(own)
  BY DEF Stacked, Resumable
<1>7. own[L] = current /\ (Top.eip > 0 => Top.eip < L /\ own[Top.eip] = own[L])
  BY <1>2, <1>6 DEF Owned
<1>8. CpuTypes'
  <2>1. L - 1 <= MaxDepth
    BY <1>1, <1>2, PreemptionAssumption DEF CpuTypes
  <2> QED
    BY <1>1, <1>3, <1>4, <2>1 DEF CpuTypes
<1>9. Resumable'
  <2> SUFFICES ASSUME ~wild'
               PROVE  \E o \in [Places -> Pids \cup {NoProc}] : Owned(o)'
    BY DEF Resumable
  <2>1. own[L - 1] = current
    BY <1>5, <1>7
  <2>2. \A p \in Pids \ {current} : resume[p] > 0 =>
          resume[p] \in DOMAIN kstack' /\ own[resume[p]] = p
    BY <1>4, <1>6, <1>7 DEF Owned
  <2>3. \A n \in DOMAIN kstack' :
          /\ kstack'[n].at \in {"choose", "hold"} => own[n] = NoProc
          /\ kstack'[n].at \notin {"choose", "hold", "drain"} => own[n] = kstack'[n].proc
          /\ kstack'[n].at = "drain" /\ kstack'[n].eip > 0 =>
               kstack'[n].eip < n /\ own[kstack'[n].eip] = own[n]
    BY <1>4, <1>6 DEF Owned
  <2>4. Owned(own)'
    BY <1>3, <1>4, <2>1, <2>2, <2>3 DEF Owned
  <2> QED
    BY <2>4
<1>10. Rings'
  <2>1. ~wild' => kstack' # <<>>
    BY <1>4, <1>5
  <2> QED
    BY <1>3, <1>4, <2>1 DEF Stacked, Rings
<1>11. nested # 0
  BY <1>2 DEF Stacked, Depths
<1>12. Depths'
  <2>1. \A n \in DOMAIN kstack' : kstack'[n].at = "drain" =>
          n \in DOMAIN kstack /\ kstack[n].at = "drain" /\ kstack'[n].eip = kstack[n].eip
    BY <1>4
  <2>2. Len(kstack') <= nested + 1
    BY <1>1, <1>2, <1>4 DEF Stacked, Depths, CpuTypes
  <2> QED
    BY <1>3, <1>11, <2>1, <2>2 DEF Stacked, Depths
<1> QED
  BY <1>8, <1>9, <1>10, <1>12 DEF Stacked

LEMMA DrainStep == ASSUME PInv, Drain PROVE PInv'
<1>1. ~halted /\ ~wild /\ mode = "kernel" /\ Top.at = "drain"
  BY DEF Drain, At
<1>2. CpuTypes /\ kstack # <<>> /\ Top.arg \in Pids \cup {-1, 0}
  BY <1>1, TopOfStack DEF PInv, Stacked, Rings
<1>3. /\ all' = all \ done /\ done' = {} /\ frameEax' = Top.arg
      /\ Iret(Top.eip, Top.ring, Below) /\ kstack' = Below
      /\ UNCHANGED <<nextPid, current, start, ready, waiting, state, family,
                     contextEax, halted, rekilled, resume, hits, nested>>
  BY DEF Drain, Iret, history
<1>4. Stacked'
  <2>1. CASE Top.eip = 0
    <3>1. mode' = "user" /\ ring' = Top.ring /\ switched' = switched /\ wild' = wild
      BY <1>1, <1>3, <2>1 DEF Iret, InPlace, PInv, Stacked, CpuTypes
    <3> QED
      BY <1>1, <1>3, <2>1, <3>1, DroppedStacked DEF PInv
  <2>2. CASE Top.eip # 0
    BY <1>1, <1>3, <2>2, ResumedStacked DEF PInv
  <2> QED
    BY <2>1, <2>2
<1>5. TypeOK'
  BY <1>2, <1>3 DEF PInv, TypeOK, family
<1>6. /\ Holding' = Holding /\ InHand' = InHand
      /\ \A n \in DOMAIN kstack' : n \in DOMAIN kstack /\ kstack'[n] = kstack[n]
      /\ \A n \in Holding : n # Len(kstack)
  BY <1>1, <1>2, <1>3, DroppedPlaced
<1>7. Standing'
  BY <1>3, <1>6 DEF PInv, Placed, Standing, Queued
<1>8. Held'
  <2>1. "hold" \notin hits => Holding = {}
    BY <1>6 DEF PInv, Placed, Held
  <2> QED
    BY <1>3, <1>6, <2>1 DEF PInv, Placed, Held, Holding, Queued
<1>9. Fitting'
  <2>1. /\ \A p \in done : state[p] = "DONE" /\ p < nextPid
        /\ all \subseteq 1 .. nextPid - 1
    <3>1. done \subseteq all /\ all \subseteq 1 .. nextPid - 1 /\ nextPid \in Nat
      BY SchedulerAssumption DEF PInv, TypeOK, Placed, Standing, Fitting
    <3> QED
      BY <3>1, BelowNext DEF PInv, Placed, Fitting
  <2>2. \A p \in Pids \ all' : state[p] = IF p < nextPid THEN "DONE" ELSE "NONE"
    BY <1>3, <2>1 DEF PInv, Placed, Fitting
  <2> QED
    BY <1>3, <1>6, <2>1, <2>2 DEF PInv, Placed, Fitting
<1>10. Running'
  <2>1. current # NoProc => state[current] = "RUNNING"
    BY <1>1 DEF PInv, Placed, Running
  <2> QED
    BY <1>3, <2>1 DEF Running
<1>11. Arguments'
  BY <1>3, <1>6 DEF PInv, Placed, Arguments
<1> QED
  BY <1>4, <1>5, <1>7, <1>8, <1>9, <1>10, <1>11 DEF PInv, Placed

-----------------------------------------------------------------------------
(***************************************************************************)
(* The timer.  What it does to the bookkeeping of the processor:           *)
(***************************************************************************)
Interrupted ==
  /\ ~halted /\ ~wild
  /\ mode = "kernel" => nested < MaxNested
  /\ resume' = IF current = NoProc THEN resume
               ELSE [resume EXCEPT ![current] = SavedPlace]
  /\ hits' = IF mode = "kernel" THEN hits \cup {Top.at} ELSE hits
  /\ nested' = IF mode = "kernel" THEN nested + 1 ELSE nested

LEMMA InterruptedFacts ==
  ASSUME PInv, Interrupted
  PROVE  /\ CpuTypes /\ ~halted /\ ~wild /\ Len(kstack) \in Nat
         /\ mode = "kernel" => kstack # <<>> /\ Top.at \in Labels
         /\ resume' \in [Pids -> -1 .. MaxDepth]
         /\ \A p \in Pids : resume'[p] = IF p = current THEN SavedPlace ELSE resume[p]
         /\ hits' \subseteq Labels \cup Torn /\ hits \subseteq hits'
         /\ nested \in Nat /\ nested' \in 0 .. MaxNested /\ (hits' = {} <=> nested' = 0)
<1>1. CpuTypes /\ ~halted /\ ~wild /\ Len(kstack) \in Nat
  BY DEF Interrupted, PInv, Stacked, CpuTypes
<1>2. mode = "kernel" => kstack # <<>> /\ Top.at \in Labels
  BY <1>1, TopOfStack DEF PInv, Stacked, Rings
<1>3. SavedPlace \in -1 .. MaxDepth
  BY <1>1, PreemptionAssumption DEF SavedPlace, CpuTypes
<1>4. /\ resume' \in [Pids -> -1 .. MaxDepth]
      /\ \A p \in Pids : resume'[p] = IF p = current THEN SavedPlace ELSE resume[p]
  <2>1. resume \in [Pids -> -1 .. MaxDepth] /\ current \in Pids \cup {NoProc}
    BY <1>1 DEF CpuTypes, PInv, TypeOK
  <2>2. CASE current = NoProc
    BY <2>1, <2>2, NoProcNotAPid DEF Interrupted
  <2>3. CASE current # NoProc
    BY <1>3, <2>1, <2>3 DEF Interrupted
  <2> QED
    BY <2>2, <2>3
<1>5. /\ hits' \subseteq Labels \cup Torn /\ hits \subseteq hits'
      /\ mode = "kernel" => hits' # {}
  BY <1>1, <1>2 DEF Interrupted, CpuTypes
<1>6. nested \in Nat /\ nested' \in 0 .. MaxNested /\ (mode = "kernel" => nested' # 0)
  BY <1>1, PreemptionAssumption DEF Interrupted, CpuTypes
<1>7. hits' = {} <=> nested' = 0
  BY <1>5, <1>6 DEF Interrupted, PInv, Stacked, Depths
<1> QED
  BY <1>1, <1>2, <1>4, <1>5, <1>6, <1>7

\* The timer stops the machine.
LEMMA StoppedStacked ==
  ASSUME PInv, Interrupted, halted' = TRUE,
         UNCHANGED <<mode, ring, switched, kstack, wild>>
  PROVE  Stacked'
<1>1. /\ CpuTypes /\ ~halted /\ ~wild /\ Len(kstack) \in Nat
      /\ mode = "kernel" => kstack # <<>> /\ Top.at \in Labels
      /\ resume' \in [Pids -> -1 .. MaxDepth]
      /\ \A p \in Pids : resume'[p] = IF p = current THEN SavedPlace ELSE resume[p]
      /\ hits' \subseteq Labels \cup Torn /\ hits \subseteq hits'
      /\ nested \in Nat /\ nested' \in 0 .. MaxNested /\ (hits' = {} <=> nested' = 0)
  BY InterruptedFacts
<1>2. CpuTypes' /\ Resumable' /\ Rings'
  BY <1>1 DEF CpuTypes, Resumable, PInv, Stacked, Rings
<1>3. Len(kstack) <= nested' + (IF mode = "kernel" THEN 1 ELSE 0)
  BY <1>1 DEF Interrupted, PInv, Stacked, Depths
<1>4. nested' = 0 => mode = "user" /\ nested = 0 /\ SavedPlace = 0
  BY <1>1 DEF Interrupted, SavedPlace, CpuTypes
<1>5. Depths'
  BY <1>1, <1>3, <1>4 DEF PInv, Stacked, Depths
<1> QED
  BY <1>2, <1>5 DEF Stacked

\* The timer resumes a program or a handler.
LEMMA SwitchedStacked ==
  ASSUME PInv, Interrupted, halted' = FALSE, current' \in Pids,
         Iret(resume'[current'], IF mode = "kernel" THEN 0 ELSE ring, kstack)
  PROVE  Stacked'
<1> DEFINE L     == Len(kstack)
           eip   == resume'[current']
           level == IF mode = "kernel" THEN 0 ELSE ring
<1>1. /\ CpuTypes /\ ~halted /\ ~wild /\ Len(kstack) \in Nat
      /\ mode = "kernel" => kstack # <<>> /\ Top.at \in Labels
      /\ resume' \in [Pids -> -1 .. MaxDepth]
      /\ \A p \in Pids : resume'[p] = IF p = current THEN SavedPlace ELSE resume[p]
      /\ hits' \subseteq Labels \cup Torn /\ hits \subseteq hits'
      /\ nested \in Nat /\ nested' \in 0 .. MaxNested /\ (hits' = {} <=> nested' = 0)
  BY InterruptedFacts
<1>2. /\ kstack' = kstack /\ switched' = switched
      /\ mode' = IF eip = 0 THEN "user" ELSE "kernel"
      /\ ring' = IF eip = 0 THEN level ELSE ring
      /\ wild' \in BOOLEAN /\ (~wild' => eip = 0 \/ (level = 0 /\ eip = L))
  BY DEF Iret, InPlace
<1>3. eip \in -1 .. MaxDepth /\ level \in {0, 3}
  BY <1>1 DEF CpuTypes
<1>4. eip = IF current' = current THEN SavedPlace ELSE resume[current']
  BY <1>1
<1>5. /\ mode = "kernel" => SavedPlace = L /\ L # 0 /\ L \in DOMAIN kstack
      /\ mode # "kernel" => SavedPlace = 0
  BY <1>1, TopOfStack DEF SavedPlace
<1>6. PICK own \in [Places -> Pids \cup {NoProc}] : Owned(own)
  BY <1>1 DEF PInv, Stacked, Resumable
<1> HIDE DEF eip, level
<1>7. CpuTypes'
  BY <1>1, <1>2, <1>3 DEF CpuTypes
<1>8. ASSUME NEW p \in Pids, resume'[p] > 0
      PROVE  resume'[p] \in DOMAIN kstack /\ own[resume'[p]] = p
  <2>1. CASE p = current
    <3>1. mode = "kernel" /\ resume'[p] = L
      BY <1>1, <1>5, <1>8, <2>1
    <3> QED
      BY <1>5, <1>6, <2>1, <3>1 DEF Owned
  <2>2. CASE p # current
    <3>1. resume'[p] = resume[p]
      BY <1>1, <2>2
    <3> QED
      BY <1>6, <1>8, <2>2, <3>1 DEF Owned
  <2> QED
    BY <2>1, <2>2
<1>9. Resumable'
  <2> SUFFICES ASSUME ~wild'
               PROVE  \E o \in [Places -> Pids \cup {NoProc}] : Owned(o)'
    BY DEF Resumable
  <2>1. mode' = "kernel" => own[L] = current'
    <3> SUFFICES ASSUME mode' = "kernel" PROVE own[L] = current'
      OBVIOUS
    <3>1. eip = L /\ eip # 0
      BY <1>2
    <3>2. resume'[current'] = L /\ resume'[current'] > 0
      BY <1>1, <3>1 DEF eip
    <3> QED
      BY <1>8, <3>2
  <2>2. Owned(own)'
    BY <1>2, <1>6, <1>8, <2>1 DEF Owned
  <2> QED
    BY <2>2
<1>10. Rings'
  <2>1. mode' = "kernel" /\ ~wild' => kstack' # <<>>
    BY <1>2
  <2>2. mode' = "user" /\ ring' = 3 => kstack' = <<>>
    <3> SUFFICES ASSUME mode' = "user", ring' = 3 PROVE kstack = <<>>
      BY <1>2
    <3>1. level = 3
      BY <1>2
    <3>2. mode = "user" /\ ring = 3
      BY <1>1, <3>1 DEF level, CpuTypes
    <3> QED
      BY <3>2 DEF PInv, Stacked, Rings
  <2> QED
    BY <1>2, <2>1, <2>2 DEF PInv, Stacked, Rings
<1>11. nested' = 0 => mode = "user" /\ nested = 0 /\ SavedPlace = 0 /\ eip = 0 /\ level = ring
  <2>1. nested' = 0 => mode = "user" /\ nested = 0
    BY <1>1 DEF Interrupted, CpuTypes
  <2> QED
    BY <1>4, <1>5, <2>1 DEF PInv, Stacked, Depths, level
<1>12. L <= nested' + (IF mode' = "kernel" THEN 1 ELSE 0)
  <2>1. L <= nested'
    BY <1>1 DEF Interrupted, PInv, Stacked, Depths
  <2> QED
    BY <1>1, <2>1
<1>13. Depths'
  <2>1. nested' = 0 => \A p \in Pids : resume'[p] = 0
    BY <1>1, <1>11 DEF PInv, Stacked, Depths
  <2>2. switched /\ nested' = 0 => mode' = "user" /\ ring' = 3
    BY <1>2, <1>11 DEF PInv, Stacked, Depths
  <2>3. nested' = 0 => \A n \in DOMAIN kstack : kstack[n].at = "drain" => kstack[n].eip = 0
    BY <1>1, <1>11 DEF PInv, Stacked, Depths
  <2> QED
    BY <1>1, <1>2, <1>12, <2>1, <2>2, <2>3 DEF Depths
<1> QED
  BY <1>7, <1>9, <1>10, <1>13 DEF Stacked

\* A process is loaded; the ended ones leave the table.
LEMMA LoadedPlaced ==
  ASSUME PInv, Interrupted, NEW n \in 0 .. Len(SavedWaiting(state)),
         ResolvedPrefix(SavedWaiting(state), Admitted, n),
         NEW k \in 1 .. Len(Chosen(n)), FirstReady(Chosen(n), Admitted, k),
         start' = <<>>, ready' = SubSeq(Chosen(n), k + 1, Len(Chosen(n))),
         waiting' = Kept(n) \o Pick(Chosen(n), WaitingIn(Chosen(n), Admitted, k)),
         current' = Chosen(n)[k],
         state' = [Admitted EXCEPT ![Chosen(n)[k]] = "RUNNING"],
         all' = all \ ((SavedDone(state) \cup done) \cup DoneIn(Chosen(n), Admitted, k)),
         done' = {}, halted' = FALSE, UNCHANGED <<nextPid, family, kstack>>,
         contextEax' \in [Pids -> Pids \cup {-1, 0}], frameEax' \in Pids \cup {-1, 0}
  PROVE  TypeOK' /\ Placed' /\ current' \in Pids
<1>1. PICK r, rest, d, e, b :
        /\ r = Chosen(n) /\ rest = Kept(n) /\ d = SavedDone(state)
        /\ e = DoneIn(r, Admitted, k) /\ b = SubSeq(r, k + 1, Len(r))
  OBVIOUS
<1>2. Selected(r, rest, d) /\ k \in 1 .. Len(r) /\ FirstReady(r, Admitted, k)
  BY <1>1, Selecting
<1>3. /\ b \in Seq(Pids) /\ IsInjective(b)
      /\ Range(r) = e \cup {r[k]} \cup Range(b)
      /\ r[k] \notin e \cup Range(b) /\ e \cap Range(b) = {}
      /\ r[k] \in Pids /\ Admitted[r[k]] = "READY" /\ \A p \in e : Admitted[p] = "DONE"
      /\ rest \o Pick(r, WaitingIn(r, Admitted, k)) = rest
  <2>1. /\ r \in Seq(Pids) /\ IsInjective(r) /\ rest \in Seq(Pids)
        /\ \A p \in Range(r) : Admitted[p] \in {"READY", "DONE"}
    BY <1>2 DEF Selected
  <2>2. k \in 1 .. Len(r) /\ FirstReady(r, Admitted, k)
    BY <1>2
  <2>3. /\ Parted(r, Admitted, DoneIn(r, Admitted, k), r[k], SubSeq(r, k + 1, Len(r)))
        /\ rest \o Pick(r, WaitingIn(r, Admitted, k)) = rest
    BY <2>1, <2>2, Popping
  <2>4. Parted(r, Admitted, e, r[k], b)
    BY <1>1, <2>3
  <2> QED
    BY <2>3, <2>4 DEF Parted
<1>4. PICK x : x = r[k]
  OBVIOUS
<1>5. /\ ready' = b /\ waiting' = rest /\ current' = x
      /\ state' = [Admitted EXCEPT ![x] = "RUNNING"]
      /\ all' = all \ (d \cup done \cup e)
  BY <1>1, <1>3, <1>4
<1>6. /\ x \in Range(r) /\ x \in Pids /\ x \notin e \cup Range(b) /\ Admitted[x] = "READY"
  BY <1>3, <1>4
<1>7. /\ state' \in [Pids -> States] /\ state'[x] = "RUNNING"
      /\ \A p \in Pids \ {x} : state'[p] = Admitted[p]
  BY <1>2, <1>5, <1>6 DEF Selected, States
<1>8. Range(start') = {} /\ start' \in Seq(Pids) /\ IsInjective(start')
  BY EmptyFacts
<1>9. Queued' = Range(b) \cup Range(rest) /\ InHand' = InHand /\ Holding' = Holding
  <2>1. Queued' = Range(b) \cup Range(rest)
    BY <1>5, <1>8 DEF Queued
  <2>2. kstack' = kstack
    OBVIOUS
  <2>3. InHand' = InHand /\ Holding' = Holding
    BY <2>2 DEF InHand, Holding
  <2> QED
    BY <2>1, <2>3
<1>10. x \notin Queued' \cup InHand /\ x \notin d \cup done \cup e /\ x \in all
  BY <1>2, <1>3, <1>6, <1>9 DEF Selected
<1>11. TypeOK'
  <2>1. all' \subseteq Pids /\ rest \in Seq(Pids) /\ halted' \in BOOLEAN
    BY <1>2, <1>5 DEF Selected
  <2>2. UNCHANGED <<nextPid, signal, parent, child, childBitmap, childCompleted>>
    BY DEF family
  <2> QED
    BY <1>3, <1>5, <1>6, <1>7, <1>8, <2>1, <2>2 DEF PInv, TypeOK
<1>12. Standing'
  <2>1. Queued' \cup InHand' \cup {x} \subseteq all'
    BY <1>2, <1>3, <1>5, <1>9, <1>10 DEF Selected
  <2>2. /\ IsInjective(start') /\ IsInjective(ready') /\ IsInjective(waiting')
        /\ Range(start') \cap Range(ready') = {}
        /\ Range(start') \cap Range(waiting') = {}
        /\ Range(ready') \cap Range(waiting') = {}
    <3>1. IsInjective(b) /\ IsInjective(rest) /\ Range(b) \cap Range(rest) = {}
      BY <1>2, <1>3 DEF Selected
    <3> QED
      BY <1>5, <1>8, <3>1
  <2>3. InHand' \cap Queued' = {}
    BY <1>2, <1>3, <1>9 DEF Selected
  <2> QED
    BY <1>5, <1>9, <1>10, <2>1, <2>2, <2>3 DEF Standing
<1>13. Held'
  <2>1. "hold" \notin hits' => Holding = {} /\ "hold" \notin hits
    BY DEF Interrupted, Holding, Top, PInv, Placed, Held
  <2>2. all \subseteq Queued \cup done \cup InHand \cup {current} =>
          all' \subseteq Queued' \cup InHand' \cup {x}
    <3>1. Range(r) = e \cup {x} \cup Range(b)
      BY <1>3, <1>4
    <3>2. Queued \cup {current} \subseteq Range(r) \cup Range(rest) \cup d \cup {current}
      BY <1>2 DEF Selected
    <3>3. current \in Range(r) \cup Range(rest) \cup d \/ current \notin all
      BY <1>2, NoProcNotAPid DEF Selected
    <3> QED
      BY <1>5, <1>9, <3>1, <3>2, <3>3
  <2> QED
    BY <1>5, <1>9, <2>1, <2>2 DEF PInv, Placed, Held
<1>14. Fitting'
  <2>1. /\ \A p \in InHand : state[p] \in {"READY", "DONE"}
        /\ all \subseteq 1 .. nextPid - 1 /\ nextPid \in Nat /\ all \subseteq Pids
        /\ \A p \in Pids \ all : state[p] = IF p < nextPid THEN "DONE" ELSE "NONE"
    BY SchedulerAssumption DEF PInv, Placed, Fitting, TypeOK
  <2>2. Queued' \cup InHand' \subseteq Pids \ {x}
    BY <1>2, <1>3, <1>9, <1>10 DEF Selected
  <2>3. /\ \A p \in Range(start') : state'[p] \in {"START", "DONE"}
        /\ \A p \in Range(ready') \cup InHand' : state'[p] \in {"READY", "DONE"}
        /\ \A p \in Range(waiting') : state'[p] \in {"WAITING", "READY", "DONE"}
    BY <1>2, <1>3, <1>5, <1>7, <1>8, <1>9, <2>1, <2>2, ZenonT(40) DEF Selected
  <2>4. \A p \in Pids : state'[p] = "RUNNING" => p = x
    BY <1>2, <1>7 DEF Selected
  <2>5. \A p \in Pids \ all' : state'[p] = IF p < nextPid THEN "DONE" ELSE "NONE"
    <3> SUFFICES ASSUME NEW p \in Pids \ all'
                 PROVE  state'[p] = IF p < nextPid THEN "DONE" ELSE "NONE"
      OBVIOUS
    <3>1. p # x
      BY <1>5, <1>10
    <3>2. CASE p \notin all
      BY <1>2, <1>7, <2>1, <3>1, <3>2 DEF Selected
    <3>3. CASE p \in all
      <4>1. Admitted[p] = "DONE"
        BY <1>2, <1>3, <1>5, <3>3 DEF Selected
      <4>2. p < nextPid
        BY <2>1, <3>3, BelowNext
      <4> QED
        BY <1>7, <3>1, <4>1, <4>2
    <3> QED
      BY <3>2, <3>3
  <2>6. all' \subseteq 1 .. nextPid - 1
    BY <1>5, <2>1
  <2> QED
    BY <1>5, <2>3, <2>4, <2>5, <2>6 DEF Fitting
<1>15. Running'
  BY <1>5, <1>7 DEF Running
<1>16. Arguments'
  BY DEF PInv, Placed, Arguments
<1> QED
  BY <1>5, <1>6, <1>11, <1>12, <1>13, <1>14, <1>15, <1>16 DEF Placed

LEMMA TimerStep == ASSUME PInv, Timer PROVE PInv'
<1> DEFINE eax == IF mode = "kernel" THEN 0 ELSE frameEax
<1>1. Interrupted /\ UNCHANGED <<nextPid, family, rekilled>>
  BY DEF Timer, Interrupted
<1>2. PICK n \in 0 .. Len(SavedWaiting(state)) :
        /\ ResolvedPrefix(SavedWaiting(state), Admitted, n)
        /\ \/ /\ Load(Chosen(n), Kept(n), Admitted, SavedEax(contextEax, eax),
                      SavedDone(state) \cup done, all)
              /\ done' = {}
              /\ Iret(resume'[current'], IF mode = "kernel" THEN 0 ELSE ring, kstack)
           \/ /\ Panic(Chosen(n), Kept(n), Admitted, eax, all)
              /\ done' = (SavedDone(state) \cup done) \cup
                           DoneIn(Chosen(n), Admitted, Len(Chosen(n)) + 1)
              /\ UNCHANGED <<mode, ring, switched, kstack, wild>>
        /\ start' = <<>> /\ contextEax' = SavedEax(contextEax, eax)
  BY DEF Timer, Chosen, Kept, Admitted
<1>3. eax \in Pids \cup {-1, 0}
  BY DEF PInv, TypeOK
<1> HIDE DEF eax
<1>4. /\ SavedEax(contextEax, eax) \in [Pids -> Pids \cup {-1, 0}]
      /\ contextEax' \in [Pids -> Pids \cup {-1, 0}]
  BY <1>2, <1>3 DEF SavedEax, PInv, TypeOK
<1>5. ASSUME Load(Chosen(n), Kept(n), Admitted, SavedEax(contextEax, eax),
                  SavedDone(state) \cup done, all),
             done' = {},
             Iret(resume'[current'], IF mode = "kernel" THEN 0 ELSE ring, kstack)
      PROVE  PInv'
  <2>1. PICK k \in 1 .. Len(Chosen(n)) :
          /\ FirstReady(Chosen(n), Admitted, k)
          /\ current' = Chosen(n)[k]
          /\ state' = [Admitted EXCEPT ![Chosen(n)[k]] = "RUNNING"]
          /\ frameEax' = SavedEax(contextEax, eax)[Chosen(n)[k]]
          /\ ready' = SubSeq(Chosen(n), k + 1, Len(Chosen(n)))
          /\ waiting' = Kept(n) \o Pick(Chosen(n), WaitingIn(Chosen(n), Admitted, k))
          /\ all' = all \ ((SavedDone(state) \cup done) \cup DoneIn(Chosen(n), Admitted, k))
          /\ halted' = FALSE
    BY <1>5 DEF Load
  <2>2. Chosen(n)[k] \in Pids
    <3>1. Chosen(n) \in Seq(Pids)
      BY <1>2, Selecting DEF Selected
    <3> QED
      BY <3>1
  <2>3. frameEax' \in Pids \cup {-1, 0}
    BY <1>4, <2>1, <2>2
  <2>4. kstack' = kstack
    BY <1>5 DEF Iret
  <2>5. TypeOK' /\ Placed' /\ current' \in Pids
    BY <1>1, <1>2, <1>4, <1>5, <2>1, <2>3, <2>4, LoadedPlaced
  <2>6. Stacked'
    BY <1>1, <1>5, <2>1, <2>5, SwitchedStacked
  <2> QED
    BY <2>5, <2>6 DEF PInv
<1>6. ASSUME Panic(Chosen(n), Kept(n), Admitted, eax, all),
             done' = (SavedDone(state) \cup done) \cup
                       DoneIn(Chosen(n), Admitted, Len(Chosen(n)) + 1),
             UNCHANGED <<mode, ring, switched, kstack, wild>>
      PROVE  PInv'
  <2>1. /\ \A k \in 1 .. Len(Chosen(n)) : Admitted[Chosen(n)[k]] # "READY"
        /\ ready' = <<>> /\ state' = Admitted /\ all' = all
        /\ waiting' = Kept(n) \o
             Pick(Chosen(n), WaitingIn(Chosen(n), Admitted, Len(Chosen(n)) + 1))
        /\ current' = NoProc /\ halted' = TRUE /\ frameEax' \in Pids \cup {-1, 0}
    BY <1>3, <1>6 DEF Panic
  <2>2. done' = (done \cup SavedDone(state)) \cup
                  DoneIn(Chosen(n), Admitted, Len(Chosen(n)) + 1)
    BY <1>6
  <2>3. hits \subseteq hits'
    BY <1>1 DEF Interrupted
  <2>4. TypeOK' /\ Placed'
    BY <1>1, <1>2, <1>4, <1>6, <2>1, <2>2, <2>3, Halting
  <2>5. Stacked'
    BY <1>1, <1>6, <2>1, StoppedStacked
  <2> QED
    BY <2>4, <2>5 DEF PInv
<1> QED
  BY <1>2, <1>5, <1>6

-----------------------------------------------------------------------------
LEMMA PInitInv == PInit => PInv
<1> SUFFICES ASSUME PInit PROVE PInv
  OBVIOUS
<1> USE NoProcNotAPid
<1>1. TypeOK /\ QueuesPartition /\ StatesMatchQueues
  BY InitInv DEF PInit, Inv
<1>2. /\ mode = "user" /\ ring = 0 /\ switched = FALSE /\ kstack = <<>>
      /\ resume = [p \in Pids |-> 0] /\ done = {} /\ hits = {} /\ nested = 0 /\ wild = FALSE
      /\ current = NoProc /\ ~halted
  BY DEF PInit, Init
<1>3. DOMAIN kstack = {} /\ Len(kstack) = 0 /\ kstack \in Seq(Activations)
  BY <1>2
<1>4. CpuTypes
  <2>1. 0 \in -1 .. MaxDepth /\ 0 <= MaxDepth /\ 0 \in 0 .. MaxNested
    BY PreemptionAssumption
  <2>2. resume \in [Pids -> -1 .. MaxDepth]
    BY <1>2, <2>1
  <2> QED
    BY <1>2, <1>3, <2>1, <2>2 DEF CpuTypes
<1>5. Resumable
  <2>1. Owned([n \in Places |-> NoProc])
    BY <1>2, <1>3 DEF Owned
  <2>2. [n \in Places |-> NoProc] \in [Places -> Pids \cup {NoProc}]
    OBVIOUS
  <2> QED
    BY <2>1, <2>2 DEF Resumable
<1>6. Rings /\ Depths
  BY <1>2, <1>3 DEF Rings, Depths
<1>7. Holding = {} /\ InHand = {}
  BY <1>3 DEF Holding, InHand
<1>8. Standing /\ Held
  BY <1>1, <1>2, <1>7 DEF Standing, Held, QueuesPartition
<1>9. Fitting
  BY <1>1, <1>2, <1>7 DEF Fitting, StatesMatchQueues
<1>10. Running /\ Arguments
  BY <1>2, <1>3 DEF Running, Arguments
<1> QED
  BY <1>1, <1>4, <1>5, <1>6, <1>8, <1>9, <1>10 DEF PInv, Stacked, Placed

LEMMA PStutter == ASSUME PInv, UNCHANGED pvars PROVE PInv'
<1>1. /\ UNCHANGED <<nextPid, all, current, start, ready, waiting, state, signal, parent, child,
                     childBitmap, childCompleted, contextEax, frameEax, halted, rekilled>>
      /\ UNCHANGED <<mode, ring, switched, kstack, resume, wild, done, hits, nested>>
  BY DEF pvars, vars, family, cpu, history
<1>2. Holding' = Holding /\ InHand' = InHand /\ Queued' = Queued /\ Top' = Top
  BY <1>1 DEF Holding, InHand, Queued, Top
<1>3. TypeOK'
  BY <1>1 DEF PInv, TypeOK
<1>4. CpuTypes' /\ Rings' /\ Depths'
  BY <1>1 DEF PInv, Stacked, CpuTypes, Rings, Depths
<1>5. Resumable'
  BY <1>1 DEF PInv, Stacked, Resumable, Owned
<1>6. Standing' /\ Held'
  BY <1>1, <1>2 DEF PInv, Placed, Standing, Held
<1>7. Fitting' /\ Running' /\ Arguments'
  BY <1>1, <1>2 DEF PInv, Placed, Fitting, Running, Arguments
<1> QED
  BY <1>3, <1>4, <1>5, <1>6, <1>7 DEF PInv, Stacked, Placed

\* What ends outside the table leaves everything else as it is.
LEMMA BeyondFacts ==
  ASSUME BeyondTable
  PROVE  /\ ~wild /\ mode = "kernel" /\ Top.at \in Calls
         /\ halted' = TRUE
         /\ UNCHANGED <<nextPid, all, current, start, ready, waiting, state, signal, parent, child,
                        childBitmap, childCompleted, contextEax, frameEax, rekilled>>
         /\ UNCHANGED <<mode, ring, switched, kstack, resume, wild, done, hits, nested>>
BY DEF BeyondTable, Halt, At, Calls, family, cpu, history

LEMMA BeyondStep == ASSUME PInv, BeyondTable PROVE PInv'
<1>1. /\ halted' = TRUE
      /\ UNCHANGED <<nextPid, all, current, start, ready, waiting, state, signal, parent, child,
                     childBitmap, childCompleted, contextEax, frameEax, rekilled>>
      /\ UNCHANGED <<mode, ring, switched, kstack, resume, wild, done, hits, nested>>
  BY BeyondFacts
<1>2. Holding' = Holding /\ InHand' = InHand /\ Queued' = Queued /\ Top' = Top
  BY <1>1 DEF Holding, InHand, Queued, Top
<1>3. TypeOK'
  BY <1>1 DEF PInv, TypeOK
<1>4. CpuTypes' /\ Rings' /\ Depths' /\ Resumable'
  BY <1>1 DEF PInv, Stacked, CpuTypes, Rings, Depths, Resumable
<1>5. Standing' /\ Held'
  BY <1>1, <1>2 DEF PInv, Placed, Standing, Held
<1>6. Fitting' /\ Running' /\ Arguments'
  BY <1>1, <1>2 DEF PInv, Placed, Fitting, Running, Arguments
<1> QED
  BY <1>3, <1>4, <1>5, <1>6 DEF PInv, Stacked, Placed

\* A timer that cuts into a step is recorded, and nothing goes on from there.
LEMMA WithinFacts ==
  ASSUME PInv, TimerWithin
  PROVE  /\ wild' = TRUE /\ hits' = hits \cup {Inner[Top.at]} /\ Inner[Top.at] \in Torn
         /\ nested' = nested + 1 /\ nested \in Nat /\ nested < MaxNested /\ mode = "kernel"
         /\ UNCHANGED <<nextPid, all, current, start, ready, waiting, state, signal, parent,
                        child, childBitmap, childCompleted, contextEax, frameEax, halted,
                        rekilled, mode, ring, switched, kstack, resume, done>>
BY DEF TimerWithin, Torn, vars, family, PInv, Stacked, CpuTypes

LEMMA WithinStep == ASSUME PInv, TimerWithin PROVE PInv'
<1>1. /\ wild' = TRUE /\ hits' = hits \cup {Inner[Top.at]} /\ Inner[Top.at] \in Torn
      /\ nested' = nested + 1 /\ nested \in Nat /\ nested < MaxNested /\ mode = "kernel"
      /\ UNCHANGED <<nextPid, all, current, start, ready, waiting, state, signal, parent,
                     child, childBitmap, childCompleted, contextEax, frameEax, halted,
                     rekilled, mode, ring, switched, kstack, resume, done>>
  BY WithinFacts
<1>2. Holding' = Holding /\ InHand' = InHand /\ Queued' = Queued /\ Top' = Top
  BY <1>1 DEF Holding, InHand, Queued, Top
<1>3. TypeOK'
  BY <1>1 DEF PInv, TypeOK
<1>4. CpuTypes'
  <2>1. nested + 1 \in 0 .. MaxNested
    BY <1>1, PreemptionAssumption
  <2> QED
    BY <1>1, <2>1 DEF PInv, Stacked, CpuTypes
<1>5. Rings' /\ Resumable'
  BY <1>1 DEF PInv, Stacked, Rings, Resumable
<1>6. Depths'
  <2>1. nested + 1 # 0 /\ Len(kstack) <= (nested + 1) + 1 /\ hits' # {}
    BY <1>1 DEF PInv, Stacked, CpuTypes, Depths
  <2> QED
    BY <1>1, <2>1 DEF Depths
<1>7. Standing' /\ Held'
  BY <1>1, <1>2 DEF PInv, Placed, Standing, Held
<1>8. Fitting' /\ Running' /\ Arguments'
  BY <1>1, <1>2 DEF PInv, Placed, Fitting, Running, Arguments
<1> QED
  BY <1>3, <1>4, <1>5, <1>6, <1>7, <1>8 DEF PInv, Stacked, Placed

LEMMA PNextInv == PInv /\ [PNext]_pvars => PInv'
<1> SUFFICES ASSUME PInv, [PNext]_pvars PROVE PInv'
  OBVIOUS
<1>1. CASE Timer                       BY <1>1, TimerStep
<1>2. CASE SwitchRing3                 BY <1>2, SwitchStep
<1>3. CASE \E call \in Calls \ {"kill"} : Enter(call, frameEax)
  <2>1. frameEax \in Pids \cup {-1, 0}
    BY DEF PInv, TypeOK
  <2> QED
    BY <1>3, <2>1, EnterStep
<1>4. CASE \E p \in Pids \cup {Outside} : Enter("kill", p)
  <2>1. "kill" \in Calls /\ \A p \in Pids \cup {Outside} : p \in Pids \cup {-1, 0}
    BY DEF Calls, Outside
  <2> QED
    BY <1>4, <2>1, EnterStep
<1>5. CASE ForkSteps                   BY <1>5, ForkStepsKeep
<1>6. CASE ExecveSteps                 BY <1>6, ExecveStepsKeep
<1>7. CASE WaitSteps                   BY <1>7, WaitStepsKeep
<1>8. CASE KillSteps                   BY <1>8, KillStepsKeep
<1>9. CASE ExitSteps                   BY <1>9, ExitStepsKeep
<1>10. CASE Save                       BY <1>10, SaveStep
<1>11. CASE Choose                     BY <1>11, ChooseStep
<1>12. CASE LoadCurrent                BY <1>12, LoadStep
<1>13. CASE Drain                      BY <1>13, DrainStep
<1>14. CASE Return                     BY <1>14, ReturnStep
<1>15. CASE UNCHANGED pvars            BY <1>15, PStutter
<1>16. CASE BeyondTable                BY <1>16, BeyondStep
<1>17. CASE TimerWithin                BY <1>17, WithinStep
<1> QED
  BY <1>1, <1>2, <1>3, <1>4, <1>5, <1>6, <1>7, <1>8, <1>9, <1>10, <1>11, <1>12, <1>13,
     <1>14, <1>15, <1>16, <1>17 DEF PNext

\* Every state that the interrupted handlers reach has its places and owners.
THEOREM PInvHolds == PSpec => []PInv
<1> QED
  BY PInitInv, PNextInv, PTL DEF PSpec

(***************************************************************************)
(* Wherever the timer hits, the fields of every PCB, the frames on the     *)
(* kernel stack and the saved instruction pointers keep their type, up to  *)
(* a create() or kill() beyond the table, where what is claimed ends.      *)
(***************************************************************************)
THEOREM PreemptionTypes == PSpec => []PTypeOK
<1>1. PInv => PTypeOK
  BY DEF PInv, Stacked, Placed, Standing, CpuTypes, Activations, PTypeOK
<1> QED
  BY <1>1, PInvHolds, PTL

(***************************************************************************)
(* Between the steps of handlers, schedule() loses no process and doubles  *)
(* none, however many handlers the timer has suspended there, so long as   *)
(* it has hit neither between the pop of the next process and              *)
(* load_current() (scheduler.c:107-130) nor inside a step (the windows of  *)
(* Torn: create(), save_current() up to 87, the loops of 90-121,           *)
(* load_current() up to 131, the drain, and those of the child tables).    *)
(***************************************************************************)
THEOREM PlacesAreKept == PSpec => []PlacesKept
<1>1. PInv => PlacesKept
  <2> SUFFICES ASSUME PInv, ~halted, ~Hit({"hold"} \cup Torn) PROVE PlacesKept
    BY DEF PlacesKept
  <2> DEFINE places == <<Range(start), Range(ready), Range(waiting), done, InHand,
                         {current} \ {NoProc}>>
  <2>1. "hold" \notin hits
    BY DEF Hit
  <2>2. /\ DOMAIN places = 1 .. 6
        /\ places[1] = Range(start) /\ places[2] = Range(ready) /\ places[3] = Range(waiting)
        /\ places[4] = done /\ places[5] = InHand /\ places[6] = {current} \ {NoProc}
    OBVIOUS
  <2> HIDE DEF places
  <2>3. /\ IsInjective(start) /\ IsInjective(ready) /\ IsInjective(waiting)
        /\ Queued = places[1] \cup places[2] \cup places[3]
        /\ places[1] \cap places[2] = {} /\ places[1] \cap places[3] = {}
        /\ places[2] \cap places[3] = {}
        /\ places[4] \cap Queued = {} /\ places[5] \cap Queued = {}
        /\ places[4] \cap places[5] = {}
        /\ places[6] \cap (Queued \cup places[4] \cup places[5]) = {}
        /\ Queued \cup places[4] \cup places[5] \cup places[6] \subseteq all
    BY <2>2 DEF PInv, Placed, Standing, Queued
  <2>4. all \subseteq Queued \cup places[4] \cup places[5] \cup places[6]
    <3>1. all \subseteq Queued \cup done \cup InHand \cup {current} /\ NoProc \notin all
      BY <2>1, NoProcNotAPid DEF PInv, TypeOK, Placed, Held
    <3> QED
      BY <2>2, <3>1
  <2>5. ASSUME NEW i \in 1 .. 6, NEW j \in 1 .. 6, i # j
        PROVE  places[i] \cap places[j] = {}
    <3>1. i \in {1, 2, 3, 4, 5, 6} /\ j \in {1, 2, 3, 4, 5, 6}
      OBVIOUS
    <3> QED
      BY <2>3, <2>5, <3>1
  <2>6. ASSUME NEW p \in all
        PROVE  \E i \in 1 .. 6 : \A j \in 1 .. 6 : p \in places[j] <=> j = i
    <3>1. PICK i \in 1 .. 6 : p \in places[i]
      BY <2>3, <2>4
    <3> QED
      BY <2>5, <3>1
  <2>7. \A i \in 1 .. 6 : places[i] \subseteq all
    <3> SUFFICES ASSUME NEW i \in 1 .. 6 PROVE places[i] \subseteq all
      OBVIOUS
    <3>1. i \in {1, 2, 3, 4, 5, 6}
      OBVIOUS
    <3> QED
      BY <2>3, <3>1
  <2> QED
    BY <2>2, <2>3, <2>6, <2>7 DEF PlacesKept, places
<1> QED
  BY <1>1, PInvHolds, PTL

(***************************************************************************)
(* The branches of scheduler.c:62, 115 and 119 stay dead code, whatever    *)
(* handlers the timer has suspended between their steps; inside a step, as *)
(* between scheduler.c:80 and 131, nothing is claimed.                     *)
(***************************************************************************)
THEOREM StatesAlwaysFit == PSpec => []StatesFit
<1>1. PInv => StatesFit
  <2> SUFFICES ASSUME PInv, mode = "user", ~wild PROVE StatesMatchQueues
    BY DEF StatesFit
  <2>1. \A p \in Pids : state[p] = "RUNNING" <=> p = current
    BY NoProcNotAPid DEF PInv, Placed, Fitting, Running
  <2> QED
    BY <2>1 DEF PInv, Placed, Fitting, StatesMatchQueues
<1> QED
  BY <1>1, PInvHolds, PTL

(***************************************************************************)
(* Until the timer hits a handler, programs run in ring 3 from the switch  *)
(* of kernel.c:81 on.                                                      *)
(***************************************************************************)
THEOREM RingStays == PSpec => []RingKept
<1>1. PInv => RingKept
  BY DEF PInv, Stacked, Depths, RingKept
<1> QED
  BY <1>1, PInvHolds, PTL

-----------------------------------------------------------------------------
(***************************************************************************)
(* What a window that the timer has not hit gives: no handler is suspended *)
(* in it, so only the one that runs can be there.                          *)
(***************************************************************************)
Suspended ==
  ~wild =>
    /\ \A n \in DOMAIN kstack : kstack[n].at \in hits \/ (n = Len(kstack) /\ mode = "kernel")
    /\ At("drain") => current # NoProc

HandlerSteps == ForkSteps \/ ExecveSteps \/ WaitSteps \/ KillSteps \/ ExitSteps

\* The ways a step can go, the arguments of the calls being of their type.
LEMMA Steps ==
  ASSUME PInv
  PROVE  [PNext]_pvars =>
           \/ Timer \/ SwitchRing3 \/ HandlerSteps \/ Save \/ Choose \/ LoadCurrent
           \/ Drain \/ Return \/ BeyondTable \/ TimerWithin \/ UNCHANGED pvars
           \/ \E call \in Calls, a \in Pids \cup {-1, 0} : Enter(call, a)
<1>1. /\ frameEax \in Pids \cup {-1, 0} /\ "kill" \in Calls /\ Calls \ {"kill"} \subseteq Calls
      /\ \A p \in Pids \cup {Outside} : p \in Pids \cup {-1, 0}
  BY DEF PInv, TypeOK, Calls, Outside
<1>2. ASSUME \E call \in Calls \ {"kill"} : Enter(call, frameEax)
      PROVE  \E call \in Calls, a \in Pids \cup {-1, 0} : Enter(call, a)
  BY <1>1, <1>2
<1>3. ASSUME \E p \in Pids \cup {Outside} : Enter("kill", p)
      PROVE  \E call \in Calls, a \in Pids \cup {-1, 0} : Enter(call, a)
  BY <1>1, <1>3
<1> QED
  BY <1>2, <1>3 DEF PNext, HandlerSteps

\* A handler that has not called schedule() goes from label m to label l.
LEMMA HandlerMoves ==
  ASSUME PInv, HandlerSteps
  PROVE  \E m, l \in Labels \ Special : \E a \in Pids \cup {-1, 0} :
           At(m) /\ Step(l, a) /\ current' = current /\ halted' = halted
<1> USE LabelNames
<1>1. ASSUME NEW m \in Labels \ Special, At(m)
      PROVE  Me \in Pids /\ Top.arg \in Pids \cup {-1, 0}
  BY <1>1, Active
<1>2. CASE ForkSteps
  <2>1. CASE At("fork") /\ Step("return", -1) /\ UNCHANGED vars
    BY <2>1 DEF vars
  <2>2. CASE At("fork") /\ CreateChild /\ Step("register", nextPid)
    <3>1. nextPid \in Pids
      BY <2>2, SchedulerAssumption DEF CreateChild, HasEntry, PInv, TypeOK, Pids
    <3> QED
      BY <2>2, <3>1 DEF CreateChild
  <2>3. CASE At("register") /\ NotifyParentCreate(Top.arg) /\ Step("copy", Top.arg)
    BY <1>1, <2>3 DEF NotifyParentCreate
  <2>4. CASE At("copy") /\ Step("return", Top.arg) /\ UNCHANGED <<current, halted>>
    BY <1>1, <2>4
  <2> QED
    BY <1>2, <2>1, <2>2, <2>3, <2>4 DEF ForkSteps
<1>3. CASE ExecveSteps
  <2>1. CASE At("execve") /\ Step("leave", -1) /\ UNCHANGED vars
    BY <2>1 DEF vars
  <2>2. CASE At("execve") /\ CreateChild /\ Step("load", nextPid)
    <3>1. nextPid \in Pids
      BY <2>2, SchedulerAssumption DEF CreateChild, HasEntry, PInv, TypeOK, Pids
    <3> QED
      BY <2>2, <3>1 DEF CreateChild
  <2>3. CASE At("load") /\ NotifyParentCreate(Top.arg) /\ Step("sleep", Top.arg)
    BY <1>1, <2>3 DEF NotifyParentCreate
  <2>4. CASE At("sleep") /\ SetState(Me, "WAITING") /\ Step("park", Top.arg)
    BY <1>1, <2>4 DEF SetState
  <2> QED
    BY <1>3, <2>1, <2>2, <2>3, <2>4 DEF ExecveSteps
<1>4. CASE WaitSteps
  <2>1. CASE At("wait") /\ Step("return", -1) /\ UNCHANGED vars
    BY <2>1 DEF vars
  <2>2. CASE At("wait") /\ Reap
    <3>1. Me \in Pids
      BY <1>1, <2>2
    <3>2. childCompleted[Me] \subseteq Slots
      BY <3>1 DEF PInv, TypeOK
    <3>3. PICK i \in Slots : Step("return", child[Me][i]) /\ UNCHANGED <<current, halted>>
      BY <2>2, <3>2 DEF Reap
    <3>4. child[Me][i] \in Pids \cup {-1, 0}
      BY <3>1, <3>3 DEF PInv, TypeOK, NoProc
    <3> QED
      BY <2>2, <3>3, <3>4
  <2>3. CASE At("wait") /\ Step("block", 0) /\ UNCHANGED vars
    BY <2>3 DEF vars
  <2>4. CASE At("block") /\ SetState(Me, "WAITING") /\ Step("blocked", 0)
    BY <2>4 DEF SetState
  <2>5. CASE At("blocked") /\ Step("park", 0) /\ UNCHANGED vars
    BY <2>5 DEF vars
  <2>6. CASE At("blocked") /\ Step("return", 0) /\ UNCHANGED vars
    BY <2>6 DEF vars
  <2> QED
    BY <1>4, <2>1, <2>2, <2>3, <2>4, <2>5, <2>6 DEF WaitSteps
<1>5. CASE KillSteps
  <2>1. CASE At("kill") /\ Step("return", -1) /\ UNCHANGED vars
    BY <2>1 DEF vars
  <2>2. CASE At("kill") /\ Step("killing", Top.arg) /\ UNCHANGED vars
    BY <1>1, <2>2 DEF vars
  <2>3. CASE At("killing") /\ Step("tell", Top.arg) /\ UNCHANGED <<current, halted>>
    BY <1>1, <2>3
  <2>4. CASE At("tell") /\ Tell(Top.arg) /\ Step(IF Top.arg = Me THEN "leave" ELSE "return", 0)
    <3>1. UNCHANGED <<current, halted>>
      BY <2>4 DEF Tell
    <3>2. Step("leave", 0) \/ Step("return", 0)
      BY <2>4
    <3> QED
      BY <2>4, <3>1, <3>2
  <2> QED
    BY <1>5, <2>1, <2>2, <2>3, <2>4 DEF KillSteps
<1>6. CASE ExitSteps
  <2>1. CASE At("exit") /\ SetState(Me, "DONE") /\ Step("report", Top.arg)
    BY <1>1, <2>1 DEF SetState
  <2>2. CASE At("report") /\ Tell(Me) /\ Step("leave", Top.arg)
    BY <1>1, <2>2 DEF Tell
  <2> QED
    BY <1>6, <2>1, <2>2 DEF ExitSteps
<1> QED
  BY <1>2, <1>3, <1>4, <1>5, <1>6 DEF HandlerSteps

\* What the timer does to states and queues, whether it finds a process or not.
LEMMA AdmittedFacts ==
  ASSUME PInv
  PROVE  /\ \A p \in Pids : Admitted[p] = IF p \in Range(start) \/ state[p] = "RUNNING"
                                          THEN "READY" ELSE state[p]
         /\ Range(SavedWaiting(state)) \subseteq Range(waiting) \cup {current}
         /\ current \in Range(SavedWaiting(state)) => state[current] = "WAITING"
         /\ Range(waiting) \subseteq Pids /\ current \notin Range(waiting)
         /\ current \notin Range(start) /\ Range(start) \cap Range(waiting) = {}
         /\ Range(start) \subseteq Pids
<1>1. /\ waiting \in Seq(Pids) /\ current \in Pids \cup {NoProc} /\ start \in Seq(Pids)
      /\ current \notin Range(waiting) /\ current \notin Range(start)
      /\ Range(start) \cap Range(waiting) = {}
  BY DEF PInv, TypeOK, Placed, Standing, Queued
<1>2. /\ \A p \in Pids : state[p] = "RUNNING" => p = current
      /\ current # NoProc => current \in Pids
  BY <1>1 DEF PInv, Placed, Fitting
<1>3. \A p \in Pids : Admitted[p] = IF p \in Range(start) \/ state[p] = "RUNNING"
                                    THEN "READY" ELSE state[p]
  BY <1>2, NoProcNotAPid DEF Admitted, AdmittedStates, Saved
<1>4. Range(waiting) \subseteq Pids /\ Range(start) \subseteq Pids
  BY <1>1, RangeOfSeq
<1>5. CASE Saved(state, "WAITING")
  <2>1. SavedWaiting(state) = Append(waiting, current) /\ current \in Pids
    BY <1>2, <1>5 DEF SavedWaiting, Saved
  <2>2. Range(SavedWaiting(state)) = Range(waiting) \cup {current}
    BY <1>1, <2>1, AppendFacts
  <2> QED
    BY <1>1, <1>3, <1>4, <1>5, <2>2 DEF Saved
<1>6. CASE ~Saved(state, "WAITING")
  <2>1. SavedWaiting(state) = waiting
    BY <1>6 DEF SavedWaiting
  <2> QED
    BY <1>1, <1>3, <1>4, <2>1
<1> QED
  BY <1>5, <1>6

\* Nothing is ever put behind the processes that stay in __waiting.
LEMMA StaysWaiting ==
  ASSUME PInv, NEW n \in 0 .. Len(SavedWaiting(state)),
         ResolvedPrefix(SavedWaiting(state), Admitted, n)
  PROVE  /\ Chosen(n) \in Seq(Pids)
         /\ \A k \in 1 .. Len(Chosen(n)) : FirstReady(Chosen(n), Admitted, k) =>
              /\ Chosen(n)[k] \in Pids /\ Admitted[Chosen(n)[k]] = "READY"
              /\ Range(Kept(n) \o Pick(Chosen(n), WaitingIn(Chosen(n), Admitted, k)))
                   \subseteq Range(SavedWaiting(state))
         /\ (\A k \in 1 .. Len(Chosen(n)) : Admitted[Chosen(n)[k]] # "READY") =>
              Range(Kept(n) \o Pick(Chosen(n), WaitingIn(Chosen(n), Admitted, Len(Chosen(n)) + 1)))
                   \subseteq Range(SavedWaiting(state))
<1>1. PICK r, rest, w : r = Chosen(n) /\ rest = Kept(n) /\ w = SavedWaiting(state)
  OBVIOUS
<1>2. Selected(r, rest, SavedDone(state))
  BY <1>1, Selecting
<1>3. /\ r \in Seq(Pids) /\ rest \in Seq(Pids) /\ IsInjective(r)
      /\ \A p \in Range(r) : Admitted[p] \in {"READY", "DONE"}
  BY <1>2 DEF Selected
<1>4. Range(rest) \subseteq Range(w)
  <2>1. w \in Seq(Pids) /\ IsInjective(w)
    BY <1>1, Saving DEF Admitted
  <2>2. n \in 0 .. Len(w) /\ rest = SubSeq(w, n + 1, Len(w))
    BY <1>1 DEF Kept
  <2> QED
    BY <2>1, <2>2, SplitFacts
<1>5. ASSUME NEW k \in 1 .. Len(r), FirstReady(r, Admitted, k)
      PROVE  /\ r[k] \in Pids /\ Admitted[r[k]] = "READY"
             /\ rest \o Pick(r, WaitingIn(r, Admitted, k)) = rest
  <2>1. /\ Parted(r, Admitted, DoneIn(r, Admitted, k), r[k], SubSeq(r, k + 1, Len(r)))
        /\ rest \o Pick(r, WaitingIn(r, Admitted, k)) = rest
    BY <1>3, <1>5, Popping
  <2> QED
    BY <2>1 DEF Parted
<1>6. (\A k \in 1 .. Len(r) : Admitted[r[k]] # "READY") =>
        rest \o Pick(r, WaitingIn(r, Admitted, Len(r) + 1)) = rest
  BY <1>3, NoneReady
<1>7. /\ \A k \in 1 .. Len(r) : FirstReady(r, Admitted, k) =>
           /\ r[k] \in Pids /\ Admitted[r[k]] = "READY"
           /\ Range(rest \o Pick(r, WaitingIn(r, Admitted, k))) \subseteq Range(w)
      /\ (\A k \in 1 .. Len(r) : Admitted[r[k]] # "READY") =>
           Range(rest \o Pick(r, WaitingIn(r, Admitted, Len(r) + 1))) \subseteq Range(w)
  BY <1>4, <1>5, <1>6
<1> QED
  BY <1>1, <1>3, <1>7

LEMMA TimerFacts ==
  ASSUME PInv, Timer
  PROVE  /\ Interrupted /\ UNCHANGED <<nextPid, family, rekilled, kstack>>
         /\ start' = <<>> /\ Range(start') = {}
         /\ Range(waiting') \subseteq Range(SavedWaiting(state))
         /\ \A p \in Pids : \/ state'[p] = Admitted[p]
                            \/ Admitted[p] = "READY" /\ state'[p] = "RUNNING"
         /\ \A p \in Pids : p # current => contextEax'[p] = contextEax[p]
         /\ halted' \/ current' \in Pids
<1> DEFINE eax == IF mode = "kernel" THEN 0 ELSE frameEax
<1>1. Interrupted /\ UNCHANGED <<nextPid, family, rekilled>>
  BY DEF Timer, Interrupted
<1>2. PICK n \in 0 .. Len(SavedWaiting(state)) :
        /\ ResolvedPrefix(SavedWaiting(state), Admitted, n)
        /\ \/ /\ Load(Chosen(n), Kept(n), Admitted, SavedEax(contextEax, eax),
                      SavedDone(state) \cup done, all)
              /\ kstack' = kstack
           \/ /\ Panic(Chosen(n), Kept(n), Admitted, eax, all)
              /\ kstack' = kstack
        /\ start' = <<>> /\ contextEax' = SavedEax(contextEax, eax)
  BY DEF Timer, Chosen, Kept, Admitted, Iret
<1>3. \A p \in Pids : p # current => contextEax'[p] = contextEax[p]
  BY <1>2 DEF SavedEax, PInv, TypeOK
<1>4. Range(start') = {} /\ Admitted \in [Pids -> States]
  <2>1. Admitted \in [Pids -> States]
    BY Saving DEF Admitted
  <2> QED
    BY <1>2, <2>1, EmptyFacts
<1> HIDE DEF eax
<1>5. CASE Load(Chosen(n), Kept(n), Admitted, SavedEax(contextEax, eax),
                SavedDone(state) \cup done, all)
  <2>1. PICK k \in 1 .. Len(Chosen(n)) :
          /\ FirstReady(Chosen(n), Admitted, k)
          /\ current' = Chosen(n)[k]
          /\ state' = [Admitted EXCEPT ![Chosen(n)[k]] = "RUNNING"]
          /\ waiting' = Kept(n) \o Pick(Chosen(n), WaitingIn(Chosen(n), Admitted, k))
    BY <1>5 DEF Load
  <2>2. PICK x : x = Chosen(n)[k]
    OBVIOUS
  <2>3. /\ x \in Pids /\ Admitted[x] = "READY"
        /\ Range(waiting') \subseteq Range(SavedWaiting(state))
    BY <1>2, <2>1, <2>2, StaysWaiting
  <2>4. \A p \in Pids : state'[p] = IF p = x THEN "RUNNING" ELSE Admitted[p]
    BY <1>4, <2>1, <2>2, <2>3
  <2> QED
    BY <1>1, <1>2, <1>3, <1>4, <2>1, <2>2, <2>3, <2>4
<1>6. CASE Panic(Chosen(n), Kept(n), Admitted, eax, all)
  <2>1. /\ \A k \in 1 .. Len(Chosen(n)) : Admitted[Chosen(n)[k]] # "READY"
        /\ state' = Admitted /\ halted' = TRUE
        /\ waiting' = Kept(n) \o
             Pick(Chosen(n), WaitingIn(Chosen(n), Admitted, Len(Chosen(n)) + 1))
    BY <1>6 DEF Panic
  <2>2. Range(waiting') \subseteq Range(SavedWaiting(state))
    BY <1>2, <2>1, StaysWaiting
  <2> QED
    BY <1>1, <1>2, <1>3, <1>4, <2>1, <2>2
<1> QED
  BY <1>2, <1>5, <1>6

LEMMA ChooseFacts ==
  ASSUME PInv, Choose
  PROVE  /\ At("choose") /\ current = NoProc /\ start' = <<>> /\ Range(start') = {}
         /\ state' = Admitted /\ Range(waiting') \subseteq Range(waiting)
         /\ UNCHANGED <<nextPid, current, family, contextEax, rekilled,
                        mode, resume, wild, hits>>
         /\ \/ halted' /\ kstack' = kstack
            \/ \E x \in Pids : Admitted[x] = "READY" /\ Goto("hold", x)
<1>1. At("choose") /\ current = NoProc /\ ~halted
  BY NoneCurrent DEF Choose, At
<1>2. /\ SavedReady(state) = ready /\ SavedWaiting(state) = waiting /\ SavedDone(state) = {}
  BY <1>1 DEF SavedReady, SavedWaiting, SavedDone, Saved
<1>3. PICK n \in 0 .. Len(SavedWaiting(state)) :
        /\ ResolvedPrefix(SavedWaiting(state), Admitted, n) /\ start' = <<>> /\ state' = Admitted
        /\ \/ \E k \in 1 .. Len(Chosen(n)) :
                /\ FirstReady(Chosen(n), Admitted, k)
                /\ waiting' = Kept(n) \o Pick(Chosen(n), WaitingIn(Chosen(n), Admitted, k))
                /\ Goto("hold", Chosen(n)[k])
           \/ /\ \A k \in 1 .. Len(Chosen(n)) : Admitted[Chosen(n)[k]] # "READY"
              /\ waiting' = Kept(n) \o
                   Pick(Chosen(n), WaitingIn(Chosen(n), Admitted, Len(Chosen(n)) + 1))
              /\ halted' = TRUE
              /\ UNCHANGED kstack
  BY <1>2 DEF Choose, Chosen, Kept, Admitted
<1>4. UNCHANGED <<nextPid, current, family, contextEax, rekilled, mode, resume, wild, hits>>
  BY DEF Choose, history
<1>5. Range(start') = {}
  BY <1>3, EmptyFacts
<1>6. ASSUME NEW k \in 1 .. Len(Chosen(n)), FirstReady(Chosen(n), Admitted, k),
             waiting' = Kept(n) \o Pick(Chosen(n), WaitingIn(Chosen(n), Admitted, k)),
             Goto("hold", Chosen(n)[k])
      PROVE  /\ Range(waiting') \subseteq Range(waiting)
             /\ \E x \in Pids : Admitted[x] = "READY" /\ Goto("hold", x)
  <2>1. /\ Chosen(n)[k] \in Pids /\ Admitted[Chosen(n)[k]] = "READY"
        /\ Range(waiting') \subseteq Range(SavedWaiting(state))
    BY <1>3, <1>6, StaysWaiting
  <2> QED
    BY <1>2, <1>6, <2>1
<1>7. ASSUME \A k \in 1 .. Len(Chosen(n)) : Admitted[Chosen(n)[k]] # "READY",
             waiting' = Kept(n) \o
               Pick(Chosen(n), WaitingIn(Chosen(n), Admitted, Len(Chosen(n)) + 1))
      PROVE  Range(waiting') \subseteq Range(waiting)
  <2>1. Range(waiting') \subseteq Range(SavedWaiting(state))
    BY <1>3, <1>7, StaysWaiting
  <2> QED
    BY <1>2, <2>1
<1> QED
  BY <1>1, <1>3, <1>4, <1>5, <1>6, <1>7

\* The timer finds every activation, the one that runs too.
LEMMA AllHit ==
  ASSUME PInv, Suspended, Timer, NEW n \in DOMAIN kstack
  PROVE  kstack[n].at \in hits'
<1>1. /\ ~wild
      /\ hits' = IF mode = "kernel" THEN hits \cup {Top.at} ELSE hits
  BY DEF Timer
<1> QED
  BY <1>1 DEF Suspended, Top

LEMMA SuspendedStep == ASSUME PInv, Suspended, [PNext]_pvars PROVE Suspended'
<1> SUFFICES ASSUME ~wild, ~wild'
             PROVE  /\ \A n \in DOMAIN kstack' :
                         kstack'[n].at \in hits' \/ (n = Len(kstack') /\ mode' = "kernel")
                    /\ At("drain")' => current' # NoProc
  <2>1. wild => UNCHANGED pvars
    BY Active, HandlerMoves
       DEF PNext, HandlerSteps, Timer, TimerWithin, BeyondTable, SwitchRing3, Enter, Save,
           Choose, LoadCurrent, Drain, Return, At
  <2>2. UNCHANGED pvars => wild' = wild
    BY DEF pvars, cpu
  <2> QED
    BY <2>1, <2>2 DEF Suspended
<1>1. /\ CpuTypes /\ (mode = "kernel" => kstack # <<>>)
      /\ \A n \in DOMAIN kstack : kstack[n].at \in hits \/ (n = Len(kstack) /\ mode = "kernel")
      /\ At("drain") => current # NoProc
  BY DEF PInv, Stacked, Rings, Suspended
<1>2. ASSUME mode = "kernel", NEW l \in Labels, NEW a \in Pids \cup {-1, 0}, Goto(l, a),
             UNCHANGED <<mode, hits>>, l = "drain" => current' # NoProc
      PROVE  Suspended'
  <2>1. /\ Len(kstack') = Len(kstack) /\ DOMAIN kstack' = DOMAIN kstack
        /\ \A n \in DOMAIN kstack : n # Len(kstack) => kstack'[n] = kstack[n]
        /\ Top'.at = l
    BY <1>1, <1>2, Moving
  <2> QED
    BY <1>1, <1>2, <2>1 DEF Suspended, At
<1>3. CASE Timer
  <2>1. UNCHANGED kstack /\ (halted' \/ current' \in Pids)
    BY <1>3, TimerFacts
  <2>2. \A n \in DOMAIN kstack : kstack[n].at \in hits'
    BY <1>3, AllHit
  <2> QED
    BY <2>1, <2>2, NoProcNotAPid DEF At
<1>4. CASE SwitchRing3
  BY <1>4 DEF SwitchRing3, At
<1>5. CASE \E call \in Calls, a \in Pids \cup {-1, 0} : Enter(call, a)
  <2>1. PICK call \in Calls, a \in Pids \cup {-1, 0} : Enter(call, a)
    BY <1>5
  <2>2. PICK x : x = [proc |-> current, ring |-> ring, eip |-> 0, at |-> call, arg |-> a]
    OBVIOUS
  <2>3. /\ InUser /\ mode = "user" /\ hits' = hits /\ mode' = "kernel" /\ ring \in {0, 3}
        /\ Len(EntryStack) < MaxDepth /\ kstack' = Append(EntryStack, x)
    BY <1>1, <2>1, <2>2 DEF Enter, history, CpuTypes
  <2>4. EntryStack = kstack
    BY <2>3, InProgram DEF EntryStack
  <2>5. x \in Activations /\ x.at = call /\ call # "drain"
    <3>1. current \in Pids /\ 0 \in -1 .. MaxDepth
      BY <2>3, InProgram, PreemptionAssumption
    <3> QED
      BY <2>2, <2>3, <3>1 DEF Activations, Labels, Calls
  <2>6. /\ Len(kstack') = Len(kstack) + 1
        /\ DOMAIN kstack' = DOMAIN kstack \cup {Len(kstack) + 1}
        /\ \A n \in DOMAIN kstack : kstack'[n] = kstack[n]
        /\ kstack'[Len(kstack) + 1] = x
    BY <1>1, <2>3, <2>4, <2>5, Pushed
  <2> QED
    BY <1>1, <2>3, <2>5, <2>6 DEF At, Top
<1>6. CASE HandlerSteps
  <2>1. PICK m, l \in Labels \ Special : \E a \in Pids \cup {-1, 0} : At(m) /\ Step(l, a)
    BY <1>6, HandlerMoves
  <2>2. PICK a \in Pids \cup {-1, 0} : At(m) /\ Step(l, a)
    BY <2>1
  <2>3. mode = "kernel" /\ Goto(l, a) /\ UNCHANGED <<mode, hits>> /\ l # "drain"
    BY <2>2 DEF At, Step, history, Special
  <2>4. Suspended'
    BY <1>2, <2>3
  <2> QED
    BY <2>4 DEF Suspended
<1>7. CASE Save
  <2>1. mode = "kernel" /\ Goto("choose", 0) /\ UNCHANGED <<mode, hits>> /\ "choose" \in Labels
    BY <1>7 DEF Save, At, history, Labels
  <2>2. Suspended'
    BY <1>2, <2>1
  <2> QED
    BY <2>2 DEF Suspended
<1>8. CASE Choose
  <2>1. /\ mode = "kernel" /\ UNCHANGED <<mode, hits, current>> /\ At("choose")
        /\ \/ kstack' = kstack
           \/ \E x \in Pids : Goto("hold", x)
    BY <1>8, ChooseFacts DEF At
  <2>2. CASE kstack' = kstack
    BY <1>1, <2>1, <2>2 DEF At, Top
  <2>3. CASE \E x \in Pids : Goto("hold", x)
    <3>1. PICK x \in Pids \cup {-1, 0} : Goto("hold", x)
      BY <2>3
    <3>2. "hold" \in Labels
      BY DEF Labels
    <3>3. Suspended'
      BY <1>2, <2>1, <3>1, <3>2
    <3> QED
      BY <3>3 DEF Suspended
  <2> QED
    BY <2>1, <2>2, <2>3
<1>9. CASE LoadCurrent
  <2>1. /\ mode = "kernel" /\ UNCHANGED <<mode, hits>> /\ Len(kstack) \in DOMAIN kstack
        /\ current' = Top.arg /\ Top.arg \in Pids
        /\ Len(kstack') = Len(kstack) /\ DOMAIN kstack' = DOMAIN kstack
        /\ \A n \in DOMAIN kstack : n # Len(kstack) => kstack'[n] = kstack[n]
    BY <1>1, <1>9, NoneCurrent DEF LoadCurrent, history, PInv, Placed, Arguments, CpuTypes
  <2> QED
    BY <1>1, <2>1, NoProcNotAPid
<1>10. CASE Drain \/ Return
  <2>1. /\ mode = "kernel" /\ kstack' = Below /\ UNCHANGED <<hits, current>>
        /\ Drain \/ mode' = "user"
    BY <1>10 DEF Drain, Return, At, Iret, history
  <2>2. /\ DOMAIN kstack' = DOMAIN kstack \ {Len(kstack)}
        /\ \A n \in DOMAIN kstack' : kstack'[n] = kstack[n]
    BY <1>1, <2>1, Popped
  <2>3. \A n \in DOMAIN kstack' : kstack'[n].at \in hits'
    BY <1>1, <2>1, <2>2
  <2>4. Drain => At("drain")
    BY DEF Drain
  <2> QED
    BY <1>1, <2>1, <2>3, <2>4 DEF At
<1>11. CASE UNCHANGED pvars
  <2>1. UNCHANGED <<kstack, hits, mode, halted, wild, current>>
    BY <1>11 DEF pvars, vars, cpu, history
  <2> QED
    BY <1>1, <2>1 DEF At, Top
<1>12. CASE BeyondTable
  BY <1>1, <1>12, BeyondFacts DEF At, Top
<1>13. CASE TimerWithin
  BY <1>13, WithinFacts
<1>14. [PNext]_pvars =>
         \/ Timer \/ SwitchRing3 \/ HandlerSteps \/ Save \/ Choose \/ LoadCurrent
         \/ Drain \/ Return \/ BeyondTable \/ TimerWithin \/ UNCHANGED pvars
         \/ \E call \in Calls, a \in Pids \cup {-1, 0} : Enter(call, a)
  BY Steps
<1> QED
  BY <1>3, <1>4, <1>5, <1>6, <1>7, <1>8, <1>9, <1>10, <1>11, <1>12, <1>13, <1>14

-----------------------------------------------------------------------------
(***************************************************************************)
(* No wakeup is lost.  A handler that is about to sleep says what it will  *)
(* be saved with, as long as the timer has hit none of the windows.        *)
(***************************************************************************)
SleepWindows == {"register", "copy", "block", "blocked", "park"}

Answerable ==
  \A p \in Range(waiting) : state[p] = "WAITING" =>
    resume[p] = 0 /\ (contextEax[p] = 0 => childCompleted[p] = {})

FallingAsleep ==
  /\ At("register") \/ At("copy") => Top.arg \in Range(start)
  /\ At("block") => childCompleted[current] = {}
  /\ At("blocked") /\ state[current] = "WAITING" => childCompleted[current] = {}
  /\ At("park") /\ state[current] = "WAITING" /\ Top.arg = 0 => childCompleted[current] = {}

Sleepers == ~wild /\ ~Hit(SleepWindows) => Answerable /\ FallingAsleep

\* Who slept before sleeps as before.
LEMMA StillAnswerable ==
  ASSUME Answerable,
         \A p \in Range(waiting') : state'[p] = "WAITING" =>
           /\ p \in Range(waiting) /\ state[p] = "WAITING"
           /\ resume'[p] = resume[p] \/ resume'[p] = 0
           /\ contextEax'[p] = contextEax[p] /\ childCompleted'[p] = childCompleted[p]
  PROVE  Answerable'
BY DEF Answerable

\* A step of a handler keeps queues and saved places.
LEMMA SleepersHandler ==
  ASSUME PInv, HandlerSteps, Answerable, FallingAsleep
  PROVE  Answerable' /\ FallingAsleep'
<1> USE LabelNames
<1>1. /\ waiting \in Seq(Pids) /\ Range(waiting) \subseteq Pids /\ start \in Seq(Pids)
      /\ current \notin Range(waiting) /\ Range(start) \cap Range(waiting) = {}
      /\ Range(waiting) \subseteq all /\ state \in [Pids -> States]
      /\ contextEax \in [Pids -> Pids \cup {-1, 0}]
      /\ childCompleted \in [Pids -> SUBSET Slots] /\ parent \in [Pids -> Pids \cup {NoProc}]
  BY AdmittedFacts DEF PInv, TypeOK, Placed, Standing, Queued
<1>2. ASSUME NEW m \in Labels \ Special, At(m)
      PROVE  Me = current /\ current \in Pids /\ CpuTypes /\ kstack # <<>>
  BY <1>2, Active DEF PInv, Stacked, Rings
<1>3. ASSUME NEW m \in Labels \ Special, At(m),
             NEW l \in Labels \ Special, NEW a \in Pids \cup {-1, 0}, Step(l, a)
      PROVE  Top'.at = l /\ Top'.arg = a /\ resume' = resume
  BY <1>2, <1>3, Moving DEF Step
<1>4. ASSUME NEW m \in Labels \ Special, At(m),
             NEW l \in Labels \ (Special \cup SleepWindows), NEW a \in Pids \cup {-1, 0}, Step(l, a)
      PROVE  resume' = resume /\ FallingAsleep'
  BY <1>3, <1>4 DEF FallingAsleep, At, SleepWindows
<1>5. ASSUME UNCHANGED <<waiting, state, contextEax, childCompleted, resume>>
      PROVE  Answerable'
  BY <1>5, StillAnswerable
<1>6. {"return", "leave", "killing", "tell", "report", "load", "sleep"}
        \subseteq Labels \ (Special \cup SleepWindows)
  BY DEF SleepWindows
<1>7. ASSUME NEW m \in Labels \ Special, At(m), CreateChild
      PROVE  /\ nextPid \in Pids /\ Range(start') = Range(start) \cup {nextPid}
             /\ resume' = resume => Answerable'
  <2>1. /\ nextPid \in Pids /\ nextPid \notin all
        /\ state' = [state EXCEPT ![nextPid] = "START"] /\ start' = Append(start, nextPid)
        /\ UNCHANGED <<waiting, contextEax, childCompleted>>
    <3>1. nextPid \in Pids
      BY <1>7, SchedulerAssumption DEF CreateChild, HasEntry, PInv, TypeOK, Pids
    <3>2. all \subseteq 1 .. nextPid - 1 /\ nextPid \in Nat
      BY <3>1, SchedulerAssumption DEF PInv, Placed, Fitting, Pids
    <3> QED
      BY <1>7, <3>1, <3>2 DEF CreateChild, family
  <2>2. nextPid \notin Range(start)
    BY <2>1 DEF PInv, Placed, Standing, Queued
  <2>3. Range(start') = Range(start) \cup {nextPid}
    BY <1>1, <2>1, <2>2, AppendFacts
  <2>4. \A p \in Range(waiting) : state'[p] = state[p]
    BY <1>1, <2>1
  <2>5. resume' = resume => Answerable'
    BY <1>1, <2>1, <2>4, StillAnswerable
  <2> QED
    BY <2>1, <2>3, <2>5
<1>8. ASSUME NEW m \in Labels \ Special, At(m), Top.arg \in Pids,
             NotifyParentCreate(Top.arg), resume' = resume
      PROVE  Answerable' /\ start' = start
  <2>1. UNCHANGED <<waiting, state, contextEax, childCompleted, start>>
    BY <1>8 DEF NotifyParentCreate
  <2> QED
    BY <1>5, <1>8, <2>1
<1>9. ASSUME NEW m \in Labels \ Special, At(m), NEW s \in States, SetState(Me, s), resume' = resume
      PROVE  Answerable' /\ state'[current] = s /\ childCompleted' = childCompleted
  <2>1. /\ state' = [state EXCEPT ![current] = s] /\ current \in Pids
        /\ UNCHANGED <<waiting, contextEax, childCompleted>>
    BY <1>2, <1>9 DEF SetState, family
  <2>2. \A p \in Range(waiting) : state'[p] = state[p]
    BY <1>1, <2>1
  <2>3. Answerable'
    BY <1>9, <2>1, <2>2, StillAnswerable
  <2> QED
    BY <1>1, <2>1, <2>3
<1>10. ASSUME NEW m \in {"tell", "report"}, At(m), NEW p \in Pids, Tell(p), resume' = resume
       PROVE  Answerable'
  <2>1. /\ NotifyParentComplete(p, state) /\ waiting' = waiting
        /\ state' = NotifiedStates(p, state) /\ contextEax' = NotifiedEax(p, state)
    BY <1>10 DEF Tell
  <2>2. ASSUME NEW q \in Range(waiting), state'[q] = "WAITING"
        PROVE  /\ state[q] = "WAITING" /\ contextEax'[q] = contextEax[q]
               /\ childCompleted'[q] = childCompleted[q]
    <3>1. q \in Pids
      BY <1>1
    <3>2. CASE Wakes(p, state)
      <4>1. /\ parent[p] \in Pids /\ childCompleted' = childCompleted
            /\ state' = [state EXCEPT ![parent[p]] = "READY"]
            /\ contextEax' = [contextEax EXCEPT ![parent[p]] = p]
        BY <1>1, <2>1, <3>2
           DEF Wakes, Marks, Known, NotifyParentComplete, NotifiedStates, NotifiedEax
      <4>2. q # parent[p]
        BY <1>1, <2>2, <4>1
      <4> QED
        BY <1>1, <2>2, <3>1, <4>1, <4>2
    <3>3. CASE Marks(p, state)
      <4>1. /\ parent[p] \in Pids /\ state[parent[p]] = "READY" /\ state' = state
            /\ contextEax' = contextEax
            /\ \E i \in Slots : childCompleted' = [childCompleted EXCEPT ![parent[p]] = @ \cup {i}]
        BY <1>1, <2>1, <3>3
           DEF Wakes, Marks, Known, NotifyParentComplete, NotifiedStates, NotifiedEax
      <4>2. q # parent[p]
        BY <2>2, <4>1
      <4> QED
        BY <1>1, <2>2, <3>1, <4>1, <4>2
    <3>4. CASE ~Wakes(p, state) /\ ~Marks(p, state)
      BY <2>1, <2>2, <3>4 DEF NotifyParentComplete, NotifiedStates, NotifiedEax
    <3> QED
      BY <3>2, <3>3, <3>4
  <2> QED
    BY <1>10, <2>1, <2>2, StillAnswerable
<1>11. CASE ForkSteps
  <2>1. CASE At("fork") /\ Step("return", -1) /\ UNCHANGED vars
    BY <1>4, <1>5, <1>6, <2>1 DEF vars, family
  <2>2. CASE At("fork") /\ CreateChild /\ Step("register", nextPid)
    <3>1. nextPid \in Pids /\ nextPid \in Range(start') /\ (resume' = resume => Answerable')
      BY <1>7, <2>2
    <3>2. Top'.at = "register" /\ Top'.arg = nextPid /\ resume' = resume
      BY <1>3, <2>2, <3>1
    <3> QED
      BY <3>1, <3>2 DEF FallingAsleep, At
  <2>3. CASE At("register") /\ NotifyParentCreate(Top.arg) /\ Step("copy", Top.arg)
    <3>1. Top.arg \in Pids /\ Top.arg \in Range(start)
      BY <1>1, <2>3, RangeOfSeq DEF FallingAsleep
    <3>2. Top'.at = "copy" /\ Top'.arg = Top.arg /\ resume' = resume
      BY <1>3, <2>3, <3>1
    <3>3. Answerable' /\ start' = start
      BY <1>8, <2>3, <3>1, <3>2
    <3> QED
      BY <3>1, <3>2, <3>3 DEF FallingAsleep, At
  <2>4. CASE /\ At("copy")
             /\ contextEax' = [contextEax EXCEPT ![Top.arg] = contextEax[Me]]
             /\ Step("return", Top.arg)
             /\ UNCHANGED <<nextPid, all, current, start, ready, waiting, state, family,
                            frameEax, halted, rekilled>>
    <3>1. Top.arg \in Pids /\ Top.arg \in Range(start)
      BY <1>1, <2>4, RangeOfSeq DEF FallingAsleep
    <3>2. resume' = resume /\ FallingAsleep'
      BY <1>4, <1>6, <2>4, <3>1
    <3>3. \A p \in Range(waiting) : contextEax'[p] = contextEax[p]
      BY <1>1, <2>4, <3>1
    <3>4. Answerable'
      BY <2>4, <3>2, <3>3, StillAnswerable DEF family
    <3> QED
      BY <3>2, <3>4
  <2> QED
    BY <1>11, <2>1, <2>2, <2>3, <2>4 DEF ForkSteps
<1>12. CASE ExecveSteps
  <2>1. CASE At("execve") /\ Step("leave", -1) /\ UNCHANGED vars
    BY <1>4, <1>5, <1>6, <2>1 DEF vars, family
  <2>2. CASE At("execve") /\ CreateChild /\ Step("load", nextPid)
    <3>1. nextPid \in Pids /\ (resume' = resume => Answerable')
      BY <1>7, <2>2
    <3> QED
      BY <1>4, <1>6, <2>2, <3>1
  <2>3. CASE At("load") /\ NotifyParentCreate(Top.arg) /\ Step("sleep", Top.arg)
    <3>1. Top.arg \in Pids
      BY <2>3, Active
    <3> QED
      BY <1>4, <1>6, <1>8, <2>3, <3>1
  <2>4. CASE At("sleep") /\ SetState(Me, "WAITING") /\ Step("park", Top.arg)
    <3>1. Top.arg \in Pids /\ "WAITING" \in States
      BY <2>4, Active DEF States
    <3>2. Top'.at = "park" /\ Top'.arg = Top.arg /\ resume' = resume
      BY <1>3, <2>4, <3>1
    <3>3. Answerable'
      BY <1>9, <2>4, <3>1, <3>2
    <3> QED
      BY <3>1, <3>2, <3>3, NoProcNotAPid DEF FallingAsleep, At, NoProc
  <2> QED
    BY <1>12, <2>1, <2>2, <2>3, <2>4 DEF ExecveSteps
<1>13. CASE WaitSteps
  <2>1. CASE At("wait") /\ Step("return", -1) /\ UNCHANGED vars
    BY <1>4, <1>5, <1>6, <2>1 DEF vars, family
  <2>2. CASE At("wait") /\ Reap
    <3>1. Me = current /\ current \in Pids
      BY <1>2, <2>2
    <3>2. PICK i \in Slots :
            /\ Step("return", child[current][i])
            /\ childCompleted' = [childCompleted EXCEPT ![current] = @ \ {i}]
            /\ UNCHANGED <<waiting, state, contextEax>>
      BY <1>1, <2>2, <3>1 DEF Reap
    <3>3. child[current][i] \in Pids \cup {-1, 0}
      BY <3>1, <3>2 DEF PInv, TypeOK, NoProc
    <3>4. resume' = resume /\ FallingAsleep'
      BY <1>4, <1>6, <2>2, <3>2, <3>3
    <3>5. \A p \in Range(waiting) : childCompleted'[p] = childCompleted[p]
      BY <1>1, <3>1, <3>2
    <3>6. Answerable'
      BY <3>2, <3>4, <3>5, StillAnswerable
    <3> QED
      BY <3>4, <3>6
  <2>3. CASE At("wait") /\ MustBlock /\ Step("block", 0) /\ UNCHANGED vars
    <3>1. Top'.at = "block" /\ resume' = resume /\ Me = current
      BY <1>2, <1>3, <2>3
    <3>2. childCompleted[current] = {} /\ UNCHANGED <<current, childCompleted>>
      BY <2>3, <3>1 DEF MustBlock, vars, family
    <3> QED
      BY <1>5, <2>3, <3>1, <3>2 DEF FallingAsleep, At, vars, family
  <2>4. CASE At("block") /\ SetState(Me, "WAITING") /\ Step("blocked", 0)
    <3>1. "WAITING" \in States /\ Top'.at = "blocked" /\ resume' = resume
      BY <1>3, <2>4 DEF States
    <3>2. Answerable' /\ childCompleted' = childCompleted /\ current' = current
      BY <1>9, <2>4, <3>1 DEF SetState
    <3> QED
      BY <2>4, <3>1, <3>2 DEF FallingAsleep, At
  <2>5. CASE At("blocked") /\ Step("park", 0) /\ UNCHANGED vars /\ state[Me] = "WAITING"
    <3>1. Top'.at = "park" /\ Top'.arg = 0 /\ resume' = resume
      BY <1>3, <2>5
    <3>2. Me = current /\ UNCHANGED <<current, childCompleted, state>>
      BY <1>2, <2>5 DEF vars, family
    <3>3. childCompleted[current] = {}
      BY <2>5, <3>2 DEF FallingAsleep
    <3> QED
      BY <1>5, <2>5, <3>1, <3>2, <3>3 DEF FallingAsleep, At, vars, family
  <2>6. CASE At("blocked") /\ Step("return", 0) /\ UNCHANGED vars
    BY <1>4, <1>5, <1>6, <2>6 DEF vars, family
  <2> QED
    BY <1>13, <2>1, <2>2, <2>3, <2>4, <2>5, <2>6 DEF WaitSteps
<1>14. CASE KillSteps
  <2>1. CASE At("kill") /\ Step("return", -1) /\ UNCHANGED vars
    BY <1>4, <1>5, <1>6, <2>1 DEF vars, family
  <2>2. CASE At("kill") /\ Step("killing", Top.arg) /\ UNCHANGED vars
    <3>1. Top.arg \in Pids \cup {-1, 0}
      BY <2>2, Active
    <3> QED
      BY <1>4, <1>5, <1>6, <2>2, <3>1 DEF vars, family
  <2>3. CASE /\ At("killing") /\ state' = [state EXCEPT ![Top.arg] = "DONE"]
             /\ Step("tell", Top.arg)
             /\ UNCHANGED <<waiting, childCompleted, contextEax>>
    <3>1. Top.arg \in Pids \cup {-1, 0}
      BY <2>3, Active
    <3>2. resume' = resume /\ FallingAsleep'
      BY <1>4, <1>6, <2>3, <3>1
    <3>3. \A p \in Range(waiting) : state'[p] = "WAITING" => state[p] = "WAITING"
      BY <1>1, <2>3
    <3> QED
      BY <2>3, <3>2, <3>3, StillAnswerable
  <2>4. CASE At("tell") /\ Tell(Top.arg) /\ Step(IF Top.arg = Me THEN "leave" ELSE "return", 0)
    <3>1. Top.arg \in Pids
      BY <2>4, Active
    <3>2. Step("leave", 0) \/ Step("return", 0)
      BY <2>4
    <3>3. resume' = resume /\ FallingAsleep'
      BY <1>4, <1>6, <2>4, <3>2
    <3> QED
      BY <1>10, <2>4, <3>1, <3>3
  <2> QED
    BY <1>14, <2>1, <2>2, <2>3, <2>4 DEF KillSteps
<1>15. CASE ExitSteps
  <2>1. CASE At("exit") /\ SetState(Me, "DONE") /\ Step("report", Top.arg)
    <3>1. Top.arg \in Pids \cup {-1, 0} /\ "DONE" \in States
      BY <2>1, Active DEF States
    <3>2. resume' = resume /\ FallingAsleep'
      BY <1>4, <1>6, <2>1, <3>1
    <3> QED
      BY <1>9, <2>1, <3>1, <3>2
  <2>2. CASE At("report") /\ Tell(Me) /\ Step("leave", Top.arg)
    <3>1. Top.arg \in Pids \cup {-1, 0} /\ Me \in Pids
      BY <2>2, Active
    <3>2. resume' = resume /\ FallingAsleep'
      BY <1>4, <1>6, <2>2, <3>1
    <3> QED
      BY <1>10, <2>2, <3>1, <3>2
  <2> QED
    BY <1>15, <2>1, <2>2 DEF ExitSteps
<1> QED
  BY <1>11, <1>12, <1>13, <1>14, <1>15 DEF HandlerSteps

\* What the timer has hit stays hit, and a wild processor does nothing.
LEMMA HitsStay ==
  ASSUME PInv, [PNext]_pvars
  PROVE  hits \subseteq hits' /\ (wild => wild')
<1>1. CASE HandlerSteps
  <2>1. PICK m, l \in Labels \ Special : \E a \in Pids \cup {-1, 0} : At(m) /\ Step(l, a)
    BY <1>1, HandlerMoves
  <2> QED
    BY <2>1 DEF Step, history
<1>2. CASE UNCHANGED pvars
  BY <1>2 DEF pvars, cpu, history
<1> QED
  BY <1>1, <1>2 DEF PNext, HandlerSteps, Timer, TimerWithin, BeyondTable, SwitchRing3, Enter,
     Save, Choose, LoadCurrent, Drain, Return, At, cpu, history

LEMMA SleepersTimer ==
  ASSUME PInv, Suspended, Timer, Answerable, ~Hit(SleepWindows)', PInv', ~wild'
  PROVE  Answerable' /\ FallingAsleep'
<1>1. /\ Interrupted /\ UNCHANGED <<family, kstack>>
      /\ Range(waiting') \subseteq Range(SavedWaiting(state))
      /\ \A p \in Pids : \/ state'[p] = Admitted[p]
                         \/ Admitted[p] = "READY" /\ state'[p] = "RUNNING"
      /\ \A p \in Pids : p # current => contextEax'[p] = contextEax[p]
  BY TimerFacts
<1>2. /\ \A p \in Pids : Admitted[p] = IF p \in Range(start) \/ state[p] = "RUNNING"
                                         THEN "READY" ELSE state[p]
      /\ Range(SavedWaiting(state)) \subseteq Range(waiting) \cup {current}
      /\ current \in Range(SavedWaiting(state)) => state[current] = "WAITING"
      /\ Range(waiting) \subseteq Pids
  BY AdmittedFacts
<1>3. CpuTypes /\ (mode = "kernel" => kstack # <<>>) /\ resume \in [Pids -> -1 .. MaxDepth]
  BY <1>1 DEF PInv, Stacked, Rings, Interrupted, CpuTypes
<1>4. mode = "kernel" => Top.at \in hits'
  BY <1>1 DEF Interrupted
<1>5. current \notin Range(SavedWaiting(state))
  <2> SUFFICES ASSUME current \in Range(SavedWaiting(state)) PROVE FALSE
    OBVIOUS
  <2>1. state[current] = "WAITING" /\ current # NoProc
    BY <1>2, NoProcNotAPid DEF PInv, Placed, Standing, Queued, SavedWaiting, Saved, TypeOK
  <2>2. Top.at \in {"blocked", "park"} /\ mode = "kernel"
    BY <1>3, <2>1 DEF PInv, Placed, Running, CpuTypes
  <2> QED
    BY <1>4, <2>2 DEF Hit, SleepWindows
<1>6. ASSUME NEW p \in Range(waiting'), state'[p] = "WAITING"
      PROVE  /\ p \in Range(waiting) /\ state[p] = "WAITING" /\ p \in Pids /\ p # current
  <2>1. p \in Range(waiting) /\ p \in Pids /\ p # current
    BY <1>1, <1>2, <1>5, <1>6
  <2>2. Admitted[p] = "WAITING"
    BY <1>1, <1>6, <2>1
  <2> QED
    BY <1>2, <2>1, <2>2
<1>7. Answerable'
  <2>1. \A p \in Pids : p # current => resume'[p] = resume[p]
    BY <1>1, <1>3 DEF Interrupted
  <2>2. childCompleted' = childCompleted
    BY <1>1 DEF family
  <2> QED
    BY <1>1, <1>6, <2>1, <2>2, StillAnswerable
<1>8. FallingAsleep'
  <2>1. mode' = "kernel" => kstack # <<>>
    BY <1>1 DEF PInv, Stacked, Rings
  <2>2. mode' = "kernel" => Top.at \in hits'
    BY <1>3, <2>1, AllHit, TopOfStack DEF Top
  <2>3. Top' = Top
    BY <1>1 DEF Top
  <2> QED
    BY <2>2, <2>3 DEF FallingAsleep, At, Hit, SleepWindows
<1> QED
  BY <1>7, <1>8

LEMMA SleepersSave ==
  ASSUME PInv, Save, Answerable, FallingAsleep
  PROVE  Answerable' /\ FallingAsleep'
<1>1. /\ CpuTypes /\ kstack # <<>> /\ current \in Pids /\ Top.at \in {"park", "leave"}
      /\ state[current] = "WAITING" => At("park")
      /\ Goto("choose", 0) /\ UNCHANGED family
      /\ state' = AdmittedStates(state, <<>>) /\ waiting' = SavedWaiting(state)
      /\ contextEax' = SavedEax(contextEax, Top.arg)
      /\ resume' = [resume EXCEPT ![current] = 0]
  <2>1. PICK m \in {"park", "leave"} : At(m)
    BY DEF Save
  <2>2. m \in Labels \ Special
    BY LabelNames
  <2> QED
    BY <2>1, <2>2, Active DEF Save, PInv, Stacked, Rings
<1>2. Top'.at = "choose"
  <2>1. "choose" \in Labels
    BY LabelNames DEF Special
  <2> QED
    BY <1>1, <2>1, Moving
<1>3. FallingAsleep'
  BY <1>2 DEF FallingAsleep, At
<1>4. /\ Range(SavedWaiting(state)) \subseteq Range(waiting) \cup {current}
      /\ Range(waiting) \subseteq Pids /\ current \notin Range(waiting)
  BY AdmittedFacts
<1>5. /\ contextEax' = [contextEax EXCEPT ![current] = Top.arg]
      /\ state' = [p \in Pids |-> IF p = current /\ state[p] = "RUNNING" THEN "READY"
                                  ELSE state[p]]
  <2>1. current # NoProc
    BY <1>1, NoProcNotAPid
  <2>2. Range(<<>>) = {}
    BY EmptyFacts
  <2> QED
    BY <1>1, <2>1, <2>2 DEF SavedEax, AdmittedStates, Saved
<1>6. /\ contextEax \in [Pids -> Pids \cup {-1, 0}] /\ resume \in [Pids -> -1 .. MaxDepth]
      /\ childCompleted' = childCompleted
  BY <1>1 DEF PInv, TypeOK, CpuTypes, family
<1>7. Answerable'
  <2> SUFFICES ASSUME NEW p \in Range(waiting'), state'[p] = "WAITING"
               PROVE  resume'[p] = 0 /\ (contextEax'[p] = 0 => childCompleted[p] = {})
    BY <1>6 DEF Answerable
  <2>1. p \in Pids /\ (p \in Range(waiting) \/ p = current) /\ state[p] = "WAITING"
    BY <1>1, <1>4, <1>5
  <2>2. CASE p = current
    <3>1. Top.arg = 0 => childCompleted[p] = {}
      BY <1>1, <2>1, <2>2 DEF FallingAsleep
    <3>2. resume'[p] = 0 /\ contextEax'[p] = Top.arg
      BY <1>1, <1>5, <1>6, <2>2
    <3> QED
      BY <3>1, <3>2
  <2>3. CASE p # current
    <3>1. resume'[p] = resume[p] /\ contextEax'[p] = contextEax[p]
      BY <1>1, <1>5, <1>6, <2>1, <2>3
    <3> QED
      BY <2>1, <2>3, <3>1 DEF Answerable
  <2> QED
    BY <2>2, <2>3
<1> QED
  BY <1>3, <1>7

LEMMA SleepersStep ==
  ASSUME PInv, PInv', Suspended, Sleepers, [PNext]_pvars
  PROVE  Sleepers'
<1> SUFFICES ASSUME ~wild', ~Hit(SleepWindows)'
             PROVE  Answerable' /\ FallingAsleep'
  BY DEF Sleepers
<1>1. hits \subseteq hits' /\ ~wild
  BY HitsStay
<1>2. Answerable /\ FallingAsleep
  BY <1>1 DEF Sleepers, Hit
<1>3. /\ CpuTypes /\ (mode = "kernel" => kstack # <<>>)
      /\ resume \in [Pids -> -1 .. MaxDepth] /\ state \in [Pids -> States]
      /\ Range(waiting) \subseteq Pids
  BY <1>1, AdmittedFacts DEF PInv, TypeOK, Stacked, Rings, CpuTypes
<1>4. CASE Timer
  BY <1>2, <1>4, SleepersTimer
<1>5. CASE SwitchRing3
  <2>1. /\ UNCHANGED <<waiting, state, contextEax, childCompleted, mode>> /\ mode = "user"
        /\ resume' = [p \in Pids |-> IF resume[p] = 0 THEN 0 ELSE -1]
    BY <1>5 DEF SwitchRing3, vars, family
  <2>2. Answerable'
    BY <1>2, <1>3, <2>1 DEF Answerable
  <2> QED
    BY <2>1, <2>2 DEF FallingAsleep, At
<1>6. CASE \E call \in Calls, a \in Pids \cup {-1, 0} : Enter(call, a)
  <2>1. PICK call \in Calls, a \in Pids \cup {-1, 0} : Enter(call, a)
    BY <1>6
  <2>2. PICK x : x = [proc |-> current, ring |-> ring, eip |-> 0, at |-> call, arg |-> a]
    OBVIOUS
  <2>3. /\ InUser /\ mode = "user" /\ ring \in {0, 3}
        /\ Len(EntryStack) < MaxDepth /\ kstack' = Append(EntryStack, x)
        /\ UNCHANGED <<waiting, state, contextEax, childCompleted, resume>>
    BY <1>3, <2>1, <2>2 DEF Enter, CpuTypes, vars, family
  <2>4. EntryStack = kstack
    BY <1>1, <2>3, InProgram DEF EntryStack
  <2>5. x \in Activations /\ x.at = call
    <3>1. current \in Pids /\ 0 \in -1 .. MaxDepth
      BY <1>1, <2>3, InProgram, PreemptionAssumption
    <3> QED
      BY <2>2, <2>3, <3>1 DEF Activations, Labels
  <2>6. Len(kstack') = Len(kstack) + 1 /\ kstack'[Len(kstack) + 1] = x
    BY <1>3, <2>3, <2>4, <2>5, Pushed
  <2>7. Top'.at \in Calls
    BY <2>5, <2>6 DEF Top
  <2>8. Answerable'
    BY <1>2, <2>3, StillAnswerable
  <2> QED
    BY <2>7, <2>8 DEF FallingAsleep, At, Calls
<1>7. CASE HandlerSteps
  BY <1>2, <1>7, SleepersHandler
<1>8. CASE Save
  BY <1>2, <1>8, SleepersSave
<1>9. CASE Choose
  <2>1. /\ At("choose") /\ state' = Admitted /\ Range(waiting') \subseteq Range(waiting)
        /\ UNCHANGED <<contextEax, childCompleted, resume>>
        /\ \/ halted' /\ kstack' = kstack
           \/ \E y \in Pids : Goto("hold", y)
    BY <1>9, ChooseFacts DEF family
  <2>2. \A p \in Range(waiting') : state'[p] = "WAITING" => state[p] = "WAITING"
    BY <1>3, <2>1, AdmittedFacts
  <2>3. Answerable'
    BY <1>2, <2>1, <2>2, StillAnswerable
  <2>4. halted' \/ Top'.at = "hold"
    <3>1. "hold" \in Labels /\ kstack # <<>>
      BY <1>3, <2>1, LabelNames DEF Special, At
    <3> QED
      BY <1>3, <2>1, <3>1, Moving
  <2> QED
    BY <2>3, <2>4 DEF FallingAsleep, At
<1>10. CASE LoadCurrent
  <2>1. /\ mode = "kernel" /\ Len(kstack) \in DOMAIN kstack
        /\ state' = [state EXCEPT ![Top.arg] = "RUNNING"]
        /\ UNCHANGED <<waiting, contextEax, childCompleted, resume>>
        /\ kstack' = [kstack EXCEPT ![Len(kstack)] =
             [Top EXCEPT !.at = "drain", !.eip = resume[Top.arg], !.arg = contextEax[Top.arg]]]
    BY <1>3, <1>10, TopOfStack DEF LoadCurrent, At, family
  <2>2. Answerable'
    <3>1. \A p \in Range(waiting) : state'[p] = "WAITING" => state[p] = "WAITING"
      BY <1>3, <2>1
    <3> QED
      BY <1>2, <2>1, <3>1, StillAnswerable
  <2>3. Top'.at = "drain"
    <3>1. Top \in Activations /\ Len(kstack') = Len(kstack)
      BY <1>3, <2>1 DEF CpuTypes, Top
    <3> QED
      BY <2>1, <3>1 DEF Top, Activations
  <2> QED
    BY <2>2, <2>3 DEF FallingAsleep, At
<1>11. CASE Drain \/ Return
  <2>1. /\ mode = "kernel" /\ kstack' = Below /\ hits' = hits
        /\ UNCHANGED <<waiting, state, contextEax, childCompleted, resume>>
    BY <1>11 DEF Drain, Return, At, Iret, history, family
  <2>2. Answerable'
    BY <1>2, <2>1, StillAnswerable
  <2>3. mode' = "kernel" => Top'.at \in hits'
    <3>1. mode' = "kernel" => kstack' # <<>> /\ CpuTypes'
      BY DEF PInv, Stacked, Rings
    <3>2. mode' = "kernel" => Len(kstack') \in DOMAIN kstack'
      BY <3>1 DEF CpuTypes
    <3>3. /\ DOMAIN kstack' = DOMAIN kstack \ {Len(kstack)}
          /\ \A n \in DOMAIN kstack' : kstack'[n] = kstack[n]
      BY <1>3, <2>1, Popped
    <3> QED
      BY <1>1, <2>1, <3>2, <3>3 DEF Suspended, Top
  <2> QED
    BY <2>2, <2>3 DEF FallingAsleep, At, Hit, SleepWindows
<1>12. CASE UNCHANGED pvars
  <2>1. UNCHANGED <<waiting, state, contextEax, childCompleted, resume, kstack, mode, halted,
                    wild, start, current>>
    BY <1>12 DEF pvars, vars, cpu, family
  <2>2. Top' = Top
    BY <2>1 DEF Top
  <2> QED
    BY <1>2, <2>1, <2>2, StillAnswerable DEF FallingAsleep, At
<1>13. CASE BeyondTable
  <2>1. Answerable'
    BY <1>2, <1>13, BeyondFacts, StillAnswerable
  <2> QED
    BY <1>13, <2>1, BeyondFacts DEF FallingAsleep, At
<1>14. CASE TimerWithin
  BY <1>14, WithinFacts
<1> QED
  BY <1>4, <1>5, <1>6, <1>7, <1>8, <1>9, <1>10, <1>11, <1>12, <1>13, <1>14, Steps

(***************************************************************************)
(* No wakeup is lost to a timer between the steps of handlers, outside the *)
(* windows of wait() and fork() (syscall.c:178-181, 196-201, 394-396): a   *)
(* sleeper was saved in its program, and one that sleeps in wait() has no  *)
(* completed child already.  Of a timer inside a step, as in the save      *)
(* (scheduler.c:52-87) or the notice (syscall.c:40-48), nothing is said.   *)
(***************************************************************************)
THEOREM SleepersAreAnswerable == PSpec => []SleepersAnswerable
<1>1. PInit => Suspended /\ Sleepers
  <2> SUFFICES ASSUME PInit PROVE Suspended /\ Sleepers
    OBVIOUS
  <2>1. mode = "user" /\ kstack = <<>> /\ waiting = <<>>
    BY DEF PInit, Init
  <2>2. DOMAIN kstack = {} /\ Range(waiting) = {}
    BY <2>1, EmptyFacts
  <2> QED
    BY <2>1, <2>2 DEF Suspended, Sleepers, Answerable, FallingAsleep, At
<1>2. PInv /\ PInv' /\ Suspended /\ Sleepers /\ [PNext]_pvars => Suspended' /\ Sleepers'
  BY SuspendedStep, SleepersStep
<1>3. Sleepers => SleepersAnswerable
  BY DEF Sleepers, SleepersAnswerable, Answerable, SleepWindows, Hit
<1> QED
  BY <1>1, <1>2, <1>3, PInvHolds, PTL DEF PSpec

-----------------------------------------------------------------------------
(***************************************************************************)
(* Parents and children, with handlers cut into steps.  As long as the     *)
(* timer has hit none of the windows, what kill() and exit() still have to *)
(* tell is in the activations that are about to.                           *)
(***************************************************************************)
FamilyWindows == {"register", "copy", "load", "report"}

\* A new process is nobody's or the caller's child, and has none itself.
Newborns ==
  /\ \A p \in Range(start) : current = NoProc \/ parent[p] \in {NoProc, current}
  /\ \A p \in Pids : p \in Range(start) \/ p >= nextPid => childBitmap[p] = {}
  /\ \A p \in Pids : p >= nextPid => parent[p] = NoProc
  /\ \A p \in Pids : state[p] \in {"NONE", "START"} => p >= nextPid \/ p \in Range(start)

\* n is an activation of kill() that has not told yet; x is the one it ends.
Tells(n, x) == n \in DOMAIN kstack /\ kstack[n].at = "tell" /\ kstack[n].arg = x

\* Its notice can still reach a parent.
Telling(n, x) == Tells(n, x) /\ parent[x] \notin {NoProc, kstack[n].proc}

Unmarked(x) == \A p \in Pids : \A i \in childCompleted[p] : child[p][i] # x

AtHand ==
  /\ At("hold") => start = <<>> /\ state[Top.arg] = "READY"
  /\ At("register") \/ At("load") =>
       /\ Top.arg \in Range(start) /\ state[Top.arg] = "START"
       /\ parent[Top.arg] = NoProc /\ \A n \in Places : ~Tells(n, Top.arg)
  /\ At("copy") => Top.arg \in Range(start)

\* An end that is not told yet has happened and has left no bit.
Untold(x) == Ended(x) /\ (~rekilled => Unmarked(x))

Notices ==
  /\ \A n \in Places, x \in Pids : Tells(n, x) => x < nextPid /\ signal[x]
  /\ \A n \in Places, x \in Pids : Telling(n, x) =>
       /\ Untold(x)
       /\ ~rekilled => \A m \in Places : Telling(m, x) => m = n
       /\ ~rekilled /\ At("report") => x # current
  /\ At("report") => Untold(current)

ToBeReported ==
  \A p \in Pids : ~Ended(p) => \A i \in childBitmap[p] :
    state[child[p][i]] = "DONE" /\ ~signal[child[p][i]] =>
      i \in childCompleted[p] \/ (At("report") /\ child[p][i] = current)

Kin ==
  Tables /\ CompletedEnded /\ Woken /\ Newborns /\ AtHand /\ Notices /\ ToBeReported

Relatives == ~wild /\ ~Hit(FamilyWindows) => Kin

-----------------------------------------------------------------------------
\* A slot in use names a process, and its parent is the one whose slot it is.
LEMMA KinSlots ==
  ASSUME PInv, Kin, NEW p \in Pids
  PROVE  /\ childBitmap[p] = {i \in Slots : child[p][i] # NoProc}
         /\ \A i \in childBitmap[p] :
              /\ i \in Slots /\ child[p][i] \in Pids /\ child[p][i] < nextPid
              /\ parent[child[p][i]] = p /\ child[p][i] # p
              /\ \A j \in childBitmap[p] : child[p][i] = child[p][j] => i = j
         /\ ~rekilled => childCompleted[p] \subseteq childBitmap[p]
         /\ childCompleted[p] \subseteq Slots
         /\ DOMAIN child[p] = Slots
<1>1. /\ child \in [Pids -> [Slots -> Pids \cup {NoProc}]]
      /\ childCompleted \in [Pids -> SUBSET Slots]
  BY DEF PInv, TypeOK
<1>2. /\ childBitmap[p] = {i \in Slots : child[p][i] # NoProc}
      /\ ~rekilled => childCompleted[p] \subseteq childBitmap[p]
      /\ \A i \in childBitmap[p] :
           /\ child[p][i] < nextPid /\ parent[child[p][i]] = p /\ child[p][i] # p
           /\ \A j \in childBitmap[p] : child[p][i] = child[p][j] => i = j
  BY DEF Kin, Tables, ChildTablesAgree, NotOwn
<1> QED
  BY <1>1, <1>2

\* The activations that will tell, after a step that adds none.
NoNewTells ==
  \A n \in Places, x \in Pids :
    Tells(n, x)' => Tells(n, x) /\ kstack'[n].proc = kstack[n].proc

\* Nobody ends and nobody is woken, and an end lasts.
Steady ==
  /\ \A p \in Pids : Ended(p) => Ended(p)'
  /\ \A p \in Pids : state'[p] = "DONE" => state[p] = "DONE"
  /\ Range(start') = {} \/ (Range(start') = Range(start) /\ current' \in {current, NoProc})
  /\ \A p \in Pids : state'[p] \in {"NONE", "START"} =>
       state[p] \in {"NONE", "START"} /\ (p \in Range(start) => p \in Range(start'))
  /\ \A p \in Range(waiting') : state'[p] = "READY" =>
       p \in Range(waiting) /\ state[p] = "READY" /\ contextEax'[p] = contextEax[p]

\* A step that changes no table and tells nobody.
LEMMA KinQuiet ==
  ASSUME PInv, Kin, Steady, NoNewTells, AtHand', ~At("report"), ~At("report")',
         UNCHANGED <<nextPid, family, rekilled>>
  PROVE  Kin'
<1>1. /\ nextPid' = nextPid /\ signal' = signal /\ parent' = parent /\ child' = child
      /\ childBitmap' = childBitmap /\ childCompleted' = childCompleted
      /\ rekilled' = rekilled
  BY DEF family
<1>2. Tables'
  BY <1>1 DEF Kin, Tables, ChildTablesAgree, NotOwn
<1>3. CompletedEnded'
  <2> SUFFICES ASSUME ~rekilled, NEW p \in Pids, NEW i \in childCompleted[p]
               PROVE  Ended(child[p][i])'
    BY <1>1 DEF CompletedEnded
  <2>1. PICK c \in Pids : c = child[p][i]
    BY KinSlots
  <2>2. Ended(c)
    BY <2>1 DEF Kin, CompletedEnded
  <2>3. Ended(c)'
    BY <2>2 DEF Steady
  <2> QED
    BY <1>1, <2>1, <2>3 DEF Ended
<1>4. Woken'
  <2> SUFFICES ASSUME NEW p \in Range(waiting'), state'[p] = "READY"
               PROVE  Answers(p, contextEax[p])' /\ contextEax'[p] = contextEax[p]
    BY DEF Woken
  <2>1. p \in Range(waiting) /\ state[p] = "READY" /\ contextEax'[p] = contextEax[p]
    BY DEF Steady
  <2>2. PICK c : c = contextEax[p]
    OBVIOUS
  <2>3. Answers(p, c)
    BY <2>1, <2>2 DEF Kin, Woken
  <2>4. Ended(c)'
    BY <2>3 DEF Steady, Answers
  <2> QED
    BY <1>1, <2>1, <2>2, <2>3, <2>4 DEF Answers, Ended
<1>5. Newborns'
  <2>1. \A p \in Range(start') : current' = NoProc \/ parent'[p] \in {NoProc, current'}
    BY <1>1 DEF Steady, Kin, Newborns
  <2>2. /\ \A p \in Pids : p \in Range(start') \/ p >= nextPid' => childBitmap'[p] = {}
        /\ \A p \in Pids : p >= nextPid' => parent'[p] = NoProc
    BY <1>1 DEF Steady, Kin, Newborns
  <2>3. \A p \in Pids : state'[p] \in {"NONE", "START"} => p >= nextPid' \/ p \in Range(start')
    BY <1>1 DEF Steady, Kin, Newborns
  <2> QED
    BY <2>1, <2>2, <2>3 DEF Newborns
<1>6. Notices'
  <2>1. ASSUME NEW n \in Places, NEW x \in Pids, Tells(n, x)'
        PROVE  Tells(n, x) /\ x < nextPid' /\ signal'[x]
    BY <1>1, <2>1 DEF NoNewTells, Kin, Notices
  <2>2. ASSUME NEW n \in Places, NEW x \in Pids, Telling(n, x)'
        PROVE  Telling(n, x)
    BY <1>1, <2>2 DEF NoNewTells, Telling
  <2>3. ASSUME NEW x \in Pids, Untold(x)
        PROVE  Untold(x)'
    <3>1. Ended(x)'
      BY <2>3 DEF Steady, Untold
    <3> QED
      BY <1>1, <2>3, <3>1 DEF Untold, Unmarked
  <2>4. \A n \in Places, x \in Pids : Telling(n, x)' =>
          /\ Untold(x)'
          /\ ~rekilled' => \A m \in Places : Telling(m, x)' => m = n
    BY <1>1, <2>2, <2>3 DEF Kin, Notices
  <2> QED
    BY <2>1, <2>4 DEF Notices
<1>7. ToBeReported'
  <2> SUFFICES ASSUME NEW p \in Pids, ~Ended(p)', NEW i \in childBitmap[p],
                      state'[child[p][i]] = "DONE", ~signal[child[p][i]]
               PROVE  i \in childCompleted[p]
    BY <1>1 DEF ToBeReported
  <2>1. ~Ended(p) /\ state[child[p][i]] = "DONE"
    BY KinSlots DEF Steady
  <2> QED
    BY <2>1 DEF Kin, ToBeReported
<1> QED
  BY <1>2, <1>3, <1>4, <1>5, <1>6, <1>7 DEF Kin

\* Behind a step of a handler that does not go to create(), kill() or exit().
LEMMA LeftBehind ==
  ASSUME PInv, NEW m \in Labels \ Special, At(m),
         NEW l \in Labels \ (Special \cup {"register", "copy", "load", "tell", "report"}),
         NEW a \in Pids \cup {-1, 0}, Step(l, a)
  PROVE  /\ AtHand' /\ ~At("report")' /\ NoNewTells
         /\ \A n \in Places, x \in Pids : Tells(n, x)' => n # Len(kstack)
<1>1. CpuTypes /\ kstack # <<>>
  BY Active DEF PInv, Stacked, Rings
<1>2. /\ DOMAIN kstack' = DOMAIN kstack /\ Len(kstack') = Len(kstack)
      /\ \A n \in DOMAIN kstack : n # Len(kstack) => kstack'[n] = kstack[n]
      /\ Top'.at = l
  BY <1>1, Moving DEF Step
<1>3. AtHand' /\ ~At("report")'
  BY <1>2 DEF AtHand, At, Special
<1>4. \A n \in Places, x \in Pids : Tells(n, x)' => n # Len(kstack) /\ Tells(n, x)
  BY <1>2 DEF Tells, Top
<1> QED
  BY <1>2, <1>3, <1>4 DEF NoNewTells, Tells

\* create(): the new process is in __start, and nobody's child yet.
LEMMA KinCreate ==
  ASSUME PInv, Kin, NEW m \in {"fork", "execve"}, At(m), CreateChild,
         NEW l \in {"register", "load"}, Step(l, nextPid)
  PROVE  Kin'
<1>1. /\ nextPid \in Pids /\ nextPid \notin all /\ state[nextPid] = "NONE"
      /\ nextPid' = nextPid + 1 /\ start' = Append(start, nextPid)
      /\ state' = [state EXCEPT ![nextPid] = "START"] /\ state \in [Pids -> States]
      /\ UNCHANGED <<current, waiting, family, contextEax, rekilled>>
  <2>1. nextPid \in Pids
    BY SchedulerAssumption DEF CreateChild, HasEntry, PInv, TypeOK, Pids
  <2>2. all \subseteq 1 .. nextPid - 1 /\ nextPid \in Nat
    BY <2>1, SchedulerAssumption DEF PInv, Placed, Fitting, Pids
  <2>3. nextPid \notin all /\ ~(nextPid < nextPid)
    BY <2>1, <2>2
  <2> QED
    BY <2>1, <2>3 DEF CreateChild, PInv, TypeOK, Placed, Fitting
<1>2. /\ Range(start') = Range(start) \cup {nextPid} /\ nextPid \notin Range(start)
      /\ nextPid \notin Range(waiting) /\ Range(start) \subseteq Pids /\ Range(waiting) \subseteq Pids
  <2>1. /\ start \in Seq(Pids) /\ nextPid \notin Range(start) /\ nextPid \notin Range(waiting)
        /\ Range(waiting) \subseteq Pids
    BY <1>1, RangeOfSeq DEF PInv, TypeOK, Placed, Standing, Queued
  <2> QED
    BY <1>1, <2>1, AppendFacts, RangeOfSeq
<1>3. /\ state'[nextPid] = "START"
      /\ \A p \in Pids : p # nextPid => state'[p] = state[p]
      /\ \A p \in Pids : Ended(p) => Ended(p)' /\ p # nextPid
      /\ \A p \in Pids : p >= nextPid <=> p >= nextPid' \/ p = nextPid
  <2>1. nextPid \in Int /\ \A p \in Pids : p \in Int
    BY <1>1 DEF Pids
  <2> QED
    BY <1>1, <1>2, <2>1 DEF Ended
<1>4. /\ CpuTypes /\ kstack # <<>>
      /\ DOMAIN kstack' = DOMAIN kstack /\ Top'.at = l /\ Top'.arg = nextPid
      /\ Len(kstack') = Len(kstack) /\ Len(kstack) \in DOMAIN kstack
      /\ \A n \in DOMAIN kstack : n # Len(kstack) => kstack'[n] = kstack[n]
  <2>1. m \in Labels \ Special /\ l \in Labels \ Special
    BY LabelNames
  <2>2. CpuTypes /\ kstack # <<>>
    BY <2>1, Active DEF PInv, Stacked, Rings
  <2> QED
    BY <1>1, <2>1, <2>2, Moving, TopOfStack DEF Step
<1>5. \A n \in Places, x \in Pids :
        Tells(n, x)' => Tells(n, x) /\ kstack'[n] = kstack[n] /\ x < nextPid /\ signal[x]
  <2>1. \A n \in Places, x \in Pids : Tells(n, x)' => Tells(n, x) /\ kstack'[n] = kstack[n]
    BY <1>4 DEF Tells, Top
  <2> QED
    BY <2>1 DEF Kin, Notices
<1>6. Tables'
  <2> SUFFICES ASSUME NEW p \in Pids
               PROVE  \A i \in childBitmap[p] : child[p][i] < nextPid'
    BY <1>1 DEF Kin, Tables, ChildTablesAgree, NotOwn, family
  <2> SUFFICES ASSUME NEW i \in childBitmap[p] PROVE child[p][i] < nextPid + 1
    BY <1>1
  <2>1. PICK c \in Pids : c = child[p][i] /\ c < nextPid
    BY KinSlots
  <2>2. c < nextPid + 1
    BY <1>1, <2>1 DEF Pids
  <2> QED
    BY <2>1, <2>2
<1>7. CompletedEnded'
  <2> SUFFICES ASSUME ~rekilled, NEW p \in Pids, NEW i \in childCompleted[p]
               PROVE  Ended(child[p][i])'
    BY <1>1 DEF CompletedEnded, family
  <2>1. PICK c \in Pids : c = child[p][i]
    BY KinSlots
  <2>2. Ended(c)
    BY <2>1 DEF Kin, CompletedEnded
  <2> QED
    BY <1>1, <1>3, <2>1, <2>2 DEF Ended, family
<1>8. Woken'
  <2> SUFFICES ASSUME NEW p \in Range(waiting), state'[p] = "READY"
               PROVE  Answers(p, contextEax[p])'
    BY <1>1 DEF Woken
  <2>1. PICK c : c = contextEax[p]
    OBVIOUS
  <2>2. Answers(p, c)
    BY <1>2, <1>3, <2>1 DEF Kin, Woken
  <2>3. Ended(c)'
    BY <1>3, <2>2 DEF Answers
  <2> QED
    BY <1>1, <2>1, <2>2, <2>3 DEF Answers, Ended, family
<1>9. Newborns'
  <2>1. parent[nextPid] = NoProc /\ childBitmap[nextPid] = {}
    BY <1>1, <1>3 DEF Kin, Newborns
  <2>2. \A p \in Range(start') : current' = NoProc \/ parent'[p] \in {NoProc, current'}
    BY <1>1, <1>2, <2>1 DEF Kin, Newborns, family
  <2>3. /\ \A p \in Pids : p \in Range(start') \/ p >= nextPid' => childBitmap'[p] = {}
        /\ \A p \in Pids : p >= nextPid' => parent'[p] = NoProc
    BY <1>1, <1>2, <1>3, <2>1 DEF Kin, Newborns, family
  <2>4. \A p \in Pids : state'[p] \in {"NONE", "START"} => p >= nextPid' \/ p \in Range(start')
    BY <1>2, <1>3 DEF Kin, Newborns
  <2> QED
    BY <2>2, <2>3, <2>4 DEF Newborns
<1>10. AtHand'
  <2>1. PICK new \in Pids : new = nextPid
    BY <1>1
  <2>2. parent'[new] = NoProc /\ ~(new < nextPid)
    BY <1>1, <1>3, <2>1 DEF Kin, Newborns, family, Pids
  <2>3. \A n \in Places : ~Tells(n, new)'
    BY <1>5, <2>2
  <2>4. \A n \in Places : ~Tells(n, Top.arg)'
    BY <1>4, <2>1, <2>3 DEF Tells
  <2> QED
    BY <1>2, <1>3, <1>4, <2>1, <2>2, <2>4 DEF AtHand, At
<1>11. Notices'
  <2>1. ~At("report")'
    BY <1>4 DEF At
  <2>2. ASSUME NEW x \in Pids, Untold(x)
        PROVE  Untold(x)'
    <3>1. Ended(x)'
      BY <1>3, <2>2 DEF Untold
    <3> QED
      BY <1>1, <2>2, <3>1 DEF Untold, Unmarked, family
  <2>3. \A n \in Places, x \in Pids : Telling(n, x)' => Telling(n, x)
    BY <1>1, <1>5 DEF Telling, family
  <2>4. \A n \in Places, x \in Pids : Tells(n, x)' => x < nextPid' /\ signal'[x]
    <3> SUFFICES ASSUME NEW n \in Places, NEW x \in Pids, Tells(n, x)'
                 PROVE  x < nextPid' /\ signal'[x]
      OBVIOUS
    <3>1. x < nextPid /\ signal[x] /\ x \in Int /\ nextPid \in Int
      BY <1>1, <1>5 DEF Pids
    <3> QED
      BY <1>1, <3>1 DEF family
  <2>5. \A n \in Places, x \in Pids : Telling(n, x)' =>
          /\ Untold(x)'
          /\ ~rekilled' => \A k \in Places : Telling(k, x)' => k = n
    BY <1>1, <2>2, <2>3 DEF Kin, Notices
  <2> QED
    BY <2>1, <2>4, <2>5 DEF Notices
<1>12. ToBeReported'
  <2> SUFFICES ASSUME NEW p \in Pids, ~Ended(p)', NEW i \in childBitmap[p],
                      state'[child[p][i]] = "DONE", ~signal[child[p][i]]
               PROVE  i \in childCompleted[p]
    BY <1>1 DEF ToBeReported, family
  <2>1. PICK c \in Pids : c = child[p][i]
    BY KinSlots
  <2>2. state[c] = "DONE" /\ ~Ended(p)
    BY <1>3, <2>1
  <2>3. ~At("report")
    BY DEF At
  <2> QED
    BY <2>1, <2>2, <2>3 DEF Kin, ToBeReported
<1> QED
  BY <1>6, <1>7, <1>8, <1>9, <1>10, <1>11, <1>12 DEF Kin

\* notify_parent_create(): a slot for a process that is in none.
LEMMA KinRegister ==
  ASSUME PInv, Kin, NEW m \in {"register", "load"}, At(m), NotifyParentCreate(Top.arg),
         NEW l \in {"copy", "sleep"}, Step(l, Top.arg)
  PROVE  Kin'
<1>1. PICK new \in Pids : new = Top.arg
  BY LabelNames, Active
<1>2. /\ new \in Range(start) /\ state[new] = "START" /\ parent[new] = NoProc
      /\ \A n \in Places : ~Tells(n, new)
  BY <1>1 DEF Kin, AtHand
<1>3. /\ Me = current /\ current \in Pids /\ current # new /\ current \notin Range(waiting)
      /\ current \notin Range(start) /\ ~(current >= nextPid) /\ ~(new >= nextPid)
      /\ new < nextPid /\ Range(waiting) \subseteq Pids
  <2>1. Me = current /\ current \in Pids
    BY LabelNames, Active
  <2>2. current \in all /\ new \in all /\ current \notin Range(start) /\ current \notin Range(waiting)
    BY <1>2, <2>1, NoProcNotAPid DEF PInv, Placed, Standing, Queued
  <2>3. all \subseteq 1 .. nextPid - 1 /\ nextPid \in Int
    BY DEF PInv, Placed, Fitting, TypeOK
  <2>4. ~(current >= nextPid) /\ ~(new >= nextPid) /\ new < nextPid
    BY <2>2, <2>3
  <2> QED
    BY <1>2, <2>1, <2>2, <2>4, RangeOfSeq DEF PInv, TypeOK
<1>4. PICK i \in Slots \ childBitmap[current] :
        /\ parent' = [parent EXCEPT ![new] = current]
        /\ child' = [child EXCEPT ![current][i] = new]
        /\ childBitmap' = [childBitmap EXCEPT ![current] = @ \cup {i}]
        /\ UNCHANGED <<nextPid, current, start, waiting, state, signal, childCompleted,
                       contextEax, rekilled>>
  BY <1>1, <1>3 DEF NotifyParentCreate
<1>5. /\ i \in Slots /\ i \notin childBitmap[current] /\ child'[current][i] = new
      /\ \A p \in Pids : \A j \in Slots : p # current \/ j # i => child'[p][j] = child[p][j]
      /\ \A p \in Pids : p # current => child'[p] = child[p]
      /\ childBitmap'[current] = childBitmap[current] \cup {i}
      /\ \A p \in Pids : p # current => childBitmap'[p] = childBitmap[p]
      /\ \A p \in Pids : parent'[p] = IF p = new THEN current ELSE parent[p]
  BY <1>3, <1>4 DEF PInv, TypeOK
<1>6. \A p \in Pids : \A j \in childBitmap[p] : child[p][j] # new
  <2> SUFFICES ASSUME NEW p \in Pids, NEW j \in childBitmap[p], child[p][j] = new PROVE FALSE
    OBVIOUS
  <2> QED
    BY <1>2, KinSlots, NoProcNotAPid
<1>7. /\ DOMAIN kstack' = DOMAIN kstack /\ Top'.at = l /\ Top'.arg = new
      /\ Len(kstack') = Len(kstack)
      /\ \A n \in DOMAIN kstack : n # Len(kstack) => kstack'[n] = kstack[n]
  <2>1. m \in Labels \ Special /\ l \in Labels \ Special
    BY LabelNames
  <2>2. CpuTypes /\ kstack # <<>>
    BY <2>1, Active DEF PInv, Stacked, Rings
  <2> QED
    BY <1>1, <2>1, <2>2, Moving DEF Step
<1>8. \A n \in Places, x \in Pids :
        Tells(n, x)' => Tells(n, x) /\ kstack'[n] = kstack[n] /\ x # new
  <2>1. \A n \in Places, x \in Pids : Tells(n, x)' => Tells(n, x) /\ kstack'[n] = kstack[n]
    BY <1>7 DEF Tells, Top
  <2> QED
    BY <1>2, <2>1
<1>9. ChildTablesAgree'
  <2> SUFFICES ASSUME NEW p \in Pids
               PROVE  /\ childBitmap'[p] = {j \in Slots : child'[p][j] # NoProc}
                      /\ ~rekilled => childCompleted[p] \subseteq childBitmap'[p]
                      /\ \A j \in childBitmap'[p] :
                           /\ child'[p][j] < nextPid /\ parent'[child'[p][j]] = p
                           /\ \A h \in childBitmap'[p] : child'[p][j] = child'[p][h] => j = h
    BY <1>4 DEF ChildTablesAgree
  <2>1. /\ childBitmap[p] = {j \in Slots : child[p][j] # NoProc}
        /\ ~rekilled => childCompleted[p] \subseteq childBitmap[p]
    BY KinSlots
  <2>2. childBitmap'[p] = {j \in Slots : child'[p][j] # NoProc}
    BY <1>3, <1>5, <2>1, NoProcNotAPid
  <2>3. ~rekilled => childCompleted[p] \subseteq childBitmap'[p]
    BY <1>5, <2>1
  <2>4. ASSUME NEW j \in childBitmap'[p]
        PROVE  /\ child'[p][j] < nextPid /\ parent'[child'[p][j]] = p
               /\ \A h \in childBitmap'[p] : child'[p][j] = child'[p][h] => j = h
    <3>1. CASE p = current /\ j = i
      <4>1. child'[p][j] = new
        BY <1>5, <3>1
      <4>2. \A h \in childBitmap'[p] : h # i => h \in childBitmap[p] /\ child'[p][h] = child[p][h]
        BY <1>5, <2>1, <3>1
      <4> QED
        BY <1>3, <1>5, <1>6, <3>1, <4>1, <4>2
    <3>2. CASE ~(p = current /\ j = i)
      <4>1. j \in childBitmap[p] /\ child'[p][j] = child[p][j]
        BY <1>5, <2>1, <2>4, <3>2
      <4>2. /\ child[p][j] < nextPid /\ child[p][j] \in Pids /\ parent[child[p][j]] = p
            /\ \A h \in childBitmap[p] : child[p][j] = child[p][h] => j = h
        BY <4>1, KinSlots
      <4>3. \A h \in childBitmap'[p] : child'[p][j] = child'[p][h] => j = h
        <5> SUFFICES ASSUME NEW h \in childBitmap'[p], child'[p][j] = child'[p][h] PROVE j = h
          OBVIOUS
        <5>1. child[p][j] # new
          BY <1>6, <4>1
        <5>2. p = current /\ h = i => child'[p][h] = new
          BY <1>5
        <5>3. ~(p = current /\ h = i)
          BY <4>1, <5>1, <5>2
        <5>4. h \in childBitmap[p] /\ child'[p][h] = child[p][h]
          BY <1>5, <2>1, <5>3
        <5> QED
          BY <4>1, <4>2, <5>4
      <4> QED
        BY <1>5, <1>6, <4>1, <4>2, <4>3
    <3> QED
      BY <3>1, <3>2
  <2> QED
    BY <2>2, <2>3, <2>4
<1>10. NotOwn'
  <2> SUFFICES ASSUME NEW p \in Pids, NEW j \in childBitmap'[p] PROVE child'[p][j] # p
    BY DEF NotOwn
  <2>1. CASE p = current /\ j = i
    BY <1>3, <1>5, <2>1
  <2>2. CASE ~(p = current /\ j = i)
    <3>1. j \in childBitmap[p] /\ j \in Slots
      BY <1>5, <2>2, KinSlots
    <3> QED
      BY <1>5, <2>2, <3>1, KinSlots
  <2> QED
    BY <2>1, <2>2
<1>11. CompletedEnded'
  <2> SUFFICES ASSUME ~rekilled, NEW p \in Pids, NEW j \in childCompleted[p]
               PROVE  Ended(child[p][j])' /\ child'[p][j] = child[p][j]
    BY <1>4 DEF CompletedEnded, Ended
  <2>1. j \in childBitmap[p] /\ j \in Slots
    BY KinSlots
  <2>2. child'[p][j] = child[p][j]
    BY <1>5, <2>1
  <2>3. Ended(child[p][j])
    BY DEF Kin, CompletedEnded
  <2> QED
    BY <1>4, <2>2, <2>3 DEF Ended
<1>12. Woken'
  <2> SUFFICES ASSUME NEW p \in Range(waiting), state[p] = "READY"
               PROVE  Answers(p, contextEax[p])'
    BY <1>4 DEF Woken
  <2>1. PICK c : c = contextEax[p]
    OBVIOUS
  <2>2. Answers(p, c) /\ p \in Pids /\ p # current
    BY <1>3, <2>1 DEF Kin, Woken
  <2>3. c # new /\ child'[p] = child[p]
    BY <1>2, <1>5, <2>2 DEF Answers, Ended
  <2> QED
    BY <1>4, <1>5, <2>1, <2>2, <2>3 DEF Answers, Ended
<1>13. Newborns'
  <2>1. Range(start) \subseteq Pids
    BY AdmittedFacts
  <2>2. \A p \in Range(start) : parent'[p] \in {NoProc, current}
    BY <1>3, <1>5, <2>1, NoProcNotAPid DEF Kin, Newborns
  <2>3. /\ \A p \in Pids : p \in Range(start) \/ p >= nextPid => childBitmap'[p] = {}
        /\ \A p \in Pids : p >= nextPid => parent'[p] = NoProc
    BY <1>3, <1>5 DEF Kin, Newborns
  <2> QED
    BY <1>4, <2>2, <2>3 DEF Kin, Newborns
<1>14. AtHand'
  BY <1>2, <1>4, <1>7 DEF AtHand, At
<1>15. Notices'
  <2>1. ~At("report")'
    BY <1>7 DEF At
  <2>2. ASSUME NEW x \in Pids, Untold(x)
        PROVE  Untold(x)'
    <3>1. ASSUME ~rekilled, NEW p \in Pids, NEW j \in childCompleted[p]
          PROVE  child'[p][j] # x
      <4>1. j \in childBitmap[p] /\ j \in Slots /\ child[p][j] # x
        BY <2>2, <3>1, KinSlots DEF Untold, Unmarked
      <4> QED
        BY <1>5, <4>1
    <3> QED
      BY <1>4, <2>2, <3>1 DEF Untold, Unmarked, Ended
  <2>3. \A n \in Places, x \in Pids : Telling(n, x)' => Telling(n, x)
    BY <1>5, <1>8 DEF Telling
  <2>4. \A n \in Places, x \in Pids : Tells(n, x)' => x < nextPid' /\ signal'[x]
    BY <1>4, <1>8 DEF Kin, Notices
  <2>5. \A n \in Places, x \in Pids : Telling(n, x)' =>
          /\ Untold(x)'
          /\ ~rekilled' => \A k \in Places : Telling(k, x)' => k = n
    BY <1>4, <2>2, <2>3 DEF Kin, Notices
  <2> QED
    BY <2>1, <2>4, <2>5 DEF Notices
<1>16. ToBeReported'
  <2> SUFFICES ASSUME NEW p \in Pids, ~Ended(p), NEW j \in childBitmap'[p],
                      state[child'[p][j]] = "DONE", ~signal[child'[p][j]]
               PROVE  j \in childCompleted[p]
    BY <1>4 DEF ToBeReported, Ended
  <2>1. ~(p = current /\ j = i)
    BY <1>2, <1>5
  <2>2. j \in childBitmap[p] /\ j \in Slots
    BY <1>5, <2>1, KinSlots
  <2>3. child'[p][j] = child[p][j] /\ ~At("report")
    BY <1>5, <2>1, <2>2 DEF At
  <2> QED
    BY <2>2, <2>3 DEF Kin, ToBeReported
<1> QED
  BY <1>9, <1>10, <1>11, <1>12, <1>13, <1>14, <1>15, <1>16 DEF Kin, Tables

\* wait() takes the answer of an ended child and frees its slot.
LEMMA KinReap ==
  ASSUME PInv, Kin, At("wait"), Reap
  PROVE  Kin'
<1>1. /\ Me = current /\ current \in Pids /\ current \notin Range(waiting)
      /\ Range(waiting) \subseteq Pids
  BY LabelNames, Active, AdmittedFacts
<1>2. PICK i \in Slots :
        /\ Step("return", child[current][i]) /\ i \in childCompleted[current]
        /\ child' = [child EXCEPT ![current][i] = NoProc]
        /\ childBitmap' = [childBitmap EXCEPT ![current] = @ \ {i}]
        /\ childCompleted' = [childCompleted EXCEPT ![current] = @ \ {i}]
        /\ UNCHANGED <<nextPid, current, start, waiting, state, signal, parent, contextEax,
                       rekilled>>
  <2>1. childCompleted[current] \subseteq Slots
    BY <1>1, KinSlots
  <2> QED
    BY <1>1, <2>1 DEF Reap
<1>3. /\ child'[current][i] = NoProc
      /\ \A p \in Pids : \A j \in Slots : p # current \/ j # i => child'[p][j] = child[p][j]
      /\ \A p \in Pids : p # current => child'[p] = child[p]
      /\ childBitmap'[current] = childBitmap[current] \ {i}
      /\ \A p \in Pids : p # current => childBitmap'[p] = childBitmap[p]
      /\ childCompleted'[current] = childCompleted[current] \ {i}
      /\ \A p \in Pids : p # current => childCompleted'[p] = childCompleted[p]
  BY <1>1, <1>2 DEF PInv, TypeOK
<1>4. AtHand' /\ ~At("report")' /\ NoNewTells
  <2>1. child[current][i] \in Pids \cup {-1, 0}
    BY <1>1, <1>2 DEF PInv, TypeOK, NoProc
  <2>2. /\ "wait" \in Labels \ Special
        /\ "return" \in Labels \ (Special \cup {"register", "copy", "load", "tell", "report"})
    BY LabelNames
  <2> QED
    BY <1>2, <2>1, <2>2, LeftBehind
<1>5. \A p \in Pids : \A j \in childBitmap'[p] :
        j \in childBitmap[p] /\ j \in Slots /\ child'[p][j] = child[p][j]
  BY <1>3, KinSlots
<1>6. \A p \in Pids : \A j \in childCompleted'[p] :
        j \in childCompleted[p] /\ j \in Slots /\ child'[p][j] = child[p][j]
  BY <1>3, KinSlots
<1>7. ChildTablesAgree'
  <2> SUFFICES ASSUME NEW p \in Pids
               PROVE  /\ childBitmap'[p] = {j \in Slots : child'[p][j] # NoProc}
                      /\ ~rekilled => childCompleted'[p] \subseteq childBitmap'[p]
                      /\ \A j \in childBitmap'[p] :
                           /\ child'[p][j] < nextPid /\ parent[child'[p][j]] = p
                           /\ \A h \in childBitmap'[p] : child'[p][j] = child'[p][h] => j = h
    BY <1>2 DEF ChildTablesAgree
  <2>1. /\ childBitmap[p] = {j \in Slots : child[p][j] # NoProc}
        /\ ~rekilled => childCompleted[p] \subseteq childBitmap[p]
    BY KinSlots
  <2>2. childBitmap'[p] = {j \in Slots : child'[p][j] # NoProc}
    BY <1>3, <2>1
  <2>3. ~rekilled => childCompleted'[p] \subseteq childBitmap'[p]
    BY <1>3, <2>1
  <2>4. \A j \in childBitmap'[p] :
          /\ child'[p][j] < nextPid /\ parent[child'[p][j]] = p
          /\ \A h \in childBitmap'[p] : child'[p][j] = child'[p][h] => j = h
    BY <1>5, KinSlots
  <2> QED
    BY <2>2, <2>3, <2>4
<1>8. NotOwn'
  BY <1>5, KinSlots DEF NotOwn
<1>9. CompletedEnded'
  <2> SUFFICES ASSUME ~rekilled, NEW p \in Pids, NEW j \in childCompleted'[p]
               PROVE  Ended(child'[p][j])
    BY <1>2 DEF CompletedEnded, Ended
  <2> QED
    BY <1>6 DEF Kin, CompletedEnded
<1>10. Woken'
  <2> SUFFICES ASSUME NEW p \in Range(waiting), state[p] = "READY"
               PROVE  Answers(p, contextEax[p])'
    BY <1>2 DEF Woken
  <2>1. Answers(p, contextEax[p]) /\ child'[p] = child[p]
    BY <1>1, <1>3 DEF Kin, Woken
  <2> QED
    BY <1>2, <2>1 DEF Answers, Ended
<1>11. Newborns'
  BY <1>2, <1>3, <1>5 DEF Kin, Newborns
<1>12. Notices'
  <2>1. ASSUME NEW x \in Pids, Untold(x)
        PROVE  Untold(x)'
    <3>1. ~rekilled => Unmarked(x)'
      BY <1>6, <2>1 DEF Untold, Unmarked
    <3> QED
      BY <1>2, <2>1, <3>1 DEF Untold, Ended
  <2>2. \A n \in Places, x \in Pids : Telling(n, x)' => Telling(n, x)
    BY <1>2, <1>4 DEF Telling, NoNewTells
  <2>3. \A n \in Places, x \in Pids : Tells(n, x)' => x < nextPid' /\ signal'[x]
    BY <1>2, <1>4 DEF Kin, Notices, NoNewTells
  <2>4. \A n \in Places, x \in Pids : Telling(n, x)' =>
          /\ Untold(x)'
          /\ ~rekilled' => \A k \in Places : Telling(k, x)' => k = n
    BY <1>2, <2>1, <2>2 DEF Kin, Notices
  <2> QED
    BY <1>4, <2>3, <2>4 DEF Notices
<1>13. ToBeReported'
  <2> SUFFICES ASSUME NEW p \in Pids, ~Ended(p), NEW j \in childBitmap'[p],
                      state[child'[p][j]] = "DONE", ~signal[child'[p][j]]
               PROVE  j \in childCompleted'[p]
    BY <1>2 DEF ToBeReported, Ended
  <2>1. j \in childBitmap[p] /\ child'[p][j] = child[p][j] /\ ~At("report")
    BY <1>5 DEF At
  <2>2. j \in childCompleted[p] /\ (p # current \/ j # i)
    BY <1>3, <2>1 DEF Kin, ToBeReported
  <2> QED
    BY <1>3, <2>2
<1> QED
  BY <1>4, <1>7, <1>8, <1>9, <1>10, <1>11, <1>12, <1>13 DEF Kin, Tables

(***************************************************************************)
(* kill() and exit() set the state of x.  An end that lasts is new unless  *)
(* rekilled says otherwise: it has left no bit, and nobody else tells it.  *)
(***************************************************************************)
Ends(x) ==
  /\ state' = [state EXCEPT ![x] = "DONE"]
  /\ \A p \in Pids : p # x => signal'[p] = signal[p]
  /\ ~rekilled' => ~rekilled /\ state[x] # "DONE"
  /\ UNCHANGED <<nextPid, current, start, waiting, parent, child, childBitmap,
                 childCompleted, contextEax>>

LEMMA FreshEnd ==
  ASSUME PInv, Kin, NEW x \in Pids, Ends(x)
  PROVE  /\ \A p \in Pids : Ended(p) => Ended(p)'
         /\ ~rekilled' => /\ ~rekilled /\ ~Ended(x) /\ Unmarked(x)
                          /\ \A n \in Places : ~Telling(n, x)
         /\ \A p \in Pids : Untold(p) => Untold(p)'
         /\ x \notin Range(start) => Untold(x)'
         /\ \A n \in Places : Tells(n, x) => signal[x]
<1>1. state \in [Pids -> States]
  BY DEF PInv, TypeOK
<1>2. \A p \in Pids : Ended(p) => Ended(p)'
  BY <1>1 DEF Ended, Ends
<1>3. ~rekilled' => /\ ~rekilled /\ ~Ended(x) /\ Unmarked(x)
                    /\ \A n \in Places : ~Telling(n, x)
  <2> SUFFICES ASSUME ~rekilled'
               PROVE  /\ ~rekilled /\ ~Ended(x) /\ Unmarked(x)
                      /\ \A n \in Places : ~Telling(n, x)
    OBVIOUS
  <2>1. ~rekilled /\ ~Ended(x)
    BY DEF Ends, Ended
  <2>2. Unmarked(x)
    BY <2>1 DEF Unmarked, Kin, CompletedEnded
  <2> QED
    BY <2>1, <2>2 DEF Kin, Notices, Untold
<1>4. \A p \in Pids : Untold(p) => Untold(p)'
  <2> SUFFICES ASSUME NEW p \in Pids, Untold(p) PROVE Untold(p)'
    OBVIOUS
  <2>1. Ended(p)' /\ (~rekilled' => Unmarked(p))
    BY <1>2, <1>3 DEF Untold
  <2> QED
    BY <2>1 DEF Untold, Unmarked, Ends
<1>5. x \notin Range(start) => Untold(x)'
  BY <1>1, <1>3 DEF Untold, Unmarked, Ended, Ends
<1>6. \A n \in Places : Tells(n, x) => signal[x]
  BY DEF Kin, Notices
<1> QED
  BY <1>2, <1>3, <1>4, <1>5, <1>6

LEMMA KinEnds ==
  ASSUME PInv, Kin, NEW x \in Pids, Ends(x),
         \A p \in Pids : ~Ended(p) => \A i \in childBitmap[p] :
           child[p][i] = x /\ ~signal'[x] => (At("report") /\ x = current)',
         ~At("report")
  PROVE  Tables' /\ CompletedEnded' /\ Woken' /\ Newborns' /\ ToBeReported'
<1>1. /\ state \in [Pids -> States] /\ Range(waiting) \subseteq Pids
      /\ state'[x] = "DONE" /\ \A p \in Pids : p # x => state'[p] = state[p]
  BY AdmittedFacts DEF PInv, TypeOK, Ends
<1>2. /\ \A p \in Pids : Ended(p) => Ended(p)'
      /\ ~rekilled' => ~rekilled
  BY FreshEnd
<1>3. Tables'
  BY <1>2 DEF Kin, Tables, ChildTablesAgree, NotOwn, Ends
<1>4. CompletedEnded'
  <2> SUFFICES ASSUME ~rekilled, NEW p \in Pids, NEW j \in childCompleted[p]
               PROVE  Ended(child[p][j])'
    BY <1>2 DEF CompletedEnded, Ends
  <2>1. PICK c \in Pids : c = child[p][j]
    BY KinSlots
  <2>2. Ended(c)'
    BY <1>2, <2>1 DEF Kin, CompletedEnded
  <2> QED
    BY <2>1, <2>2 DEF Ended, Ends
<1>5. Woken'
  <2> SUFFICES ASSUME NEW p \in Range(waiting), state'[p] = "READY"
               PROVE  Answers(p, contextEax[p])'
    BY DEF Woken, Ends
  <2>1. PICK c : c = contextEax[p]
    OBVIOUS
  <2>2. Answers(p, c)
    BY <1>1, <2>1 DEF Kin, Woken
  <2>3. Ended(c)'
    BY <1>2, <2>2 DEF Answers
  <2> QED
    BY <2>1, <2>2, <2>3 DEF Answers, Ended, Ends
<1>6. Newborns'
  BY <1>1 DEF Kin, Newborns, Ends
<1>7. ToBeReported'
  <2> SUFFICES ASSUME NEW p \in Pids, ~Ended(p)', NEW i \in childBitmap[p],
                      state'[child[p][i]] = "DONE", ~signal'[child[p][i]]
               PROVE  i \in childCompleted[p] \/ (At("report") /\ child[p][i] = current)'
    BY DEF ToBeReported, Ends
  <2>1. ~Ended(p) /\ child[p][i] \in Pids
    BY <1>2, KinSlots
  <2>2. CASE child[p][i] = x
    BY <2>1, <2>2 DEF Ends
  <2>3. CASE child[p][i] # x
    <3>1. state[child[p][i]] = "DONE" /\ ~signal[child[p][i]]
      BY <1>1, <2>1, <2>3 DEF Ends
    <3> QED
      BY <2>1, <3>1 DEF Kin, ToBeReported
  <2> QED
    BY <2>2, <2>3
<1> QED
  BY <1>3, <1>4, <1>5, <1>6, <1>7

\* kill(), up to the notice.
LEMMA KinKilling ==
  ASSUME PInv, Kin, At("killing"), NEW x \in Pids, x = Top.arg,
         signal' = [signal EXCEPT ![x] = TRUE], state' = [state EXCEPT ![x] = "DONE"],
         rekilled' = (rekilled \/ state[x] = "DONE"), Step("tell", x),
         UNCHANGED <<nextPid, current, start, waiting, parent, child, childBitmap,
                     childCompleted, contextEax>>
  PROVE  Kin'
<1>1. Me = current /\ current \in Pids /\ x < nextPid
  BY LabelNames, Active
<1>2. /\ signal'[x] /\ \A p \in Pids : p # x => signal'[p] = signal[p]
      /\ \A p \in Pids : signal[p] => signal'[p]
  BY DEF PInv, TypeOK
<1>3. Ends(x) /\ ~At("report")
  BY <1>2 DEF Ends, At
<1>4. Tables' /\ CompletedEnded' /\ Woken' /\ Newborns' /\ ToBeReported'
  BY <1>2, <1>3, KinEnds
<1>5. /\ DOMAIN kstack' = DOMAIN kstack /\ Top'.at = "tell" /\ Len(kstack') = Len(kstack)
      /\ \A n \in DOMAIN kstack : n # Len(kstack) => kstack'[n] = kstack[n]
      /\ kstack'[Len(kstack)].arg = x /\ kstack'[Len(kstack)].proc = current
      /\ Len(kstack) \in Places
  <2>1. CpuTypes /\ kstack # <<>>
    BY LabelNames, Active DEF PInv, Stacked, Rings
  <2> QED
    BY <1>1, <2>1, LabelNames, Moving, TopOfStack DEF Step, Top, Me
<1>6. AtHand' /\ ~At("report")'
  BY <1>5 DEF AtHand, At
<1>7. \A n \in Places, y \in Pids : Tells(n, y)' =>
        \/ n = Len(kstack) /\ y = x
        \/ n # Len(kstack) /\ Tells(n, y) /\ kstack'[n] = kstack[n]
  BY <1>5 DEF Tells
<1>8. Notices'
  <2>1. \A n \in Places, y \in Pids : Tells(n, y)' => y < nextPid' /\ signal'[y]
    BY <1>1, <1>2, <1>7 DEF Kin, Notices
  <2>2. \A n \in Places, y \in Pids : Telling(n, y)' =>
          \/ n = Len(kstack) /\ y = x /\ parent[x] \notin {NoProc, current}
          \/ n # Len(kstack) /\ Telling(n, y)
    BY <1>5, <1>7 DEF Telling
  <2>3. parent[x] \notin {NoProc, current} => x \notin Range(start)
    BY <1>1, NoProcNotAPid DEF Kin, Newborns
  <2>4. \A n \in Places, y \in Pids : Telling(n, y)' => Untold(y)'
    BY <1>3, <2>2, <2>3, FreshEnd DEF Kin, Notices
  <2>5. ASSUME ~rekilled', NEW n \in Places, NEW k \in Places, NEW y \in Pids,
               Telling(n, y)', Telling(k, y)'
        PROVE  k = n
    <3>1. ~rekilled /\ \A j \in Places : ~Telling(j, x)
      BY <1>3, <2>5, FreshEnd
    <3> QED
      BY <2>2, <2>5, <3>1 DEF Kin, Notices
  <2> QED
    BY <1>6, <2>1, <2>4, <2>5 DEF Notices
<1> QED
  BY <1>4, <1>6, <1>8 DEF Kin

\* exit(), up to the notice.
LEMMA KinExit ==
  ASSUME PInv, Kin, At("exit"), SetState(Me, "DONE"), Step("report", Top.arg)
  PROVE  Kin'
<1>1. /\ Me = current /\ current \in Pids /\ Top.arg \in Pids \cup {-1, 0}
      /\ state[current] = "RUNNING" /\ current \notin Range(start)
  BY LabelNames, Active, AdmittedFacts
<1>2. Ends(current) /\ ~At("report") /\ UNCHANGED <<signal, rekilled>>
  BY <1>1 DEF SetState, Ends, family, At
<1>3. /\ DOMAIN kstack' = DOMAIN kstack /\ Top'.at = "report" /\ Len(kstack') = Len(kstack)
      /\ \A n \in DOMAIN kstack : n # Len(kstack) => kstack'[n] = kstack[n]
      /\ mode' = mode /\ wild' = wild /\ halted' = halted
  <2>1. CpuTypes /\ kstack # <<>>
    BY LabelNames, Active DEF PInv, Stacked, Rings
  <2> QED
    BY <1>1, <2>1, LabelNames, Moving DEF Step, SetState
<1>4. AtHand' /\ At("report")'
  BY <1>3 DEF AtHand, At
<1>5. \A n \in Places, y \in Pids : Tells(n, y)' => Tells(n, y) /\ kstack'[n] = kstack[n]
  BY <1>3 DEF Tells, Top
<1>6. Tables' /\ CompletedEnded' /\ Woken' /\ Newborns' /\ ToBeReported'
  <2>1. (At("report") /\ current = current)'
    BY <1>4
  <2>2. PICK x \in Pids : x = current
    BY <1>1
  <2>3. Ends(x) /\ (At("report") /\ x = current)'
    BY <1>2, <1>4, <2>2 DEF Ends
  <2> QED
    BY <1>1, <1>2, <2>2, <2>3, KinEnds
<1>7. Notices'
  <2>1. PICK x \in Pids : x = current /\ x = current'
    BY <1>1, <1>2 DEF Ends
  <2>2. Ends(x) /\ state[x] # "DONE" /\ x \notin Range(start)
    BY <1>1, <1>2, <2>1
  <2>3. Untold(x)' /\ \A p \in Pids : Untold(p) => Untold(p)'
    BY <2>2, FreshEnd
  <2>4. \A n \in Places, y \in Pids : Telling(n, y)' => Telling(n, y)
    BY <1>2, <1>5 DEF Telling, Ends
  <2>5. \A n \in Places, y \in Pids : Tells(n, y)' => y < nextPid' /\ signal'[y]
    BY <1>2, <1>5 DEF Kin, Notices, Ends
  <2>6. \A n \in Places, y \in Pids : Telling(n, y)' => Untold(y)' /\ y # x
    BY <2>2, <2>3, <2>4 DEF Kin, Notices, Untold, Ended
  <2>7. \A n, k \in Places, y \in Pids :
          ~rekilled /\ Telling(n, y)' /\ Telling(k, y)' => k = n
    BY <2>4 DEF Kin, Notices
  <2>8. Untold(current)'
    BY <2>1, <2>3 DEF Untold, Ended, Unmarked
  <2> QED
    BY <1>2, <2>1, <2>5, <2>6, <2>7, <2>8 DEF Notices
<1> QED
  BY <1>4, <1>6, <1>7 DEF Kin

(***************************************************************************)
(* notify_parent_complete() for a process x whose end is not told yet: its *)
(* notice is due, in an activation that this step takes away.              *)
(***************************************************************************)
Due(x) ==
  /\ Untold(x) /\ (signal[x] \/ At("report")) /\ (At("report") => x = current)
  /\ AtHand' /\ ~At("report")' /\ NoNewTells
  /\ ~rekilled => \A n \in Places : ~Telling(n, x)'
  /\ UNCHANGED <<nextPid, current, start, waiting, signal, parent, rekilled>>

\* A process with a child has been admitted.
LEMMA HasRun ==
  ASSUME PInv, Kin, NEW p \in Pids, childBitmap[p] # {}, ~Ended(p), p # current
  PROVE  state[p] \in {"WAITING", "READY"}
<1>1. /\ p \notin Range(start) /\ ~(p >= nextPid)
      /\ state[p] \notin {"NONE", "START"}
  BY DEF Kin, Newborns
<1>2. state[p] \in States /\ state[p] # "DONE" /\ state[p] # "RUNNING"
  BY <1>1 DEF PInv, TypeOK, Placed, Fitting, Ended
<1> QED
  BY <1>1, <1>2 DEF States

\* The parent slept: it is woken, and the slot is free again.
LEMMA TellWoken ==
  ASSUME PInv, Kin, NEW x \in Pids, Due(x), NEW q \in Pids, q = parent[x],
         state[q] = "WAITING", NEW i \in Slots, child[q][i] = x,
         child' = [child EXCEPT ![q][i] = NoProc],
         childBitmap' = [childBitmap EXCEPT ![q] = @ \ {i}],
         childCompleted' = childCompleted,
         state' = [state EXCEPT ![q] = "READY"],
         contextEax' = [contextEax EXCEPT ![q] = x]
  PROVE  Kin'
<1>1. /\ Untold(x) /\ Ended(x) /\ AtHand' /\ ~At("report")' /\ NoNewTells
      /\ signal[x] \/ At("report")
      /\ At("report") => x = current
      /\ ~rekilled => \A n \in Places : ~Telling(n, x)'
      /\ UNCHANGED <<nextPid, current, start, waiting, signal, parent, rekilled>>
  BY DEF Due, Untold
<1>2. i \in childBitmap[q] /\ q # x
  BY <1>1, KinSlots, NoProcNotAPid DEF Ended
<1>3. /\ child'[q][i] = NoProc
      /\ \A p \in Pids : \A j \in Slots : p # q \/ j # i => child'[p][j] = child[p][j]
      /\ \A p \in Pids : p # q => child'[p] = child[p]
      /\ DOMAIN child'[q] = Slots
      /\ childBitmap'[q] = childBitmap[q] \ {i}
      /\ \A p \in Pids : p # q => childBitmap'[p] = childBitmap[p]
      /\ state'[q] = "READY" /\ \A p \in Pids : p # q => state'[p] = state[p]
      /\ contextEax'[q] = x /\ \A p \in Pids : p # q => contextEax'[p] = contextEax[p]
  BY DEF PInv, TypeOK
<1>4. \A p \in Pids : \A j \in childBitmap'[p] :
        /\ j \in childBitmap[p] /\ j \in Slots /\ child'[p][j] = child[p][j]
        /\ p # q \/ j # i
  BY <1>3, KinSlots
\* No other slot names x.
<1>5. \A p \in Pids : \A j \in childBitmap'[p] : child[p][j] # x
  <2> SUFFICES ASSUME NEW p \in Pids, NEW j \in childBitmap'[p], child[p][j] = x PROVE FALSE
    OBVIOUS
  <2>1. j \in childBitmap[p] /\ (p # q \/ j # i)
    BY <1>4
  <2>2. p = q
    BY <2>1, KinSlots
  <2> QED
    BY <1>2, <2>1, <2>2, KinSlots
<1>6. ~rekilled => i \notin childCompleted[q]
  BY <1>1 DEF Untold, Unmarked
<1>7. ~rekilled => \A p \in Pids : \A j \in childCompleted[p] :
        j \in Slots /\ child'[p][j] = child[p][j]
  BY <1>3, <1>6, KinSlots
<1>8. /\ \A p \in Pids : Ended(p)' <=> Ended(p)
      /\ \A p \in Pids : state'[p] = "DONE" <=> state[p] = "DONE"
  BY <1>1, <1>3 DEF Ended
<1>9. ChildTablesAgree'
  <2> SUFFICES ASSUME NEW p \in Pids
               PROVE  /\ childBitmap'[p] = {j \in Slots : child'[p][j] # NoProc}
                      /\ ~rekilled => childCompleted[p] \subseteq childBitmap'[p]
                      /\ \A j \in childBitmap'[p] :
                           /\ child'[p][j] < nextPid /\ parent[child'[p][j]] = p
                           /\ \A h \in childBitmap'[p] : child'[p][j] = child'[p][h] => j = h
    BY <1>1 DEF ChildTablesAgree
  <2>1. /\ childBitmap[p] = {j \in Slots : child[p][j] # NoProc}
        /\ ~rekilled => childCompleted[p] \subseteq childBitmap[p]
    BY KinSlots
  <2>2. childBitmap'[p] = {j \in Slots : child'[p][j] # NoProc}
    BY <1>3, <2>1
  <2>3. ~rekilled => childCompleted[p] \subseteq childBitmap'[p]
    BY <1>3, <1>6, <2>1
  <2>4. \A j \in childBitmap'[p] :
          /\ child'[p][j] < nextPid /\ parent[child'[p][j]] = p
          /\ \A h \in childBitmap'[p] : child'[p][j] = child'[p][h] => j = h
    BY <1>4, KinSlots
  <2> QED
    BY <2>2, <2>3, <2>4
<1>10. NotOwn'
  BY <1>4, KinSlots DEF NotOwn
<1>11. CompletedEnded'
  <2> SUFFICES ASSUME ~rekilled, NEW p \in Pids, NEW j \in childCompleted[p]
               PROVE  Ended(child[p][j])' /\ child'[p][j] = child[p][j]
    BY <1>1 DEF CompletedEnded, Ended
  <2>1. PICK c \in Pids : c = child[p][j]
    BY KinSlots
  <2>2. Ended(c)'
    BY <1>8, <2>1 DEF Kin, CompletedEnded
  <2> QED
    BY <1>7, <2>1, <2>2 DEF Ended
<1>12. Woken'
  <2> SUFFICES ASSUME NEW p \in Range(waiting), state'[p] = "READY"
               PROVE  Answers(p, contextEax[p])'
    BY <1>1 DEF Woken
  <2>1. p \in Pids
    BY AdmittedFacts
  <2>2. CASE p = q
    <3>1. x \notin Range(child'[q])
      <4> SUFFICES ASSUME NEW j \in Slots, child'[q][j] = x PROVE FALSE
        BY <1>3 DEF Range
      <4>1. j # i /\ child[q][j] = x
        BY <1>3, NoProcNotAPid
      <4>2. j \in childBitmap[q]
        BY <4>1, KinSlots, NoProcNotAPid
      <4> QED
        BY <1>2, <4>1, <4>2, KinSlots
    <3>2. Ended(x)'
      BY <1>1, <1>8
    <3> QED
      BY <1>1, <1>3, <2>2, <3>1, <3>2 DEF Answers, Ended
  <2>3. CASE p # q
    <3>1. PICK c : c = contextEax[p]
      OBVIOUS
    <3>2. Answers(p, c)
      BY <1>3, <2>1, <2>3, <3>1 DEF Kin, Woken
    <3>3. Ended(c)'
      BY <1>8, <3>2 DEF Answers
    <3> QED
      BY <1>1, <1>3, <2>1, <2>3, <3>1, <3>2, <3>3 DEF Answers, Ended
  <2> QED
    BY <2>2, <2>3
<1>13. Newborns'
  <2>1. \A p \in Pids : childBitmap'[p] \subseteq childBitmap[p]
    BY <1>4
  <2>2. \A p \in Pids : state'[p] \in {"NONE", "START"} => state[p] \in {"NONE", "START"}
    BY <1>3
  <2> QED
    BY <1>1, <2>1, <2>2 DEF Kin, Newborns
<1>14. Notices'
  <2>1. ASSUME NEW y \in Pids, Untold(y)
        PROVE  Untold(y)'
    <3>1. ~rekilled => Unmarked(y)'
      BY <1>1, <1>7, <2>1 DEF Untold, Unmarked
    <3> QED
      BY <1>1, <1>8, <2>1, <3>1 DEF Untold
  <2>2. \A n \in Places, y \in Pids : Telling(n, y)' => Telling(n, y)
    BY <1>1 DEF Telling, NoNewTells
  <2>3. \A n \in Places, y \in Pids : Tells(n, y)' => y < nextPid' /\ signal'[y]
    BY <1>1 DEF Kin, Notices, NoNewTells
  <2>4. \A n \in Places, y \in Pids : Telling(n, y)' =>
          /\ Untold(y)'
          /\ ~rekilled' => \A k \in Places : Telling(k, y)' => k = n
    BY <1>1, <2>1, <2>2 DEF Kin, Notices
  <2> QED
    BY <1>1, <2>3, <2>4 DEF Notices
<1>15. ToBeReported'
  <2> SUFFICES ASSUME NEW p \in Pids, ~Ended(p), NEW j \in childBitmap'[p],
                      state'[child'[p][j]] = "DONE", ~signal[child'[p][j]]
               PROVE  j \in childCompleted[p]
    BY <1>1, <1>8 DEF ToBeReported
  <2>1. /\ j \in childBitmap[p] /\ child'[p][j] = child[p][j] /\ child[p][j] \in Pids
        /\ child[p][j] # x
    BY <1>4, <1>5, KinSlots
  <2>2. state[child[p][j]] = "DONE" /\ ~signal[child[p][j]]
    BY <1>8, <2>1
  <2>3. ~(At("report") /\ child[p][j] = current)
    BY <1>1, <2>1
  <2> QED
    BY <2>1, <2>2, <2>3 DEF Kin, ToBeReported
<1> QED
  BY <1>1, <1>9, <1>10, <1>11, <1>12, <1>13, <1>14, <1>15 DEF Kin, Tables

\* Nothing but completed bits changes, and those are set for x only: what is
\* left to show is that the end of x is reported.
LEMMA TellMarks ==
  ASSUME PInv, Kin, NEW x \in Pids, Due(x), UNCHANGED <<child, childBitmap, state, contextEax>>,
         \A p \in Pids : childCompleted[p] \subseteq childCompleted'[p],
         \A p \in Pids : \A i \in childCompleted'[p] \ childCompleted[p] :
           i \in childBitmap[p] /\ child[p][i] = x,
         \A p \in Pids : \A i \in childBitmap[p] :
           child[p][i] = x /\ ~Ended(p) => signal[x] \/ i \in childCompleted'[p]
  PROVE  Kin'
<1>1. /\ Untold(x) /\ Ended(x) /\ AtHand' /\ ~At("report")' /\ NoNewTells
      /\ At("report") => x = current
      /\ ~rekilled => \A n \in Places : ~Telling(n, x)'
      /\ UNCHANGED <<nextPid, current, start, waiting, signal, parent, rekilled>>
  BY DEF Due, Untold
<1>2. \A p \in Pids : \A i \in childCompleted'[p] :
        i \in childCompleted[p] \/ (i \in childBitmap[p] /\ child[p][i] = x)
  OBVIOUS
<1>3. Tables'
  <2>1. \A p \in Pids : ~rekilled => childCompleted'[p] \subseteq childBitmap[p]
    BY <1>2, KinSlots
  <2> QED
    BY <1>1, <2>1 DEF Kin, Tables, ChildTablesAgree, NotOwn
<1>4. CompletedEnded'
  BY <1>1, <1>2 DEF Kin, CompletedEnded, Ended
<1>5. Woken' /\ Newborns'
  BY <1>1 DEF Kin, Woken, Answers, Newborns, Ended
<1>6. Notices'
  <2>1. ASSUME ~rekilled, NEW y \in Pids, Untold(y), y # x
        PROVE  Unmarked(y)'
    BY <1>2, <2>1 DEF Untold, Unmarked
  <2>2. ASSUME NEW y \in Pids, Untold(y), rekilled \/ y # x
        PROVE  Untold(y)'
    BY <1>1, <2>1, <2>2 DEF Untold, Ended
  <2>3. \A n \in Places, y \in Pids : Telling(n, y)' => Telling(n, y)
    BY <1>1 DEF Telling, NoNewTells
  <2>4. \A n \in Places, y \in Pids : Tells(n, y)' => y < nextPid' /\ signal'[y]
    BY <1>1 DEF Kin, Notices, NoNewTells
  <2>5. \A n \in Places, y \in Pids : Telling(n, y)' =>
          /\ Untold(y)'
          /\ ~rekilled' => \A k \in Places : Telling(k, y)' => k = n
    BY <1>1, <2>2, <2>3 DEF Kin, Notices
  <2> QED
    BY <1>1, <2>4, <2>5 DEF Notices
<1>7. ToBeReported'
  <2> SUFFICES ASSUME NEW p \in Pids, ~Ended(p), NEW i \in childBitmap[p],
                      state[child[p][i]] = "DONE", ~signal[child[p][i]]
               PROVE  i \in childCompleted'[p]
    BY <1>1 DEF ToBeReported, Ended
  <2>1. CASE child[p][i] = x
    BY <2>1
  <2>2. CASE child[p][i] # x
    <3>1. i \in childCompleted[p]
      BY <1>1, <2>2 DEF Kin, ToBeReported
    <3> QED
      BY <3>1
  <2> QED
    BY <2>1, <2>2
<1> QED
  BY <1>1, <1>3, <1>4, <1>5, <1>6, <1>7 DEF Kin

\* Whatever the parent is doing.
LEMMA KinTold ==
  ASSUME PInv, Kin, NEW x \in Pids, Due(x), Tell(x)
  PROVE  Kin'
<1>1. Untold(x) /\ Ended(x) /\ NotifyParentComplete(x, state)
      /\ state' = NotifiedStates(x, state) /\ contextEax' = NotifiedEax(x, state)
  BY DEF Due, Untold, Tell
<1>2. PICK q \in Pids \cup {NoProc} : q = parent[x]
  BY DEF PInv, TypeOK
<1>3. Known(x) => q \in Pids
  BY <1>2 DEF Known
<1>4. CASE Wakes(x, state)
  <2>1. q \in Pids /\ state[q] = "WAITING" /\ state' = [state EXCEPT ![q] = "READY"]
        /\ contextEax' = [contextEax EXCEPT ![q] = x]
    BY <1>1, <1>2, <1>3, <1>4 DEF Wakes, NotifiedStates, NotifiedEax
  <2>2. PICK i \in Slots :
          /\ child[q][i] = x
          /\ child' = [child EXCEPT ![q][i] = NoProc]
          /\ childBitmap' = [childBitmap EXCEPT ![q] = @ \ {i}]
          /\ childCompleted' = childCompleted
    BY <1>1, <1>2, <1>4 DEF NotifyParentComplete, Wakes, Marks, FirstSlot
  <2> QED
    BY <1>2, <2>1, <2>2, TellWoken
<1>5. CASE Marks(x, state)
  <2>1. q \in Pids /\ state[q] = "READY" /\ UNCHANGED <<state, contextEax>>
    BY <1>1, <1>2, <1>3, <1>5 DEF Marks, Wakes, NotifiedStates, NotifiedEax
  <2>2. PICK i \in Slots :
          /\ child[q][i] = x /\ UNCHANGED <<child, childBitmap>>
          /\ childCompleted' = [childCompleted EXCEPT ![q] = @ \cup {i}]
    BY <1>1, <1>2, <1>5 DEF NotifyParentComplete, Wakes, Marks, FirstSlot
  <2>3. i \in childBitmap[q]
    BY <2>1, <2>2, KinSlots, NoProcNotAPid
  <2>4. /\ childCompleted'[q] = childCompleted[q] \cup {i}
        /\ \A p \in Pids : p # q => childCompleted'[p] = childCompleted[p]
    BY <2>1, <2>2 DEF PInv, TypeOK
  <2>5. \A p \in Pids : \A j \in childBitmap[p] : child[p][j] = x => p = q /\ j = i
    BY <1>2, <2>2, <2>3, KinSlots
  <2>6. \A p \in Pids : childCompleted[p] \subseteq childCompleted'[p]
    BY <2>4
  <2>7. \A p \in Pids : \A j \in childCompleted'[p] \ childCompleted[p] :
          j \in childBitmap[p] /\ child[p][j] = x
    BY <2>2, <2>3, <2>4
  <2>8. \A p \in Pids : \A j \in childBitmap[p] : child[p][j] = x => j \in childCompleted'[p]
    BY <2>4, <2>5
  <2> QED
    BY <2>1, <2>2, <2>6, <2>7, <2>8, TellMarks
<1>6. CASE ~Wakes(x, state) /\ ~Marks(x, state)
  <2>1. UNCHANGED <<child, childBitmap, childCompleted, state, contextEax>>
    BY <1>1, <1>6 DEF NotifyParentComplete, NotifiedStates, NotifiedEax
  <2>2. ASSUME NEW p \in Pids, NEW j \in childBitmap[p], child[p][j] = x, ~Ended(p), ~signal[x]
        PROVE  FALSE
    <3>1. p = parent[x] /\ p # x /\ j \in Slots /\ x = current
      BY <2>2, KinSlots DEF Due
    <3>2. Known(x)
      BY <2>2, <3>1, NoProcNotAPid DEF Known
    <3>3. state[p] \notin {"WAITING", "READY"}
      BY <1>6, <3>1, <3>2 DEF Wakes, Marks
    <3> QED
      BY <2>2, <3>1, <3>3, HasRun
  <2> QED
    BY <2>1, <2>2, TellMarks
<1> QED
  BY <1>4, <1>5, <1>6

-----------------------------------------------------------------------------
\* A step of a handler that changes no table and no queue.
LEMMA KinHandlerQuiet ==
  ASSUME PInv, Kin, NEW m \in Labels \ Special, At(m), m # "report",
         NEW l \in Labels \ (Special \cup {"register", "copy", "load", "tell", "report"}),
         NEW a \in Pids \cup {-1, 0}, Step(l, a),
         UNCHANGED <<nextPid, current, start, waiting, family, rekilled>>,
         \A p \in Pids :
           state'[p] = state[p] \/ (state[p] = "RUNNING" /\ state'[p] = "WAITING"),
         \A p \in Range(waiting) : contextEax'[p] = contextEax[p]
  PROVE  Kin'
<1>1. AtHand' /\ ~At("report")' /\ NoNewTells /\ ~At("report")
  BY LeftBehind DEF At
<1>2. Range(waiting) \subseteq Pids
  BY AdmittedFacts
<1>3. Steady
  BY <1>2 DEF Steady, Ended
<1> QED
  BY <1>1, <1>3, KinQuiet

\* The activation of kill() tells, if it has somebody to tell.
LEMMA KinTell ==
  ASSUME PInv, Kin, At("tell"), Tell(Top.arg), NEW l \in {"leave", "return"}, Step(l, 0)
  PROVE  Kin'
<1>1. PICK x \in Pids : x = Top.arg
  BY LabelNames, Active
<1>2. /\ Me = current /\ current \in Pids /\ state[current] \in {"RUNNING", "DONE"}
      /\ ~At("report") /\ Len(kstack) \in Places /\ Len(kstack) \in DOMAIN kstack
  <2>1. /\ Me = current /\ current \in Pids
        /\ state[current] \in {"RUNNING", "WAITING", "DONE"} /\ state[current] # "WAITING"
    BY LabelNames, Active
  <2>2. CpuTypes /\ kstack # <<>>
    BY LabelNames, Active DEF PInv, Stacked, Rings
  <2> QED
    BY <2>1, <2>2, TopOfStack DEF At
<1>3. /\ AtHand' /\ ~At("report")' /\ NoNewTells
      /\ \A n \in Places, y \in Pids : Tells(n, y)' => n # Len(kstack)
  <2>1. /\ "tell" \in Labels \ Special /\ 0 \in Pids \cup {-1, 0}
        /\ l \in Labels \ (Special \cup {"register", "copy", "load", "tell", "report"})
    BY LabelNames
  <2> QED
    BY <2>1, LeftBehind
<1>4. /\ NotifyParentComplete(x, state)
      /\ state' = NotifiedStates(x, state) /\ contextEax' = NotifiedEax(x, state)
      /\ UNCHANGED <<nextPid, current, start, waiting, signal, parent, rekilled>>
  BY <1>1 DEF Tell
<1>5. Tells(Len(kstack), x) /\ kstack[Len(kstack)].proc = current
  BY <1>1, <1>2 DEF Tells, Top, At, Me
<1>6. CASE parent[x] \in {NoProc, current}
  <2>1. ~Wakes(x, state) /\ ~Marks(x, state)
    BY <1>2, <1>6 DEF Wakes, Marks, Known
  <2>2. UNCHANGED <<child, childBitmap, childCompleted, state, contextEax>>
    BY <1>4, <2>1 DEF NotifyParentComplete, NotifiedStates, NotifiedEax
  <2>3. Steady
    BY <1>4, <2>2 DEF Steady, Ended
  <2> QED
    BY <1>2, <1>3, <1>4, <2>2, <2>3, KinQuiet DEF family
<1>7. CASE parent[x] \notin {NoProc, current}
  <2>1. Telling(Len(kstack), x)
    BY <1>5, <1>7 DEF Telling
  <2>2. /\ Untold(x) /\ signal[x]
        /\ ~rekilled => \A k \in Places : Telling(k, x) => k = Len(kstack)
    BY <1>2, <1>5, <2>1 DEF Kin, Notices
  <2>3. \A n \in Places : Telling(n, x)' => Telling(n, x) /\ n # Len(kstack)
    BY <1>3, <1>4 DEF Telling, NoNewTells
  <2>4. Due(x)
    BY <1>2, <1>3, <1>4, <2>2, <2>3 DEF Due
  <2> QED
    BY <1>1, <2>4, KinTold
<1> QED
  BY <1>6, <1>7

\* exit() tells.
LEMMA KinReport ==
  ASSUME PInv, Kin, At("report"), Tell(Me), Step("leave", Top.arg)
  PROVE  Kin'
<1>1. Me = current /\ current \in Pids /\ Top.arg \in Pids \cup {-1, 0}
  BY LabelNames, Active
<1>2. AtHand' /\ ~At("report")' /\ NoNewTells
  <2>1. /\ "report" \in Labels \ Special
        /\ "leave" \in Labels \ (Special \cup {"register", "copy", "load", "tell", "report"})
    BY LabelNames
  <2> QED
    BY <1>1, <2>1, LeftBehind
<1>3. PICK x \in Pids : x = current
  BY <1>1
<1>4. UNCHANGED <<nextPid, current, start, waiting, signal, parent, rekilled>>
  BY DEF Tell
<1>5. Untold(x) /\ (~rekilled => \A n \in Places : ~Telling(n, x))
  BY <1>3 DEF Kin, Notices
<1>6. \A n \in Places : Telling(n, x)' => Telling(n, x)
  BY <1>2, <1>4 DEF Telling, NoNewTells
<1>7. Due(x)
  BY <1>2, <1>3, <1>4, <1>5, <1>6 DEF Due
<1> QED
  BY <1>1, <1>3, <1>7, KinTold

LEMMA KinHandler == ASSUME PInv, Kin, HandlerSteps PROVE Kin'
<1> DEFINE Out == Labels \ (Special \cup {"register", "copy", "load", "tell", "report"})
<1> USE LabelNames
<1>1. /\ Range(waiting) \subseteq Pids /\ state \in [Pids -> States]
      /\ contextEax \in [Pids -> Pids \cup {-1, 0}]
      /\ Range(start) \cap Range(waiting) = {}
  BY AdmittedFacts DEF PInv, TypeOK
<1>2. {"return", "leave", "killing", "sleep", "park", "block", "blocked"} \subseteq Out
  OBVIOUS
<1> HIDE DEF Out
<1>3. ASSUME NEW m \in Labels \ Special, At(m), m # "report", NEW l \in Out,
             NEW a \in Pids \cup {-1, 0}, Step(l, a), UNCHANGED vars
      PROVE  Kin'
  <2>1. /\ UNCHANGED <<nextPid, current, start, waiting, family, rekilled>>
        /\ UNCHANGED <<state, contextEax>>
    BY <1>3 DEF vars
  <2> QED
    BY <1>3, <2>1, KinHandlerQuiet DEF Out
<1>4. ASSUME NEW m \in {"sleep", "block"}, At(m), NEW l \in {"park", "blocked"},
             NEW a \in Pids \cup {-1, 0}, Step(l, a), SetState(Me, "WAITING")
      PROVE  Kin'
  <2>1. m \in Labels \ Special /\ m # "report" /\ l \in Out
    BY <1>2
  <2>2. Me = current /\ current \in Pids /\ state[current] = "RUNNING"
    BY <1>4, <2>1, Active
  <2>3. /\ UNCHANGED <<nextPid, current, start, waiting, family, rekilled, contextEax>>
        /\ \A p \in Pids :
             state'[p] = state[p] \/ (state[p] = "RUNNING" /\ state'[p] = "WAITING")
    BY <1>1, <1>4, <2>2 DEF SetState
  <2> QED
    BY <1>4, <2>1, <2>3, KinHandlerQuiet DEF Out
<1>5. CASE ForkSteps
  <2>1. CASE At("fork") /\ Step("return", -1) /\ UNCHANGED vars
    BY <1>2, <1>3, <2>1
  <2>2. CASE At("fork") /\ CreateChild /\ Step("register", nextPid)
    BY <2>2, KinCreate
  <2>3. CASE At("register") /\ NotifyParentCreate(Top.arg) /\ Step("copy", Top.arg)
    BY <2>3, KinRegister
  <2>4. CASE /\ At("copy")
             /\ contextEax' = [contextEax EXCEPT ![Top.arg] = contextEax[Me]]
             /\ Step("return", Top.arg)
             /\ UNCHANGED <<nextPid, all, current, start, ready, waiting, state, family,
                            frameEax, halted, rekilled>>
    <3>1. Top.arg \in Pids /\ Top.arg \in Range(start)
      BY <2>4, Active DEF Kin, AtHand
    <3>2. \A p \in Range(waiting) : contextEax'[p] = contextEax[p]
      BY <1>1, <2>4, <3>1
    <3>3. "copy" \in Labels \ Special /\ "return" \in Out
      BY <1>2
    <3> QED
      BY <2>4, <3>1, <3>2, <3>3, KinHandlerQuiet DEF Out
  <2> QED
    BY <1>5, <2>1, <2>2, <2>3, <2>4 DEF ForkSteps
<1>6. CASE ExecveSteps
  <2>1. CASE At("execve") /\ Step("leave", -1) /\ UNCHANGED vars
    BY <1>2, <1>3, <2>1
  <2>2. CASE At("execve") /\ CreateChild /\ Step("load", nextPid)
    BY <2>2, KinCreate
  <2>3. CASE At("load") /\ NotifyParentCreate(Top.arg) /\ Step("sleep", Top.arg)
    BY <2>3, KinRegister
  <2>4. CASE At("sleep") /\ SetState(Me, "WAITING") /\ Step("park", Top.arg)
    <3>1. Top.arg \in Pids \cup {-1, 0}
      BY <2>4, Active
    <3> QED
      BY <1>4, <2>4, <3>1
  <2> QED
    BY <1>6, <2>1, <2>2, <2>3, <2>4 DEF ExecveSteps
<1>7. CASE WaitSteps
  <2>1. CASE At("wait") /\ Step("return", -1) /\ UNCHANGED vars
    BY <1>2, <1>3, <2>1
  <2>2. CASE At("wait") /\ Reap
    BY <2>2, KinReap
  <2>3. CASE At("wait") /\ Step("block", 0) /\ UNCHANGED vars
    BY <1>2, <1>3, <2>3
  <2>4. CASE At("block") /\ SetState(Me, "WAITING") /\ Step("blocked", 0)
    BY <1>4, <2>4
  <2>5. CASE At("blocked") /\ (Step("park", 0) \/ Step("return", 0)) /\ UNCHANGED vars
    BY <1>2, <1>3, <2>5
  <2> QED
    BY <1>7, <2>1, <2>2, <2>3, <2>4, <2>5 DEF WaitSteps
<1>8. CASE KillSteps
  <2>1. CASE At("kill") /\ Step("return", -1) /\ UNCHANGED vars
    BY <1>2, <1>3, <2>1
  <2>2. CASE At("kill") /\ Step("killing", Top.arg) /\ UNCHANGED vars
    <3>1. Top.arg \in Pids \cup {-1, 0}
      BY <2>2, Active
    <3> QED
      BY <1>2, <1>3, <2>2, <3>1
  <2>3. CASE /\ At("killing")
             /\ signal' = [signal EXCEPT ![Top.arg] = TRUE]
             /\ state' = [state EXCEPT ![Top.arg] = "DONE"]
             /\ rekilled' = (rekilled \/ state[Top.arg] = "DONE")
             /\ Step("tell", Top.arg)
             /\ UNCHANGED <<nextPid, all, current, start, ready, waiting, parent, child,
                            childBitmap, childCompleted, contextEax, frameEax, halted>>
    <3>1. PICK x \in Pids : x = Top.arg
      BY <2>3, Active
    <3> QED
      BY <2>3, <3>1, KinKilling
  <2>4. CASE At("tell") /\ Tell(Top.arg) /\ Step(IF Top.arg = Me THEN "leave" ELSE "return", 0)
    <3>1. Step("leave", 0) \/ Step("return", 0)
      BY <2>4
    <3> QED
      BY <2>4, <3>1, KinTell
  <2> QED
    BY <1>8, <2>1, <2>2, <2>3, <2>4 DEF KillSteps
<1>9. CASE ExitSteps
  BY <1>9, KinExit, KinReport DEF ExitSteps
<1> QED
  BY <1>5, <1>6, <1>7, <1>8, <1>9 DEF HandlerSteps

\* The process that schedule() has popped is not yet the current one.
HandFree == At("hold") => current = NoProc

LEMMA HandIsFree == PInv => HandFree
BY NoneCurrent DEF HandFree

LEMMA HandIsFreeNext == PInv' => HandFree'
BY HandIsFree, PTL

\* A handler that was suspended outside the windows and goes on.
LEMMA OutOfHand ==
  ASSUME PInv', ~Hit(FamilyWindows)', ~halted' => current' # NoProc,
         mode' = "kernel" => Top'.at \in hits'
  PROVE  AtHand' /\ ~At("report")'
<1>1. ~At("hold")'
  BY HandIsFreeNext DEF HandFree, At
<1>2. /\ ~At("register")' /\ ~At("load")' /\ ~At("copy")' /\ ~At("report")'
  BY DEF At, Hit, FamilyWindows
<1> QED
  BY <1>1, <1>2 DEF AtHand

LEMMA KinTimer ==
  ASSUME PInv, PInv', Suspended, Kin, Timer, ~wild', ~Hit(FamilyWindows)'
  PROVE  Kin'
<1>1. /\ Interrupted /\ UNCHANGED <<nextPid, family, rekilled, kstack>>
      /\ Range(start') = {} /\ Range(waiting') \subseteq Range(SavedWaiting(state))
      /\ \A p \in Pids : \/ state'[p] = Admitted[p]
                         \/ Admitted[p] = "READY" /\ state'[p] = "RUNNING"
      /\ \A p \in Pids : p # current => contextEax'[p] = contextEax[p]
      /\ halted' \/ current' \in Pids
  BY TimerFacts
<1>2. /\ \A p \in Pids : Admitted[p] = IF p \in Range(start) \/ state[p] = "RUNNING"
                                         THEN "READY" ELSE state[p]
      /\ Range(SavedWaiting(state)) \subseteq Range(waiting) \cup {current}
      /\ current \in Range(SavedWaiting(state)) => state[current] = "WAITING"
      /\ Range(waiting) \subseteq Pids /\ Range(start) \cap Range(waiting) = {}
      /\ current \notin Range(start)
  BY AdmittedFacts
<1>3. /\ \A p \in Pids : state[p] = "RUNNING" => p = current
      /\ current \notin Range(waiting) /\ current \in Pids \cup {NoProc}
  BY DEF PInv, TypeOK, Placed, Standing, Queued, Fitting
<1>4. Steady
  <2>1. \A p \in Pids : Ended(p) => Ended(p)'
    BY <1>1, <1>2 DEF Ended
  <2>2. \A p \in Pids : state'[p] = "DONE" => state[p] = "DONE"
    BY <1>1, <1>2
  <2>3. \A p \in Pids : state'[p] \in {"NONE", "START"} =>
          state[p] \in {"NONE", "START"} /\ p \notin Range(start)
    BY <1>1, <1>2
  <2>4. ASSUME NEW p \in Range(waiting'), state'[p] = "READY"
        PROVE  p \in Range(waiting) /\ state[p] = "READY" /\ contextEax'[p] = contextEax[p]
    <3>1. p \in Range(SavedWaiting(state))
      BY <1>1, <2>4
    <3>2. CASE p = current
      <4>1. state[p] = "WAITING"
        BY <1>2, <3>1, <3>2
      <4>2. p \in Pids
        <5>1. state[current] = "WAITING" /\ current # NoProc
          BY <1>2, <1>3, <3>1, <3>2, <4>1, NoProcNotAPid DEF SavedWaiting, Saved
        <5> QED
          BY <1>3, <3>2, <5>1
      <4> QED
        BY <1>1, <1>2, <2>4, <3>2, <4>1, <4>2
    <3>3. CASE p # current
      <4>1. p \in Range(waiting) /\ p \in Pids /\ p \notin Range(start) /\ state[p] # "RUNNING"
        BY <1>2, <1>3, <3>1, <3>3
      <4>2. Admitted[p] = "READY"
        BY <1>1, <2>4, <4>1
      <4> QED
        BY <1>1, <1>2, <3>3, <4>1, <4>2
    <3> QED
      BY <3>2, <3>3
  <2> QED
    BY <1>1, <2>1, <2>2, <2>3, <2>4 DEF Steady
<1>5. NoNewTells
  BY <1>1 DEF NoNewTells, Tells
<1>6. mode = "kernel" => Top.at \in hits'
  BY <1>1 DEF Interrupted
<1>7. ~At("report")
  BY <1>6 DEF At, Hit, FamilyWindows
<1>8. mode' = "kernel" => Top'.at \in hits'
  <2>1. mode' = "kernel" => CpuTypes' /\ kstack' # <<>>
    BY DEF PInv, Stacked, Rings
  <2>2. mode' = "kernel" => Len(kstack') \in DOMAIN kstack'
    BY <2>1 DEF CpuTypes
  <2> QED
    BY <1>1, <2>2, AllHit DEF Top
<1>9. AtHand' /\ ~At("report")'
  BY <1>1, <1>8, NoProcNotAPid, OutOfHand
<1> QED
  BY <1>1, <1>4, <1>5, <1>7, <1>9, KinQuiet

LEMMA KinSave ==
  ASSUME PInv, Kin, Save
  PROVE  Kin'
<1>1. /\ CpuTypes /\ kstack # <<>> /\ current \in Pids /\ ~At("report")
      /\ Goto("choose", 0)
      /\ state' = AdmittedStates(state, <<>>) /\ waiting' = SavedWaiting(state)
      /\ contextEax' = SavedEax(contextEax, Top.arg) /\ current' = NoProc
      /\ UNCHANGED <<nextPid, start, family, rekilled>>
  <2>1. PICK m \in {"park", "leave"} : At(m)
    BY DEF Save
  <2>2. m \in Labels \ Special /\ ~At("report")
    BY <2>1, LabelNames DEF At
  <2>3. current \in Pids /\ CpuTypes /\ kstack # <<>>
    BY <2>1, <2>2, Active DEF PInv, Stacked, Rings
  <2>4. current' = NoProc
    BY DEF Save, AfterSave
  <2> QED
    BY <2>2, <2>3, <2>4 DEF Save
<1>2. /\ DOMAIN kstack' = DOMAIN kstack /\ Top'.at = "choose" /\ Len(kstack') = Len(kstack)
      /\ \A n \in DOMAIN kstack : n # Len(kstack) => kstack'[n] = kstack[n]
  BY <1>1, LabelNames, Moving DEF Special
<1>3. AtHand' /\ ~At("report")' /\ NoNewTells
  BY <1>2 DEF AtHand, At, NoNewTells, Tells, Top
<1>4. /\ Range(waiting') \subseteq Range(waiting) \cup {current}
      /\ current \in Range(waiting') => state[current] = "WAITING"
      /\ Range(waiting) \subseteq Pids /\ current \notin Range(waiting)
  BY <1>1, AdmittedFacts
<1>5. /\ \A p \in Pids : p # current => contextEax'[p] = contextEax[p]
      /\ \A p \in Pids : state'[p] = IF p = current /\ state[p] = "RUNNING" THEN "READY"
                                     ELSE state[p]
  <2>1. current # NoProc /\ Range(<<>>) = {}
    BY <1>1, NoProcNotAPid, EmptyFacts
  <2> QED
    BY <1>1, <2>1 DEF SavedEax, AdmittedStates, Saved, PInv, TypeOK
<1>6. Steady
  <2>1. \A p \in Pids : Ended(p) => Ended(p)'
    BY <1>1, <1>5 DEF Ended
  <2>2. \A p \in Range(waiting') : state'[p] = "READY" =>
          p \in Range(waiting) /\ state[p] = "READY" /\ contextEax'[p] = contextEax[p]
    BY <1>4, <1>5, <1>1
  <2> QED
    BY <1>1, <1>5, <2>1, <2>2 DEF Steady
<1> QED
  BY <1>1, <1>3, <1>6, KinQuiet

LEMMA KinChoose ==
  ASSUME PInv, Kin, Choose
  PROVE  Kin'
<1>1. /\ At("choose") /\ current = NoProc /\ start' = <<>> /\ Range(start') = {}
      /\ state' = Admitted /\ Range(waiting') \subseteq Range(waiting)
      /\ UNCHANGED <<nextPid, current, family, contextEax, rekilled>>
      /\ \/ halted' /\ kstack' = kstack
         \/ \E x \in Pids : Admitted[x] = "READY" /\ Goto("hold", x)
  BY ChooseFacts
<1>2. /\ \A p \in Pids : Admitted[p] = IF p \in Range(start) \/ state[p] = "RUNNING"
                                         THEN "READY" ELSE state[p]
      /\ Range(waiting) \subseteq Pids /\ Range(start) \cap Range(waiting) = {}
      /\ \A p \in Pids : state[p] # "RUNNING"
  BY <1>1, AdmittedFacts, NoProcNotAPid DEF PInv, Placed, Fitting
<1>3. Steady
  <2>1. \A p \in Pids : Ended(p) => Ended(p)'
    BY <1>1, <1>2 DEF Ended
  <2>2. \A p \in Range(waiting') : state'[p] = "READY" =>
          p \in Range(waiting) /\ state[p] = "READY" /\ contextEax'[p] = contextEax[p]
    BY <1>1, <1>2
  <2> QED
    BY <1>1, <1>2, <2>1, <2>2 DEF Steady
<1>4. AtHand' /\ ~At("report")' /\ NoNewTells
  <2>1. CASE halted' /\ kstack' = kstack
    BY <2>1 DEF AtHand, At, NoNewTells, Tells
  <2>2. CASE \E x \in Pids : Admitted[x] = "READY" /\ Goto("hold", x)
    <3>1. PICK x \in Pids : Admitted[x] = "READY" /\ Goto("hold", x)
      BY <2>2
    <3>2. CpuTypes /\ kstack # <<>>
      BY <1>1, NoneCurrent
    <3>3. /\ DOMAIN kstack' = DOMAIN kstack /\ Top'.at = "hold" /\ Top'.arg = x
          /\ Len(kstack') = Len(kstack)
          /\ \A n \in DOMAIN kstack : n # Len(kstack) => kstack'[n] = kstack[n]
      BY <3>1, <3>2, LabelNames, Moving DEF Special
    <3> QED
      BY <1>1, <3>1, <3>3 DEF AtHand, At, NoNewTells, Tells, Top
  <2> QED
    BY <1>1, <2>1, <2>2
<1> QED
  BY <1>1, <1>3, <1>4, KinQuiet DEF At

LEMMA KinLoad ==
  ASSUME PInv, Kin, LoadCurrent
  PROVE  Kin'
<1>1. At("hold") /\ CpuTypes /\ kstack # <<>> /\ Len(kstack) \in DOMAIN kstack /\ current = NoProc
  BY NoneCurrent DEF LoadCurrent
<1>2. PICK x \in Pids : x = Top.arg
  BY <1>1 DEF At, Top, PInv, Placed, Arguments
<1>3. start = <<>> /\ Range(start) = {} /\ state[x] = "READY"
  BY <1>1, <1>2, EmptyFacts DEF Kin, AtHand
<1>4. /\ current' = x /\ state' = [state EXCEPT ![x] = "RUNNING"]
      /\ kstack' = [kstack EXCEPT ![Len(kstack)] =
           [Top EXCEPT !.at = "drain", !.eip = resume[x], !.arg = contextEax[x]]]
      /\ UNCHANGED <<nextPid, start, waiting, family, contextEax, rekilled>>
  BY <1>2 DEF LoadCurrent
<1>5. /\ state'[x] = "RUNNING" /\ \A p \in Pids : p # x => state'[p] = state[p]
      /\ Range(waiting) \subseteq Pids
  BY <1>4, AdmittedFacts DEF PInv, TypeOK
<1>6. /\ DOMAIN kstack' = DOMAIN kstack /\ Top'.at = "drain"
      /\ \A n \in DOMAIN kstack : n # Len(kstack) => kstack'[n] = kstack[n]
      /\ kstack'[Len(kstack)].at = "drain"
  <2>1. Top \in Activations /\ Len(kstack') = Len(kstack) /\ DOMAIN kstack' = DOMAIN kstack
    BY <1>1, <1>4 DEF CpuTypes, Top
  <2>2. kstack'[Len(kstack)].at = "drain"
    BY <1>1, <1>4, <2>1 DEF Activations
  <2>3. \A n \in DOMAIN kstack : n # Len(kstack) => kstack'[n] = kstack[n]
    BY <1>4
  <2> QED
    BY <2>1, <2>2, <2>3 DEF Top
<1>7. AtHand' /\ ~At("report")' /\ NoNewTells
  BY <1>6 DEF AtHand, At, NoNewTells, Tells
<1>8. Steady
  <2>1. \A p \in Pids : Ended(p) => Ended(p)'
    BY <1>3, <1>4, <1>5 DEF Ended
  <2>2. \A p \in Range(waiting') : state'[p] = "READY" =>
          p \in Range(waiting) /\ state[p] = "READY" /\ contextEax'[p] = contextEax[p]
    BY <1>4, <1>5
  <2>3. \A p \in Pids : state'[p] \in {"NONE", "START"} =>
          state[p] \in {"NONE", "START"} /\ p \notin Range(start)
    BY <1>3, <1>5
  <2>4. \A p \in Pids : state'[p] = "DONE" => state[p] = "DONE"
    BY <1>5
  <2> QED
    BY <1>3, <1>4, <2>1, <2>2, <2>3, <2>4 DEF Steady
<1> QED
  BY <1>1, <1>4, <1>7, <1>8, KinQuiet DEF At

\* Queues, states and tables stay as they are.
LEMMA KinPlain ==
  ASSUME PInv, Kin, NoNewTells, AtHand', ~At("report"), ~At("report")',
         UNCHANGED <<nextPid, current, start, waiting, state, family, contextEax, rekilled>>
  PROVE  Kin'
<1>1. Steady
  BY DEF Steady, Ended
<1> QED
  BY <1>1, KinQuiet

LEMMA RelativesStep ==
  ASSUME PInv, PInv', Suspended, Relatives, [PNext]_pvars
  PROVE  Relatives'
<1> SUFFICES ASSUME ~wild', ~Hit(FamilyWindows)'
             PROVE  Kin'
  BY DEF Relatives
<1>1. hits \subseteq hits' /\ ~wild
  BY HitsStay
<1>2. Kin
  BY <1>1 DEF Relatives, Hit
<1>3. CpuTypes /\ (mode = "kernel" => kstack # <<>>)
  BY <1>1 DEF PInv, Stacked, Rings
<1>4. CASE Timer
  BY <1>2, <1>4, KinTimer
<1>5. CASE SwitchRing3
  <2>1. /\ UNCHANGED vars /\ mode = "user" /\ mode' = "user" /\ kstack' = <<>>
    BY <1>5 DEF SwitchRing3
  <2>2. NoNewTells
    BY <2>1 DEF NoNewTells, Tells
  <2> QED
    BY <1>2, <2>1, <2>2, KinPlain DEF AtHand, At, vars
<1>6. CASE \E call \in Calls, a \in Pids \cup {-1, 0} : Enter(call, a)
  <2>1. PICK call \in Calls, a \in Pids \cup {-1, 0} : Enter(call, a)
    BY <1>6
  <2>2. PICK x : x = [proc |-> current, ring |-> ring, eip |-> 0, at |-> call, arg |-> a]
    OBVIOUS
  <2>3. /\ InUser /\ mode = "user" /\ ring \in {0, 3}
        /\ Len(EntryStack) < MaxDepth /\ kstack' = Append(EntryStack, x)
        /\ UNCHANGED vars
    BY <1>3, <2>1, <2>2 DEF Enter, CpuTypes
  <2>4. EntryStack = kstack
    BY <1>1, <2>3, InProgram DEF EntryStack
  <2>5. x \in Activations /\ x.at = call
    <3>1. current \in Pids /\ 0 \in -1 .. MaxDepth
      BY <1>1, <2>3, InProgram, PreemptionAssumption
    <3> QED
      BY <2>2, <2>3, <3>1 DEF Activations, Labels
  <2>6. /\ Len(kstack') = Len(kstack) + 1
        /\ DOMAIN kstack' = DOMAIN kstack \cup {Len(kstack) + 1}
        /\ \A n \in DOMAIN kstack : kstack'[n] = kstack[n]
        /\ kstack'[Len(kstack) + 1] = x
    BY <1>3, <2>3, <2>4, <2>5, Pushed
  <2>7. AtHand' /\ ~At("report")' /\ ~At("report")
    BY <2>3, <2>5, <2>6 DEF AtHand, At, Calls, Top
  <2>8. NoNewTells
    BY <2>5, <2>6 DEF NoNewTells, Tells, Calls
  <2> QED
    BY <1>2, <2>3, <2>7, <2>8, KinPlain DEF vars
<1>7. CASE HandlerSteps
  BY <1>2, <1>7, KinHandler
<1>8. CASE Save
  BY <1>2, <1>8, KinSave
<1>9. CASE Choose
  BY <1>2, <1>9, KinChoose
<1>10. CASE LoadCurrent
  BY <1>2, <1>10, KinLoad
<1>11. CASE Drain \/ Return
  <2>1. /\ mode = "kernel" /\ kstack' = Below /\ hits' = hits /\ ~At("report")
        /\ UNCHANGED <<nextPid, current, start, waiting, state, family, contextEax, rekilled>>
        /\ At("drain") \/ mode' = "user"
    BY <1>11 DEF Drain, Return, At, Iret, history
  <2>2. /\ DOMAIN kstack' = DOMAIN kstack \ {Len(kstack)}
        /\ \A n \in DOMAIN kstack' : kstack'[n] = kstack[n]
    BY <1>3, <2>1, Popped
  <2>3. mode' = "kernel" => Top'.at \in hits'
    <3>1. mode' = "kernel" => CpuTypes' /\ kstack' # <<>>
      BY DEF PInv, Stacked, Rings
    <3>2. mode' = "kernel" => Len(kstack') \in DOMAIN kstack'
      BY <3>1 DEF CpuTypes
    <3> QED
      BY <1>1, <2>1, <2>2, <3>2 DEF Suspended, Top
  <2>4. NoNewTells
    BY <2>2 DEF NoNewTells, Tells
  <2>5. AtHand' /\ ~At("report")'
    <3>1. CASE mode' = "user"
      BY <3>1 DEF AtHand, At
    <3>2. CASE At("drain")
      BY <1>1, <2>1, <2>3, <3>2, OutOfHand DEF Suspended
    <3> QED
      BY <2>1, <3>1, <3>2
  <2> QED
    BY <1>2, <2>1, <2>4, <2>5, KinPlain
<1>12. CASE UNCHANGED pvars
  <2>1. /\ UNCHANGED <<nextPid, current, start, waiting, state, contextEax, rekilled,
                       kstack, mode, halted, wild>>
        /\ UNCHANGED <<signal, parent, child, childBitmap, childCompleted>>
    BY <1>12 DEF pvars, vars, cpu, family
  <2> QED
    BY <1>2, <2>1 DEF Kin, Tables, ChildTablesAgree, NotOwn, CompletedEnded, Woken, Answers,
       Newborns, AtHand, Notices, ToBeReported, Tells, Telling, Untold, Unmarked, Ended, At, Top
<1>13. CASE BeyondTable
  <2>1. /\ UNCHANGED <<nextPid, current, start, waiting, state, family, contextEax, rekilled, kstack>>
        /\ halted' /\ ~At("report")
    BY <1>13, BeyondFacts DEF At, Calls, family
  <2>2. AtHand' /\ ~At("report")'
    BY <2>1 DEF AtHand, At
  <2>3. NoNewTells
    BY <2>1 DEF NoNewTells, Tells
  <2> QED
    BY <1>2, <2>1, <2>2, <2>3, KinPlain
<1>14. CASE TimerWithin
  BY <1>14, WithinFacts
<1> QED
  BY <1>4, <1>5, <1>6, <1>7, <1>8, <1>9, <1>10, <1>11, <1>12, <1>13, <1>14, Steps

\* No process has a child after kmain().
LEMMA RelativesInit == PInit => Relatives
<1> SUFFICES ASSUME PInit PROVE Kin
  BY DEF Relatives
<1>1. mode = "user" /\ kstack = <<>> /\ Init /\ PInv
  BY PInitInv DEF PInit
<1>2. Range(waiting) = {} /\ DOMAIN kstack = {} /\ Range(start) \subseteq Pids
  BY <1>1, EmptyFacts, AdmittedFacts DEF Init
<1>3. Tables /\ CompletedEnded /\ Woken /\ ToBeReported
  BY <1>1, <1>2 DEF Init, Tables, ChildTablesAgree, NotOwn, CompletedEnded, Woken, ToBeReported
<1>4. Newborns
  <2>1. \A p \in Pids : state[p] \in {"NONE", "START"} => p >= nextPid \/ p \in Range(start)
    <3> SUFFICES ASSUME NEW p \in Pids, ~(p >= nextPid) PROVE p \in Range(start)
      OBVIOUS
    <3>1. p \in 1 .. BootCount
      BY <1>1, SchedulerAssumption DEF Init, Pids
    <3>2. start[p] = p /\ p \in DOMAIN start
      BY <1>1, <3>1 DEF Init
    <3> QED
      BY <3>2 DEF Range
  <2> QED
    BY <1>1, <2>1 DEF Init, Newborns
<1>5. AtHand /\ Notices
  BY <1>1, <1>2 DEF AtHand, Notices, Telling, Tells, At
<1> QED
  BY <1>3, <1>4, <1>5 DEF Kin

(***************************************************************************)
(* The parent's view of its children survives every interruption between   *)
(* the steps of handlers, outside the windows of fork(), execve() and      *)
(* exit() (syscall.c:178-181, 110-158, 314-316): the tables agree, no end  *)
(* is lost or invented, and a woken process holds its answer.  Of a timer  *)
(* inside a step that sets or clears bit and child[] (syscall.c:42-45,     *)
(* 62-63, 208-211), or inside schedule(), nothing is said.                 *)
(***************************************************************************)
THEOREM RelativesStayInTouch == PSpec => []FamilyKept
<1>1. PInit => Suspended
  <2> SUFFICES ASSUME PInit PROVE Suspended
    OBVIOUS
  <2>1. mode = "user" /\ DOMAIN kstack = {}
    BY EmptyFacts DEF PInit
  <2> QED
    BY <2>1 DEF Suspended, At
<1>2. PInv /\ PInv' /\ Suspended /\ Relatives /\ [PNext]_pvars => Suspended' /\ Relatives'
  BY SuspendedStep, RelativesStep
<1>3. PInv /\ Relatives => FamilyKept
  <2> SUFFICES ASSUME PInv, mode = "user", ~wild, ~Hit(FamilyWindows), Kin
               PROVE  /\ ChildTablesAgree /\ ExitIsReported
                      /\ CompletedChildrenEnded /\ WokenHoldsItsChild
    BY DEF Relatives, FamilyKept, FamilyWindows, Hit
  <2>1. all \subseteq Pids /\ ~At("report")
    BY DEF PInv, TypeOK, At
  <2>2. ExitIsReported
    BY <2>1 DEF ExitIsReported, Kin, ToBeReported, Ended
  <2>3. CompletedChildrenEnded
    BY <2>1 DEF CompletedChildrenEnded, Kin, CompletedEnded, Ended
  <2>4. WokenHoldsItsChild
    BY DEF WokenHoldsItsChild, Kin, Woken, Answers, Ended
  <2> QED
    BY <2>2, <2>3, <2>4 DEF Kin, Tables
<1> QED
  BY <1>1, <1>2, <1>3, RelativesInit, PInvHolds, PTL DEF PSpec
=============================================================================
