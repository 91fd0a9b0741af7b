--------------------------- MODULE SyscallsProofs ----------------------------
(***************************************************************************)
(* Proofs about the scheduler and the system calls, for tables of every    *)
(* size, any number of child slots and any number of processes at boot.    *)
(***************************************************************************)
EXTENDS Syscalls, SequenceTheorems, FiniteSetTheorems, TLAPS

(***************************************************************************)
(* Queues without repetition.  push(): the elements and the new one.       *)
(***************************************************************************)
LEMMA AppendFacts ==
  ASSUME NEW S, NEW s \in Seq(S), NEW e \in S
  PROVE  /\ Append(s, e) \in Seq(S)
         /\ Range(Append(s, e)) = Range(s) \cup {e}
         /\ IsInjective(s) /\ e \notin Range(s) => IsInjective(Append(s, e))
<1> DEFINE t == Append(s, e)
<1>1. /\ t \in Seq(S) /\ Len(t) = Len(s) + 1
      /\ \A i \in 1 .. Len(s) : t[i] = s[i]
      /\ t[Len(s) + 1] = e
      /\ Len(s) \in Nat /\ DOMAIN s = 1 .. Len(s) /\ DOMAIN t = 1 .. Len(s) + 1
  BY AppendProperties, LenProperties
<1>2. Range(t) = Range(s) \cup {e}
  BY <1>1 DEF Range
<1>3. ASSUME IsInjective(s), e \notin Range(s) PROVE IsInjective(t)
  <2> SUFFICES ASSUME NEW a \in DOMAIN t, NEW b \in DOMAIN t, t[a] = t[b]
               PROVE  a = b
    BY DEF IsInjective
  <2>1. \A i \in 1 .. Len(s) : s[i] # e
    BY <1>1, <1>3 DEF Range
  <2>2. \A i, j \in 1 .. Len(s) : s[i] = s[j] => i = j
    BY <1>1, <1>3 DEF IsInjective
  <2> QED BY <1>1, <2>1, <2>2
<1> QED BY <1>1, <1>2, <1>3

(***************************************************************************)
(* Two queues one behind the other.                                        *)
(***************************************************************************)
LEMMA ConcatFacts ==
  ASSUME NEW S, NEW s \in Seq(S), NEW t \in Seq(S)
  PROVE  /\ s \o t \in Seq(S)
         /\ Range(s \o t) = Range(s) \cup Range(t)
         /\ IsInjective(s) /\ IsInjective(t) /\ Range(s) \cap Range(t) = {}
              => IsInjective(s \o t)
<1> DEFINE u == s \o t
<1>1. /\ u \in Seq(S) /\ Len(u) = Len(s) + Len(t)
      /\ \A i \in 1 .. Len(s) + Len(t) :
           u[i] = IF i <= Len(s) THEN s[i] ELSE t[i - Len(s)]
      /\ Len(s) \in Nat /\ Len(t) \in Nat
      /\ DOMAIN s = 1 .. Len(s) /\ DOMAIN t = 1 .. Len(t)
      /\ DOMAIN u = 1 .. Len(s) + Len(t)
  BY ConcatProperties, LenProperties
<1>2. Range(u) = Range(s) \cup Range(t)
  BY RangeConcatenation
<1>3. ASSUME IsInjective(s), IsInjective(t), Range(s) \cap Range(t) = {}
      PROVE  IsInjective(u)
  <2> SUFFICES ASSUME NEW a \in DOMAIN u, NEW b \in DOMAIN u, u[a] = u[b]
               PROVE  a = b
    BY DEF IsInjective
  <2>1. \A i \in 1 .. Len(s), j \in 1 .. Len(t) : s[i] # t[j]
    BY <1>1, <1>3 DEF Range
  <2>2. /\ \A i, j \in 1 .. Len(s) : s[i] = s[j] => i = j
        /\ \A i, j \in 1 .. Len(t) : t[i] = t[j] => i = j
    BY <1>1, <1>3 DEF IsInjective
  <2> QED BY <1>1, <2>1, <2>2
<1> QED BY <1>1, <1>2, <1>3

\* What is left of a sequence behind its first n elements.
LEMMA LengthBehind ==
  ASSUME NEW m \in Nat, NEW n \in 0 .. m
  PROVE  (IF n + 1 <= m THEN m - (n + 1) + 1 ELSE 0) = m - n
OBVIOUS

(***************************************************************************)
(* The first n elements of a queue, and what is behind them.               *)
(***************************************************************************)
LEMMA PrefixFacts ==
  ASSUME NEW S, NEW s \in Seq(S), NEW n \in 0 .. Len(s)
  PROVE  /\ SubSeq(s, 1, n) \in Seq(S) /\ Len(SubSeq(s, 1, n)) = n
         /\ \A i \in 1 .. n : SubSeq(s, 1, n)[i] = s[i]
         /\ Range(SubSeq(s, 1, n)) = {s[i] : i \in 1 .. n}
         /\ IsInjective(s) => IsInjective(SubSeq(s, 1, n))
<1> DEFINE t == SubSeq(s, 1, n)
<1>1. Len(s) \in Nat /\ DOMAIN s = 1 .. Len(s) /\ \A i \in 1 .. Len(s) : s[i] \in S
  BY LenProperties, ElementOfSeq
<1>2. /\ t \in Seq(S) /\ Len(t) = IF 1 <= n THEN n - 1 + 1 ELSE 0
      /\ \A i \in 1 .. n - 1 + 1 : t[i] = s[1 + i - 1]
  <2>1. 1 \in Int /\ n \in Int /\ \A i \in 1 .. n : s[i] \in S
    BY <1>1
  <2> QED BY <2>1, SubSeqProperties
<1>3. /\ Len(t) = n /\ \A i \in 1 .. n : t[i] = s[i]
  BY <1>1, <1>2
<1>4. DOMAIN t = 1 .. n
  BY <1>2, <1>3, LenProperties
<1>5. Range(t) = {s[i] : i \in 1 .. n}
  BY <1>3, <1>4 DEF Range
<1>6. ASSUME IsInjective(s) PROVE IsInjective(t)
  <2>1. \A i, j \in 1 .. Len(s) : s[i] = s[j] => i = j
    BY <1>1, <1>6 DEF IsInjective
  <2>2. \A i, j \in 1 .. n : t[i] = t[j] => i = j
    BY <1>1, <1>3, <2>1
  <2> QED BY <1>4, <2>2 DEF IsInjective
<1> QED BY <1>2, <1>3, <1>5, <1>6

\* What stands behind the first n elements of a sequence stays in order.
LEMMA SuffixFacts ==
  ASSUME NEW S, NEW s \in Seq(S), NEW n \in 0 .. Len(s)
  PROVE  /\ SubSeq(s, n + 1, Len(s)) \in Seq(S)
         /\ Range(SubSeq(s, n + 1, Len(s))) = {s[i] : i \in n + 1 .. Len(s)}
         /\ IsInjective(s) => IsInjective(SubSeq(s, n + 1, Len(s)))
<1> DEFINE t == SubSeq(s, n + 1, Len(s))
<1>1. Len(s) \in Nat /\ DOMAIN s = 1 .. Len(s) /\ \A i \in 1 .. Len(s) : s[i] \in S
  BY LenProperties, ElementOfSeq
<1>2. /\ t \in Seq(S) /\ Len(t) = IF n + 1 <= Len(s) THEN Len(s) - (n + 1) + 1 ELSE 0
      /\ \A i \in 1 .. Len(s) - (n + 1) + 1 : t[i] = s[n + 1 + i - 1]
  <2>1. n + 1 \in Int /\ Len(s) \in Int /\ \A i \in n + 1 .. Len(s) : s[i] \in S
    BY <1>1
  <2> QED BY <2>1, SubSeqProperties
<1> HIDE DEF t
<1>3. /\ Len(t) = Len(s) - n /\ \A i \in 1 .. Len(s) - n : t[i] = s[n + i]
  <2>1. Len(t) = Len(s) - n
    BY <1>1, <1>2, LengthBehind
  <2>2. ASSUME NEW i \in 1 .. Len(s) - n PROVE t[i] = s[n + i]
    <3>1. i \in 1 .. Len(s) - (n + 1) + 1 /\ n + 1 + i - 1 = n + i
      BY <1>1
    <3> QED BY <1>2, <3>1
  <2> QED BY <2>1, <2>2, Zenon
<1>4. DOMAIN t = 1 .. Len(s) - n
  BY <1>2, <1>3, LenProperties
<1>5. Range(t) = {s[i] : i \in n + 1 .. Len(s)}
  <2>1. \A i \in n + 1 .. Len(s) : i - n \in DOMAIN t /\ t[i - n] = s[i]
    BY <1>1, <1>3, <1>4
  <2>2. \A i \in DOMAIN t : n + i \in n + 1 .. Len(s) /\ t[i] = s[n + i]
    BY <1>1, <1>3, <1>4
  <2> QED BY <2>1, <2>2 DEF Range
<1>6. ASSUME IsInjective(s) PROVE IsInjective(t)
  <2>1. \A i, j \in 1 .. Len(s) : s[i] = s[j] => i = j
    BY <1>1, <1>6 DEF IsInjective
  <2>2. \A i, j \in 1 .. Len(s) - n : t[i] = t[j] => i = j
    BY <1>1, <1>3, <2>1
  <2> QED BY <1>4, <2>2 DEF IsInjective
<1> QED BY <1>2, <1>5, <1>6 DEF t

(***************************************************************************)
(* A queue without repetition, cut in two: no element is lost or doubled.  *)
(***************************************************************************)
LEMMA SplitFacts ==
  ASSUME NEW S, NEW s \in Seq(S), NEW n \in 0 .. Len(s), IsInjective(s)
  PROVE  LET front == SubSeq(s, 1, n)
             back  == SubSeq(s, n + 1, Len(s))
         IN  /\ Range(front) \cup Range(back) = Range(s)
             /\ Range(front) \cap Range(back) = {}
<1>1. Len(s) \in Nat /\ DOMAIN s = 1 .. Len(s)
  BY LenProperties
<1>2. Range(s) = {s[i] : i \in 1 .. Len(s)}
  BY <1>1 DEF Range
<1>3. \A i, j \in 1 .. Len(s) : s[i] = s[j] => i = j
  BY <1>1 DEF IsInjective
<1>4. 1 .. Len(s) = (1 .. n) \cup (n + 1 .. Len(s))
  BY <1>1
<1> QED BY <1>1, <1>2, <1>3, <1>4, PrefixFacts, SuffixFacts

(***************************************************************************)
(* Nothing to pick, nothing picked.                                        *)
(***************************************************************************)
LEMMA EmptyFacts ==
  /\ Range(<<>>) = {} /\ IsInjective(<<>>)
  /\ \A S : <<>> \in Seq(S)
<1>1. DOMAIN <<>> = {}
  OBVIOUS
<1> QED BY <1>1 DEF Range, IsInjective

-----------------------------------------------------------------------------
(***************************************************************************)
(* The inductive invariant.  Each part needs the other: schedule() keeps a *)
(* process out of __waiting while it scans __ready only because no process *)
(* in __ready is in state WAITING, and the states fit the queues only      *)
(* because a process stands in one queue.                                  *)
(***************************************************************************)
Inv == TypeOK /\ QueuesPartition /\ StatesMatchQueues

(***************************************************************************)
(* What the callers of schedule() guarantee of the fields they hand over.  *)
(***************************************************************************)
Callable(st, fresh, table, ctx, eax) ==
  /\ st \in [Pids -> States]
  /\ fresh \in Seq(Pids) /\ IsInjective(fresh)
  /\ table \in SUBSET Pids
  /\ ctx \in [Pids -> Pids \cup {-1, 0}]
  /\ eax \in Pids \cup {-1, 0}
  /\ Range(fresh) \cap (Range(ready) \cup Range(waiting) \cup {current}) = {}
  /\ table = Range(fresh) \cup Range(ready) \cup Range(waiting) \cup ({current} \ {NoProc})
  /\ current # NoProc => st[current] \in {"RUNNING", "WAITING", "DONE"}
  /\ \A p \in Pids : st[p] = "RUNNING" => p = current
  /\ \A p \in Range(fresh) : st[p] \in {"START", "DONE"}
  /\ \A p \in Range(ready) : st[p] \in {"READY", "DONE"}
  /\ \A p \in Range(waiting) : st[p] \in {"WAITING", "READY", "DONE"}
  /\ nextPid' \in Nat /\ table \subseteq 1 .. nextPid' - 1
  /\ \A p \in Pids \ table : st[p] = IF p < nextPid' THEN "DONE" ELSE "NONE"

\* The part of TypeOK about the variables schedule() assigns.
ScheduledTypeOK ==
  /\ all \subseteq Pids
  /\ current \in Pids \cup {NoProc}
  /\ start \in Seq(Pids) /\ ready \in Seq(Pids) /\ waiting \in Seq(Pids)
  /\ state \in [Pids -> States]
  /\ contextEax \in [Pids -> Pids \cup {-1, 0}]
  /\ frameEax \in Pids \cup {-1, 0}
  /\ halted \in BOOLEAN

\* What a call of schedule() leaves of these arguments: nothing in __start,
\* the ended as they were unless they stood in __start, no answer overwritten,
\* and nobody loaded who stood behind a ready process.
Settled(st, fresh, ctx) ==
  /\ start' = <<>>
  /\ \A p \in Pids : state'[p] = "DONE" <=> st[p] = "DONE" /\ p \notin Range(fresh)
  /\ \A p \in Range(waiting') : state'[p] = "READY" =>
       p \in Range(waiting) /\ st[p] = "READY" /\ contextEax'[p] = ctx[p]
  /\ \A i \in DOMAIN ready : st[ready[i]] = "READY" =>
       /\ \A j \in DOMAIN ready : i < j => current' # ready[j]
       /\ current' \notin Range(fresh)

\* Picking no positions gives the empty sequence.
LEMMA PickNothing == ASSUME NEW q PROVE Pick(q, {}) = <<>>
<1>1. Cardinality({}) = 0
  BY FS_EmptySet
<1>2. 1 .. 0 = {}
  OBVIOUS
<1> QED BY <1>1, <1>2 DEF Pick

\* A pid below the next one is smaller than it.
LEMMA BelowNext == ASSUME NEW m \in Nat, NEW p \in 1 .. m - 1 PROVE p < m
OBVIOUS

\* The pid before the next one, after kmain().
LEMMA Predecessor == ASSUME NEW b \in Nat, NEW m, m = b + 1 PROVE m - 1 = b
OBVIOUS

\* The next pid is not among those given out.
LEMMA UpToNext ==
  ASSUME NEW m \in Nat
  PROVE  /\ m \notin 1 .. m - 1 /\ ~(m < m)
         /\ \A p \in 1 .. m - 1 : p \in 1 .. m
OBVIOUS

\* The null pointer is not a process.
LEMMA NoProcNotAPid == NoProc \notin Pids
BY SchedulerAssumption DEF NoProc, Pids

(***************************************************************************)
(* schedule() (scheduler.c:83-142) loses no process, doubles none, and     *)
(* leaves every process in a queue that fits its state.                    *)
(***************************************************************************)
LEMMA ScheduleStep ==
  ASSUME TypeOK, QueuesPartition,
         NEW st, NEW fresh, NEW table, NEW ctx, NEW eax,
         Callable(st, fresh, table, ctx, eax),
         Schedule(st, fresh, table, ctx, eax)
  PROVE  /\ ScheduledTypeOK'
         /\ QueuesPartition'
         /\ StatesMatchQueues'
         /\ Settled(st, fresh, ctx)
<1> DEFINE w   == SavedWaiting(st)
           sr  == SavedReady(st)
           st1 == AdmittedStates(st, fresh)
<1> USE NoProcNotAPid
<1>1. /\ w \in Seq(Pids) /\ IsInjective(w)
      /\ Range(w) = Range(waiting) \cup (IF Saved(st, "WAITING") THEN {current} ELSE {})
  <2>1. waiting \in Seq(Pids) /\ IsInjective(waiting) /\ current \notin Range(waiting)
    BY DEF TypeOK, QueuesPartition, Queued
  <2>2. CASE Saved(st, "WAITING")
    <3>1. current \in Pids
      BY <2>2 DEF Saved, TypeOK
    <3> QED BY <2>1, <2>2, <3>1, AppendFacts DEF SavedWaiting
  <2>3. CASE ~Saved(st, "WAITING")
    BY <2>1, <2>3 DEF SavedWaiting
  <2> QED BY <2>2, <2>3
<1>2. /\ sr \in Seq(Pids) /\ IsInjective(sr)
      /\ Range(sr) = Range(ready) \cup (IF Saved(st, "RUNNING") THEN {current} ELSE {})
      /\ \A i \in DOMAIN ready : i \in DOMAIN sr /\ sr[i] = ready[i]
  <2>1. ready \in Seq(Pids) /\ IsInjective(ready) /\ current \notin Range(ready)
    BY DEF TypeOK, QueuesPartition, Queued
  <2>2. CASE Saved(st, "RUNNING")
    <3>1. current \in Pids
      BY <2>2 DEF Saved, TypeOK
    <3>2. \A i \in DOMAIN ready : i \in DOMAIN sr /\ sr[i] = ready[i]
      BY <2>1, <2>2, <3>1 DEF SavedReady
    <3> QED BY <2>1, <2>2, <3>1, <3>2, AppendFacts DEF SavedReady
  <2>3. CASE ~Saved(st, "RUNNING")
    BY <2>1, <2>3 DEF SavedReady
  <2> QED BY <2>2, <2>3
<1>3. /\ st1 \in [Pids -> States]
      /\ \A p \in Range(fresh) : st1[p] = "READY"
      /\ Saved(st, "RUNNING") => st1[current] = "READY"
      /\ ~Saved(st, "RUNNING") /\ current # NoProc => st1[current] = st[current]
      /\ \A p \in Pids \ (Range(fresh) \cup {current}) : st1[p] = st[p]
      /\ \A p \in Pids : st1[p] # "RUNNING"
  <2>1. /\ st \in [Pids -> States] /\ current \in Pids \cup {NoProc}
        /\ Range(fresh) \subseteq Pids /\ current \notin Range(fresh)
        /\ \A p \in Pids : st[p] = "RUNNING" => p = current
    BY RangeOfSeq DEF Callable, TypeOK
  <2> QED BY <2>1 DEF AdmittedStates, Saved, States
<1>4. PICK n \in 0 .. Len(w) :
        LET r    == (sr \o fresh) \o SubSeq(w, 1, n)
            rest == SubSeq(w, n + 1, Len(w))
        IN  /\ ResolvedPrefix(w, st1, n)
            /\ start' = <<>>
            /\ contextEax' = SavedEax(ctx, eax)
            /\ \/ Load(r, rest, st1, SavedEax(ctx, eax), SavedDone(st), table)
               \/ Panic(r, rest, st1, eax, table)
  BY DEF Schedule
<1> DEFINE front == SubSeq(w, 1, n)
           r     == (sr \o fresh) \o front
           rest  == SubSeq(w, n + 1, Len(w))
<1>5. /\ front \in Seq(Pids) /\ IsInjective(front)
      /\ rest \in Seq(Pids) /\ IsInjective(rest)
      /\ Range(front) \cup Range(rest) = Range(w)
      /\ Range(front) \cap Range(rest) = {}
      /\ \A p \in Range(front) : st1[p] = "READY"
  <2>1. \A p \in Range(front) : st1[p] = "READY"
    BY <1>1, <1>4, PrefixFacts DEF ResolvedPrefix
  <2> QED BY <1>1, <2>1, PrefixFacts, SuffixFacts, SplitFacts
<1> HIDE DEF front, rest, w, sr, st1
<1>6. /\ r \in Seq(Pids) /\ IsInjective(r)
      /\ Range(r) = Range(sr) \cup Range(fresh) \cup Range(front)
      /\ Range(r) \cap Range(rest) = {}
  <2>1. fresh \in Seq(Pids) /\ IsInjective(fresh)
    BY DEF Callable
  <2>2. /\ Range(sr) \cap Range(fresh) = {} /\ Range(sr) \cap Range(w) = {}
        /\ Range(fresh) \cap Range(w) = {}
    <3>1. /\ Range(ready) \cap Range(waiting) = {}
          /\ current \notin Range(ready) \cup Range(waiting)
      BY DEF QueuesPartition, Queued
    <3>2. Range(fresh) \cap (Range(ready) \cup Range(waiting) \cup {current}) = {}
      BY DEF Callable
    <3>3. ~(Saved(st, "RUNNING") /\ Saved(st, "WAITING"))
      BY DEF Saved
    <3> QED BY <1>1, <1>2, <3>1, <3>2, <3>3
  <2>3. /\ sr \o fresh \in Seq(Pids) /\ IsInjective(sr \o fresh)
        /\ Range(sr \o fresh) = Range(sr) \cup Range(fresh)
    BY <1>2, <2>1, <2>2, ConcatFacts
  <2> DEFINE t == sr \o fresh
  <2>4. t \in Seq(Pids) /\ IsInjective(t) /\ Range(t) \cap Range(front) = {}
    BY <1>5, <2>2, <2>3
  <2>5. /\ r \in Seq(Pids) /\ IsInjective(r)
        /\ Range(r) = Range(t) \cup Range(front)
    <3> HIDE DEF t
    <3>1. /\ t \o front \in Seq(Pids) /\ IsInjective(t \o front)
          /\ Range(t \o front) = Range(t) \cup Range(front)
      BY <1>5, <2>4, ConcatFacts
    <3> QED BY <3>1 DEF t
  <2> QED BY <1>5, <2>2, <2>3, <2>5
<1>7. Range(r) \cup Range(rest) = table \ SavedDone(st)
  <2>1. /\ table = Range(fresh) \cup Range(ready) \cup Range(waiting) \cup ({current} \ {NoProc})
        /\ current # NoProc => st[current] \in {"RUNNING", "WAITING", "DONE"}
        /\ current \notin Range(fresh) \cup Range(ready) \cup Range(waiting)
    BY DEF Callable, QueuesPartition, Queued
  <2>2. Range(r) \cup Range(rest) = Range(sr) \cup Range(fresh) \cup Range(w)
    BY <1>5, <1>6
  <2> QED BY <1>1, <1>2, <2>1, <2>2 DEF Saved, SavedDone
<1>8. /\ \A p \in Range(r) : st1[p] \in {"READY", "DONE"}
      /\ \A p \in Range(rest) : st1[p] \in {"WAITING", "READY", "DONE"}
  <2>1. /\ \A p \in Range(ready) : st[p] \in {"READY", "DONE"}
        /\ \A p \in Range(waiting) : st[p] \in {"WAITING", "READY", "DONE"}
        /\ Range(fresh) \cap (Range(ready) \cup Range(waiting)) = {}
        /\ current \notin Range(ready) \cup Range(waiting)
        /\ Range(ready) \subseteq Pids /\ Range(waiting) \subseteq Pids
    BY RangeOfSeq DEF Callable, QueuesPartition, Queued, TypeOK
  <2>2. \A p \in Range(sr) : st1[p] \in {"READY", "DONE"}
    BY <1>2, <1>3, <2>1
  <2>3. \A p \in Range(w) : st1[p] \in {"WAITING", "READY", "DONE"}
    BY <1>1, <1>3, <2>1 DEF Saved
  <2> QED BY <1>3, <1>5, <1>6, <2>2, <2>3
<1>9. /\ Len(r) \in Nat /\ DOMAIN r = 1 .. Len(r)
      /\ \A i \in 1 .. Len(r) : r[i] \in Range(r) /\ r[i] \in Pids
  <2>1. Len(r) \in Nat /\ DOMAIN r = 1 .. Len(r)
    BY <1>6, LenProperties
  <2> QED BY <1>6, <2>1, ElementOfSeq DEF Range
<1>10. \A i \in DOMAIN ready : i \in 1 .. Len(r) /\ r[i] = ready[i]
  <2>1. \A i \in DOMAIN sr : i \in DOMAIN (sr \o fresh) /\ (sr \o fresh)[i] = sr[i]
    BY <1>2 DEF Callable
  <2>2. sr \o fresh \in Seq(Pids)
    BY <1>2 DEF Callable
  <2>3. \A i \in DOMAIN (sr \o fresh) : i \in DOMAIN r /\ r[i] = (sr \o fresh)[i]
    BY <1>5, <2>2
  <2> QED BY <1>2, <1>9, <2>1, <2>3
<1> HIDE DEF r
\* Nothing in __ready is WAITING, so nothing moves behind __waiting.
<1>11. ASSUME NEW k \in 1 .. Len(r) + 1
       PROVE  rest \o Pick(r, WaitingIn(r, st1, k)) = rest
  <2>1. \A i \in 1 .. k - 1 : i \in 1 .. Len(r)
    BY <1>9
  <2>2. WaitingIn(r, st1, k) = {}
    BY <1>8, <1>9, <2>1 DEF WaitingIn
  <2> QED BY <1>5, <2>2, PickNothing, ConcatEmptySeq
<1>12. SavedEax(ctx, eax) \in [Pids -> Pids \cup {-1, 0}]
  BY DEF Callable, SavedEax, TypeOK
<1>13. /\ table \subseteq Pids
       /\ nextPid' \in Nat /\ table \subseteq 1 .. nextPid' - 1
       /\ \A p \in Pids \ table : st1[p] = IF p < nextPid' THEN "DONE" ELSE "NONE"
       /\ eax \in Pids \cup {-1, 0}
  <2>1. \A p \in Pids \ table : p \notin Range(fresh) \cup {current}
    BY DEF Callable
  <2> QED BY <1>3, <2>1 DEF Callable
<1>14. \A p \in SavedDone(st) : st1[p] = "DONE" /\ p \in table
  BY <1>3 DEF SavedDone, Saved, Callable
<1>15. start' = <<>> /\ contextEax' \in [Pids -> Pids \cup {-1, 0}]
       /\ Range(start') = {} /\ IsInjective(start') /\ start' \in Seq(Pids)
  BY <1>4, <1>12, EmptyFacts
<1>16. \A p \in Pids : st1[p] = "DONE" <=> st[p] = "DONE" /\ p \notin Range(fresh)
  <2>1. current # NoProc => st[current] \in {"RUNNING", "WAITING", "DONE"} /\ current \notin Range(fresh)
    BY DEF Callable
  <2> QED BY <1>3, <2>1 DEF Saved
<1>17. \A p \in Range(rest) : st1[p] = "READY" =>
         p \in Range(waiting) /\ st[p] = "READY" /\ SavedEax(ctx, eax)[p] = ctx[p]
  <2> SUFFICES ASSUME NEW p \in Range(rest), st1[p] = "READY"
               PROVE  p \in Range(waiting) /\ st[p] = "READY" /\ SavedEax(ctx, eax)[p] = ctx[p]
    OBVIOUS
  <2>1. p \in Pids /\ p \in Range(w)
    BY <1>5, RangeOfSeq
  <2>2. p # current
    <3>1. current \notin Range(waiting)
      BY DEF QueuesPartition, Queued
    <3>2. ~(Saved(st, "WAITING") /\ p = current)
      BY <1>3 DEF Saved
    <3> QED BY <1>1, <2>1, <3>1, <3>2
  <2>3. p \in Range(waiting)
    BY <1>1, <2>1, <2>2
  <2>4. p \notin Range(fresh)
    BY <2>3 DEF Callable
  <2>5. SavedEax(ctx, eax)[p] = ctx[p]
    BY <2>1, <2>2 DEF SavedEax, Callable
  <2> QED BY <1>3, <2>1, <2>2, <2>3, <2>4, <2>5
<1>18. /\ \A i \in DOMAIN ready : ready[i] \in Pids \cap Range(ready)
       /\ Range(ready) \cap Range(fresh) = {} /\ Range(fresh) \subseteq Pids
       /\ \A i \in DOMAIN ready : st1[ready[i]] = st[ready[i]]
  <2>1. /\ ready \in Seq(Pids) /\ current \notin Range(ready)
        /\ Range(ready) \cap Range(fresh) = {} /\ Range(fresh) \subseteq Pids
    BY RangeOfSeq DEF TypeOK, QueuesPartition, Queued, Callable
  <2>2. \A i \in DOMAIN ready : ready[i] \in Pids \cap Range(ready)
    BY <2>1 DEF Range
  <2> QED BY <1>3, <2>1, <2>2
<1>19. CASE Load(r, rest, st1, SavedEax(ctx, eax), SavedDone(st), table)
  <2>1. PICK k \in 1 .. Len(r) :
          /\ st1[r[k]] = "READY"
          /\ \A i \in 1 .. k - 1 : st1[r[i]] # "READY"
          /\ current' = r[k]
          /\ state' = [st1 EXCEPT ![r[k]] = "RUNNING"]
          /\ frameEax' = SavedEax(ctx, eax)[r[k]]
          /\ ready' = SubSeq(r, k + 1, Len(r))
          /\ waiting' = rest \o Pick(r, WaitingIn(r, st1, k))
          /\ all' = table \ (SavedDone(st) \cup DoneIn(r, st1, k))
          /\ halted' = FALSE
    BY <1>19 DEF Load, FirstReady
  <2>2. waiting' = rest
    <3>1. k \in 1 .. Len(r) + 1
      BY <1>9
    <3>2. rest \o Pick(r, WaitingIn(r, st1, k)) = rest
      BY <1>11, <3>1
    <3> QED BY <2>1, <3>2
  <2>3. /\ ready' \in Seq(Pids) /\ IsInjective(ready')
        /\ Range(ready') = {r[i] : i \in k + 1 .. Len(r)}
    BY <1>6, <1>9, <2>1, SuffixFacts
  <2>4. DoneIn(r, st1, k) = {r[i] : i \in 1 .. k - 1}
    <3>1. {h \in 1 .. k - 1 : st1[r[h]] = "DONE"} = 1 .. k - 1
      BY <1>8, <1>9, <2>1
    <3> QED BY <3>1 DEF DoneIn
  <2>5. /\ Range(r) = {r[i] : i \in 1 .. k - 1} \cup {r[k]} \cup {r[i] : i \in k + 1 .. Len(r)}
        /\ r[k] \notin {r[i] : i \in 1 .. k - 1} \cup {r[i] : i \in k + 1 .. Len(r)}
        /\ {r[i] : i \in 1 .. k - 1} \cap {r[i] : i \in k + 1 .. Len(r)} = {}
    <3>1. \A i, j \in 1 .. Len(r) : r[i] = r[j] => i = j
      BY <1>6, <1>9 DEF IsInjective
    <3>2. Range(r) = {r[i] : i \in 1 .. Len(r)}
      BY <1>9 DEF Range
    <3> QED BY <1>9, <3>1, <3>2
  <2>6. current' \in Pids /\ current' \in Range(r)
    BY <1>9, <2>1
  <2>7. all' = Range(ready') \cup Range(rest) \cup {current'}
    BY <1>6, <1>7, <1>14, <2>1, <2>3, <2>4, <2>5
  <2>8. \A p \in table \ all' : st1[p] = "DONE"
    BY <1>7, <1>8, <1>14, <2>1, <2>4, <2>7
  <2>9. ScheduledTypeOK'
    BY <1>3, <1>5, <1>12, <1>13, <1>15, <2>1, <2>2, <2>3, <2>6
       DEF ScheduledTypeOK, States
  <2>10. QueuesPartition'
    <3>1. /\ Range(ready') \cap Range(rest) = {}
          /\ current' \notin Range(ready') \cup Range(rest)
      BY <1>6, <2>1, <2>3, <2>5
    <3> QED BY <1>5, <1>15, <2>2, <2>3, <2>7, <3>1 DEF QueuesPartition, Queued
  <2>11. StatesMatchQueues'
    <3>1. \A p \in Pids : state'[p] = IF p = current' THEN "RUNNING" ELSE st1[p]
      BY <1>3, <2>1
    <3>2. \A p \in Range(ready') : p \in Range(r) /\ p # current' /\ p \in Pids
      BY <1>9, <2>1, <2>3, <2>5
    <3>3. \A p \in Range(rest) : p # current' /\ p \in Pids
      BY <1>5, <1>6, <2>6, RangeOfSeq
    <3>4. \A p \in Pids \ all' : state'[p] = IF p < nextPid' THEN "DONE" ELSE "NONE"
      <4> TAKE p \in Pids \ all'
      <4>1. state'[p] = st1[p]
        BY <2>7, <3>1
      <4>2. CASE p \in table
        <5>1. p \in 1 .. nextPid' - 1 /\ nextPid' \in Nat
          BY <1>13, <4>2
        <5>2. p < nextPid'
          BY <5>1, BelowNext
        <5> QED BY <2>8, <4>1, <4>2, <5>2
      <4>3. CASE p \notin table
        BY <1>13, <4>1, <4>3
      <4> QED BY <4>2, <4>3
    <3>5. all' \subseteq 1 .. nextPid' - 1
      BY <1>13, <2>1
    <3> QED BY <1>3, <1>8, <1>15, <2>2, <3>1, <3>2, <3>3, <3>4, <3>5
            DEF StatesMatchQueues
  <2>12. Settled(st, fresh, ctx)
    <3>1. \A p \in Pids : state'[p] = IF p = r[k] THEN "RUNNING" ELSE st1[p]
      BY <1>3, <2>1
    <3>2. r[k] \in Pids /\ st1[r[k]] = "READY" /\ r[k] \notin Range(rest)
      BY <1>6, <1>9, <2>1
    <3>3. ASSUME NEW i \in DOMAIN ready, st[ready[i]] = "READY"
          PROVE  /\ \A j \in DOMAIN ready : i < j => current' # ready[j]
                 /\ current' \notin Range(fresh)
      <4>1. i \in 1 .. Len(r) /\ st1[r[i]] = "READY" /\ r[i] \in Range(ready)
        BY <1>10, <1>18, <3>3
      <4>2. k \in 1 .. i
        BY <1>9, <2>1, <4>1
      <4>3. \A j \in DOMAIN ready : i < j => r[k] # r[j] /\ r[j] = ready[j]
        BY <1>6, <1>9, <1>10, <2>1, <4>1, <4>2 DEF IsInjective
      <4>4. r[k] \in Range(ready)
        <5>1. k \in DOMAIN ready
          BY <3>3, <4>2 DEF TypeOK
        <5> QED BY <1>10, <1>18, <5>1
      <4> QED BY <1>18, <2>1, <4>3, <4>4
    <3> QED BY <1>4, <1>5, <1>16, <1>17, <2>2, <3>1, <3>2, <3>3, RangeOfSeq DEF Settled
  <2> QED BY <2>9, <2>10, <2>11, <2>12
<1>20. CASE Panic(r, rest, st1, eax, table)
  <2>1. /\ \A i \in 1 .. Len(r) : st1[r[i]] # "READY"
        /\ current' = NoProc /\ state' = st1 /\ frameEax' = eax
        /\ ready' = <<>> /\ waiting' = rest
        /\ all' = table /\ halted' = TRUE
    BY <1>9, <1>11, <1>20 DEF Panic
  <2>2. ScheduledTypeOK'
    BY <1>3, <1>5, <1>13, <1>15, <2>1, EmptyFacts DEF ScheduledTypeOK
  <2>3. \A p \in Range(r) : st1[p] = "DONE"
    BY <1>8, <1>9, <2>1 DEF Range
  <2>4. QueuesPartition'
    <3>1. \A p \in table \ Range(rest) : st1[p] = "DONE"
      BY <1>7, <1>14, <2>3
    <3>2. Range(rest) \subseteq table /\ NoProc \notin Range(rest)
      BY <1>5, <1>7, RangeOfSeq
    <3> QED BY <1>5, <1>15, <2>1, <3>1, <3>2, EmptyFacts DEF QueuesPartition, Queued
  <2>5. StatesMatchQueues'
    BY <1>3, <1>8, <1>13, <1>15, <2>1, EmptyFacts DEF StatesMatchQueues
  <2>6. Settled(st, fresh, ctx)
    BY <1>4, <1>16, <1>17, <1>18, <2>1 DEF Settled
  <2> QED BY <2>2, <2>4, <2>5, <2>6
<1> QED
  <2>1. \/ Load(r, rest, st1, SavedEax(ctx, eax), SavedDone(st), table)
        \/ Panic(r, rest, st1, eax, table)
    BY <1>4 DEF r, rest, front
  <2> QED BY <1>19, <1>20, <2>1

-----------------------------------------------------------------------------
(***************************************************************************)
(* The callers of schedule() that create no process: the timer, the calls  *)
(* that block or end the caller, and the notification of its parent.       *)
(***************************************************************************)
LEMMA CallableWithoutCreate ==
  ASSUME Inv, ~halted, nextPid' = nextPid,
         NEW st \in [Pids -> States],
         \A p \in Pids \ {current} :
           st[p] = state[p] \/ (state[p] = "WAITING" /\ st[p] = "READY"),
         current # NoProc => st[current] \in {"RUNNING", "WAITING", "DONE"},
         NEW ctx \in [Pids -> Pids \cup {-1, 0}],
         NEW eax \in Pids \cup {-1, 0}
  PROVE  Callable(st, start, all, ctx, eax)
<1> USE NoProcNotAPid
<1>1. /\ all = Queued \cup ({current} \ {NoProc})
      /\ current \notin Queued
      /\ Range(start) \cap Range(ready) = {} /\ Range(start) \cap Range(waiting) = {}
      /\ IsInjective(start)
  <2>1. all \subseteq Pids
    BY DEF Inv, TypeOK
  <2> QED BY <2>1 DEF Inv, QueuesPartition
<1>2. /\ start \in Seq(Pids) /\ all \subseteq Pids
      /\ Queued \subseteq Pids /\ nextPid \in Nat
  <2>1. nextPid \in Nat
    BY SchedulerAssumption DEF Inv, TypeOK
  <2> QED BY <2>1, RangeOfSeq DEF Inv, TypeOK, Queued
<1>3. /\ \A p \in Pids : state[p] = "RUNNING" <=> p = current
      /\ \A p \in Range(start) : state[p] \in {"START", "DONE"}
      /\ \A p \in Range(ready) : state[p] \in {"READY", "DONE"}
      /\ \A p \in Range(waiting) : state[p] \in {"WAITING", "READY", "DONE"}
      /\ all \subseteq 1 .. nextPid - 1
      /\ \A p \in Pids \ all : state[p] = IF p < nextPid THEN "DONE" ELSE "NONE"
  BY DEF Inv, StatesMatchQueues
<1>4. \A p \in Pids \ all : st[p] = state[p]
  BY <1>1, <1>3
<1>5. /\ \A p \in Range(start) : st[p] \in {"START", "DONE"}
      /\ \A p \in Range(ready) : st[p] \in {"READY", "DONE"}
      /\ \A p \in Range(waiting) : st[p] \in {"WAITING", "READY", "DONE"}
  BY <1>1, <1>2, <1>3 DEF Queued
<1>6. \A p \in Pids : st[p] = "RUNNING" => p = current
  BY <1>3
<1> QED BY <1>1, <1>2, <1>3, <1>4, <1>5, <1>6 DEF Callable, Queued

\* Inv, from the variables schedule() assigns and the family of a process.
FamilyTypeOK ==
  /\ signal \in [Pids -> BOOLEAN]
  /\ parent \in [Pids -> Pids \cup {NoProc}]
  /\ child \in [Pids -> [Slots -> Pids \cup {NoProc}]]
  /\ childBitmap \in [Pids -> SUBSET Slots]
  /\ childCompleted \in [Pids -> SUBSET Slots]

\* The type invariant, split by who assigns the variables.
LEMMA TypeParts ==
  TypeOK <=> nextPid \in 1 .. TableSize /\ FamilyTypeOK /\ ScheduledTypeOK
BY DEF TypeOK, FamilyTypeOK, ScheduledTypeOK

\* A handler that calls schedule() with what Callable asks for keeps Inv.
LEMMA ScheduleKeepsInv ==
  ASSUME Inv, NEW st, NEW fresh, NEW table, NEW ctx, NEW eax,
         Callable(st, fresh, table, ctx, eax),
         Schedule(st, fresh, table, ctx, eax),
         nextPid' \in 1 .. TableSize, FamilyTypeOK'
  PROVE  Inv'
<1>1. ScheduledTypeOK' /\ QueuesPartition' /\ StatesMatchQueues'
  BY ScheduleStep DEF Inv
<1>2. TypeOK'
  BY <1>1 DEF TypeOK, FamilyTypeOK, ScheduledTypeOK
<1> QED BY <1>1, <1>2 DEF Inv

(***************************************************************************)
(* notify_parent_complete() (syscall.c:35-56) wakes a waiting process or   *)
(* none, and touches no other state.                                       *)
(***************************************************************************)
LEMMA NotifyStep ==
  ASSUME TypeOK, NEW p \in Pids, NEW st \in [Pids -> States],
         NotifyParentComplete(p, st)
  PROVE  /\ child' \in [Pids -> [Slots -> Pids \cup {NoProc}]]
         /\ childBitmap' \in [Pids -> SUBSET Slots]
         /\ childCompleted' \in [Pids -> SUBSET Slots]
         /\ NotifiedStates(p, st) \in [Pids -> States]
         /\ NotifiedEax(p, st) \in [Pids -> Pids \cup {-1, 0}]
         /\ \A q \in Pids :
              \/ NotifiedStates(p, st)[q] = st[q]
              \/ st[q] = "WAITING" /\ NotifiedStates(p, st)[q] = "READY"
<1>1. /\ child \in [Pids -> [Slots -> Pids \cup {NoProc}]]
      /\ childBitmap \in [Pids -> SUBSET Slots]
      /\ childCompleted \in [Pids -> SUBSET Slots]
      /\ contextEax \in [Pids -> Pids \cup {-1, 0}]
      /\ parent \in [Pids -> Pids \cup {NoProc}]
  BY DEF TypeOK
<1>2. Wakes(p, st) => parent[p] \in Pids /\ st[parent[p]] = "WAITING"
  BY <1>1 DEF Wakes, Known
<1>3. CASE Wakes(p, st)
  <2>1. PICK i \in Slots :
          /\ child' = [child EXCEPT ![parent[p]][i] = NoProc]
          /\ childBitmap' = [childBitmap EXCEPT ![parent[p]] = @ \ {i}]
          /\ childCompleted' = childCompleted
    BY <1>3 DEF NotifyParentComplete, Wakes, Marks
  <2> QED BY <1>1, <1>2, <1>3, <2>1 DEF NotifiedStates, NotifiedEax, States
<1>4. CASE ~Wakes(p, st)
  <2>1. \/ \E i \in Slots : childCompleted' = [childCompleted EXCEPT ![parent[p]] = @ \cup {i}]
        \/ childCompleted' = childCompleted
    BY <1>4 DEF NotifyParentComplete
  <2>2. child' = child /\ childBitmap' = childBitmap
    BY <1>4 DEF NotifyParentComplete
  <2> QED BY <1>1, <1>4, <2>1, <2>2 DEF NotifiedStates, NotifiedEax
<1> QED BY <1>3, <1>4

(***************************************************************************)
(* notify_parent_create() (syscall.c:58-67).                               *)
(***************************************************************************)
LEMMA RegisterStep ==
  ASSUME TypeOK, InUser, HasEntry, Register(nextPid)
  PROVE  /\ nextPid \in Pids /\ nextPid' = nextPid + 1
         /\ nextPid' \in 1 .. TableSize
         /\ FamilyTypeOK'
<1>1. nextPid \in Pids /\ nextPid + 1 \in 1 .. TableSize /\ current \in Pids
  BY SchedulerAssumption DEF TypeOK, HasEntry, Pids, InUser
<1>2. PICK i \in Slots :
        /\ nextPid' = nextPid + 1
        /\ parent' = [parent EXCEPT ![nextPid] = current]
        /\ child' = [child EXCEPT ![current][i] = nextPid]
        /\ childBitmap' = [childBitmap EXCEPT ![current] = @ \cup {i}]
        /\ childCompleted' = childCompleted /\ signal' = signal
  BY DEF Register
<1> QED BY <1>1, <1>2 DEF TypeOK, FamilyTypeOK

-----------------------------------------------------------------------------
(***************************************************************************)
(* One lemma per handler: it keeps Inv.                                    *)
(***************************************************************************)
LEMMA InitInv == Init => Inv
<1> SUFFICES ASSUME Init PROVE Inv
  OBVIOUS
<1> USE NoProcNotAPid
<1>1. /\ BootCount \in Nat /\ TableSize \in Nat /\ BootCount + 1 \in 1 .. TableSize
      /\ 1 .. BootCount \subseteq Pids
  BY SchedulerAssumption DEF Pids
<1>2. /\ start \in Seq(Pids) /\ IsInjective(start) /\ Range(start) = 1 .. BootCount
  <2>1. start = [i \in 1 .. BootCount |-> i]
    BY DEF Init
  <2>2. start \in Seq(Pids)
    BY <1>1, <2>1
  <2> QED BY <2>1, <2>2 DEF IsInjective, Range
<1>3. TypeOK
  BY <1>1, <1>2, EmptyFacts DEF Init, TypeOK, States
<1>4. QueuesPartition
  BY <1>1, <1>2, EmptyFacts DEF Init, QueuesPartition, Queued
<1>5. StatesMatchQueues
  <2>1. \A p \in Pids : p \in 1 .. BootCount <=> p <= BootCount
    BY <1>1 DEF Pids
  <2>2. BootCount + 1 - 1 = BootCount /\ \A p \in Pids : p < BootCount + 1 <=> p <= BootCount
    BY <1>1 DEF Pids
  <2>3. /\ all = 1 .. BootCount /\ nextPid = BootCount + 1
        /\ current = NoProc /\ Range(ready) = {} /\ Range(waiting) = {}
        /\ nextPid - 1 = BootCount
    <3>1. ready = <<>> /\ waiting = <<>> /\ nextPid = BootCount + 1
      BY DEF Init
    <3>2. Range(ready) = {} /\ Range(waiting) = {}
      BY <3>1, EmptyFacts
    <3>3. nextPid - 1 = BootCount
      BY <1>1, <3>1, Predecessor
    <3> QED BY <3>1, <3>2, <3>3 DEF Init
  <2>5. \A p \in Pids : state[p] = IF p \in all THEN "START" ELSE "NONE"
    <3> TAKE p \in Pids
    <3>1. state[p] = IF p <= BootCount THEN "START" ELSE "NONE"
      BY DEF Init
    <3> QED BY <2>1, <2>3, <3>1
  <2>4. \A p \in Pids \ all : ~(p < nextPid)
    BY <2>1, <2>2, <2>3
  <2> QED BY <1>1, <1>2, <2>3, <2>4, <2>5 DEF StatesMatchQueues
<1> QED BY <1>3, <1>4, <1>5 DEF Inv

\* What schedule() finds when the running process has not changed state.
LEMMA NothingChanged ==
  ASSUME Inv, ~halted, nextPid' = nextPid, NEW eax \in Pids \cup {-1, 0}
  PROVE  Callable(state, start, all, contextEax, eax)
<1>1. /\ state \in [Pids -> States] /\ contextEax \in [Pids -> Pids \cup {-1, 0}]
      /\ current \in Pids \cup {NoProc}
  BY DEF Inv, TypeOK
<1>2. current # NoProc => state[current] \in {"RUNNING", "WAITING", "DONE"}
  BY <1>1 DEF Inv, StatesMatchQueues
<1> QED BY <1>1, <1>2, CallableWithoutCreate

\* The timer interrupt (pit.c:13) keeps Inv.
LEMMA TickStep == ASSUME Inv, Tick PROVE Inv'
<1>1. /\ ~halted /\ nextPid' = nextPid /\ UNCHANGED family
      /\ Schedule(state, start, all, contextEax, frameEax)
  BY DEF Tick
<1>2. /\ frameEax \in Pids \cup {-1, 0}
      /\ nextPid \in 1 .. TableSize /\ FamilyTypeOK
  BY DEF Inv, TypeOK, FamilyTypeOK
<1>3. Callable(state, start, all, contextEax, frameEax)
  BY <1>1, <1>2, NothingChanged
<1>4. FamilyTypeOK'
  BY <1>1, <1>2 DEF FamilyTypeOK, family
<1> QED BY <1>1, <1>2, <1>3, <1>4, ScheduleKeepsInv

\* The process that makes a call.
LEMMA CallerRuns ==
  ASSUME Inv, InUser
  PROVE  /\ ~halted /\ current \in Pids /\ current # NoProc
         /\ state[current] = "RUNNING" /\ current \in all
BY DEF Inv, InUser, TypeOK, StatesMatchQueues, QueuesPartition

\* An execve() that fails but gives up the processor keeps Inv.
LEMMA ExecveRefusedStep == ASSUME Inv, ExecveRefused PROVE Inv'
<1>1. /\ InUser /\ nextPid' = nextPid /\ UNCHANGED family
      /\ Schedule(state, start, all, contextEax, -1)
  BY DEF ExecveRefused
<1>2. nextPid \in 1 .. TableSize /\ FamilyTypeOK
  BY DEF Inv, TypeOK, FamilyTypeOK
<1>3. Callable(state, start, all, contextEax, -1)
  BY <1>1, CallerRuns, NothingChanged
<1>4. FamilyTypeOK'
  BY <1>1, <1>2 DEF FamilyTypeOK, family
<1> QED BY <1>1, <1>2, <1>3, <1>4, ScheduleKeepsInv

\* What schedule() finds when the caller has put itself to sleep.
LEMMA CallerSleeps ==
  ASSUME Inv, InUser, nextPid' = nextPid
  PROVE  Callable([state EXCEPT ![current] = "WAITING"], start, all, contextEax, 0)
<1> DEFINE st == [state EXCEPT ![current] = "WAITING"]
<1>1. /\ state \in [Pids -> States] /\ contextEax \in [Pids -> Pids \cup {-1, 0}]
  BY DEF Inv, TypeOK
<1>2. /\ st \in [Pids -> States] /\ st[current] = "WAITING"
      /\ \A p \in Pids \ {current} : st[p] = state[p]
  BY <1>1, CallerRuns DEF States
<1> HIDE DEF st
<1>3. Callable(st, start, all, contextEax, 0)
  BY <1>1, <1>2, CallerRuns, CallableWithoutCreate
<1> QED BY <1>3 DEF st

\* A wait() that blocks keeps Inv.
LEMMA WaitBlockStep == ASSUME Inv, WaitBlock PROVE Inv'
<1>1. /\ InUser /\ nextPid' = nextPid /\ UNCHANGED family
      /\ Schedule([state EXCEPT ![current] = "WAITING"], start, all, contextEax, 0)
  BY DEF WaitBlock
<1>2. nextPid \in 1 .. TableSize /\ FamilyTypeOK
  BY DEF Inv, TypeOK, FamilyTypeOK
<1>3. FamilyTypeOK'
  BY <1>1, <1>2 DEF FamilyTypeOK, family
<1> QED BY <1>1, <1>2, <1>3, CallerSleeps, ScheduleKeepsInv

(***************************************************************************)
(* kill() of the caller and exit(): the caller is DONE, its parent told.   *)
(***************************************************************************)
LEMMA EndCallable ==
  ASSUME Inv, InUser, nextPid' = nextPid,
         NotifyParentComplete(current, Killed(current)),
         NEW eax \in Pids \cup {-1, 0}
  PROVE  Callable(NotifiedStates(current, Killed(current)), start, all,
                  NotifiedEax(current, Killed(current)), eax)
<1> DEFINE k   == Killed(current)
           st  == NotifiedStates(current, k)
           ctx == NotifiedEax(current, k)
<1>1. /\ k \in [Pids -> States] /\ k[current] = "DONE" /\ current \in Pids
      /\ \A p \in Pids \ {current} : k[p] = state[p]
  BY CallerRuns DEF Inv, TypeOK, Killed, States
<1> HIDE DEF k
<1>2. /\ st \in [Pids -> States] /\ ctx \in [Pids -> Pids \cup {-1, 0}]
      /\ \A p \in Pids : st[p] = k[p] \/ (k[p] = "WAITING" /\ st[p] = "READY")
  <2>1. NotifyParentComplete(current, k)
    BY DEF k
  <2> QED BY <1>1, <2>1, NotifyStep DEF Inv
<1> HIDE DEF st, ctx
<1>3. /\ st[current] = "DONE"
      /\ \A p \in Pids \ {current} :
           st[p] = state[p] \/ (state[p] = "WAITING" /\ st[p] = "READY")
  BY <1>1, <1>2
<1>4. Callable(st, start, all, ctx, eax)
  BY <1>2, <1>3, CallerRuns, CallableWithoutCreate
<1> QED BY <1>4 DEF st, ctx, k

\* A process that ends itself and is then scheduled away keeps Inv.
LEMMA EndStep ==
  ASSUME Inv, InUser, nextPid' = nextPid, parent' = parent,
         signal' \in [Pids -> BOOLEAN],
         NotifyParentComplete(current, Killed(current)),
         NEW eax \in Pids \cup {-1, 0},
         Schedule(NotifiedStates(current, Killed(current)), start, all,
                  NotifiedEax(current, Killed(current)), eax)
  PROVE  Inv'
<1>1. Killed(current) \in [Pids -> States] /\ current \in Pids
  BY CallerRuns DEF Inv, TypeOK, Killed, States
<1>2. FamilyTypeOK'
  BY <1>1, NotifyStep DEF FamilyTypeOK, Inv, TypeOK
<1>3. nextPid' \in 1 .. TableSize
  BY DEF Inv, TypeOK
<1> QED BY <1>2, <1>3, EndCallable, ScheduleKeepsInv

\* A process that kills itself keeps Inv.
LEMMA KillSelfStep == ASSUME Inv, KillSelf PROVE Inv'
<1>1. /\ InUser /\ nextPid' = nextPid /\ parent' = parent
      /\ signal' = [signal EXCEPT ![current] = TRUE]
      /\ NotifyParentComplete(current, Killed(current))
      /\ Schedule(NotifiedStates(current, Killed(current)), start, all,
                  NotifiedEax(current, Killed(current)), 0)
  BY DEF KillSelf
<1>2. signal' \in [Pids -> BOOLEAN]
  BY <1>1 DEF Inv, TypeOK
<1> QED BY <1>1, <1>2, EndStep

\* exit() keeps Inv.
LEMMA ExitStep == ASSUME Inv, Exit PROVE Inv'
<1>1. /\ InUser /\ nextPid' = nextPid /\ parent' = parent /\ signal' = signal
      /\ NotifyParentComplete(current, Killed(current))
      /\ Schedule(NotifiedStates(current, Killed(current)), start, all,
                  NotifiedEax(current, Killed(current)), frameEax)
  BY DEF Exit
<1>2. signal' \in [Pids -> BOOLEAN] /\ frameEax \in Pids \cup {-1, 0}
  BY <1>1 DEF Inv, TypeOK
<1> QED BY <1>1, <1>2, EndStep

(***************************************************************************)
(* Calls that move no process between queues.                              *)
(***************************************************************************)
queueVars == <<nextPid, all, current, start, ready, waiting, state, contextEax, halted>>

\* A call that leaves queues and states alone keeps Inv.
LEMMA QueuesUnchanged ==
  ASSUME Inv, UNCHANGED queueVars, FamilyTypeOK', frameEax' \in Pids \cup {-1, 0}
  PROVE  Inv'
<1>1. TypeOK'
  BY DEF Inv, TypeOK, FamilyTypeOK, queueVars
<1>2. QueuesPartition'
  BY DEF Inv, QueuesPartition, Queued, queueVars
<1>3. StatesMatchQueues'
  BY DEF Inv, StatesMatchQueues, queueVars
<1> QED BY <1>1, <1>2, <1>3 DEF Inv

\* The calls that return -1 at once keep Inv.
LEMMA RefusedStep ==
  ASSUME Inv, ForkRefused \/ WaitNoChild \/ KillMissing
  PROVE  Inv'
<1>1. UNCHANGED queueVars /\ frameEax' = -1 /\ UNCHANGED family
  BY DEF ForkRefused, WaitNoChild, KillMissing, queueVars
<1>2. FamilyTypeOK'
  BY <1>1 DEF Inv, TypeOK, FamilyTypeOK, family
<1> QED BY <1>1, <1>2, QueuesUnchanged

\* A wait() that finds a completed child keeps Inv.
LEMMA WaitReapStep == ASSUME Inv, WaitReap PROVE Inv'
<1>1. PICK i \in childCompleted[current] :
        /\ frameEax' = child[current][i]
        /\ child' = [child EXCEPT ![current][i] = NoProc]
        /\ childBitmap' = [childBitmap EXCEPT ![current] = @ \ {i}]
        /\ childCompleted' = [childCompleted EXCEPT ![current] = @ \ {i}]
  BY DEF WaitReap
<1>2. UNCHANGED queueVars /\ signal' = signal /\ parent' = parent
  BY DEF WaitReap, queueVars
<1>3. current \in Pids /\ i \in Slots
  BY CallerRuns DEF WaitReap, Inv, TypeOK
<1>4. FamilyTypeOK' /\ frameEax' \in Pids \cup {-1, 0}
  BY <1>1, <1>2, <1>3 DEF Inv, TypeOK, FamilyTypeOK, NoProc
<1> QED BY <1>2, <1>4, QueuesUnchanged

(***************************************************************************)
(* kill() of another process may leave it in any queue: its state is DONE  *)
(* there, and that of its parent READY in __waiting.                       *)
(***************************************************************************)
LEMMA KillOtherStep ==
  ASSUME Inv, NEW p \in Pids, KillOther(p)
  PROVE  Inv'
<1> DEFINE k  == Killed(p)
           st == NotifiedStates(p, k)
<1>1. /\ InUser /\ p \in all /\ p # current
      /\ signal' = [signal EXCEPT ![p] = TRUE]
      /\ NotifyParentComplete(p, k)
      /\ state' = st
      /\ contextEax' = NotifiedEax(p, k)
      /\ frameEax' = 0
      /\ UNCHANGED <<nextPid, all, current, start, ready, waiting, parent, halted>>
  BY DEF KillOther
<1>2. /\ k \in [Pids -> States] /\ k[p] = "DONE"
      /\ \A q \in Pids \ {p} : k[q] = state[q]
  BY DEF Inv, TypeOK, Killed, States
<1> HIDE DEF k
<1>3. /\ child' \in [Pids -> [Slots -> Pids \cup {NoProc}]]
      /\ childBitmap' \in [Pids -> SUBSET Slots]
      /\ childCompleted' \in [Pids -> SUBSET Slots]
      /\ st \in [Pids -> States]
      /\ contextEax' \in [Pids -> Pids \cup {-1, 0}]
      /\ \A q \in Pids : st[q] = k[q] \/ (k[q] = "WAITING" /\ st[q] = "READY")
  BY <1>1, <1>2, NotifyStep DEF Inv
<1> HIDE DEF st
<1>4. /\ st[p] = "DONE"
      /\ \A q \in Pids \ {p} :
           st[q] = state[q] \/ (state[q] = "WAITING" /\ st[q] = "READY")
  BY <1>2, <1>3
<1>5. TypeOK'
  BY <1>1, <1>3 DEF Inv, TypeOK
<1>6. QueuesPartition'
  <2>1. InUser => ~halted
    BY DEF InUser
  <2> QED BY <1>1, <2>1 DEF Inv, QueuesPartition, Queued
<1>7. StatesMatchQueues'
  <2>1. /\ \A q \in Pids : state[q] = "RUNNING" <=> q = current
        /\ \A q \in Range(start) : state[q] \in {"START", "DONE"}
        /\ \A q \in Range(ready) : state[q] \in {"READY", "DONE"}
        /\ \A q \in Range(waiting) : state[q] \in {"WAITING", "READY", "DONE"}
        /\ all \subseteq 1 .. nextPid - 1
        /\ \A q \in Pids \ all : state[q] = IF q < nextPid THEN "DONE" ELSE "NONE"
    BY DEF Inv, StatesMatchQueues
  <2>2. /\ Range(start) \subseteq Pids /\ Range(ready) \subseteq Pids
        /\ Range(waiting) \subseteq Pids
    BY RangeOfSeq DEF Inv, TypeOK
  <2>3. /\ \A q \in Pids : st[q] = "RUNNING" <=> q = current
        /\ \A q \in Range(start) : st[q] \in {"START", "DONE"}
        /\ \A q \in Range(ready) : st[q] \in {"READY", "DONE"}
        /\ \A q \in Range(waiting) : st[q] \in {"WAITING", "READY", "DONE"}
    BY <1>1, <1>4, <2>1, <2>2
  <2>4. \A q \in Pids \ all : st[q] = state[q]
    BY <1>1, <1>4, <2>1
  <2> QED BY <1>1, <2>1, <2>3, <2>4 DEF StatesMatchQueues
<1> QED BY <1>5, <1>6, <1>7 DEF Inv

(***************************************************************************)
(* create(): a pid never used before enters __start.                       *)
(***************************************************************************)
LEMMA NewPidFacts ==
  ASSUME Inv, HasEntry
  PROVE  /\ nextPid \in Pids /\ nextPid \notin all
         /\ nextPid \notin Queued /\ state[nextPid] = "NONE"
         /\ all \cup {nextPid} \subseteq 1 .. nextPid
         /\ \A p \in Pids \ (all \cup {nextPid}) :
              state[p] = IF p < nextPid + 1 THEN "DONE" ELSE "NONE"
<1>1. nextPid \in Pids /\ nextPid \in Nat
  BY SchedulerAssumption DEF Inv, TypeOK, HasEntry, Pids
<1>2. /\ all \subseteq 1 .. nextPid - 1 /\ Queued \subseteq all
      /\ \A p \in Pids \ all : state[p] = IF p < nextPid THEN "DONE" ELSE "NONE"
  BY DEF Inv, StatesMatchQueues, QueuesPartition
<1>3. nextPid \notin 1 .. nextPid - 1 /\ ~(nextPid < nextPid)
      /\ (1 .. nextPid - 1) \cup {nextPid} \subseteq 1 .. nextPid
  <2>1. nextPid \in 1 .. nextPid
    BY <1>1 DEF Pids
  <2> QED BY <1>1, <2>1, UpToNext
<1>4. \A p \in Pids \ {nextPid} : p < nextPid + 1 <=> p < nextPid
  BY <1>1 DEF Pids
<1> QED BY <1>1, <1>2, <1>3, <1>4

\* fork() keeps Inv.
LEMMA ForkStep == ASSUME Inv, Fork PROVE Inv'
<1>1. /\ InUser /\ HasEntry /\ Register(nextPid)
      /\ all' = all \cup {nextPid}
      /\ start' = Append(start, nextPid)
      /\ state' = [state EXCEPT ![nextPid] = "START"]
      /\ contextEax' = [contextEax EXCEPT ![nextPid] = contextEax[current]]
      /\ frameEax' = nextPid
      /\ UNCHANGED <<current, ready, waiting, halted>>
  BY DEF Fork, NewPid
<1>2. /\ nextPid \in Pids /\ nextPid' = nextPid + 1
      /\ nextPid' \in 1 .. TableSize /\ FamilyTypeOK'
  BY <1>1, RegisterStep DEF Inv
<1>3. /\ start' \in Seq(Pids) /\ IsInjective(start')
      /\ Range(start') = Range(start) \cup {nextPid}
  <2>1. start \in Seq(Pids) /\ IsInjective(start) /\ nextPid \notin Range(start)
    BY <1>1, NewPidFacts DEF Inv, TypeOK, QueuesPartition, Queued
  <2> QED BY <1>1, <1>2, <2>1, AppendFacts
<1>4. TypeOK'
  BY <1>1, <1>2, <1>3, CallerRuns DEF Inv, TypeOK, FamilyTypeOK, States
<1>5. QueuesPartition'
  BY <1>1, <1>2, <1>3, NewPidFacts, CallerRuns DEF Inv, QueuesPartition, Queued, InUser
<1>6. StatesMatchQueues'
  <2>1. /\ \A q \in Pids : state[q] = "RUNNING" <=> q = current
        /\ \A q \in Range(start) : state[q] \in {"START", "DONE"}
        /\ \A q \in Range(ready) : state[q] \in {"READY", "DONE"}
        /\ \A q \in Range(waiting) : state[q] \in {"WAITING", "READY", "DONE"}
    BY DEF Inv, StatesMatchQueues
  <2>2. /\ \A q \in Pids : state'[q] = IF q = nextPid THEN "START" ELSE state[q]
        /\ current # nextPid
    BY <1>1, <1>2, NewPidFacts, CallerRuns DEF Inv, TypeOK
  <2>3. Range(start) \cup Range(ready) \cup Range(waiting) \subseteq Pids \ {nextPid}
    BY <1>1, NewPidFacts, RangeOfSeq DEF Queued, Inv, TypeOK
  <2>4. nextPid' - 1 = nextPid
    BY <1>2 DEF Pids
  <2>5. all' \subseteq 1 .. nextPid' - 1
    BY <1>1, <2>4, NewPidFacts
  <2>6. \A p \in Pids \ all' : state'[p] = IF p < nextPid' THEN "DONE" ELSE "NONE"
    BY <1>1, <1>2, <2>2, NewPidFacts
  <2> QED BY <1>1, <1>2, <1>3, <2>1, <2>2, <2>3, <2>5, <2>6 DEF StatesMatchQueues
<1> QED BY <1>4, <1>5, <1>6 DEF Inv

\* What schedule() finds when execve() has created a process and sleeps.
LEMMA CallerAwaitsNew ==
  ASSUME Inv, InUser, HasEntry, Register(nextPid)
  PROVE  Callable([state EXCEPT ![nextPid] = "START", ![current] = "WAITING"],
                  Append(start, nextPid), all \cup {nextPid}, contextEax, nextPid)
<1> DEFINE st    == [state EXCEPT ![nextPid] = "START", ![current] = "WAITING"]
           fresh == Append(start, nextPid)
           table == all \cup {nextPid}
<1>1. InUser /\ HasEntry
  OBVIOUS
<1>2. /\ nextPid \in Pids /\ nextPid' = nextPid + 1
      /\ nextPid' \in 1 .. TableSize /\ FamilyTypeOK'
  BY RegisterStep DEF Inv
<1>3. /\ fresh \in Seq(Pids) /\ IsInjective(fresh)
      /\ Range(fresh) = Range(start) \cup {nextPid}
  <2>1. start \in Seq(Pids) /\ IsInjective(start) /\ nextPid \notin Range(start)
    BY <1>1, NewPidFacts DEF Inv, TypeOK, QueuesPartition, Queued
  <2> QED BY <1>2, <2>1, AppendFacts
<1>4. current \in Pids /\ current # NoProc /\ current # nextPid /\ ~halted
  BY <1>1, NewPidFacts, CallerRuns
<1>5. /\ st \in [Pids -> States]
      /\ \A q \in Pids : st[q] = IF q = current THEN "WAITING"
                                ELSE IF q = nextPid THEN "START" ELSE state[q]
  BY <1>2, <1>4 DEF Inv, TypeOK, States
<1> HIDE DEF st, fresh
<1>6. Callable(st, fresh, table, contextEax, nextPid)
  <2>1. /\ \A q \in Pids : state[q] = "RUNNING" <=> q = current
        /\ \A q \in Range(start) : state[q] \in {"START", "DONE"}
        /\ \A q \in Range(ready) : state[q] \in {"READY", "DONE"}
        /\ \A q \in Range(waiting) : state[q] \in {"WAITING", "READY", "DONE"}
    BY DEF Inv, StatesMatchQueues
  <2>2. /\ Queued \subseteq Pids \ {nextPid, current}
        /\ Range(start) \cap Range(ready) = {} /\ Range(start) \cap Range(waiting) = {}
    BY <1>1, NewPidFacts, RangeOfSeq DEF Queued, Inv, TypeOK, QueuesPartition
  <2>3. all = Queued \cup {current}
    BY <1>1, <1>4, CallerRuns DEF Inv, QueuesPartition
  <2>4. /\ table \in SUBSET Pids
        /\ table = Range(fresh) \cup Range(ready) \cup Range(waiting) \cup ({current} \ {NoProc})
        /\ Range(fresh) \cap (Range(ready) \cup Range(waiting) \cup {current}) = {}
    BY <1>2, <1>3, <1>4, <2>2, <2>3 DEF Queued
  <2>5. /\ \A q \in Range(fresh) : st[q] \in {"START", "DONE"}
        /\ \A q \in Range(ready) : st[q] \in {"READY", "DONE"}
        /\ \A q \in Range(waiting) : st[q] \in {"WAITING", "READY", "DONE"}
        /\ \A q \in Pids : st[q] # "RUNNING"
    BY <1>2, <1>3, <1>4, <1>5, <2>1, <2>2 DEF Queued
  <2>6. nextPid' \in Nat /\ nextPid' - 1 = nextPid
    BY <1>2 DEF Pids
  <2>7. table \subseteq 1 .. nextPid' - 1
    BY <1>1, <2>6, NewPidFacts
  <2>8. \A q \in Pids \ table : st[q] = IF q < nextPid' THEN "DONE" ELSE "NONE"
    BY <1>1, <1>2, <1>5, <2>3, NewPidFacts
  <2> QED BY <1>2, <1>3, <1>4, <1>5, <2>4, <2>5, <2>6, <2>7, <2>8
          DEF Callable, Inv, TypeOK
<1> QED BY <1>6 DEF st, fresh

\* An execve() that starts a program keeps Inv.
LEMMA ExecveStep == ASSUME Inv, Execve PROVE Inv'
<1>1. /\ InUser /\ HasEntry /\ Register(nextPid)
      /\ Schedule([state EXCEPT ![nextPid] = "START", ![current] = "WAITING"],
                  Append(start, nextPid), all \cup {nextPid}, contextEax, nextPid)
  BY DEF Execve, NewPid
<1>2. nextPid' \in 1 .. TableSize /\ FamilyTypeOK'
  BY <1>1, RegisterStep DEF Inv
<1> QED BY <1>1, <1>2, CallerAwaitsNew, ScheduleKeepsInv

\* A step that changes nothing keeps Inv.
LEMMA StutterStep == ASSUME Inv, UNCHANGED vars PROVE Inv'
<1>1. FamilyTypeOK' /\ frameEax' \in Pids \cup {-1, 0}
  BY DEF vars, family, Inv, TypeOK, FamilyTypeOK
<1> QED BY <1>1, QueuesUnchanged DEF vars, queueVars

\* What ends a behaviour changes nothing else, and keeps Inv.
LEMMA HaltStep == ASSUME Inv, Exception \/ CreateBeyond \/ KillBeyond PROVE Inv'
<1>1. /\ halted' = TRUE
      /\ UNCHANGED <<nextPid, all, current, start, ready, waiting, state, family,
                     contextEax, frameEax>>
  BY DEF Exception, CreateBeyond, KillBeyond, Halt
<1>2. TypeOK'
  BY <1>1 DEF Inv, TypeOK, family
<1>3. QueuesPartition'
  BY <1>1, Zenon DEF Inv, QueuesPartition, Queued
<1>4. StatesMatchQueues'
  BY <1>1 DEF Inv, StatesMatchQueues
<1> QED BY <1>2, <1>3, <1>4 DEF Inv

\* Inv is inductive: every step of the kernel keeps it.
LEMMA NextInv == Inv /\ [Next]_vars => Inv'
<1> SUFFICES ASSUME Inv, [Next]_vars PROVE Inv'
  OBVIOUS
<1>1. CASE Tick                       BY <1>1, TickStep
<1>2. CASE ForkRefused                BY <1>2, RefusedStep
<1>3. CASE Fork                       BY <1>3, ForkStep
<1>4. CASE ExecveRefused              BY <1>4, ExecveRefusedStep
<1>5. CASE Execve                     BY <1>5, ExecveStep
<1>6. CASE WaitNoChild                BY <1>6, RefusedStep
<1>7. CASE WaitBlock                  BY <1>7, WaitBlockStep
<1>8. CASE WaitReap                   BY <1>8, WaitReapStep
<1>9. CASE KillMissing                BY <1>9, RefusedStep
<1>10. CASE KillSelf                  BY <1>10, KillSelfStep
<1>11. CASE \E p \in Pids : KillOther(p) BY <1>11, KillOtherStep
<1>12. CASE Exit                      BY <1>12, ExitStep
<1>13. CASE Exception \/ CreateBeyond \/ KillBeyond
  BY <1>13, HaltStep
<1>14. CASE UNCHANGED vars            BY <1>14, StutterStep
<1> QED BY <1>1, <1>2, <1>3, <1>4, <1>5, <1>6, <1>7, <1>8, <1>9, <1>10, <1>11,
           <1>12, <1>13, <1>14 DEF Next

-----------------------------------------------------------------------------
\* Inv holds in every state of every behaviour.
THEOREM InvHolds == Spec => []Inv
<1> QED BY InitInv, NextInv, PTL DEF Spec

(***************************************************************************)
(* The fields of every PCB and every queue keep their type: no pid leaves  *)
(* the table, no slot index leaves child[].                                *)
(***************************************************************************)
THEOREM TypeCorrect == Spec => []TypeOK
<1>1. Inv => TypeOK
  BY DEF Inv
<1> QED BY <1>1, InvHolds, PTL

(***************************************************************************)
(* schedule() and the calls lose no process and queue none twice.          *)
(***************************************************************************)
THEOREM NoProcessLost == Spec => []QueuesPartition
<1>1. Inv => QueuesPartition
  BY DEF Inv
<1> QED BY <1>1, InvHolds, PTL

(***************************************************************************)
(* The branches marked "unreachable?" in scheduler.c are never taken.      *)
(***************************************************************************)
THEOREM StatesFitQueues == Spec => []StatesMatchQueues
<1>1. Inv => StatesMatchQueues
  BY DEF Inv
<1> QED BY <1>1, InvHolds, PTL

-----------------------------------------------------------------------------
\* What NoOvertaking says of one step.
InTurn ==
  \A i \in DOMAIN ready : state[ready[i]] = "READY" =>
    /\ \A j \in DOMAIN ready : i < j => current' # ready[j]
    /\ current' \notin Range(start)

\* A ready process of __ready is neither the caller nor a new one.
LEMMA ReadyStand ==
  ASSUME Inv, NEW i \in DOMAIN ready
  PROVE  ready[i] \in Pids /\ ready[i] # current /\ ready[i] \in Queued
<1>1. ready \in Seq(Pids) /\ current \notin Queued
  BY DEF Inv, TypeOK, QueuesPartition
<1>2. ready[i] \in Range(ready) /\ ready[i] \in Pids
  BY <1>1 DEF Range
<1> QED BY <1>1, <1>2 DEF Queued

\* schedule() serves in turn whoever its caller has not changed.
LEMMA SettledInTurn ==
  ASSUME Inv, NEW st, NEW fresh, NEW ctx, Settled(st, fresh, ctx),
         Range(start) \subseteq Range(fresh),
         \A i \in DOMAIN ready : state[ready[i]] = "READY" => st[ready[i]] = "READY"
  PROVE  InTurn
BY DEF Settled, InTurn

\* The timer and the calls that block the caller.
LEMMA BlockedInTurn == ASSUME Inv, Tick \/ ExecveRefused \/ WaitBlock PROVE InTurn
<1>1. nextPid' = nextPid /\ ~halted
  BY DEF Tick, ExecveRefused, WaitBlock, InUser
<1>2. CASE Tick \/ ExecveRefused
  <2>1. PICK eax \in Pids \cup {-1, 0} : Schedule(state, start, all, contextEax, eax)
    BY <1>2 DEF Tick, ExecveRefused, Inv, TypeOK
  <2>2. Settled(state, start, contextEax)
    BY <1>1, <2>1, NothingChanged, ScheduleStep DEF Inv
  <2> QED BY <2>2, SettledInTurn
<1>3. CASE WaitBlock
  <2> DEFINE st == [state EXCEPT ![current] = "WAITING"]
  <2>1. InUser /\ Schedule(st, start, all, contextEax, 0)
    BY <1>3 DEF WaitBlock
  <2>2. Settled(st, start, contextEax)
    BY <1>1, <2>1, CallerSleeps, ScheduleStep DEF Inv
  <2>3. \A i \in DOMAIN ready : st[ready[i]] = state[ready[i]]
    BY ReadyStand DEF Inv, TypeOK
  <2> HIDE DEF st
  <2> QED BY <2>2, <2>3, SettledInTurn
<1> QED BY <1>2, <1>3

\* execve() of a program.
LEMMA ExecveInTurn == ASSUME Inv, Execve PROVE InTurn
<1> DEFINE st    == [state EXCEPT ![nextPid] = "START", ![current] = "WAITING"]
           fresh == Append(start, nextPid)
<1>1. /\ InUser /\ HasEntry /\ Register(nextPid)
      /\ Schedule(st, fresh, all \cup {nextPid}, contextEax, nextPid)
  BY DEF Execve, NewPid
<1>2. Settled(st, fresh, contextEax)
  BY <1>1, CallerAwaitsNew, ScheduleStep DEF Inv
<1>3. nextPid \in Pids /\ nextPid \notin Queued /\ start \in Seq(Pids)
  BY <1>1, NewPidFacts DEF Inv, TypeOK
<1>4. Range(start) \subseteq Range(fresh)
  BY <1>3, AppendFacts
<1>5. \A i \in DOMAIN ready : st[ready[i]] = state[ready[i]]
  BY <1>3, ReadyStand DEF Inv, TypeOK
<1> HIDE DEF st, fresh
<1> QED BY <1>2, <1>4, <1>5, SettledInTurn

\* kill() of the caller and exit().
LEMMA EndInTurn == ASSUME Inv, KillSelf \/ Exit PROVE InTurn
<1> DEFINE k  == Killed(current)
           st == NotifiedStates(current, k)
<1>1. /\ InUser /\ nextPid' = nextPid /\ NotifyParentComplete(current, k)
      /\ \E eax \in Pids \cup {-1, 0} :
           Schedule(st, start, all, NotifiedEax(current, k), eax)
  BY DEF KillSelf, Exit, Inv, TypeOK
<1>2. Settled(st, start, NotifiedEax(current, k))
  BY <1>1, EndCallable, ScheduleStep DEF Inv
<1>3. /\ k \in [Pids -> States] /\ current \in Pids
      /\ \A p \in Pids \ {current} : k[p] = state[p]
  BY <1>1, CallerRuns DEF Inv, TypeOK, Killed, States
<1> HIDE DEF k
<1>4. \A p \in Pids : st[p] = k[p] \/ (k[p] = "WAITING" /\ st[p] = "READY")
  BY <1>1, <1>3, NotifyStep DEF Inv
<1> HIDE DEF st
<1>5. \A i \in DOMAIN ready : state[ready[i]] = "READY" => st[ready[i]] = "READY"
  BY <1>3, <1>4, ReadyStand
<1> QED BY <1>2, <1>5, SettledInTurn

(***************************************************************************)
(* Nobody is loaded in front of a ready process that stood before him      *)
(* (scheduler.c:104-131), whatever call schedule() ends.                   *)
(***************************************************************************)
THEOREM ServedInTurn == Spec => NoOvertaking
<1>1. Inv /\ Next => InTurn \/ current' = current
  BY BlockedInTurn, ExecveInTurn, EndInTurn
     DEF Next, ForkRefused, Fork, NewPid, WaitNoChild, WaitReap, KillMissing, KillOther,
         Exception, CreateBeyond, KillBeyond, Halt
<1>2. Inv /\ current' = current => InTurn
  <2> SUFFICES ASSUME Inv, current' = current PROVE InTurn
    OBVIOUS
  <2>1. current \notin Range(start)
    BY DEF Inv, QueuesPartition, Queued
  <2> QED BY <2>1, ReadyStand DEF InTurn
<1>3. Inv /\ [Next]_vars =>
        [\A i \in DOMAIN ready : state[ready[i]] = "READY" =>
           /\ \A j \in DOMAIN ready : i < j => current' # ready[j]
           /\ current' \notin Range(start)]_vars
  BY <1>1, <1>2 DEF InTurn
<1> QED BY <1>3, InvHolds, PTL DEF Spec, NoOvertaking

-----------------------------------------------------------------------------
(***************************************************************************)
(* Parents and children find each other: the tables of the children agree, *)
(* the end of a child is neither lost nor invented, and an ended process   *)
(* stays so.  kill() may end a process that was never admitted, and        *)
(* schedule() then revives it, so the invariant is about an end that lasts.*)
(***************************************************************************)
Ended(p) == state[p] = "DONE" /\ p \notin Range(start)

\* A process in __start is a child of the current one or of none, and has no
\* child, just as the pids not given out yet.
Newborn ==
  /\ \A p \in Range(start) : parent[p] \in {NoProc, current}
  /\ \A p \in Pids : p \in Range(start) \/ p >= nextPid => childBitmap[p] = {}

NotOwn == \A p \in Pids : \A i \in childBitmap[p] : child[p][i] # p

CompletedEnded ==
  ~rekilled => \A p \in Pids : \A i \in childCompleted[p] : Ended(child[p][i])

\* c is what a process p that is woken has been waiting for.
Answers(p, c) == c \in Pids /\ parent[c] = p /\ c \notin Range(child[p]) /\ Ended(c)

Woken == \A p \in Range(waiting) : state[p] = "READY" => Answers(p, contextEax[p])

Reported ==
  \A p \in Pids : ~Ended(p) => \A i \in childBitmap[p] :
    state[child[p][i]] = "DONE" /\ ~signal[child[p][i]] => i \in childCompleted[p]

Tables == ChildTablesAgree /\ NotOwn
Family == Tables /\ Newborn /\ CompletedEnded /\ Woken /\ Reported

(***************************************************************************)
(* What a step does to queues and states if X are the processes it ends    *)
(* and N those it creates: an end lasts, no other process ends, __start is *)
(* emptied or grows by N, and a process is woken only by the end of its    *)
(* child.                                                                  *)
(***************************************************************************)
Moved(X, N) ==
  /\ \A p \in Pids : Ended(p) \/ (p \in X /\ p \notin Range(start)) => Ended(p)'
  /\ \A p \in Pids : state'[p] = "DONE" => state[p] = "DONE" \/ p \in X
  /\ \/ Range(start') = {}
     \/ current' = current /\ Range(start') = Range(start) \cup N
  /\ \A p \in Range(waiting') : state'[p] = "READY" =>
       /\ p \in Range(waiting)
       /\ \/ state[p] = "READY" /\ contextEax'[p] = contextEax[p]
          \/ \E x \in X : /\ Wakes(x, Killed(x)) /\ p = parent[x]
                          /\ contextEax'[p] = x

-----------------------------------------------------------------------------
(***************************************************************************)
(* One lemma for each way the steps change queues and states.              *)
(***************************************************************************)
\* A call of schedule() for a caller that ends nobody and wakes nobody.
LEMMA MovedBySchedule ==
  ASSUME Inv, NEW st, NEW fresh, NEW N, Settled(st, fresh, contextEax),
         \A p \in Pids : st[p] = "DONE" <=> state[p] = "DONE",
         \A p \in Range(waiting) : st[p] = state[p],
         \A p \in Pids : state[p] = "DONE" => (p \in Range(fresh) <=> p \in Range(start))
  PROVE  Moved({}, N)
<1>1. start' = <<>> /\ Range(start') = {}
  BY EmptyFacts DEF Settled
<1> QED BY <1>1 DEF Moved, Settled, Ended

\* The caller ends itself, its parent is told, another process is loaded.
LEMMA MovedByEnd ==
  ASSUME Inv, InUser,
         LET k == Killed(current)
         IN  Settled(NotifiedStates(current, k), start, NotifiedEax(current, k))
  PROVE  Moved({current}, {})
<1> DEFINE k   == Killed(current)
           st  == NotifiedStates(current, k)
           ctx == NotifiedEax(current, k)
<1>1. current \in Pids /\ current \notin Range(start) /\ current \notin Range(waiting)
      /\ Range(waiting) \subseteq Pids
  BY CallerRuns, RangeOfSeq DEF Inv, QueuesPartition, Queued, TypeOK
<1>2. /\ k \in [Pids -> States] /\ k[current] = "DONE"
      /\ \A p \in Pids \ {current} : k[p] = state[p]
  BY <1>1 DEF Inv, TypeOK, Killed, States
<1>3. /\ contextEax \in [Pids -> Pids \cup {-1, 0}]
      /\ parent \in [Pids -> Pids \cup {NoProc}]
  BY DEF Inv, TypeOK
<1>4. Wakes(current, k) => parent[current] \in Pids /\ k[parent[current]] = "WAITING"
  BY <1>1, <1>3 DEF Wakes, Known
<1>5. Settled(st, start, ctx)
  OBVIOUS
<1> HIDE DEF k
<1>6. \A p \in Pids : st[p] = IF Wakes(current, k) /\ p = parent[current] THEN "READY" ELSE k[p]
  BY <1>2, <1>4 DEF NotifiedStates
<1>7. \A p \in Pids : ctx[p] = IF Wakes(current, k) /\ p = parent[current]
                               THEN current ELSE contextEax[p]
  BY <1>3, <1>4 DEF NotifiedEax
<1> HIDE DEF st, ctx
<1>8. start' = <<>> /\ Range(start') = {}
  BY <1>5, EmptyFacts DEF Settled
<1>9. \A p \in Pids : Ended(p) \/ (p \in {current} /\ p \notin Range(start)) => Ended(p)'
  <2>1. \A p \in Pids : Ended(p) \/ p = current => st[p] = "DONE" /\ p \notin Range(start)
    BY <1>1, <1>2, <1>4, <1>6 DEF Ended
  <2> QED BY <1>5, <1>8, <2>1 DEF Settled, Ended
<1>10. \A p \in Pids : state'[p] = "DONE" => state[p] = "DONE" \/ p \in {current}
  <2>1. \A p \in Pids : st[p] = "DONE" => state[p] = "DONE" \/ p = current
    BY <1>2, <1>6
  <2> QED BY <1>5, <2>1 DEF Settled
<1>11. ASSUME NEW p \in Range(waiting'), state'[p] = "READY"
       PROVE  /\ p \in Range(waiting)
              /\ \/ state[p] = "READY" /\ contextEax'[p] = contextEax[p]
                 \/ \E x \in {current} : /\ Wakes(x, Killed(x)) /\ p = parent[x]
                                         /\ contextEax'[p] = x
  <2>1. p \in Range(waiting) /\ st[p] = "READY" /\ contextEax'[p] = ctx[p] /\ p \in Pids
    BY <1>1, <1>5, <1>11 DEF Settled
  <2>2. CASE Wakes(current, k) /\ p = parent[current]
    BY <1>7, <2>1, <2>2 DEF k
  <2>3. CASE ~(Wakes(current, k) /\ p = parent[current])
    BY <1>1, <1>2, <1>6, <1>7, <2>1, <2>3
  <2> QED BY <2>1, <2>2, <2>3
<1> QED BY <1>8, <1>9, <1>10, <1>11 DEF Moved

\* kill() of another process: its state, and perhaps that of its parent.
LEMMA MovedByKill ==
  ASSUME Inv, NEW x \in Pids, KillOther(x)
  PROVE  Moved({x}, {})
<1> DEFINE k == Killed(x)
<1>1. /\ state' = NotifiedStates(x, k) /\ contextEax' = NotifiedEax(x, k)
      /\ UNCHANGED <<current, start, waiting>>
  BY DEF KillOther
<1>2. /\ k \in [Pids -> States] /\ k[x] = "DONE"
      /\ \A p \in Pids \ {x} : k[p] = state[p]
  BY DEF Inv, TypeOK, Killed, States
<1>3. /\ contextEax \in [Pids -> Pids \cup {-1, 0}]
      /\ parent \in [Pids -> Pids \cup {NoProc}]
      /\ Range(waiting) \subseteq Pids
  BY RangeOfSeq DEF Inv, TypeOK
<1>4. Wakes(x, k) => parent[x] \in Pids /\ k[parent[x]] = "WAITING"
  BY <1>3 DEF Wakes, Known
<1> HIDE DEF k
<1>5. \A p \in Pids : state'[p] = IF Wakes(x, k) /\ p = parent[x] THEN "READY" ELSE k[p]
  BY <1>1, <1>2, <1>4 DEF NotifiedStates
<1>6. \A p \in Pids : contextEax'[p] = IF Wakes(x, k) /\ p = parent[x] THEN x ELSE contextEax[p]
  BY <1>1, <1>3, <1>4 DEF NotifiedEax
<1>7. \A p \in Pids : Ended(p) \/ (p \in {x} /\ p \notin Range(start)) => Ended(p)'
  BY <1>1, <1>2, <1>4, <1>5 DEF Ended
<1>8. \A p \in Pids : state'[p] = "DONE" => state[p] = "DONE" \/ p \in {x}
  BY <1>2, <1>5
<1>9. ASSUME NEW p \in Range(waiting'), state'[p] = "READY"
      PROVE  /\ p \in Range(waiting)
             /\ \/ state[p] = "READY" /\ contextEax'[p] = contextEax[p]
                \/ \E y \in {x} : /\ Wakes(y, Killed(y)) /\ p = parent[y]
                                  /\ contextEax'[p] = y
  <2>1. p \in Range(waiting) /\ p \in Pids
    BY <1>1, <1>3
  <2>2. CASE Wakes(x, k) /\ p = parent[x]
    BY <1>6, <2>1, <2>2 DEF k
  <2>3. CASE ~(Wakes(x, k) /\ p = parent[x])
    BY <1>2, <1>5, <1>6, <1>9, <2>1, <2>3
  <2> QED BY <2>1, <2>2, <2>3
<1> QED BY <1>1, <1>7, <1>8, <1>9 DEF Moved

\* fork(): a new process enters __start.
LEMMA MovedByFork == ASSUME Inv, Fork PROVE Moved({}, {nextPid})
<1>1. /\ HasEntry /\ start' = Append(start, nextPid)
      /\ state' = [state EXCEPT ![nextPid] = "START"]
      /\ contextEax' = [contextEax EXCEPT ![nextPid] = contextEax[current]]
      /\ current' = current /\ waiting' = waiting
  BY DEF Fork, NewPid
<1>2. /\ nextPid \in Pids /\ nextPid \notin Range(waiting) /\ state[nextPid] = "NONE"
  BY <1>1, NewPidFacts DEF Queued
<1>3. /\ state \in [Pids -> States] /\ start \in Seq(Pids)
      /\ contextEax \in [Pids -> Pids \cup {-1, 0}] /\ Range(waiting) \subseteq Pids
  BY RangeOfSeq DEF Inv, TypeOK
<1>4. Range(start') = Range(start) \cup {nextPid}
  BY <1>1, <1>2, <1>3, AppendFacts
<1> QED BY <1>1, <1>2, <1>3, <1>4 DEF Moved, Ended

\* The timer, a refused execve() and a wait() that blocks.
LEMMA MovedByBlocking ==
  ASSUME Inv, Tick \/ ExecveRefused \/ WaitBlock
  PROVE  Moved({}, {})
<1>1. nextPid' = nextPid /\ ~halted
  BY DEF Tick, ExecveRefused, WaitBlock, InUser
<1>2. CASE Tick \/ ExecveRefused
  <2>1. PICK eax \in Pids \cup {-1, 0} : Schedule(state, start, all, contextEax, eax)
    BY <1>2 DEF Tick, ExecveRefused, Inv, TypeOK
  <2>2. Settled(state, start, contextEax)
    BY <1>1, <2>1, NothingChanged, ScheduleStep DEF Inv
  <2> QED BY <2>2, MovedBySchedule
<1>3. CASE WaitBlock
  <2> DEFINE st == [state EXCEPT ![current] = "WAITING"]
  <2>1. InUser /\ Schedule(st, start, all, contextEax, 0)
    BY <1>3 DEF WaitBlock
  <2>2. Settled(st, start, contextEax)
    BY <1>1, <2>1, CallerSleeps, ScheduleStep DEF Inv
  <2>3. \A p \in Pids : st[p] = IF p = current THEN "WAITING" ELSE state[p]
    BY DEF Inv, TypeOK
  <2>4. state[current] = "RUNNING" /\ current \notin Range(waiting) /\ Range(waiting) \subseteq Pids
    BY <2>1, CallerRuns, RangeOfSeq DEF Inv, QueuesPartition, Queued, TypeOK
  <2> HIDE DEF st
  <2>5. /\ \A p \in Pids : st[p] = "DONE" <=> state[p] = "DONE"
        /\ \A p \in Range(waiting) : st[p] = state[p]
    BY <2>3, <2>4
  <2> QED BY <2>2, <2>5, MovedBySchedule
<1> QED BY <1>2, <1>3

\* execve() of a program.
LEMMA MovedByExecve == ASSUME Inv, Execve PROVE Moved({}, {nextPid})
<1> DEFINE st    == [state EXCEPT ![nextPid] = "START", ![current] = "WAITING"]
           fresh == Append(start, nextPid)
<1>1. /\ InUser /\ HasEntry /\ Register(nextPid)
      /\ Schedule(st, fresh, all \cup {nextPid}, contextEax, nextPid)
  BY DEF Execve, NewPid
<1>2. Settled(st, fresh, contextEax)
  BY <1>1, CallerAwaitsNew, ScheduleStep DEF Inv
<1>3. /\ nextPid \in Pids /\ nextPid \notin Queued /\ state[nextPid] = "NONE"
      /\ state[current] = "RUNNING" /\ current \notin Queued
      /\ Range(waiting) \subseteq Pids /\ start \in Seq(Pids)
  BY <1>1, NewPidFacts, CallerRuns, RangeOfSeq DEF Inv, QueuesPartition, TypeOK
<1>4. Range(fresh) = Range(start) \cup {nextPid}
  BY <1>3, AppendFacts
<1>5. \A p \in Pids : st[p] = IF p = current THEN "WAITING"
                              ELSE IF p = nextPid THEN "START" ELSE state[p]
  BY DEF Inv, TypeOK
<1> HIDE DEF st, fresh
<1>6. /\ \A p \in Pids : st[p] = "DONE" <=> state[p] = "DONE"
      /\ \A p \in Range(waiting) : st[p] = state[p]
      /\ \A p \in Pids : state[p] = "DONE" => (p \in Range(fresh) <=> p \in Range(start))
  BY <1>3, <1>4, <1>5 DEF Queued
<1> QED BY <1>2, <1>6, MovedBySchedule

\* kill() of the caller and exit().
LEMMA MovedByOwnEnd ==
  ASSUME Inv, KillSelf \/ Exit
  PROVE  Moved({current}, {})
<1> DEFINE k == Killed(current)
<1>1. /\ InUser /\ nextPid' = nextPid /\ NotifyParentComplete(current, k)
      /\ \E eax \in Pids \cup {-1, 0} :
           Schedule(NotifiedStates(current, k), start, all, NotifiedEax(current, k), eax)
  BY DEF KillSelf, Exit, Inv, TypeOK
<1>2. Settled(NotifiedStates(current, k), start, NotifiedEax(current, k))
  BY <1>1, EndCallable, ScheduleStep DEF Inv
<1> QED BY <1>1, <1>2, MovedByEnd

-----------------------------------------------------------------------------
(***************************************************************************)
(* One lemma for each way the steps change the tables of children.         *)
(***************************************************************************)
\* A slot in use names a process.
LEMMA SlotNamesProcess ==
  ASSUME Inv, Family, NEW p \in Pids
  PROVE  /\ \A i \in childBitmap[p] : i \in Slots /\ child[p][i] \in Pids
         /\ \A i \in Slots : i \notin childBitmap[p] => child[p][i] = NoProc
         /\ ~rekilled => childCompleted[p] \subseteq childBitmap[p]
         /\ DOMAIN child[p] = Slots
BY DEF Inv, TypeOK, Family, Tables, ChildTablesAgree

\* No table changes.
LEMMA KeptTables ==
  ASSUME Inv, Family, Moved({}, {}), UNCHANGED <<nextPid, family, rekilled>>
  PROVE  Family'
<1>1. /\ nextPid' = nextPid /\ signal' = signal /\ parent' = parent /\ child' = child
      /\ childBitmap' = childBitmap /\ childCompleted' = childCompleted
      /\ rekilled' = rekilled
  BY DEF family
<1>2. Tables'
  BY <1>1 DEF Family, Tables, ChildTablesAgree, NotOwn
<1>3. Range(start') = {} \/ (current' = current /\ Range(start') = Range(start))
  BY DEF Moved
<1>4. Newborn'
  BY <1>1, <1>3 DEF Family, Newborn
<1>5. CompletedEnded'
  <2> SUFFICES ASSUME ~rekilled, NEW p \in Pids, NEW i \in childCompleted[p]
               PROVE  Ended(child[p][i])'
    BY <1>1 DEF CompletedEnded
  <2>1. child[p][i] \in Pids
    BY SlotNamesProcess
  <2>2. Ended(child[p][i])
    BY DEF Family, CompletedEnded
  <2> QED BY <1>1, <2>1, <2>2 DEF Moved, Ended
<1>6. Woken'
  <2> SUFFICES ASSUME NEW p \in Range(waiting'), state'[p] = "READY"
               PROVE  Answers(p, contextEax[p])'
    BY DEF Woken
  <2>1. p \in Range(waiting) /\ state[p] = "READY" /\ contextEax'[p] = contextEax[p]
    BY DEF Moved
  <2>2. Answers(p, contextEax[p])
    BY <2>1 DEF Family, Woken
  <2>3. Ended(contextEax[p])'
    BY <2>2 DEF Moved, Answers
  <2> QED BY <1>1, <2>1, <2>2, <2>3 DEF Answers, Ended
<1>7. Reported'
  <2> SUFFICES ASSUME NEW p \in Pids, ~Ended(p)', NEW i \in childBitmap[p],
                      state'[child[p][i]] = "DONE", ~signal[child[p][i]]
               PROVE  i \in childCompleted[p]
    BY <1>1 DEF Reported
  <2>1. ~Ended(p) /\ child[p][i] \in Pids
    BY SlotNamesProcess DEF Moved
  <2>2. state[child[p][i]] = "DONE"
    BY <2>1 DEF Moved
  <2> QED BY <2>1, <2>2 DEF Family, Reported
<1> QED BY <1>2, <1>4, <1>5, <1>6, <1>7 DEF Family

\* create() and notify_parent_create(): a slot for a process that is in none.
LEMMA NewSlot ==
  ASSUME Inv, Family, InUser, HasEntry, Register(nextPid),
         Moved({}, {nextPid}), rekilled' = rekilled
  PROVE  Family'
<1>1. /\ nextPid \in Pids /\ nextPid \notin Queued /\ state[nextPid] = "NONE"
      /\ current \in Pids /\ current # nextPid /\ current \notin Queued
      /\ current < nextPid /\ nextPid' = nextPid + 1
  <2>1. current \in 1 .. nextPid - 1 /\ current \in all
    BY CallerRuns DEF Inv, StatesMatchQueues
  <2>2. nextPid \in Nat
    BY NewPidFacts DEF Pids
  <2>3. current < nextPid
    BY <2>1, <2>2, BelowNext
  <2> QED BY <2>1, <2>3, NewPidFacts, CallerRuns, RegisterStep DEF Inv, QueuesPartition
<1>2. PICK i \in Slots \ childBitmap[current] :
        /\ parent' = [parent EXCEPT ![nextPid] = current]
        /\ child' = [child EXCEPT ![current][i] = nextPid]
        /\ childBitmap' = [childBitmap EXCEPT ![current] = @ \cup {i}]
        /\ childCompleted' = childCompleted /\ signal' = signal
  BY DEF Register
<1>3. /\ child'[current][i] = nextPid
      /\ \A p \in Pids : \A j \in Slots : p # current \/ j # i => child'[p][j] = child[p][j]
      /\ \A p \in Pids \ {current} : child'[p] = child[p]
      /\ childBitmap'[current] = childBitmap[current] \cup {i}
      /\ \A p \in Pids \ {current} : childBitmap'[p] = childBitmap[p]
      /\ \A p \in Pids : parent'[p] = IF p = nextPid THEN current ELSE parent[p]
      /\ \A p \in Pids : childBitmap[p] \subseteq Slots
      /\ i \in Slots /\ i \notin childBitmap[current]
  BY <1>1, <1>2 DEF Inv, TypeOK
<1>4. \A p \in Pids : \A j \in childBitmap[p] :
        child[p][j] < nextPid /\ child[p][j] # nextPid /\ child[p][j] \in Pids
  BY <1>1, SlotNamesProcess DEF Family, Tables, ChildTablesAgree, Pids
<1>5. ChildTablesAgree'
  <2> SUFFICES ASSUME NEW p \in Pids
               PROVE  /\ childBitmap'[p] = {j \in Slots : child'[p][j] # NoProc}
                      /\ ~rekilled => childCompleted[p] \subseteq childBitmap'[p]
                      /\ \A j \in childBitmap'[p] :
                           /\ child'[p][j] < nextPid' /\ parent'[child'[p][j]] = p
                           /\ \A h \in childBitmap'[p] : child'[p][j] = child'[p][h] => j = h
    BY <1>2 DEF ChildTablesAgree
  <2>1. /\ childBitmap[p] = {j \in Slots : child[p][j] # NoProc}
        /\ ~rekilled => childCompleted[p] \subseteq childBitmap[p]
        /\ \A j \in childBitmap[p] :
             /\ child[p][j] < nextPid /\ parent[child[p][j]] = p
             /\ \A h \in childBitmap[p] : child[p][j] = child[p][h] => j = h
    BY DEF Family, Tables, ChildTablesAgree
  <2>2. childBitmap'[p] = {j \in Slots : child'[p][j] # NoProc}
    BY <1>1, <1>3, <2>1, NoProcNotAPid
  <2>3. ~rekilled => childCompleted[p] \subseteq childBitmap'[p]
    BY <1>3, <2>1
  <2>4. ASSUME NEW j \in childBitmap'[p]
        PROVE  /\ child'[p][j] < nextPid' /\ parent'[child'[p][j]] = p
               /\ \A h \in childBitmap'[p] : child'[p][j] = child'[p][h] => j = h
    <3>1. CASE p = current /\ j = i
      <4>1. child'[p][j] = nextPid
        BY <1>3, <3>1
      <4>2. nextPid < nextPid'
        BY <1>1 DEF Pids
      <4> QED BY <1>1, <1>3, <1>4, <3>1, <4>1, <4>2
    <3>2. CASE ~(p = current /\ j = i)
      <4>1. j \in childBitmap[p] /\ child'[p][j] = child[p][j]
        BY <1>3, <2>4, <3>2
      <4>2. child[p][j] < nextPid'
        BY <1>1, <1>4, <4>1 DEF Pids
      <4>3. \A h \in childBitmap'[p] : child'[p][j] = child'[p][h] => j = h
        BY <1>3, <1>4, <2>1, <4>1
      <4> QED BY <1>3, <1>4, <2>1, <4>1, <4>2, <4>3
    <3> QED BY <3>1, <3>2
  <2> QED BY <2>2, <2>3, <2>4
<1>6. NotOwn'
  BY <1>1, <1>3 DEF Family, Tables, NotOwn
<1>7. Newborn'
  <2>1. \A p \in Range(start') : p = nextPid \/ p \in Range(start)
    BY DEF Moved
  <2>2. \A p \in Range(start) : p \in Pids /\ p # nextPid /\ p # current
    BY <1>1, RangeOfSeq DEF Queued, Inv, TypeOK
  <2>3. Range(start') = {} \/ current' = current
    BY DEF Moved
  <2>4. \A p \in Range(start') : parent'[p] \in {NoProc, current'}
    BY <1>1, <1>3, <2>1, <2>2, <2>3 DEF Family, Newborn
  <2>5. ASSUME NEW p \in Pids, p \in Range(start') \/ p >= nextPid'
        PROVE  childBitmap'[p] = {}
    <3>1. p \in Range(start) \/ p >= nextPid
      BY <1>1, <2>1, <2>5 DEF Pids
    <3>2. p # current
      BY <1>1, <2>2, <3>1 DEF Pids
    <3> QED BY <1>3, <3>1, <3>2 DEF Family, Newborn
  <2> QED BY <2>4, <2>5 DEF Newborn
<1>8. CompletedEnded'
  <2> SUFFICES ASSUME ~rekilled, NEW p \in Pids, NEW j \in childCompleted[p]
               PROVE  Ended(child[p][j])' /\ child'[p][j] = child[p][j]
    BY <1>2 DEF CompletedEnded, Ended
  <2>1. j \in childBitmap[p] /\ child[p][j] \in Pids
    BY SlotNamesProcess
  <2>2. Ended(child[p][j])
    BY DEF Family, CompletedEnded
  <2>3. Ended(child[p][j])'
    <3> DEFINE c == child[p][j]
    <3>1. c \in Pids /\ Ended(c)
      BY <2>1, <2>2
    <3> HIDE DEF c
    <3>2. state'[c] = "DONE" /\ c \notin Range(start')
      BY <3>1 DEF Moved, Ended
    <3>3. state'[child[p][j]] = "DONE" /\ child[p][j] \notin Range(start')
      BY <3>2 DEF c
    <3>4. child'[p][j] = child[p][j]
      BY <1>2, <1>3, <2>1
    <3> QED BY <3>3, <3>4 DEF Ended
  <2> QED BY <1>2, <1>3, <2>1, <2>3
<1>9. Woken'
  <2> SUFFICES ASSUME NEW p \in Range(waiting'), state'[p] = "READY"
               PROVE  Answers(p, contextEax[p])'
    BY DEF Woken
  <2>1. p \in Range(waiting) /\ state[p] = "READY" /\ contextEax'[p] = contextEax[p]
    BY DEF Moved
  <2>2. Answers(p, contextEax[p])
    BY <2>1 DEF Family, Woken
  <2>3. Ended(contextEax[p])'
    BY <2>2 DEF Moved, Answers
  <2>4. p \in Pids /\ p # current /\ contextEax[p] # nextPid
    BY <1>1, <2>1, <2>2, RangeOfSeq DEF Queued, Answers, Ended, Inv, TypeOK
  <2> QED BY <1>3, <2>1, <2>2, <2>3, <2>4 DEF Answers, Ended
<1>10. Reported'
  <2> SUFFICES ASSUME NEW p \in Pids, ~Ended(p)', NEW j \in childBitmap'[p],
                      state'[child'[p][j]] = "DONE", ~signal[child'[p][j]]
               PROVE  j \in childCompleted[p]
    BY <1>2 DEF Reported
  <2>1. state'[nextPid] # "DONE"
    BY <1>1 DEF Moved
  <2>2. j \in childBitmap[p] /\ child'[p][j] = child[p][j]
    BY <1>3, <2>1
  <2>3. ~Ended(p) /\ child[p][j] \in Pids
    BY <2>2, SlotNamesProcess DEF Moved
  <2>4. state[child[p][j]] = "DONE"
    BY <2>2, <2>3 DEF Moved
  <2> QED BY <2>2, <2>3, <2>4 DEF Family, Reported
<1> QED BY <1>5, <1>6, <1>7, <1>8, <1>9, <1>10 DEF Family, Tables

\* A wait() that finds a completed child gives its slot back.
LEMMA ReapedSlot == ASSUME Inv, Family, WaitReap PROVE Family'
<1>1. PICK i \in childCompleted[current] :
        /\ child' = [child EXCEPT ![current][i] = NoProc]
        /\ childBitmap' = [childBitmap EXCEPT ![current] = @ \ {i}]
        /\ childCompleted' = [childCompleted EXCEPT ![current] = @ \ {i}]
  BY DEF WaitReap
<1>2. UNCHANGED <<nextPid, current, start, waiting, state, signal, parent, contextEax, rekilled>>
  BY DEF WaitReap
<1>3. current \in Pids /\ current \notin Queued
  BY CallerRuns DEF WaitReap, Inv, QueuesPartition
<1>4. /\ i \in Slots
      /\ child'[current][i] = NoProc
      /\ \A p \in Pids : \A j \in Slots : p # current \/ j # i => child'[p][j] = child[p][j]
      /\ \A p \in Pids \ {current} : child'[p] = child[p]
      /\ childBitmap'[current] = childBitmap[current] \ {i}
      /\ childCompleted'[current] = childCompleted[current] \ {i}
      /\ \A p \in Pids \ {current} :
           childBitmap'[p] = childBitmap[p] /\ childCompleted'[p] = childCompleted[p]
      /\ \A p \in Pids : childBitmap[p] \subseteq Slots /\ childCompleted[p] \subseteq Slots
  BY <1>1, <1>3 DEF Inv, TypeOK
<1>5. /\ \A p \in Pids : childBitmap'[p] \subseteq childBitmap[p]
      /\ \A p \in Pids : childCompleted'[p] \subseteq childCompleted[p]
      /\ \A p \in Pids : \A j \in childBitmap'[p] : child'[p][j] = child[p][j]
      /\ \A p \in Pids : \A j \in childCompleted'[p] : child'[p][j] = child[p][j]
  BY <1>4
<1>6. ChildTablesAgree'
  <2> SUFFICES ASSUME NEW p \in Pids
               PROVE  /\ childBitmap'[p] = {j \in Slots : child'[p][j] # NoProc}
                      /\ ~rekilled => childCompleted'[p] \subseteq childBitmap'[p]
                      /\ \A j \in childBitmap'[p] :
                           /\ child'[p][j] < nextPid /\ parent[child'[p][j]] = p
                           /\ \A h \in childBitmap'[p] : child'[p][j] = child'[p][h] => j = h
    BY <1>2 DEF ChildTablesAgree
  <2>1. /\ childBitmap[p] = {j \in Slots : child[p][j] # NoProc}
        /\ ~rekilled => childCompleted[p] \subseteq childBitmap[p]
        /\ \A j \in childBitmap[p] :
             /\ child[p][j] < nextPid /\ parent[child[p][j]] = p
             /\ \A h \in childBitmap[p] : child[p][j] = child[p][h] => j = h
    BY DEF Family, Tables, ChildTablesAgree
  <2>2. childBitmap'[p] = {j \in Slots : child'[p][j] # NoProc}
    BY <1>4, <2>1
  <2>3. ~rekilled => childCompleted'[p] \subseteq childBitmap'[p]
    BY <1>4, <2>1
  <2>4. \A j \in childBitmap'[p] :
          /\ child'[p][j] < nextPid /\ parent[child'[p][j]] = p
          /\ \A h \in childBitmap'[p] : child'[p][j] = child'[p][h] => j = h
    BY <1>5, <2>1
  <2> QED BY <2>2, <2>3, <2>4
<1>7. NotOwn'
  BY <1>5 DEF Family, Tables, NotOwn
<1>8. Newborn'
  BY <1>2, <1>5 DEF Family, Newborn
<1>9. CompletedEnded'
  BY <1>2, <1>5 DEF Family, CompletedEnded, Ended
<1>10. Woken'
  <2>1. \A p \in Range(waiting) : child'[p] = child[p]
    BY <1>3, <1>4, RangeOfSeq DEF Queued, Inv, TypeOK
  <2> QED BY <1>2, <2>1 DEF Family, Woken, Answers, Ended
<1>11. Reported'
  <2> SUFFICES ASSUME NEW p \in Pids, ~Ended(p), NEW j \in childBitmap'[p],
                      state[child'[p][j]] = "DONE", ~signal[child'[p][j]]
               PROVE  j \in childCompleted'[p]
    BY <1>2 DEF Reported, Ended
  <2>1. j \in childBitmap[p] /\ child'[p][j] = child[p][j]
    BY <1>5
  <2>2. j \in childCompleted[p]
    BY <2>1 DEF Family, Reported
  <2> QED BY <1>4, <2>2
<1> QED BY <1>6, <1>7, <1>8, <1>9, <1>10, <1>11 DEF Family, Tables

\* A process with children has been admitted, and runs, sleeps or has ended.
LEMMA ParentAdmitted ==
  ASSUME Inv, Family, NEW p \in Pids, childBitmap[p] # {}
  PROVE  p \notin Range(start) /\ (Ended(p) \/ state[p] \in {"RUNNING", "READY", "WAITING"})
<1>1. p \notin Range(start) /\ ~(p >= nextPid)
  BY DEF Family, Newborn
<1>2. CASE p \in all
  <2>1. p \in Range(ready) \cup Range(waiting) \cup {current} \/ state[p] = "DONE"
    BY <1>1, <1>2 DEF Inv, QueuesPartition, Queued
  <2> QED BY <1>1, <2>1 DEF Inv, StatesMatchQueues, Ended
<1>3. CASE p \notin all
  <2>1. p < nextPid
    BY <1>1 DEF Pids, Inv, TypeOK
  <2> QED BY <1>1, <1>3, <2>1 DEF Inv, StatesMatchQueues, Ended
<1> QED BY <1>2, <1>3

\* The three outcomes of notify_parent_complete(x), with i the slot of x.
ToldSlot(x, i) ==
  /\ i \in Slots /\ child[parent[x]][i] = x
  /\ parent[x] \in Pids /\ parent[x] # x /\ i \in childBitmap[parent[x]]
  /\ x \notin Range(start) \/ parent[x] = current

LEMMA NotifyCases ==
  ASSUME Inv, Family, NEW x \in Pids, NotifyParentComplete(x, Killed(x))
  PROVE  \/ /\ Wakes(x, Killed(x)) /\ state[parent[x]] = "WAITING"
            /\ \E i \in Slots :
                 /\ ToldSlot(x, i)
                 /\ child' = [child EXCEPT ![parent[x]][i] = NoProc]
                 /\ childBitmap' = [childBitmap EXCEPT ![parent[x]] = @ \ {i}]
                 /\ childCompleted' = childCompleted
         \/ /\ ~Wakes(x, Killed(x)) /\ state[parent[x]] = "READY"
            /\ \E i \in Slots :
                 /\ ToldSlot(x, i)
                 /\ childCompleted' = [childCompleted EXCEPT ![parent[x]] = @ \cup {i}]
                 /\ child' = child /\ childBitmap' = childBitmap
         \/ /\ ~Wakes(x, Killed(x))
            /\ Known(x) /\ parent[x] # x => state[parent[x]] \notin {"WAITING", "READY"}
            /\ child' = child /\ childBitmap' = childBitmap
            /\ childCompleted' = childCompleted
<1>1. /\ parent[x] \in Pids \cup {NoProc}
      /\ \A p \in Pids : p # x => Killed(x)[p] = state[p]
  BY DEF Inv, TypeOK, Killed
<1>2. ASSUME Known(x), NEW i \in Slots, FirstSlot(x, i) PROVE ToldSlot(x, i)
  <2>1. parent[x] \in Pids /\ child[parent[x]][i] = x
    BY <1>1, <1>2 DEF Known, FirstSlot
  <2>2. i \in childBitmap[parent[x]]
    BY <2>1, NoProcNotAPid DEF Family, Tables, ChildTablesAgree
  <2>3. parent[x] # x
    BY <2>1, <2>2 DEF Family, Tables, NotOwn
  <2>4. x \notin Range(start) \/ parent[x] = current
    BY <2>1, NoProcNotAPid DEF Family, Newborn
  <2> QED BY <2>1, <2>2, <2>3, <2>4 DEF ToldSlot
<1>3. CASE Wakes(x, Killed(x))
  <2>1. PICK i \in Slots :
          /\ FirstSlot(x, i)
          /\ child' = [child EXCEPT ![parent[x]][i] = NoProc]
          /\ childBitmap' = [childBitmap EXCEPT ![parent[x]] = @ \ {i}]
          /\ childCompleted' = childCompleted
    BY <1>3 DEF NotifyParentComplete, Wakes, Marks
  <2>2. ToldSlot(x, i)
    BY <1>2, <1>3, <2>1 DEF Wakes
  <2>3. state[parent[x]] = "WAITING"
    BY <1>1, <1>3, <2>2 DEF Wakes, ToldSlot
  <2> QED BY <1>3, <2>1, <2>2, <2>3
<1>4. CASE Marks(x, Killed(x))
  <2>1. PICK i \in Slots :
          /\ FirstSlot(x, i)
          /\ childCompleted' = [childCompleted EXCEPT ![parent[x]] = @ \cup {i}]
          /\ child' = child /\ childBitmap' = childBitmap
    BY <1>4 DEF NotifyParentComplete, Wakes, Marks
  <2>2. ToldSlot(x, i)
    BY <1>2, <1>4, <2>1 DEF Marks
  <2>3. state[parent[x]] = "READY" /\ ~Wakes(x, Killed(x))
    BY <1>1, <1>4, <2>2 DEF Marks, Wakes, ToldSlot
  <2> QED BY <2>1, <2>2, <2>3
<1>5. CASE ~Wakes(x, Killed(x)) /\ ~Marks(x, Killed(x))
  <2>1. child' = child /\ childBitmap' = childBitmap /\ childCompleted' = childCompleted
    BY <1>5 DEF NotifyParentComplete
  <2>2. Known(x) /\ parent[x] # x => state[parent[x]] \notin {"WAITING", "READY"}
    BY <1>1, <1>5 DEF Wakes, Marks, Known
  <2> QED BY <1>5, <2>1, <2>2
<1> QED BY <1>3, <1>4, <1>5

\* What kill() and exit() of x do besides telling the parent.
EndOf(x) ==
  /\ Moved({x}, {})
  /\ nextPid' = nextPid /\ parent' = parent
  /\ \A p \in Pids \ {x} : signal'[p] = signal[p]
  /\ signal'[x] \/ x = current
  /\ (~rekilled' => ~rekilled /\ state[x] # "DONE")

\* The parent slept: it is woken, and the slot is free again.
LEMMA ParentWoken ==
  ASSUME Inv, Family, InUser, NEW x \in Pids, EndOf(x),
         Wakes(x, Killed(x)), state[parent[x]] = "WAITING",
         NEW i \in Slots, ToldSlot(x, i),
         child' = [child EXCEPT ![parent[x]][i] = NoProc],
         childBitmap' = [childBitmap EXCEPT ![parent[x]] = @ \ {i}],
         childCompleted' = childCompleted
  PROVE  Family'
<1> DEFINE q == parent[x]
<1>1. /\ q \in Pids /\ q # x /\ i \in childBitmap[q] /\ child[q][i] = x
      /\ x \notin Range(start) /\ state[q] = "WAITING"
  BY CallerRuns DEF ToldSlot
<1>2. /\ nextPid' = nextPid /\ parent' = parent
      /\ (~rekilled' => ~rekilled /\ state[x] # "DONE")
      /\ Range(start') = {} \/ (current' = current /\ Range(start') = Range(start))
      /\ \A p \in Pids \ {x} : signal'[p] = signal[p]
  BY DEF EndOf, Moved
<1>3. /\ \A p \in Pids : Ended(p) \/ p = x => Ended(p)'
      /\ \A p \in Pids : state'[p] = "DONE" => state[p] = "DONE" \/ p = x
  BY <1>1 DEF EndOf, Moved
<1>4. /\ child'[q][i] = NoProc
      /\ \A p \in Pids : \A j \in Slots : p # q \/ j # i => child'[p][j] = child[p][j]
      /\ \A p \in Pids \ {q} : child'[p] = child[p]
      /\ DOMAIN child'[q] = Slots
      /\ childBitmap'[q] = childBitmap[q] \ {i}
      /\ \A p \in Pids \ {q} : childBitmap'[p] = childBitmap[p]
      /\ \A p \in Pids : childBitmap[p] \subseteq Slots /\ childCompleted[p] \subseteq Slots
      /\ childCompleted' = childCompleted
  BY <1>1 DEF Inv, TypeOK
<1> HIDE DEF q
<1>5. /\ \A p \in Pids : childBitmap'[p] \subseteq childBitmap[p]
      /\ \A p \in Pids : \A j \in childBitmap'[p] :
           child'[p][j] = child[p][j] /\ (p # q \/ j # i)
  BY <1>4
<1>6. ~rekilled' => i \notin childCompleted[q]
  <2> SUFFICES ASSUME ~rekilled', i \in childCompleted[q] PROVE FALSE
    OBVIOUS
  <2>1. Ended(child[q][i])
    BY <1>1, <1>2 DEF Family, CompletedEnded
  <2> QED BY <1>1, <1>2, <2>1 DEF Ended
<1>7. ASSUME NEW p \in Pids
      PROVE  /\ childBitmap[p] = {j \in Slots : child[p][j] # NoProc}
             /\ ~rekilled => childCompleted[p] \subseteq childBitmap[p]
             /\ \A j \in childBitmap[p] :
                  /\ child[p][j] < nextPid /\ parent[child[p][j]] = p
                  /\ \A h \in childBitmap[p] : child[p][j] = child[p][h] => j = h
  BY DEF Family, Tables, ChildTablesAgree
\* No other slot names x.
<1>8. \A p \in Pids : \A j \in childBitmap'[p] : child[p][j] # x
  <2> SUFFICES ASSUME NEW p \in Pids, NEW j \in childBitmap'[p], child[p][j] = x PROVE FALSE
    OBVIOUS
  <2>1. j \in childBitmap[p] /\ (p # q \/ j # i)
    BY <1>5
  <2>2. p = q
    BY <1>7, <2>1 DEF q
  <2> QED BY <1>1, <1>7, <2>1, <2>2
<1>9. ChildTablesAgree'
  <2> SUFFICES ASSUME NEW p \in Pids
               PROVE  /\ childBitmap'[p] = {j \in Slots : child'[p][j] # NoProc}
                      /\ ~rekilled' => childCompleted[p] \subseteq childBitmap'[p]
                      /\ \A j \in childBitmap'[p] :
                           /\ child'[p][j] < nextPid /\ parent[child'[p][j]] = p
                           /\ \A h \in childBitmap'[p] : child'[p][j] = child'[p][h] => j = h
    BY <1>2, <1>4 DEF ChildTablesAgree
  <2>1. childBitmap'[p] = {j \in Slots : child'[p][j] # NoProc}
    BY <1>1, <1>4, <1>7
  <2>2. ~rekilled' => childCompleted[p] \subseteq childBitmap'[p]
    BY <1>2, <1>4, <1>6, <1>7
  <2>3. \A j \in childBitmap'[p] :
          /\ child'[p][j] < nextPid /\ parent[child'[p][j]] = p
          /\ \A h \in childBitmap'[p] : child'[p][j] = child'[p][h] => j = h
    BY <1>5, <1>7
  <2> QED BY <2>1, <2>2, <2>3
<1>10. NotOwn'
  BY <1>5 DEF Family, Tables, NotOwn
<1>11. Newborn'
  BY <1>2, <1>5 DEF Family, Newborn
<1>12. CompletedEnded'
  <2> SUFFICES ASSUME ~rekilled', NEW p \in Pids, NEW j \in childCompleted[p]
               PROVE  Ended(child[p][j])' /\ child'[p][j] = child[p][j]
    BY <1>4 DEF CompletedEnded, Ended
  <2>1. child'[p][j] = child[p][j]
    BY <1>4, <1>6
  <2>2. ~rekilled /\ Ended(child[p][j]) /\ child[p][j] \in Pids
    BY <1>2, SlotNamesProcess DEF Family, CompletedEnded
  <2> QED BY <1>3, <2>1, <2>2 DEF Ended
<1>13. Woken'
  <2> SUFFICES ASSUME NEW p \in Range(waiting'), state'[p] = "READY"
               PROVE  Answers(p, contextEax[p])'
    BY DEF Woken
  <2>1. p \in Range(waiting) /\ p \in Pids
    BY RangeOfSeq DEF EndOf, Moved, Inv, TypeOK
  <2>2. CASE state[p] = "READY" /\ contextEax'[p] = contextEax[p]
    <3>1. Answers(p, contextEax[p]) /\ p # q
      BY <1>1, <2>1, <2>2 DEF Family, Woken
    <3>2. Ended(contextEax[p])'
      BY <1>3, <3>1, <2>2 DEF Answers, Ended
    <3> QED BY <1>2, <1>4, <2>1, <2>2, <3>1, <3>2 DEF Answers, Ended
  <2>3. CASE p = q /\ contextEax'[p] = x
    <3>1. x \notin Range(child'[q])
      <4> SUFFICES ASSUME NEW j \in Slots, child'[q][j] = x PROVE FALSE
        BY <1>4 DEF Range
      <4>1. j # i /\ child[q][j] = x
        BY <1>1, <1>4, NoProcNotAPid
      <4>2. j \in childBitmap[q]
        BY <1>1, <1>7, <4>1, NoProcNotAPid
      <4> QED BY <1>1, <1>7, <4>1, <4>2
    <3>2. Ended(x)'
      BY <1>3
    <3> QED BY <1>2, <2>3, <3>1, <3>2 DEF Answers, Ended, q
  <2> QED BY <2>2, <2>3 DEF EndOf, Moved, q
<1>14. Reported'
  <2> SUFFICES ASSUME NEW p \in Pids, ~Ended(p)', NEW j \in childBitmap'[p],
                      state'[child'[p][j]] = "DONE", ~signal'[child'[p][j]]
               PROVE  j \in childCompleted'[p]
    BY DEF Reported
  <2>1. /\ j \in childBitmap[p] /\ child'[p][j] = child[p][j]
        /\ child[p][j] # x /\ child[p][j] \in Pids /\ ~Ended(p)
    BY <1>3, <1>5, <1>8, SlotNamesProcess
  <2>2. state[child[p][j]] = "DONE" /\ ~signal[child[p][j]]
    BY <1>2, <1>3, <2>1
  <2> QED BY <1>4, <2>1, <2>2 DEF Family, Reported
<1> QED BY <1>9, <1>10, <1>11, <1>12, <1>13, <1>14 DEF Family, Tables

\* Nothing but completed bits changes, and those are set for ended children
\* only: what is left to show is that the end of x is reported.
LEMMA SlotsKept ==
  ASSUME Inv, Family, InUser, NEW x \in Pids, EndOf(x), ~Wakes(x, Killed(x)),
         child' = child, childBitmap' = childBitmap,
         \A p \in Pids : childCompleted[p] \subseteq childCompleted'[p],
         \A p \in Pids : \A i \in childCompleted'[p] \ childCompleted[p] :
           i \in childBitmap[p] /\ child[p][i] = x /\ x \notin Range(start),
         \A p \in Pids : \A i \in childBitmap[p] :
           child[p][i] = x /\ ~Ended(p) => signal'[x] \/ i \in childCompleted'[p]
  PROVE  Family'
<1>1. /\ nextPid' = nextPid /\ parent' = parent
      /\ (~rekilled' => ~rekilled /\ state[x] # "DONE")
      /\ Range(start') = {} \/ (current' = current /\ Range(start') = Range(start))
      /\ \A p \in Pids \ {x} : signal'[p] = signal[p]
      /\ \A p \in Pids : Ended(p) \/ (p = x /\ p \notin Range(start)) => Ended(p)'
      /\ \A p \in Pids : state'[p] = "DONE" => state[p] = "DONE" \/ p = x
  BY DEF EndOf, Moved
<1>2. ChildTablesAgree'
  <2> SUFFICES ASSUME NEW p \in Pids, ~rekilled' PROVE childCompleted'[p] \subseteq childBitmap[p]
    BY <1>1 DEF Family, Tables, ChildTablesAgree
  <2> QED BY <1>1 DEF Family, Tables, ChildTablesAgree
<1>3. NotOwn'
  BY DEF Family, Tables, NotOwn
<1>4. Newborn'
  BY <1>1 DEF Family, Newborn
<1>5. CompletedEnded'
  <2> SUFFICES ASSUME ~rekilled, NEW p \in Pids, NEW i \in childCompleted'[p]
               PROVE  Ended(child[p][i])'
    BY <1>1 DEF CompletedEnded, Ended
  <2>1. CASE i \in childCompleted[p]
    <3>1. Ended(child[p][i]) /\ child[p][i] \in Pids
      BY <2>1, SlotNamesProcess DEF Family, CompletedEnded
    <3> QED BY <1>1, <3>1 DEF Ended
  <2>2. CASE i \notin childCompleted[p]
    <3>1. child[p][i] = x /\ x \notin Range(start)
      BY <2>2
    <3> QED BY <1>1, <3>1 DEF Ended
  <2> QED BY <2>1, <2>2
<1>6. Woken'
  <2> SUFFICES ASSUME NEW p \in Range(waiting'), state'[p] = "READY"
               PROVE  Answers(p, contextEax[p])'
    BY DEF Woken
  <2>1. p \in Range(waiting) /\ state[p] = "READY" /\ contextEax'[p] = contextEax[p]
    BY DEF EndOf, Moved
  <2>2. Answers(p, contextEax[p])
    BY <2>1 DEF Family, Woken
  <2>3. Ended(contextEax[p])'
    BY <1>1, <2>1, <2>2 DEF Answers, Ended
  <2> QED BY <1>1, <2>1, <2>2, <2>3 DEF Answers, Ended
<1>7. Reported'
  <2> SUFFICES ASSUME NEW p \in Pids, ~Ended(p)', NEW i \in childBitmap[p],
                      state'[child[p][i]] = "DONE", ~signal'[child[p][i]]
               PROVE  i \in childCompleted'[p]
    BY DEF Reported
  <2>1. ~Ended(p) /\ child[p][i] \in Pids
    BY <1>1, SlotNamesProcess
  <2>2. CASE child[p][i] = x
    BY <2>1, <2>2
  <2>3. CASE child[p][i] # x
    <3>1. state[child[p][i]] = "DONE" /\ ~signal[child[p][i]]
      BY <1>1, <2>1, <2>3
    <3>2. i \in childCompleted[p]
      BY <2>1, <3>1 DEF Family, Reported
    <3> QED BY <3>2
  <2> QED BY <2>2, <2>3
<1> QED BY <1>2, <1>3, <1>4, <1>5, <1>6, <1>7 DEF Family, Tables

\* The parent is ready: the end is left in its completed bits.
LEMMA ParentMarked ==
  ASSUME Inv, Family, InUser, NEW x \in Pids, EndOf(x),
         ~Wakes(x, Killed(x)), state[parent[x]] = "READY",
         NEW i \in Slots, ToldSlot(x, i),
         childCompleted' = [childCompleted EXCEPT ![parent[x]] = @ \cup {i}],
         child' = child, childBitmap' = childBitmap
  PROVE  Family'
<1> DEFINE q == parent[x]
<1>1. /\ q \in Pids /\ i \in childBitmap[q] /\ child[q][i] = x
      /\ x \notin Range(start)
  BY CallerRuns DEF ToldSlot
<1>2. /\ childCompleted'[q] = childCompleted[q] \cup {i}
      /\ \A p \in Pids \ {q} : childCompleted'[p] = childCompleted[p]
  BY <1>1 DEF Inv, TypeOK
<1>3. ASSUME NEW p \in Pids, NEW j \in childBitmap[p], child[p][j] = x
      PROVE  j \in childCompleted'[p]
  <2>1. /\ parent[child[p][j]] = p
        /\ \A h \in childBitmap[p] : child[p][j] = child[p][h] => j = h
    BY DEF Family, Tables, ChildTablesAgree
  <2>2. p = q /\ j = i
    BY <1>1, <1>3, <2>1
  <2> QED BY <1>2, <2>2
<1> HIDE DEF q
<1>4. \A p \in Pids : childCompleted[p] \subseteq childCompleted'[p]
  BY <1>2
<1>5. \A p \in Pids : \A j \in childCompleted'[p] \ childCompleted[p] :
        j \in childBitmap[p] /\ child[p][j] = x /\ x \notin Range(start)
  BY <1>1, <1>2
<1> QED BY <1>3, <1>4, <1>5, SlotsKept

\* The parent is not told: it has ended, runs itself, or there is none.
LEMMA ParentNotTold ==
  ASSUME Inv, Family, InUser, NEW x \in Pids, EndOf(x), ~Wakes(x, Killed(x)),
         Known(x) /\ parent[x] # x => state[parent[x]] \notin {"WAITING", "READY"},
         child' = child, childBitmap' = childBitmap, childCompleted' = childCompleted
  PROVE  Family'
<1>1. ASSUME NEW p \in Pids, NEW i \in childBitmap[p], child[p][i] = x, ~Ended(p), ~signal'[x]
      PROVE  FALSE
  <2>1. x = current /\ parent[x] = p /\ p # x
    BY <1>1 DEF EndOf, Family, Tables, ChildTablesAgree, NotOwn
  <2>2. Known(x)
    <3>1. i \in Slots /\ p # NoProc
      BY SlotNamesProcess, NoProcNotAPid
    <3> QED BY <1>1, <2>1, <3>1 DEF Known
  <2>3. state[p] \notin {"WAITING", "READY"}
    BY <2>1, <2>2
  <2>4. state[p] # "RUNNING"
    BY <2>1 DEF Inv, StatesMatchQueues
  <2> QED BY <1>1, <2>3, <2>4, ParentAdmitted
<1> QED BY <1>1, SlotsKept

\* kill() and exit(), whatever the parent is doing.
LEMMA ToldTables ==
  ASSUME Inv, Family, InUser, NEW x \in Pids, EndOf(x),
         NotifyParentComplete(x, Killed(x))
  PROVE  Family'
BY NotifyCases, ParentWoken, ParentMarked, ParentNotTold

-----------------------------------------------------------------------------
\* No process has a child after kmain().
LEMMA InitFamily == Init => Family
<1> SUFFICES ASSUME Init PROVE Family
  OBVIOUS
<1>1. /\ Range(waiting) = {} /\ start \in Seq(Pids)
  BY InitInv, EmptyFacts DEF Init, Inv, TypeOK
<1>2. Range(start) \subseteq Pids
  BY <1>1, RangeOfSeq
<1>3. Tables
  BY DEF Init, Tables, ChildTablesAgree, NotOwn
<1>4. Newborn
  BY <1>2 DEF Init, Newborn
<1>5. CompletedEnded /\ Woken /\ Reported
  BY <1>1 DEF Init, CompletedEnded, Woken, Reported
<1> QED BY <1>3, <1>4, <1>5 DEF Family

\* Calls that leave queues, states and tables alone.
LEMMA FamilyUnchanged ==
  ASSUME Family,
         UNCHANGED <<nextPid, current, start, waiting, state, family, contextEax, rekilled>>
  PROVE  Family'
BY DEF Family, Tables, ChildTablesAgree, NotOwn, Newborn, CompletedEnded, Woken,
       Answers, Reported, Ended, family

\* Family is inductive relative to Inv.
LEMMA NextFamily == Inv /\ Family /\ [Next]_vars => Family'
<1> SUFFICES ASSUME Inv, Family, [Next]_vars PROVE Family'
  OBVIOUS
<1>1. CASE Tick \/ ExecveRefused \/ WaitBlock
  BY <1>1, MovedByBlocking, KeptTables DEF Tick, ExecveRefused, WaitBlock
<1>2. CASE \/ ForkRefused \/ WaitNoChild \/ KillMissing
           \/ Exception \/ CreateBeyond \/ KillBeyond \/ UNCHANGED vars
  BY <1>2, FamilyUnchanged
     DEF ForkRefused, WaitNoChild, KillMissing, Exception, CreateBeyond, KillBeyond, Halt, vars
<1>3. CASE Fork
  BY <1>3, MovedByFork, NewSlot DEF Fork, NewPid
<1>4. CASE Execve
  BY <1>4, MovedByExecve, NewSlot DEF Execve, NewPid
<1>5. CASE WaitReap
  BY <1>5, ReapedSlot
<1>6. CASE \E p \in Pids : KillOther(p)
  <2>1. PICK x \in Pids : KillOther(x)
    BY <1>6
  <2>2. InUser /\ NotifyParentComplete(x, Killed(x))
    BY <2>1 DEF KillOther
  <2>3. EndOf(x)
    <3>1. /\ signal' = [signal EXCEPT ![x] = TRUE] /\ parent' = parent /\ nextPid' = nextPid
          /\ (~rekilled' => ~rekilled /\ state[x] # "DONE")
      BY <2>1 DEF KillOther
    <3>2. signal \in [Pids -> BOOLEAN]
      BY DEF Inv, TypeOK
    <3> QED BY <2>1, <3>1, <3>2, MovedByKill DEF EndOf
  <2> QED BY <2>2, <2>3, ToldTables
<1>7. CASE KillSelf \/ Exit
  <2>1. /\ InUser /\ NotifyParentComplete(current, Killed(current))
        /\ signal' = [signal EXCEPT ![current] = TRUE] \/ signal' = signal
        /\ parent' = parent /\ nextPid' = nextPid /\ rekilled' = rekilled
    BY <1>7 DEF KillSelf, Exit
  <2>2. current \in Pids /\ state[current] = "RUNNING"
    BY <2>1, CallerRuns
  <2>3. EndOf(current)
    <3>1. signal \in [Pids -> BOOLEAN] /\ (~rekilled' => ~rekilled /\ state[current] # "DONE")
      BY <2>1, <2>2 DEF Inv, TypeOK
    <3> QED BY <1>7, <2>1, <3>1, MovedByOwnEnd DEF EndOf
  <2> QED BY <2>1, <2>2, <2>3, ToldTables
<1> QED BY <1>1, <1>2, <1>3, <1>4, <1>5, <1>6, <1>7 DEF Next

\* Inv and Family hold in every state of every behaviour.
THEOREM FamilyHolds == Spec => [](Inv /\ Family)
<1>1. Init => Inv /\ Family
  BY InitInv, InitFamily
<1>2. Inv /\ Family /\ [Next]_vars => (Inv /\ Family)'
  BY NextInv, NextFamily
<1> QED BY <1>1, <1>2, PTL DEF Spec

(***************************************************************************)
(* The three tables of every process agree, and a process has one slot of  *)
(* one parent (syscall.c:41-67, 208-211), however calls follow each other. *)
(***************************************************************************)
THEOREM TablesAgree == Spec => []ChildTablesAgree
<1>1. Inv /\ Family => ChildTablesAgree
  BY DEF Family, Tables
<1> QED BY <1>1, FamilyHolds, PTL

(***************************************************************************)
(* A completed bit stands for a child that has ended for good              *)
(* (syscall.c:205-213).                                                    *)
(***************************************************************************)
THEOREM NoFalseCompletion == Spec => []CompletedChildrenEnded
<1>1. Inv /\ Family => CompletedChildrenEnded
  BY DEF Family, CompletedEnded, CompletedChildrenEnded, Ended, Inv, TypeOK
<1> QED BY <1>1, FamilyHolds, PTL

(***************************************************************************)
(* The exit of a child is never lost on a parent that has not been told    *)
(* (syscall.c:35-56).                                                      *)
(***************************************************************************)
THEOREM NoExitLost == Spec => []ExitIsReported
<1>1. Inv /\ Family => ExitIsReported
  BY DEF Family, Reported, ExitIsReported, Ended, Inv, TypeOK
<1> QED BY <1>1, FamilyHolds, PTL

(***************************************************************************)
(* The pid handed to a woken process stays in its saved eax until it runs  *)
(* (syscall.c:40-48).                                                      *)
(***************************************************************************)
THEOREM AnswerKept == Spec => []WokenHoldsItsChild
<1>1. Inv /\ Family => WokenHoldsItsChild
  BY DEF Family, Woken, Answers, WokenHoldsItsChild, Ended
<1> QED BY <1>1, FamilyHolds, PTL

(***************************************************************************)
(* A process that has ended after it was admitted never runs again         *)
(* (syscall.c:274-282, 312-317).                                           *)
(***************************************************************************)
THEOREM EndLasts == Spec => DoneIsFinal
<1>1. Inv /\ [Next]_vars =>
        [\A p \in Pids : state[p] = "DONE" /\ p \notin Range(start)
                           => state'[p] = "DONE"]_vars
  <2> SUFFICES ASSUME Inv, Next, NEW p \in Pids, Ended(p) PROVE state'[p] = "DONE"
    BY DEF Ended
  <2>1. CASE \E X, N : Moved(X, N)
    BY <2>1 DEF Moved, Ended
  <2>2. CASE UNCHANGED state
    BY <2>2 DEF Ended
  <2>3. CASE Tick \/ ExecveRefused \/ WaitBlock
    BY <2>1, <2>3, MovedByBlocking
  <2>4. CASE ForkRefused \/ WaitNoChild \/ KillMissing \/ WaitReap \/ Exception
           \/ CreateBeyond \/ KillBeyond
    BY <2>2, <2>4 DEF ForkRefused, WaitNoChild, KillMissing, WaitReap,
                      Exception, CreateBeyond, KillBeyond, Halt
  <2>5. CASE Fork \/ Execve
    BY <2>1, <2>5, MovedByFork, MovedByExecve
  <2>6. CASE KillSelf \/ Exit
    BY <2>1, <2>6, MovedByOwnEnd
  <2>7. CASE \E x \in Pids : KillOther(x)
    BY <2>1, <2>7, MovedByKill
  <2> QED BY <2>3, <2>4, <2>5, <2>6, <2>7 DEF Next
<1> QED BY <1>1, InvHolds, PTL DEF Spec, DoneIsFinal
=============================================================================
