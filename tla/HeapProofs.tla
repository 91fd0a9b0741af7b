----------------------------- MODULE HeapProofs ------------------------------
(***************************************************************************)
(* The headers of the kernel heap tile it, what clients hold is disjoint   *)
(* and nothing is lost, for every number of blocks and every set of sizes. *)
(***************************************************************************)
EXTENDS KernelHeap, FiniteSetTheorems, WellFoundedInduction, TLAPS

(***************************************************************************)
(* Induction: a set that has 0 and every successor up to n has all of      *)
(* 0 .. n.                                                                 *)
(***************************************************************************)
LEMMA UpTo ==
  ASSUME NEW n \in Nat, NEW S, 0 \in S,
         \A k \in 0 .. n - 1 : k \in S => k + 1 \in S
  PROVE  \A k \in 0 .. n : k \in S
<1> DEFINE T == (0 .. n) \ S
           R == {p \in Nat \X Nat : p[1] < p[2]}
<1> SUFFICES ASSUME T # {} PROVE FALSE
  OBVIOUS
<1>1. IsWellFoundedOn(R, Nat)
  BY NatLessThanWellFounded DEF OpToRel
<1>2. T \subseteq Nat /\ \A x, y \in T : <<y, x>> \notin R => x <= y
  OBVIOUS
<1>3. PICK x \in T : \A y \in T : x <= y
  <2> HIDE DEF R, T
  <2>1. \E x \in T : \A y \in T : <<y, x>> \notin R
    BY <1>1, <1>2, WFMin
  <2> QED BY <1>2, <2>1
<1>4. x \in 0 .. n /\ x # 0
  OBVIOUS
<1>5. x - 1 \in 0 .. n - 1 /\ x - 1 \notin T /\ (x - 1) + 1 = x
  BY <1>3, <1>4
<1> QED BY <1>4, <1>5

-----------------------------------------------------------------------------
(***************************************************************************)
(* The headers in C tile the heap: each ends where the next one begins,    *)
(* with no other in between, and the last leads back to the first.         *)
(***************************************************************************)
Tiled(C) ==
  /\ C \subseteq Blocks /\ 0 \in C /\ Sentinel \in C
  /\ header[Sentinel].next = 0
  /\ \A h \in C \ {Sentinel} :
       /\ header[h].next \in C /\ header[h].next > h
       /\ header[h].size = Payload(header[h].next - h)
       /\ \A b \in C : b <= h \/ b >= header[h].next

(***************************************************************************)
(* The inductive invariant.  Until a client leaves a zero in the memory it *)
(* holds, the headers there are available too: free() relies on them.      *)
(***************************************************************************)
IInv ==
  /\ TypeOK
  /\ Tiled(Chain)
  /\ {initial, cursor} \subseteq Chain
  /\ header[Sentinel].available = 0
  /\ \A a \in allocated :
       /\ a.at \in Chain \ {Sentinel}
       /\ header[a.at].available = 0 /\ header[a.at].size >= a.size
       /\ \A b \in allocated : a.at = b.at => a = b
  /\ ~zeroed => \A b \in Blocks \ {Sentinel} :
       header[b].available # 0 \/ \E a \in allocated : a.at = b

-----------------------------------------------------------------------------
(***************************************************************************)
(* The recursive functions of the model                                    *)
(***************************************************************************)
\* Two ways to follow next from h for k steps agree.
Follows(g, h, k) == g = [i \in 0 .. k |-> IF i = 0 THEN h ELSE header[g[i - 1]].next]

\* What the definition of a function by recursion says of its values.
LEMMA FollowsIs ==
  ASSUME NEW g, NEW h, NEW k \in Nat
  PROVE  Follows(g, h, k) =>
           g[0] = h /\ \A i \in 0 .. k - 1 : g[i + 1] = header[g[i]].next
<1> SUFFICES ASSUME Follows(g, h, k)
             PROVE  g[0] = h /\ \A i \in 0 .. k - 1 : g[i + 1] = header[g[i]].next
  OBVIOUS
<1>1. \A i \in 0 .. k : g[i] = IF i = 0 THEN h ELSE header[g[i - 1]].next
  BY DEF Follows
<1>2. \A i \in 0 .. k - 1 : i + 1 \in 0 .. k /\ i + 1 # 0 /\ (i + 1) - 1 = i
  OBVIOUS
<1> QED BY <1>1, <1>2

LEMMA FollowsSome ==
  ASSUME NEW h, NEW k \in Nat
  PROVE  \E g : Follows(g, h, k)
<1> DEFINE S == {l \in 0 .. k : \E g : Follows(g, h, l)}
<1>1. 0 \in S
  <2>1. Follows([i \in 0 .. 0 |-> h], h, 0)
    BY DEF Follows
  <2> QED BY <2>1
<1>2. ASSUME NEW l \in 0 .. k - 1, l \in S PROVE l + 1 \in S
  <2>1. PICK g : Follows(g, h, l)
    BY <1>2
  <2> DEFINE f == [i \in 0 .. l + 1 |-> IF i = l + 1 THEN header[g[i - 1]].next ELSE g[i]]
  <2>2. /\ l + 1 # 0 /\ f[l + 1] = header[g[(l + 1) - 1]].next
        /\ \A i \in 0 .. l : f[i] = g[i]
    OBVIOUS
  <2>3. \A i \in 0 .. l : g[i] = IF i = 0 THEN h ELSE header[g[i - 1]].next
    BY <2>1 DEF Follows
  <2>4. \A i \in 0 .. l + 1 : f[i] = IF i = 0 THEN h ELSE header[f[i - 1]].next
    <3> TAKE i \in 0 .. l + 1
    <3>1. CASE i = l + 1
      BY <2>2, <3>1
    <3>2. CASE i \in 0 .. l
      <4>1. i # 0 => i - 1 \in 0 .. l
        BY <3>2
      <4> QED BY <2>2, <2>3, <3>2, <4>1
    <3> QED BY <3>1, <3>2
  <2>5. Follows(f, h, l + 1)
    BY <2>4 DEF Follows
  <2>6. l + 1 \in 0 .. k
    OBVIOUS
  <2> QED BY <2>5, <2>6
<1>3. k \in S
  <2> HIDE DEF S
  <2> QED BY <1>1, <1>2, UpTo
<1> QED BY <1>3

\* Hop(h, k) follows next k times.
HopFacts ==
  \A h : Hop(h, 0) = h /\ \A k \in Nat : Hop(h, k + 1) = header[Hop(h, k)].next

LEMMA HopIs == HopFacts
<1> SUFFICES ASSUME NEW h
             PROVE  Hop(h, 0) = h /\ \A k \in Nat : Hop(h, k + 1) = header[Hop(h, k)].next
  BY DEF HopFacts
<1> DEFINE Hops(k) == CHOOSE g : Follows(g, h, k)
<1>1. \A k : Hop(h, k) = Hops(k)[k]
  BY DEF Hop, Follows
<1>2. \A k \in Nat : Follows(Hops(k), h, k)
  BY FollowsSome
<1> HIDE DEF Hops
<1>3. \A k \in Nat : Hops(k)[0] = h /\ \A i \in 0 .. k - 1 : Hops(k)[i + 1] = header[Hops(k)[i]].next
  BY <1>2, FollowsIs
<1>4. Hop(h, 0) = h
  BY <1>1, <1>3
<1>5. ASSUME NEW k \in Nat PROVE Hop(h, k + 1) = header[Hop(h, k)].next
  <2> DEFINE S == {i \in 0 .. k : Hops(k)[i] = Hops(k + 1)[i]}
  <2>1. 0 \in S
    BY <1>3
  <2>2. ASSUME NEW i \in 0 .. k - 1, i \in S PROVE i + 1 \in S
    <3>1. i \in 0 .. (k + 1) - 1 /\ i + 1 \in 0 .. k /\ k + 1 \in Nat
      OBVIOUS
    <3> QED BY <1>3, <2>2, <3>1
  <2>3. k \in S
    <3> HIDE DEF S
    <3> QED BY <2>1, <2>2, UpTo
  <2>4. k \in 0 .. (k + 1) - 1 /\ k + 1 \in Nat
    OBVIOUS
  <2> QED BY <1>1, <1>3, <2>3, <2>4
<1> QED BY <1>4, <1>5

\* The same of the sizes added up.
Adds(g, h, k) ==
  g = [i \in 0 .. k |-> IF i = 0 THEN 0 ELSE g[i - 1] + header[Hop(h, i - 1)].size]

LEMMA AddsIs ==
  ASSUME NEW g, NEW h, NEW k \in Nat
  PROVE  Adds(g, h, k) =>
           g[0] = 0 /\ \A i \in 0 .. k - 1 : g[i + 1] = g[i] + header[Hop(h, i)].size
<1> SUFFICES ASSUME Adds(g, h, k)
             PROVE  g[0] = 0 /\ \A i \in 0 .. k - 1 : g[i + 1] = g[i] + header[Hop(h, i)].size
  OBVIOUS
<1>1. \A i \in 0 .. k : g[i] = IF i = 0 THEN 0 ELSE g[i - 1] + header[Hop(h, i - 1)].size
  BY DEF Adds
<1>2. \A i \in 0 .. k - 1 : i + 1 \in 0 .. k /\ i + 1 # 0 /\ (i + 1) - 1 = i
  OBVIOUS
<1> QED BY <1>1, <1>2

LEMMA AddsSome ==
  ASSUME NEW h, NEW k \in Nat
  PROVE  \E g : Adds(g, h, k)
<1> DEFINE S == {l \in 0 .. k : \E g : Adds(g, h, l)}
<1>1. 0 \in S
  <2>1. Adds([i \in 0 .. 0 |-> 0], h, 0)
    BY DEF Adds
  <2> QED BY <2>1
<1>2. ASSUME NEW l \in 0 .. k - 1, l \in S PROVE l + 1 \in S
  <2>1. PICK g : Adds(g, h, l)
    BY <1>2
  <2> DEFINE f == [i \in 0 .. l + 1 |->
                     IF i = l + 1 THEN g[i - 1] + header[Hop(h, i - 1)].size ELSE g[i]]
  <2>2. /\ l + 1 # 0 /\ f[l + 1] = g[(l + 1) - 1] + header[Hop(h, (l + 1) - 1)].size
        /\ \A i \in 0 .. l : f[i] = g[i]
    OBVIOUS
  <2>3. \A i \in 0 .. l : g[i] = IF i = 0 THEN 0 ELSE g[i - 1] + header[Hop(h, i - 1)].size
    BY <2>1 DEF Adds
  <2>4. \A i \in 0 .. l + 1 : f[i] = IF i = 0 THEN 0 ELSE f[i - 1] + header[Hop(h, i - 1)].size
    <3> TAKE i \in 0 .. l + 1
    <3>1. CASE i = l + 1
      BY <2>2, <3>1
    <3>2. CASE i \in 0 .. l
      <4>1. i # 0 => i - 1 \in 0 .. l
        BY <3>2
      <4> QED BY <2>2, <2>3, <3>2, <4>1
    <3> QED BY <3>1, <3>2
  <2>5. Adds(f, h, l + 1)
    BY <2>4 DEF Adds
  <2>6. l + 1 \in 0 .. k
    OBVIOUS
  <2> QED BY <2>5, <2>6
<1>3. k \in S
  <2> HIDE DEF S
  <2> QED BY <1>1, <1>2, UpTo
<1> QED BY <1>3

LEMMA SumIs ==
  ASSUME NEW h
  PROVE  /\ Sum(h, 0) = 0
         /\ \A k \in Nat : Sum(h, k + 1) = Sum(h, k) + header[Hop(h, k)].size
<1> DEFINE Sums(k) == CHOOSE g : Adds(g, h, k)
<1>1. \A k : Sum(h, k) = Sums(k)[k]
  BY DEF Sum, Adds
<1>2. \A k \in Nat : Adds(Sums(k), h, k)
  BY AddsSome
<1> HIDE DEF Sums
<1>3. \A k \in Nat : Sums(k)[0] = 0
        /\ \A i \in 0 .. k - 1 : Sums(k)[i + 1] = Sums(k)[i] + header[Hop(h, i)].size
  BY <1>2, AddsIs
<1>4. Sum(h, 0) = 0
  BY <1>1, <1>3
<1>5. ASSUME NEW k \in Nat PROVE Sum(h, k + 1) = Sum(h, k) + header[Hop(h, k)].size
  <2> DEFINE S == {i \in 0 .. k : Sums(k)[i] = Sums(k + 1)[i]}
  <2>1. 0 \in S
    BY <1>3
  <2>2. ASSUME NEW i \in 0 .. k - 1, i \in S PROVE i + 1 \in S
    <3>1. i \in 0 .. (k + 1) - 1 /\ i + 1 \in 0 .. k /\ k + 1 \in Nat
      OBVIOUS
    <3> QED BY <1>3, <2>2, <3>1
  <2>3. k \in S
    <3> HIDE DEF S
    <3> QED BY <2>1, <2>2, UpTo
  <2>4. k \in 0 .. (k + 1) - 1 /\ k + 1 \in Nat
    OBVIOUS
  <2> QED BY <1>1, <1>3, <2>3, <2>4
<1> QED BY <1>4, <1>5

-----------------------------------------------------------------------------
LEMMA Numbers ==
  /\ BlockCount \in Nat /\ BlockCount > 3 /\ Sentinel = BlockCount - 1
  /\ Blocks = 0 .. Sentinel /\ Sentinel \in Nat /\ Sentinel >= 3
  /\ Sizes \subseteq Nat /\ 0 \notin Sizes
BY HeapAssumption DEF Sentinel, Blocks

(***************************************************************************)
(* The headers reached from the first are those of any tiling, so that     *)
(* there is only one: the walk passes the block of every b in b steps.     *)
(***************************************************************************)
ChainFacts == \A C \in SUBSET Blocks : Tiled(C) => Chain = C

LEMMA ChainIs == ChainFacts
<1> SUFFICES ASSUME NEW C \in SUBSET Blocks, Tiled(C) PROVE Chain = C
  BY DEF ChainFacts
<1>1. /\ 0 \in C /\ Sentinel \in C /\ header[Sentinel].next = 0
      /\ \A h \in C \ {Sentinel} :
           /\ header[h].next \in C /\ header[h].next > h
           /\ \A b \in C : b <= h \/ b >= header[h].next
  BY DEF Tiled
<1>2. Hop(0, 0) = 0 /\ \A k \in Nat : Hop(0, k + 1) = header[Hop(0, k)].next
  BY HopIs DEF HopFacts
<1>3. \A b \in C : b \in 0 .. Sentinel /\ b \in Nat
  BY Numbers
<1>4. Chain \subseteq C
  <2> SUFFICES ASSUME NEW k \in Blocks PROVE Hop(0, k) \in C
    BY DEF Chain
  <2> DEFINE S == {i \in 0 .. k : Hop(0, i) \in C}
  <2>1. k \in Nat
    BY Numbers
  <2>2. 0 \in S
    BY <1>1, <1>2, <2>1
  <2>3. ASSUME NEW i \in 0 .. k - 1, i \in S PROVE i + 1 \in S
    <3>1. Hop(0, i + 1) = header[Hop(0, i)].next /\ i + 1 \in 0 .. k
      BY <1>2, <2>1
    <3> QED BY <1>1, <2>3, <3>1
  <2>4. k \in S
    <3> HIDE DEF S
    <3> QED BY <2>1, <2>2, <2>3, UpTo
  <2> QED BY <2>4
<1>5. ASSUME NEW b \in C PROVE b \in Chain
  <2> DEFINE Passed(n, i) ==
               /\ Hop(0, i) \in C /\ Hop(0, i) <= n
               /\ Hop(0, i) = Sentinel \/ header[Hop(0, i)].next > n
             S == {n \in 0 .. b : \E i \in 0 .. n : Passed(n, i)}
  <2>1. 0 \in S
    <3>1. Passed(0, 0)
      BY <1>1, <1>2, <1>3
    <3> HIDE DEF Passed
    <3> QED BY <1>3, <3>1
  <2>2. ASSUME NEW n \in 0 .. b - 1, n \in S PROVE n + 1 \in S
    <3>1. PICK i \in 0 .. n : Passed(n, i)
      BY <2>2
    <3>2. n + 1 \in 0 .. b /\ i \in 0 .. n + 1 /\ i + 1 \in 0 .. n + 1 /\ n \in Nat /\ i \in Nat
      BY <1>3
    <3>3. CASE Hop(0, i) = Sentinel \/ header[Hop(0, i)].next > n + 1
      <4>1. Passed(n + 1, i)
        BY <1>3, <3>1, <3>2, <3>3
      <4> HIDE DEF Passed
      <4> QED BY <3>2, <4>1
    <3>4. CASE Hop(0, i) # Sentinel /\ ~(header[Hop(0, i)].next > n + 1)
      <4>1. header[Hop(0, i)].next \in C /\ header[Hop(0, i)].next > n
        BY <1>1, <3>1, <3>4
      <4>2. Hop(0, i + 1) = n + 1 /\ n + 1 \in C
        BY <1>2, <1>3, <3>2, <3>4, <4>1
      <4>3. n + 1 # Sentinel => header[n + 1].next > n + 1
        BY <1>1, <4>2
      <4>4. Passed(n + 1, i + 1)
        BY <3>2, <4>2, <4>3
      <4> HIDE DEF Passed
      <4> QED BY <3>2, <4>4
    <3> QED BY <3>3, <3>4
  <2>3. b \in S
    <3> HIDE DEF S
    <3> QED BY <1>3, <2>1, <2>2, UpTo
  <2>4. PICK i \in 0 .. b : Passed(b, i)
    BY <2>3
  <2>5. Hop(0, i) = b
    <3>1. Hop(0, i) \in 0 .. Sentinel /\ b \in 0 .. Sentinel /\ Hop(0, i) <= b
      BY <1>3, <2>4
    <3>2. Hop(0, i) # Sentinel => header[Hop(0, i)].next > b /\ (b <= Hop(0, i) \/ b >= header[Hop(0, i)].next)
      BY <1>1, <2>4
    <3>3. Hop(0, i) # Sentinel => header[Hop(0, i)].next \in 0 .. Sentinel
      BY <1>1, <1>3, <2>4
    <3> QED BY <3>1, <3>2, <3>3, Numbers
  <2>6. i \in Blocks
    BY <1>3, Numbers
  <2> QED BY <2>5, <2>6 DEF Chain
<1> QED BY <1>4, <1>5

LEMMA HopIsNext == HopFacts'
BY HopIs, PTL

LEMMA ChainIsNext == ChainFacts'
BY ChainIs, PTL

\* The length of a header that spans n blocks.
LEMMA LengthIs ==
  ASSUME NEW h, NEW n \in Int, header[h].size = Payload(n)
  PROVE  Length(h) = n /\ Payload(n) = 256 * n - 12
<1>1. Length(h) = (256 * n) \div 256
  BY DEF Length, Payload, BlockSize, HeaderSize
<1> QED BY <1>1 DEF Payload, BlockSize, HeaderSize

\* The headers of the chain.
LEMMA InChain ==
  ASSUME IInv, NEW h \in Chain
  PROVE  /\ h \in 0 .. Sentinel /\ header[h].next \in Chain
         /\ h # Sentinel =>
              /\ h < Sentinel /\ header[h].next > h /\ header[h].next \in 0 .. Sentinel
              /\ header[h].next = h + Length(h) /\ Length(h) \in Int
              /\ header[h].size = 256 * (header[h].next - h) - 12
              /\ \A b \in Chain : b <= h \/ b >= header[h].next
<1>1. /\ Chain \subseteq 0 .. Sentinel /\ 0 \in Chain
      /\ header[Sentinel].next = 0
      /\ \A g \in Chain \ {Sentinel} :
           /\ header[g].next \in Chain /\ header[g].next > g
           /\ header[g].size = Payload(header[g].next - g)
           /\ \A b \in Chain : b <= g \/ b >= header[g].next
  BY Numbers DEF IInv, Tiled
<1>2. h \in 0 .. Sentinel /\ header[h].next \in Chain
  BY <1>1
<1>3. ASSUME h # Sentinel
      PROVE  /\ h < Sentinel /\ header[h].next > h /\ header[h].next \in 0 .. Sentinel
             /\ header[h].next = h + Length(h) /\ Length(h) \in Int
             /\ header[h].size = 256 * (header[h].next - h) - 12
             /\ \A b \in Chain : b <= h \/ b >= header[h].next
  <2>1. /\ header[h].next \in 0 .. Sentinel /\ header[h].next > h
        /\ header[h].size = Payload(header[h].next - h)
        /\ \A b \in Chain : b <= h \/ b >= header[h].next
    BY <1>1, <1>3
  <2>2. h \in Int /\ header[h].next \in Int /\ h < Sentinel
    BY <1>2, <1>3, <2>1, Numbers
  <2>3. header[h].next - h \in Int
    BY <2>2
  <2>4. Length(h) = header[h].next - h /\ header[h].size = 256 * (header[h].next - h) - 12
    BY <2>1, <2>3, LengthIs
  <2> QED BY <2>1, <2>2, <2>4
<1> QED BY <1>2, <1>3

-----------------------------------------------------------------------------
LEMMA InvTiled == IInv => HeapTiled
BY InChain DEF IInv, Tiled, HeapTiled

LEMMA InvDisjoint == IInv => AllocationsDisjoint
<1> SUFFICES ASSUME IInv, NEW a \in allocated
             PROVE  /\ a.at \in Chain /\ header[a.at].available = 0
                    /\ Payload(Length(a.at)) >= a.size
                    /\ \A b \in allocated : a # b => Extent(a) \cap Extent(b) = {}
                    /\ Extent(a) \cap Chain = {a.at}
  BY DEF AllocationsDisjoint
<1>1. /\ a.at \in Chain \ {Sentinel} /\ header[a.at].available = 0
      /\ header[a.at].size >= a.size
      /\ \A b \in allocated : b.at \in Chain \ {Sentinel} /\ (a.at = b.at => a = b)
  BY DEF IInv
<1>2. \A b \in allocated :
        /\ b.at \in 0 .. Sentinel /\ header[b.at].next \in 0 .. Sentinel
        /\ header[b.at].next > b.at
        /\ Extent(b) = b.at .. header[b.at].next - 1
        /\ \A h \in Chain : h <= b.at \/ h >= header[b.at].next
  <2> TAKE b \in allocated
  <2>1. /\ b.at \in 0 .. Sentinel /\ header[b.at].next \in 0 .. Sentinel
        /\ header[b.at].next > b.at
        /\ header[b.at].next = b.at + Length(b.at) /\ Length(b.at) \in Int
        /\ \A h \in Chain : h <= b.at \/ h >= header[b.at].next
    BY <1>1, InChain
  <2>2. Extent(b) = b.at .. header[b.at].next - 1
    BY <2>1 DEF Extent
  <2> QED BY <2>1, <2>2
<1>3. Payload(Length(a.at)) = header[a.at].size
  <2>1. a.at \in Int /\ header[a.at].next \in Int
    BY <1>2
  <2>2. header[a.at].size = Payload(header[a.at].next - a.at)
    BY <1>1 DEF IInv, Tiled
  <2>3. Length(a.at) = header[a.at].next - a.at
    BY <2>1, <2>2, LengthIs
  <2> QED BY <2>2, <2>3
<1>4. ASSUME NEW b \in allocated, a # b PROVE Extent(a) \cap Extent(b) = {}
  <2>1. a.at # b.at
    BY <1>1, <1>4
  <2>2. b.at >= header[a.at].next \/ a.at >= header[b.at].next
    BY <1>1, <1>2, <2>1
  <2> QED BY <1>2, <2>2
<1>5. Extent(a) \cap Chain = {a.at}
  <2>1. \A h \in Chain : h \in 0 .. Sentinel
    BY InChain
  <2> QED BY <1>1, <1>2, <2>1
<1> QED BY <1>1, <1>3, <1>4, <1>5

LEMMA InvLeaks == IInv => NothingLeaks
<1> SUFFICES ASSUME IInv, ~zeroed, NEW h \in Chain \ {Sentinel}
             PROVE  header[h].available # 0 \/ \E a \in allocated : a.at = h
  BY DEF NothingLeaks
<1>1. h \in Blocks \ {Sentinel}
  BY InChain, Numbers
<1> QED BY <1>1 DEF IInv

-----------------------------------------------------------------------------
\* What type a header has, without its set of sizes.
LEMMA HeaderTypes ==
  ASSUME TypeOK, NEW b \in Blocks
  PROVE  /\ header[b].next \in Blocks /\ header[b].available \in 0 .. 2
         /\ header[b].size \in Int
<1>1. \A n \in 1 .. BlockCount : Payload(n) \in Int
  BY Numbers DEF Payload, BlockSize, HeaderSize
<1> QED BY <1>1 DEF TypeOK

\* The next of every block but the last, and of the last.
LEMMA Around ==
  ASSUME NEW n \in Nat \ {0}
  PROVE  /\ \A b \in 0 .. n - 2 : (b + 1) % n = b + 1
         /\ n % n = 0
OBVIOUS

LEMMA InitInv == Init => IInv
<1> SUFFICES ASSUME Init PROVE IInv
  OBVIOUS
<1>1. \A b \in Blocks : /\ header[b].size = Payload(1)
                        /\ header[b].available = IF b = Sentinel THEN 0 ELSE 1
                        /\ header[b].next = IF b = Sentinel THEN 0 ELSE b + 1
  <2>1. \A b \in Blocks : (b + 1) % BlockCount = IF b = Sentinel THEN 0 ELSE b + 1
    <3> TAKE b \in Blocks
    <3>1. CASE b = Sentinel
      BY <3>1, Numbers, Around
    <3>2. CASE b # Sentinel
      <4>1. b \in 0 .. BlockCount - 2
        BY <3>2, Numbers
      <4> QED BY <3>2, <4>1, Numbers, Around
    <3> QED BY <3>1, <3>2
  <2> QED BY <2>1 DEF Init, InitialAvailable
<1>2. Tiled(Blocks)
  BY <1>1, Numbers DEF Tiled
<1>3. Chain = Blocks
  BY <1>2, ChainIs DEF ChainFacts
<1>4. TypeOK
  <2>1. Payload(1) \in {0} \cup {Payload(n) : n \in 1 .. BlockCount}
    BY Numbers
  <2>2. \A b \in Blocks : header[b] \in [size : {0} \cup {Payload(n) : n \in 1 .. BlockCount},
                                         available : 0 .. 2, next : Blocks]
    <3> TAKE b \in Blocks
    <3>1. header[b] = [size |-> Payload(1), available |-> header[b].available, next |-> header[b].next]
      BY DEF Init
    <3>2. header[b].available \in 0 .. 2 /\ header[b].next \in Blocks
      BY <1>1, Numbers
    <3> QED BY <2>1, <3>1, <3>2
  <2>3. header = [b \in Blocks |-> header[b]]
    BY DEF Init
  <2>4. 3 \in Blocks
    BY Numbers
  <2> QED BY <2>2, <2>3, <2>4 DEF Init, TypeOK
<1>5. {initial, cursor} \subseteq Chain /\ allocated = {} /\ 3 \in Blocks
  BY <1>3, Numbers DEF Init
<1>6. \A b \in Blocks \ {Sentinel} : header[b].available # 0
  BY <1>1
<1>7. header[Sentinel].available = 0
  BY <1>1, Numbers
<1> QED BY <1>2, <1>3, <1>4, <1>5, <1>6, <1>7 DEF IInv

LEMMA ChainSame ==
  ASSUME header' = header
  PROVE  Chain' = Chain /\ \A C : Tiled(C) <=> Tiled(C)'
BY DEF Chain, Hop, Tiled

LEMMA MallocInv == ASSUME IInv, NEW size \in Sizes, Malloc(size) PROVE IInv'
<1>1. /\ want' = size /\ cursor' = initial
      /\ UNCHANGED <<header, initial, allocated, zeroed>>
  BY DEF Malloc
<1>2. Chain' = Chain /\ Tiled(Chain)'
  BY <1>1, ChainSame DEF IInv
<1>3. TypeOK'
  BY <1>1 DEF IInv, TypeOK
<1> QED BY <1>1, <1>2, <1>3 DEF IInv

LEMMA SkipInv == ASSUME IInv, Skip PROVE IInv'
<1>1. PICK k \in Blocks : cursor' = Hop(cursor, k + 1)
  BY DEF Skip, Skipped
<1>2. UNCHANGED <<header, initial, want, allocated, zeroed>>
  BY DEF Skip
<1>3. cursor' \in Chain
  <2> DEFINE S == {i \in 0 .. k + 1 : Hop(cursor, i) \in Chain}
  <2>1. k \in Nat /\ k + 1 \in Nat
    BY Numbers
  <2>2. 0 \in S
    BY <2>1, HopIs DEF IInv, HopFacts
  <2>3. ASSUME NEW i \in 0 .. (k + 1) - 1, i \in S PROVE i + 1 \in S
    <3>1. Hop(cursor, i + 1) = header[Hop(cursor, i)].next /\ i + 1 \in 0 .. k + 1
      BY <2>1, HopIs DEF HopFacts
    <3> QED BY <2>3, <3>1, InChain
  <2>4. k + 1 \in S
    <3> HIDE DEF S
    <3> QED BY <2>1, <2>2, <2>3, UpTo
  <2> QED BY <1>1, <2>4
<1>4. Chain' = Chain /\ Tiled(Chain)'
  BY <1>2, ChainSame DEF IInv
<1>5. TypeOK'
  <2>1. Chain \subseteq Blocks
    BY DEF IInv, Tiled
  <2> QED BY <1>2, <1>3, <2>1 DEF IInv, TypeOK
<1> QED BY <1>2, <1>3, <1>4, <1>5 DEF IInv

Headers == [size : {0} \cup {Payload(n) : n \in 1 .. BlockCount}, available : 0 .. 2, next : Blocks]

\* Available headers in a row: where they end and how much they have.
LEMMA RowIs ==
  ASSUME IInv, NEW c \in Chain, NEW k \in Nat, \A i \in 0 .. k : header[Hop(c, i)].available # 0
  PROVE  LET next == Hop(c, k + 1)
         IN  /\ next \in Chain /\ next > c /\ c # Sentinel
             /\ Sum(c, k + 1) \in Int /\ Sum(c, k + 1) <= 256 * (next - c) - 12
             /\ \A h \in Chain : c <= h /\ h < next => header[h].available # 0
<1> DEFINE Row(i) ==
             /\ Hop(c, i) \in Chain /\ Hop(c, i) >= c /\ (i > 0 => Hop(c, i) > c)
             /\ Sum(c, i) \in Int /\ Sum(c, i) = 256 * (Hop(c, i) - c) - 12 * i
             /\ \A h \in Chain : c <= h /\ h < Hop(c, i) => header[h].available # 0
           S == {i \in 0 .. k + 1 : Row(i)}
<1>1. \A h \in Chain : h \in 0 .. Sentinel /\ h \in Nat
  BY InChain, Numbers
<1>2. Hop(c, 0) = c /\ \A i \in Nat : Hop(c, i + 1) = header[Hop(c, i)].next
  BY HopIs DEF HopFacts
<1>3. Sum(c, 0) = 0 /\ \A i \in Nat : Sum(c, i + 1) = Sum(c, i) + header[Hop(c, i)].size
  BY SumIs
<1>4. header[Sentinel].available = 0
  BY DEF IInv
<1>5. 0 \in S
  <2>1. Row(0)
    BY <1>1, <1>2, <1>3
  <2> HIDE DEF Row
  <2> QED BY <2>1
<1>6. ASSUME NEW i \in 0 .. (k + 1) - 1, i \in S PROVE i + 1 \in S
  <2> DEFINE x == Hop(c, i)
             y == Hop(c, i + 1)
  <2>1. Row(i) /\ i \in 0 .. k /\ i + 1 \in 0 .. k + 1 /\ i \in Nat
    BY <1>6
  <2>2. /\ x \in Chain /\ x >= c /\ Sum(c, i) \in Int
        /\ Sum(c, i) = 256 * (x - c) - 12 * i
        /\ \A h \in Chain : c <= h /\ h < x => header[h].available # 0
    BY <2>1
  <2>3. x # Sentinel /\ header[x].available # 0
    BY <1>4, <2>1
  <2>4. y = header[x].next /\ Sum(c, i + 1) = Sum(c, i) + header[x].size
    BY <1>2, <1>3, <2>1
  <2> HIDE DEF x, y
  <2>5. /\ y \in Chain /\ y > x /\ header[x].size = 256 * (y - x) - 12
        /\ \A h \in Chain : h <= x \/ h >= y
    BY <2>2, <2>3, <2>4, InChain
  <2>6. x \in Nat /\ y \in Nat /\ c \in Nat
    BY <1>1, <2>2, <2>5
  <2>7. y > c /\ y >= c /\ Sum(c, i + 1) \in Int /\ Sum(c, i + 1) = 256 * (y - c) - 12 * (i + 1)
    BY <2>1, <2>2, <2>4, <2>5, <2>6
  <2>8. \A h \in Chain : c <= h /\ h < y => header[h].available # 0
    <3> SUFFICES ASSUME NEW h \in Chain, c <= h, h < y PROVE header[h].available # 0
      OBVIOUS
    <3>1. h \in Nat /\ (h < x \/ h = x)
      BY <1>1, <2>5, <2>6
    <3> QED BY <2>2, <2>3, <3>1
  <2>9. Row(i + 1)
    <3>1. y \in Chain
      BY <2>5
    <3> QED BY <2>7, <2>8, <3>1 DEF y
  <2> HIDE DEF Row
  <2> QED BY <2>1, <2>9
<1>7. Row(k + 1)
  <2>1. k + 1 \in S
    <3> HIDE DEF S
    <3> QED BY <1>5, <1>6, UpTo
  <2> HIDE DEF Row
  <2> QED BY <2>1
<1>8. c # Sentinel
  <2>1. 0 \in 0 .. k
    OBVIOUS
  <2> QED BY <1>2, <1>4, <2>1
<1>9. 256 * (Hop(c, k + 1) - c) - 12 * (k + 1) <= 256 * (Hop(c, k + 1) - c) - 12
  <2>1. Hop(c, k + 1) - c \in Int
    BY <1>1, <1>7
  <2> QED BY <2>1
<1> QED BY <1>7, <1>8, <1>9

\* heap_join_chain() takes what lies between the cursor and next out of the
\* chain.
LEMMA Joins ==
  ASSUME IInv, NEW next \in Chain, cursor # Sentinel, next > cursor,
         header' = [header EXCEPT ![cursor] = Joined(cursor, next)]
  PROVE  /\ Chain' = {h \in Chain : h <= cursor \/ h >= next}
         /\ Tiled(Chain)' /\ header' \in [Blocks -> Headers]
<1>0. PICK C : C = {h \in Chain : h <= cursor \/ h >= next}
  OBVIOUS
<1>1. /\ cursor \in Chain \ {Sentinel} /\ 0 \in Chain /\ Sentinel \in Chain
      /\ header[Sentinel].next = 0 /\ header \in [Blocks -> Headers]
  BY DEF IInv, Tiled, TypeOK, Headers
<1>2. \A h \in Chain : h \in 0 .. Sentinel /\ h \in Nat /\ h \in Blocks
  BY InChain, Numbers
<1>3. /\ header'[cursor] = Joined(cursor, next)
      /\ \A b \in Blocks : b # cursor => header'[b] = header[b]
  BY <1>1, <1>2 DEF Headers
<1>4. header' \in [Blocks -> Headers]
  <2>1. next - cursor \in 1 .. BlockCount
    BY <1>1, <1>2, Numbers
  <2>2. Joined(cursor, next) \in Headers
    BY <1>2, <2>1 DEF Joined, Headers
  <2> QED BY <1>1, <2>2
<1>5. Tiled(C)'
  <2>1. C \subseteq Blocks /\ 0 \in C /\ Sentinel \in C
    <3>1. cursor \in 0 .. Sentinel /\ next \in 0 .. Sentinel /\ C \subseteq Blocks
      BY <1>0, <1>1, <1>2
    <3>2. 0 <= cursor /\ Sentinel >= next
      BY <3>1, Numbers
    <3> QED BY <1>0, <1>1, <3>1, <3>2
  <2>2. header'[Sentinel].next = 0
    BY <1>1, <1>2, <1>3
  <2>3. ASSUME NEW h \in C \ {Sentinel}
        PROVE  /\ header'[h].next \in C /\ header'[h].next > h
               /\ header'[h].size = Payload(header'[h].next - h)
               /\ \A b \in C : b <= h \/ b >= header'[h].next
    <3>1. CASE h = cursor
      <4>1. header'[h].next = next /\ header'[h].size = Payload(next - cursor)
        BY <1>3, <3>1 DEF Joined
      <4> QED BY <1>0, <1>1, <1>2, <3>1, <4>1
    <3>2. CASE h # cursor
      <4>1. h \in Chain \ {Sentinel} /\ header'[h] = header[h] /\ (h <= cursor \/ h >= next)
        BY <1>0, <1>2, <1>3, <3>2
      <4>2. /\ header[h].next \in Chain /\ header[h].next > h
            /\ header[h].size = Payload(header[h].next - h)
            /\ \A b \in Chain : b <= h \/ b >= header[h].next
        BY <4>1 DEF IInv, Tiled
      <4>3. header[h].next <= cursor \/ header[h].next >= next
        BY <1>1, <1>2, <3>2, <4>1, <4>2
      <4> QED BY <1>0, <4>1, <4>2, <4>3
    <3> QED BY <3>1, <3>2
  <2> QED BY <2>1, <2>2, <2>3 DEF Tiled
<1>6. Chain' = C
  <2>1. C \in SUBSET Blocks
    BY <1>0, <1>2
  <2> QED BY <1>5, <2>1, ChainIsNext DEF ChainFacts
<1> QED BY <1>0, <1>4, <1>5, <1>6

LEMMA FoundInv == ASSUME IInv, Found PROVE IInv'
<1> DEFINE c == cursor
<1>1. PICK k \in Blocks :
        /\ want # 0 /\ ChainFit(c, want, k)
        /\ header' = [header EXCEPT ![c] = Joined(c, header[Hop(c, k)].next)]
        /\ initial' = header[Hop(c, k)].next
  BY DEF Found
<1> DEFINE next == Hop(c, k + 1)
           new == [at |-> c, size |-> want]
<1>2. allocated' = allocated \cup {new} /\ want' = 0 /\ UNCHANGED <<cursor, zeroed>>
  BY DEF Found
<1>3. k \in Nat /\ want \in Sizes /\ want \in Nat
  BY <1>1, Numbers DEF IInv, TypeOK
<1>4. next = header[Hop(c, k)].next
  BY <1>3, HopIs DEF HopFacts
<1>5. /\ \A i \in 0 .. k : header[Hop(c, i)].available # 0
      /\ Sum(c, k + 1) >= want
  BY <1>1 DEF ChainFit
<1>6. /\ c \in Chain /\ next \in Chain /\ next > c /\ c # Sentinel
      /\ Sum(c, k + 1) \in Int /\ Sum(c, k + 1) <= 256 * (next - c) - 12
      /\ \A h \in Chain : c <= h /\ h < next => header[h].available # 0
  <2>1. c \in Chain
    BY DEF IInv
  <2> QED BY <1>3, <1>5, <2>1, RowIs
<1>7. header' = [header EXCEPT ![c] = Joined(c, next)] /\ initial' = next
  BY <1>1, <1>4
<1> HIDE DEF next
<1>8. /\ Chain' = {h \in Chain : h <= c \/ h >= next}
      /\ Tiled(Chain)' /\ header' \in [Blocks -> Headers]
  BY <1>6, <1>7, Joins
<1>9. \A h \in Chain : h \in Nat /\ h \in Blocks
  BY InChain, Numbers
<1>10. /\ header'[c] = Joined(c, next)
       /\ \A b \in Blocks : b # c => header'[b] = header[b]
  BY <1>6, <1>7, <1>9 DEF IInv, TypeOK
<1>11. TypeOK'
  BY <1>2, <1>3, <1>6, <1>7, <1>8, <1>9 DEF IInv, TypeOK, Allocation, Headers
<1>12. {initial', cursor'} \subseteq Chain'
  BY <1>2, <1>6, <1>7, <1>8, <1>9
<1>13. header'[Sentinel].available = 0
  BY <1>6, <1>10, Numbers DEF IInv
<1>14. header[c].available # 0
  BY <1>6, <1>9
<1>15. ASSUME NEW a \in allocated'
       PROVE  /\ a.at \in Chain' \ {Sentinel}
              /\ header'[a.at].available = 0 /\ header'[a.at].size >= a.size
              /\ \A b \in allocated' : a.at = b.at => a = b
  <2>1. \A b \in allocated : /\ b.at \in Chain \ {Sentinel} /\ header[b.at].available = 0
                             /\ header[b.at].size >= b.size /\ b.at # c
    BY <1>14 DEF IInv
  <2>2. CASE a \in allocated
    <3>1. a.at \in Chain' /\ header'[a.at] = header[a.at]
      BY <1>6, <1>8, <1>9, <1>10, <2>1, <2>2
    <3> QED BY <1>2, <2>1, <2>2, <3>1 DEF IInv
  <2>3. CASE a = new
    <3>1. a.at = c /\ a.size = want
      BY <2>3
    <3>2. header'[c].available = 0 /\ header'[c].size >= want
      <4>1. next - c \in Int /\ c \in Int
        BY <1>6, <1>9
      <4> QED BY <1>3, <1>5, <1>6, <1>10, <4>1 DEF Joined, Payload, BlockSize, HeaderSize
    <3>3. c \in Chain' \ {Sentinel}
      BY <1>6, <1>8, <1>9
    <3> QED BY <1>2, <2>1, <2>3, <3>1, <3>2, <3>3
  <2> QED BY <1>2, <2>2, <2>3
<1>16. ASSUME ~zeroed', NEW b \in Blocks \ {Sentinel}
       PROVE  header'[b].available # 0 \/ \E a \in allocated' : a.at = b
  <2>1. CASE b = c
    <3>1. new \in allocated' /\ new.at = c
      BY <1>2
    <3> QED BY <2>1, <3>1
  <2>2. CASE b # c
    BY <1>2, <1>10, <1>16, <2>2 DEF IInv
  <2> QED BY <2>1, <2>2
<1> QED BY <1>8, <1>11, <1>12, <1>13, <1>15, <1>16 DEF IInv

-----------------------------------------------------------------------------
\* What a client holds, and where it ends.
LEMMA Held ==
  ASSUME IInv, NEW a \in allocated
  PROVE  LET h == a.at
             n == header[h].next
         IN  /\ h \in Chain \ {Sentinel} /\ h \in Nat /\ h \in Blocks
             /\ n \in Chain /\ n \in Nat /\ n > h /\ n \in Blocks
             /\ header[h].size = 256 * (n - h) - 12 /\ header[h].size >= a.size
             /\ Length(h) \in Int /\ n = h + Length(h)
             /\ \A b \in Chain : b <= h \/ b >= n
             /\ a.size \in Nat
<1>1. /\ a.at \in Chain \ {Sentinel} /\ header[a.at].size >= a.size /\ a \in Allocation
  BY DEF IInv, TypeOK
<1>2. a.size \in Nat
  BY <1>1, Numbers DEF Allocation
<1>3. \A b \in Chain : b \in Nat /\ b \in Blocks
  BY InChain, Numbers
<1> QED BY <1>1, <1>2, <1>3, InChain

\* What free() makes of each header.
LEMMA FreedIs ==
  ASSUME TypeOK, NEW h \in Blocks, header' = Freed(h), NEW b \in Blocks
  PROVE  /\ header'[b].next = IF b \in Split(h)
                                THEN IF b < RestOf(h) THEN b + 1 ELSE header[h].next
                              ELSE header[b].next
         /\ header'[b].size = IF b \in Split(h)
                                THEN IF b < RestOf(h) THEN Payload(1) ELSE Payload(2)
                              ELSE header[b].size
         /\ header'[b].available = IF b = h THEN 1 ELSE header[b].available
         /\ DOMAIN header' = Blocks
         /\ header'[b] = [size |-> header'[b].size, available |-> header'[b].available,
                          next |-> header'[b].next]
<1>1. header[b] \in Headers
  BY DEF TypeOK, Headers
<1> DEFINE s == IF b \in Split(h) THEN SplitHeader(h, b) ELSE header[b]
<1>2. s = [size |-> IF b \in Split(h)
                      THEN IF b < RestOf(h) THEN Payload(1) ELSE Payload(2)
                    ELSE header[b].size,
           available |-> header[b].available,
           next |-> IF b \in Split(h)
                      THEN IF b < RestOf(h) THEN b + 1 ELSE header[h].next
                    ELSE header[b].next]
  BY <1>1 DEF SplitHeader, Headers
<1>3. DOMAIN header' = Blocks /\ header'[b] = IF b = h THEN [s EXCEPT !.available = 1] ELSE s
  BY DEF Freed, NowAvailable
<1> HIDE DEF s
<1> QED BY <1>2, <1>3

\* free() puts the headers that it splits off into the chain.
LEMMA Splits ==
  ASSUME IInv, NEW a \in allocated, header' = Freed(a.at)
  PROVE  /\ Chain' = Chain \cup Split(a.at) /\ Chain \cap Split(a.at) \subseteq {a.at}
         /\ Tiled(Chain)' /\ header' \in [Blocks -> Headers]
<1>0. PICK C, h, n, r : /\ C = Chain \cup Split(a.at) /\ h = a.at
                        /\ n = header[h].next /\ r = RestOf(h)
  OBVIOUS
<1>1. /\ h \in Chain \ {Sentinel} /\ h \in Nat /\ h \in Blocks
      /\ n \in Chain /\ n \in Nat /\ n > h /\ n \in Blocks
      /\ Length(h) \in Int /\ n = h + Length(h)
      /\ \A b \in Chain : b <= h \/ b >= n
  BY <1>0, Held
<1>2. r = n - 2 /\ r \in Int /\ Split(h) = IF n - h > 2 THEN h .. r ELSE {}
  BY <1>0, <1>1 DEF RestOf, Split
<1>3. /\ \A b \in Chain : b \in Nat /\ b \in Blocks
      /\ \A b \in Split(h) : b \in Nat /\ b \in Blocks /\ h <= b /\ b <= r /\ n - h > 2
  <2>1. \A b \in Chain : b \in Nat /\ b \in Blocks
    BY InChain, Numbers
  <2>2. Sentinel \in Nat /\ Blocks = 0 .. Sentinel
    BY Numbers
  <2> QED BY <1>1, <1>2, <2>1, <2>2
<1>4. \A b \in Blocks :
        /\ header'[b].next = IF b \in Split(h) THEN IF b < r THEN b + 1 ELSE n ELSE header[b].next
        /\ header'[b].size = IF b \in Split(h) THEN IF b < r THEN Payload(1) ELSE Payload(2)
                             ELSE header[b].size
        /\ header'[b].available = IF b = h THEN 1 ELSE header[b].available
        /\ DOMAIN header' = Blocks
        /\ header'[b] = [size |-> header'[b].size, available |-> header'[b].available,
                         next |-> header'[b].next]
  <2>1. TypeOK
    BY DEF IInv
  <2>2. header' = Freed(h) /\ r = RestOf(h) /\ n = header[h].next /\ h \in Blocks
    BY <1>0, <1>1
  <2> QED BY <2>1, <2>2, FreedIs
<1>5. Chain \cap Split(h) \subseteq {h}
  BY <1>1, <1>2, <1>3
<1>6. header' \in [Blocks -> Headers]
  <2>1. ASSUME NEW b \in Blocks PROVE header'[b] \in Headers
    <3>1. header[b] \in Headers
      BY DEF IInv, TypeOK, Headers
    <3>2. Payload(1) \in {0} \cup {Payload(k) : k \in 1 .. BlockCount}
          /\ Payload(2) \in {0} \cup {Payload(k) : k \in 1 .. BlockCount}
      BY Numbers
    <3>3. b \in Split(h) /\ b < r => b + 1 \in Blocks
      BY <1>1, <1>2, Numbers
    <3>4. header'[b].available \in 0 .. 2
      <4>1. header[b].available \in 0 .. 2 /\ 1 \in 0 .. 2
        BY <3>1 DEF Headers
      <4> QED BY <1>4, <4>1
    <3>5. header'[b].next \in Blocks
      BY <1>1, <1>4, <3>1, <3>3 DEF Headers
    <3>6. header'[b].size \in {0} \cup {Payload(k) : k \in 1 .. BlockCount}
      BY <1>4, <3>1, <3>2 DEF Headers
    <3>7. header'[b] = [size |-> header'[b].size, available |-> header'[b].available,
                        next |-> header'[b].next]
      BY <1>4
    <3> QED BY <3>4, <3>5, <3>6, <3>7 DEF Headers
  <2>2. header' = [b \in Blocks |-> header'[b]]
    BY <1>0 DEF Freed
  <2> QED BY <2>1, <2>2
<1>7. Tiled(C)'
  <2>1. /\ 0 \in Chain /\ Sentinel \in Chain /\ header[Sentinel].next = 0
        /\ \A g \in Chain \ {Sentinel} :
             /\ header[g].next \in Chain /\ header[g].next > g
             /\ header[g].size = Payload(header[g].next - g)
             /\ \A b \in Chain : b <= g \/ b >= header[g].next
    BY DEF IInv, Tiled
  <2>2. C \subseteq Blocks /\ 0 \in C /\ Sentinel \in C
    BY <1>0, <1>3, <2>1
  <2>3. header'[Sentinel].next = 0
    BY <1>1, <1>3, <1>4, <1>5, <2>1
  <2>4. ASSUME NEW g \in C \ {Sentinel}
        PROVE  /\ header'[g].next \in C /\ header'[g].next > g
               /\ header'[g].size = Payload(header'[g].next - g)
               /\ \A b \in C : b <= g \/ b >= header'[g].next
    <3>1. CASE g \in Split(h) /\ g < r
      <4>1. header'[g].next = g + 1 /\ header'[g].size = Payload(1) /\ g + 1 \in Split(h)
        <5>1. g \in Blocks /\ g \in Nat /\ h <= g /\ n - h > 2
          BY <1>3, <3>1
        <5>2. g + 1 \in Split(h)
          BY <1>1, <1>2, <3>1, <5>1
        <5> QED BY <1>4, <3>1, <5>1, <5>2
      <4>2. (g + 1) - g = 1 /\ g + 1 > g
        BY <1>3, <3>1
      <4>3. \A b \in C : b <= g \/ b >= g + 1
        BY <1>0, <1>3, <3>1
      <4> QED BY <1>0, <4>1, <4>2, <4>3
    <3>2. CASE g \in Split(h) /\ ~(g < r)
      <4>1. g = r /\ header'[g].next = n /\ header'[g].size = Payload(2) /\ n - g = 2
        <5>1. g \in Blocks /\ g \in Nat /\ g <= r
          BY <1>3, <3>2
        <5>2. header'[g].next = n /\ header'[g].size = Payload(2)
          BY <1>4, <3>2, <5>1
        <5>3. g = r /\ n - r = 2
          BY <1>1, <1>2, <3>2, <5>1
        <5> QED BY <5>2, <5>3
      <4>2. \A b \in C : b <= r \/ b >= n
        <5>1. h <= r /\ r \in Int
          BY <1>2, <1>3, <3>2, <4>1
        <5>2. ASSUME NEW b \in Chain PROVE b <= r \/ b >= n
          <6>1. b \in Nat /\ (b <= h \/ b >= n)
            BY <1>1, <1>3
          <6> QED BY <1>1, <5>1, <6>1
        <5>3. \A b \in Split(h) : b <= r
          BY <1>3
        <5> QED BY <1>0, <5>2, <5>3
      <4>3. n > g
        BY <1>1, <1>2, <4>1
      <4> QED BY <1>0, <1>1, <4>1, <4>2, <4>3
    <3>3. CASE g \notin Split(h)
      <4>1. /\ g \in Chain \ {Sentinel} /\ header'[g].next = header[g].next
            /\ header'[g].size = header[g].size
        BY <1>0, <1>3, <1>4, <3>3
      <4>2. ASSUME NEW b \in Split(h) PROVE b <= g \/ b >= header[g].next
        <5>1. g # h
          <6>1. n - h > 2 /\ h <= b /\ b <= r /\ b \in Nat
            BY <1>3, <4>2
          <6>2. h \in Split(h)
            BY <1>1, <1>2, <6>1
          <6> QED BY <3>3, <6>2
        <5>2. (h <= g \/ h >= header[g].next) /\ (g <= h \/ g >= n)
          BY <1>1, <2>1, <4>1
        <5>3. header[g].next \in Nat /\ g \in Nat
          BY <1>3, <2>1, <4>1
        <5> QED BY <1>1, <1>2, <1>3, <5>1, <5>2, <5>3
      <4> QED BY <1>0, <2>1, <4>1, <4>2
    <3> QED BY <3>1, <3>2, <3>3
  <2> QED BY <2>2, <2>3, <2>4 DEF Tiled
<1>8. Chain' = C
  <2>1. C \in SUBSET Blocks
    BY <1>0, <1>3
  <2> QED BY <1>7, <2>1, ChainIsNext DEF ChainFacts
<1> QED BY <1>0, <1>5, <1>6, <1>7, <1>8

LEMMA FreeInv == ASSUME IInv, NEW a \in allocated, Free(a) PROVE IInv'
<1> DEFINE h == a.at
<1>1. /\ header' = Freed(h) /\ allocated' = allocated \ {a}
      /\ UNCHANGED <<initial, want, cursor, zeroed>>
  BY DEF Free
<1>2. h \in Chain \ {Sentinel} /\ h \in Blocks
  BY Held
<1>3. /\ Chain' = Chain \cup Split(h) /\ Chain \cap Split(h) \subseteq {h}
      /\ Tiled(Chain)' /\ header' \in [Blocks -> Headers]
  BY <1>1, Splits
<1>4. \A b \in Blocks : /\ b \notin Split(h) => header'[b].size = header[b].size
                        /\ header'[b].available = IF b = h THEN 1 ELSE header[b].available
  <2>1. TypeOK
    BY DEF IInv
  <2> QED BY <1>1, <1>2, <2>1, FreedIs
<1>5. TypeOK'
  BY <1>1, <1>3 DEF IInv, TypeOK, Headers
<1>6. header'[Sentinel].available = 0
  BY <1>2, <1>4, Numbers DEF IInv
<1>7. ASSUME NEW b \in allocated'
      PROVE  /\ b.at \in Chain' \ {Sentinel}
             /\ header'[b.at].available = 0 /\ header'[b.at].size >= b.size
             /\ \A c \in allocated' : b.at = c.at => b = c
  <2>1. b \in allocated /\ b # a
    BY <1>1
  <2>2. /\ b.at \in Chain \ {Sentinel} /\ header[b.at].available = 0
        /\ header[b.at].size >= b.size /\ b.at # h /\ b.at \in Blocks
        /\ \A c \in allocated : b.at = c.at => b = c
    BY <2>1, Held DEF IInv
  <2> QED BY <1>1, <1>3, <1>4, <2>2
<1>8. ASSUME ~zeroed', NEW b \in Blocks \ {Sentinel}
      PROVE  header'[b].available # 0 \/ \E c \in allocated' : c.at = b
  <2>1. CASE b = h
    BY <1>4, <2>1
  <2>2. CASE b # h
    <3>1. header[b].available # 0 \/ \E c \in allocated : c.at = b
      BY <1>1, <1>8 DEF IInv
    <3> QED BY <1>1, <1>4, <2>2, <3>1
  <2> QED BY <2>1, <2>2
<1> QED BY <1>1, <1>3, <1>5, <1>6, <1>7, <1>8 DEF IInv

\* A client writes over no header of the chain.
LEMMA FillInv == ASSUME IInv, NEW a \in allocated, Fill(a) PROVE IInv'
<1>1. PICK v \in 0 .. 2 :
        /\ header' = [b \in Blocks |-> IF b \in Inside(a)
                                       THEN [size |-> 0, available |-> v, next |-> 0]
                                       ELSE header[b]]
        /\ zeroed' = (zeroed \/ v = 0)
  BY DEF Fill
<1>2. UNCHANGED <<initial, want, cursor, allocated>>
  BY DEF Fill
<1>3. /\ \A b \in Chain : b \notin Inside(a) /\ b \in Blocks
      /\ 0 \in Blocks
  <2>1. /\ a.at \in Nat /\ header[a.at].next \in Nat
        /\ 256 * (header[a.at].next - a.at) - 12 >= a.size /\ a.size \in Nat
        /\ \A b \in Chain : b <= a.at \/ b >= header[a.at].next
    BY Held
  <2>2. \A b \in Chain : b \in Nat /\ b \in Blocks
    BY InChain, Numbers
  <2>3. ASSUME NEW b \in Chain PROVE b \notin Inside(a)
    <3>1. \A n, m \in Int : 256 * n <= a.size /\ a.size <= 256 * m - 12 => n < m
      BY <2>1
    <3>2. CASE b >= header[a.at].next
      <4>1. b - a.at \in Int /\ header[a.at].next - a.at \in Int /\ ~(b - a.at < header[a.at].next - a.at)
        BY <2>1, <2>2, <3>2
      <4>2. ~(256 * (b - a.at) <= a.size)
        BY <2>1, <3>1, <4>1
      <4> QED BY <4>2 DEF Inside, BlockSize
    <3>3. CASE b <= a.at
      BY <2>1, <2>2, <3>3 DEF Inside
    <3> QED BY <2>1, <3>2, <3>3
  <2> QED BY <2>2, <2>3, Numbers
<1>4. /\ header' \in [Blocks -> Headers]
      /\ \A b \in Chain : header'[b] = header[b]
      /\ \A b \in Blocks : \/ header'[b] = header[b]
                           \/ zeroed' \/ header'[b].available # 0
  <2>1. header \in [Blocks -> Headers]
    BY DEF IInv, TypeOK, Headers
  <2>2. [size |-> 0, available |-> v, next |-> 0] \in Headers
    BY <1>3 DEF Headers
  <2> QED BY <1>1, <1>3, <2>1, <2>2
<1>5. TypeOK'
  <2>1. zeroed' \in BOOLEAN
    BY <1>1
  <2> QED BY <1>2, <1>4, <2>1 DEF IInv, TypeOK, Headers
<1>6. PICK C : C = Chain
  OBVIOUS
<1>7. Tiled(C)'
  BY <1>4, <1>6 DEF IInv, Tiled
<1>8. Chain' = Chain
  <2>1. C \in SUBSET Blocks
    BY <1>3, <1>6
  <2> QED BY <1>6, <1>7, <2>1, ChainIsNext DEF ChainFacts
<1>9. Tiled(Chain)'
  BY <1>6, <1>7, <1>8
<1>10. header'[Sentinel].available = 0
  BY <1>4 DEF IInv, Tiled
<1>11. ASSUME ~zeroed', NEW b \in Blocks \ {Sentinel}
       PROVE  header'[b].available # 0 \/ \E c \in allocated' : c.at = b
  <2>1. ~zeroed
    BY <1>1, <1>11
  <2> QED BY <1>2, <1>4, <1>11, <2>1 DEF IInv
<1> QED BY <1>2, <1>4, <1>5, <1>8, <1>9, <1>10, <1>11 DEF IInv

-----------------------------------------------------------------------------
LEMMA NextInv == IInv /\ [Next]_vars => IInv'
<1> SUFFICES ASSUME IInv, [Next]_vars PROVE IInv'
  OBVIOUS
<1>1. CASE UNCHANGED vars
  <2>1. UNCHANGED <<header, initial, want, cursor, allocated, zeroed>>
    BY <1>1 DEF vars
  <2>2. Chain' = Chain /\ Tiled(Chain)'
    BY <2>1, ChainSame DEF IInv
  <2> QED BY <2>1, <2>2 DEF IInv, TypeOK
<1> QED BY <1>1, MallocInv, FoundInv, SkipInv, FreeInv, FillInv DEF Next

LEMMA Invariant == Spec => []IInv
BY InitInv, NextInv, PTL DEF Spec

(***************************************************************************)
(* Every header has a size that free() can split and a next on the heap,   *)
(* also where clients have written over it.                                *)
(***************************************************************************)
THEOREM HeapTypes == Spec => []TypeOK
<1>1. IInv => TypeOK
  BY DEF IInv
<1> QED BY <1>1, Invariant, PTL

(***************************************************************************)
(* Whatever is joined by heap_join_chain(), split by free() and written    *)
(* over by clients, the headers linked from the first tile the heap.       *)
(***************************************************************************)
THEOREM HeapStaysTiled == Spec => []HeapTiled
BY Invariant, InvTiled, PTL

(***************************************************************************)
(* malloc() never hands out what somebody holds, nor less than was asked.  *)
(***************************************************************************)
THEOREM ClientsDisjoint == Spec => []AllocationsDisjoint
BY Invariant, InvDisjoint, PTL

(***************************************************************************)
(* While no client has left a zero in its memory, free() loses nothing.    *)
(***************************************************************************)
THEOREM HeapKeepsAll == Spec => []NothingLeaks
BY Invariant, InvLeaks, PTL
=============================================================================
