----------------------------- MODULE QueueProofs -----------------------------
(***************************************************************************)
(* The links of the list are consistent, and the list implements a queue,  *)
(* for every number of nodes and every set of payloads.                    *)
(***************************************************************************)
EXTENDS LinkedQueue, Functions, SequenceTheorems, FiniteSetTheorems,
        WellFoundedInduction, TLAPS

(***************************************************************************)
(* Induction: a set that has 0 and every successor up to n has all of      *)
(* 0 .. n.                                                                 *)
(***************************************************************************)
LEMMA UpTo ==
  ASSUME NEW n \in Nat, NEW S, 0 \in S,
         \A k \in 0 .. n - 1 : k \in S => k + 1 \in S
  PROVE  \A k \in 0 .. n : k \in S
<1> DEFINE T == (0 .. n) \ S
           R == {p \in Nat \X Nat : p[1] < p[2]}
<1> SUFFICES ASSUME T # {} PROVE FALSE
  OBVIOUS
<1>1. IsWellFoundedOn(R, Nat)
  BY NatLessThanWellFounded DEF OpToRel
<1>2. T \subseteq Nat /\ \A x, y \in T : <<y, x>> \notin R => x <= y
  OBVIOUS
<1>3. PICK x \in T : \A y \in T : x <= y
  <2> HIDE DEF R, T
  <2>1. \E x \in T : \A y \in T : <<y, x>> \notin R
    BY <1>1, <1>2, WFMin
  <2> QED BY <1>2, <2>1
<1>4. x \in 0 .. n /\ x # 0
  OBVIOUS
<1>5. x - 1 \in 0 .. n - 1 /\ x - 1 \notin T /\ (x - 1) + 1 = x
  BY <1>3, <1>4
<1> QED BY <1>4, <1>5

-----------------------------------------------------------------------------
(***************************************************************************)
(* The list consists of the nodes s, from head to tail.                    *)
(***************************************************************************)
Listed(s) ==
  /\ s \in Seq(Nodes)
  /\ {s[k] : k \in 1 .. Len(s)} = held
  /\ \A i, j \in 1 .. Len(s) : s[i] = s[j] => i = j
  /\ head = IF Len(s) = 0 THEN Nothing ELSE s[1]
  /\ tail = IF Len(s) = 0 THEN Nothing ELSE s[Len(s)]
  /\ \A k \in 1 .. Len(s) :
       /\ node[s[k]].next = IF k = Len(s) THEN Nothing ELSE s[k + 1]
       /\ node[s[k]].prev = IF k = 1 THEN Nothing ELSE s[k - 1]

IInv == TypeOK /\ Listed(Order)

-----------------------------------------------------------------------------
(***************************************************************************)
(* The walk along the list                                                 *)
(***************************************************************************)
\* One step of it: the k-th after the nodes t.
Extended(t, k) ==
  LET n == IF t = <<>> THEN head ELSE node[t[Len(t)]].next
  IN  IF n = Nothing \/ Len(t) < k - 1 THEN t ELSE Append(t, n)

First(s, k) == SubSeq(s, 1, IF k <= Len(s) THEN k ELSE Len(s))

LEMMA FirstIs ==
  ASSUME NEW s \in Seq(Nodes), NEW k \in Nat
  PROVE  /\ First(s, k) \in Seq(Nodes) /\ First(s, 0) = <<>>
         /\ k >= Len(s) => First(s, k) = s
         /\ k < Len(s) => /\ Len(First(s, k)) = k /\ First(s, k + 1) = Append(First(s, k), s[k + 1])
                          /\ k > 0 => First(s, k)[k] = s[k]
<1>1. Len(s) \in Nat /\ \A i \in 1 .. Len(s) : s[i] \in Nodes
  BY LenProperties, ElementOfSeq
<1>2. \A l \in 0 .. Len(s) :
        /\ SubSeq(s, 1, l) \in Seq(Nodes) /\ Len(SubSeq(s, 1, l)) = l
        /\ \A i \in 1 .. l : SubSeq(s, 1, l)[i] = s[i]
  <2> TAKE l \in 0 .. Len(s)
  <2>1. /\ 1 \in Int /\ l \in Int /\ \A i \in 1 .. l : s[i] \in Nodes
        /\ (IF 1 <= l THEN l - 1 + 1 ELSE 0) = l
        /\ \A i \in 1 .. l : i \in 1 .. l - 1 + 1 /\ 1 + i - 1 = i
    BY <1>1
  <2> QED BY <2>1, SubSeqProperties
<1>3. First(s, 0) = <<>>
  <2>1. SubSeq(s, 1, 0) = <<>>
    BY SubSeqEmpty, SMTT(30)
  <2> QED BY <1>1, <2>1 DEF First
<1>4. k >= Len(s) => First(s, k) = s
  <2>1. SubSeq(s, 1, Len(s)) = s
    BY SubSeqFull
  <2>2. k >= Len(s) => (IF k <= Len(s) THEN k ELSE Len(s)) = Len(s)
    BY <1>1
  <2> QED BY <2>1, <2>2 DEF First
<1>5. First(s, k) \in Seq(Nodes)
  BY <1>1, <1>2 DEF First
<1>6. ASSUME k < Len(s)
      PROVE  /\ Len(First(s, k)) = k /\ First(s, k + 1) = Append(First(s, k), s[k + 1])
             /\ k > 0 => First(s, k)[k] = s[k]
  <2>1. /\ First(s, k) = SubSeq(s, 1, k) /\ First(s, k + 1) = SubSeq(s, 1, k + 1)
        /\ k + 1 \in 1 .. Len(s) /\ 1 \in 1 .. Len(s) /\ (k + 1) - 1 = k /\ k \in 0 .. Len(s)
    BY <1>1, <1>6 DEF First
  <2>2. SubSeq(s, 1, k + 1) = SubSeq(s, 1, (k + 1) - 1) \o <<s[k + 1]>>
    BY <2>1, SubSeqRecursiveSecond
  <2>3. Append(SubSeq(s, 1, k), s[k + 1]) = SubSeq(s, 1, k) \o <<s[k + 1]>>
    BY <1>1, <1>2, <2>1, AppendIsConcat
  <2> QED BY <1>2, <2>1, <2>2, <2>3
<1> QED BY <1>3, <1>4, <1>5, <1>6

LEMMA ExtendedIs ==
  ASSUME NEW s, Listed(s), NEW k \in Nat
  PROVE  Extended(First(s, k), k + 1) = First(s, k + 1)
<1> DEFINE t == First(s, k)
           n == IF t = <<>> THEN head ELSE node[t[Len(t)]].next
<1>1. s \in Seq(Nodes) /\ Len(s) \in Nat /\ \A i \in 1 .. Len(s) : s[i] \in Nodes
  BY LenProperties, ElementOfSeq DEF Listed
<1>2. Extended(t, k + 1) = IF n = Nothing \/ Len(t) < (k + 1) - 1 THEN t ELSE Append(t, n)
  BY DEF Extended
<1>3. s = <<>> <=> Len(s) = 0
  BY <1>1, EmptySeq
<1>4. CASE k < Len(s)
  <2>1. /\ Len(t) = k /\ First(s, k + 1) = Append(t, s[k + 1])
        /\ k > 0 => t[k] = s[k]
        /\ t \in Seq(Nodes)
    BY <1>1, <1>4, FirstIs
  <2>2. t = <<>> <=> k = 0
    BY <2>1, EmptySeq
  <2>3. n = s[k + 1]
    <3>1. CASE k = 0
      BY <1>1, <1>4, <2>2, <3>1 DEF Listed
    <3>2. CASE k # 0
      <4>1. k \in 1 .. Len(s) /\ k # Len(s)
        BY <1>1, <1>4, <3>2
      <4>2. node[s[k]].next = s[k + 1]
        BY <4>1 DEF Listed
      <4>3. t[Len(t)] = s[k] /\ t # <<>>
        BY <2>1, <2>2, <3>2
      <4> QED BY <4>2, <4>3
    <3> QED BY <3>1, <3>2
  <2>4. n # Nothing
    BY <1>1, <1>4, <2>3, QueueAssumption
  <2>5. ~(Len(t) < (k + 1) - 1)
    BY <2>1
  <2> HIDE DEF n
  <2> QED BY <1>2, <2>1, <2>3, <2>4, <2>5
<1>5. CASE k >= Len(s)
  <2>1. t = s /\ First(s, k + 1) = s
    BY <1>1, <1>5, FirstIs
  <2>2. n = Nothing
    <3>1. CASE Len(s) = 0
      BY <1>3, <2>1, <3>1 DEF Listed
    <3>2. CASE Len(s) # 0
      <4>1. Len(s) \in 1 .. Len(s)
        BY <1>1, <3>2
      <4> QED BY <1>3, <2>1, <3>2, <4>1 DEF Listed
    <3> QED BY <3>1, <3>2
  <2> QED BY <1>2, <2>1, <2>2
<1>6. k < Len(s) \/ k >= Len(s)
  BY <1>1
<1> QED BY <1>4, <1>5, <1>6

\* A list has as many nodes as are held, ...
LEMMA ListLength ==
  ASSUME NEW s, Listed(s)
  PROVE  Len(s) = Cardinality(held) /\ Cardinality(held) <= Cardinality(Nodes)
<1>1. s \in Seq(Nodes) /\ Len(s) \in Nat /\ s \in [1 .. Len(s) -> Nodes]
  BY LenProperties DEF Listed
<1>2. s \in Bijection(1 .. Len(s), held)
  BY <1>1 DEF Listed, Bijection, Injection, Surjection, IsInjective
<1>3. IsFiniteSet(1 .. Len(s)) /\ Cardinality(1 .. Len(s)) = Len(s)
  BY <1>1, FS_Interval
<1>4. Cardinality(held) = Cardinality(1 .. Len(s))
  BY <1>2, <1>3, FS_Bijection DEF ExistsBijection
<1>5. held \subseteq Nodes
  BY <1>1 DEF Listed
<1>6. Cardinality(held) <= Cardinality(Nodes)
  BY <1>5, QueueAssumption, FS_Subset
<1> QED BY <1>3, <1>4, <1>6

\* ... and they are found in their order.
OrderFacts == \A s \in Seq(Nodes) : Listed(s) => Order = s

LEMMA OrderIs == OrderFacts
<1> SUFFICES ASSUME NEW s \in Seq(Nodes), Listed(s) PROVE Order = s
  BY DEF OrderFacts
<1> DEFINE N == Cardinality(Nodes)
           Walk(g) == g = [k \in 0 .. N |-> IF k = 0 THEN <<>> ELSE Extended(g[k - 1], k)]
           walk == CHOOSE g : Walk(g)
<1>1. Order = walk[N]
  BY DEF Order, Extended
<1>2. N \in Nat /\ Len(s) \in Nat /\ Len(s) <= N
  BY QueueAssumption, FS_CardinalityType, ListLength, LenProperties
<1> HIDE DEF N
<1>3. \E g : Walk(g)
  <2> DEFINE g == [k \in 0 .. N |-> First(s, k)]
  <2>1. ASSUME NEW k \in 0 .. N
        PROVE  g[k] = IF k = 0 THEN <<>> ELSE Extended(g[k - 1], k)
    <3>1. CASE k = 0
      BY <3>1, FirstIs
    <3>2. CASE k # 0
      <4>1. k - 1 \in 0 .. N /\ k - 1 \in Nat /\ (k - 1) + 1 = k
        BY <1>2, <3>2
      <4>2. Extended(First(s, k - 1), (k - 1) + 1) = First(s, (k - 1) + 1)
        BY <4>1, ExtendedIs
      <4> QED BY <3>2, <4>1, <4>2
    <3> QED BY <3>1, <3>2
  <2>2. Walk(g)
    BY <2>1
  <2> HIDE DEF Walk, g
  <2> QED BY <2>2
<1>4. Walk(walk)
  BY <1>3
<1> HIDE DEF walk
<1>5. \A k \in 0 .. N : walk[k] = IF k = 0 THEN <<>> ELSE Extended(walk[k - 1], k)
  BY <1>4
<1> DEFINE S == {k \in 0 .. N : walk[k] = First(s, k)}
<1>6. 0 \in S
  <2>1. 0 \in 0 .. N /\ 0 \in Nat
    BY <1>2
  <2>2. walk[0] = <<>> /\ First(s, 0) = <<>>
    BY <1>5, <2>1, FirstIs
  <2> QED BY <2>1, <2>2
<1>7. ASSUME NEW k \in 0 .. N - 1, k \in S PROVE k + 1 \in S
  <2>1. k \in Nat /\ k + 1 \in 0 .. N /\ k + 1 # 0 /\ (k + 1) - 1 = k
    BY <1>2
  <2>2. walk[k + 1] = Extended(First(s, k), k + 1)
    BY <1>5, <1>7, <2>1
  <2> QED BY <2>1, <2>2, ExtendedIs
<1>8. N \in S
  <2>1. N \in 0 .. N /\ N \in Nat
    BY <1>2
  <2> HIDE DEF S
  <2>2. \A k \in 0 .. N : k \in S
    BY <1>6, <1>7, <2>1, UpTo
  <2> QED BY <2>1, <2>2
<1> QED BY <1>1, <1>2, <1>8, FirstIs

LEMMA OrderIsNext == OrderFacts'
BY OrderIs, PTL

-----------------------------------------------------------------------------
Fields == [payload : Payloads \cup {Nothing}, next : Link, prev : Link]

LEMMA NothingFacts ==
  /\ Nothing \notin Nodes /\ Nothing \in Link /\ Nodes \subseteq Link
  /\ \A p \in Payloads : p # Nothing
BY QueueAssumption DEF Link

\* What IInv says of the nodes of the list.
LEMMA ListFacts ==
  ASSUME IInv
  PROVE  /\ Listed(Order) /\ Order \in Seq(Nodes) /\ Len(Order) \in Nat
         /\ DOMAIN Order = 1 .. Len(Order)
         /\ \A k \in 1 .. Len(Order) : Order[k] \in Nodes /\ Order[k] \in held
         /\ Order = <<>> <=> Len(Order) = 0
         /\ head = Nothing <=> Len(Order) = 0
         /\ Len(Order) # 0 => /\ 1 \in 1 .. Len(Order) /\ Len(Order) \in 1 .. Len(Order)
                              /\ head = Order[1] /\ tail = Order[Len(Order)]
<1>1. Listed(Order) /\ Order \in Seq(Nodes)
  BY DEF IInv, Listed
<1>2. Len(Order) \in Nat /\ DOMAIN Order = 1 .. Len(Order)
  BY <1>1, LenProperties
<1>3. \A k \in 1 .. Len(Order) : Order[k] \in Nodes /\ Order[k] \in held
  BY <1>1, ElementOfSeq DEF Listed
<1>4. Order = <<>> <=> Len(Order) = 0
  BY <1>1, EmptySeq
<1>5. Len(Order) # 0 => 1 \in 1 .. Len(Order) /\ Len(Order) \in 1 .. Len(Order)
  BY <1>2
<1>6. head = IF Len(Order) = 0 THEN Nothing ELSE Order[1]
  BY <1>1 DEF Listed
<1>7. tail = IF Len(Order) = 0 THEN Nothing ELSE Order[Len(Order)]
  BY <1>1 DEF Listed
<1> QED BY <1>1, <1>2, <1>3, <1>4, <1>5, <1>6, <1>7, NothingFacts

LEMMA InitInv == Init => IInv /\ Order = <<>>
<1> SUFFICES ASSUME Init PROVE IInv /\ Order = <<>>
  OBVIOUS
<1>1. <<>> \in Seq(Nodes) /\ Len(<<>>) = 0
  BY EmptySeq
<1>2. Listed(<<>>)
  BY <1>1 DEF Listed, Init
<1>3. Order = <<>>
  BY <1>1, <1>2, OrderIs DEF OrderFacts
<1>4. TypeOK
  BY NothingFacts DEF Init, TypeOK
<1> QED BY <1>2, <1>3, <1>4 DEF IInv

\* push() links the new node behind the last one.
LEMMA PushLinks ==
  ASSUME IInv, NEW p \in Payloads, NEW n \in Nodes \ held,
         held' = held \cup {n},
         node' = [Linked(n) EXCEPT ![n] = NewNode(n, p)],
         head' = IF head = Nothing THEN n ELSE head,
         tail' = n
  PROVE  /\ Order' = Append(Order, n) /\ Listed(Order)'
         /\ node' \in [Nodes -> Fields] /\ node'[n].payload = p
         /\ \A m \in Nodes \ {n} : node'[m].payload = node[m].payload
<1>0. PICK s, t : s = Order /\ t = Append(s, n)
  OBVIOUS
<1> DEFINE l == Len(s)
<1>1. /\ Listed(s) /\ s \in Seq(Nodes) /\ l \in Nat
      /\ \A k \in 1 .. l : s[k] \in Nodes /\ s[k] \in held
      /\ head = Nothing <=> l = 0
      /\ l # 0 => 1 \in 1 .. l /\ l \in 1 .. l /\ head = s[1] /\ tail = s[l]
  BY <1>0, ListFacts
<1>2. /\ t \in Seq(Nodes) /\ Len(t) = l + 1
      /\ \A k \in 1 .. l : t[k] = s[k]
      /\ t[l + 1] = n
  BY <1>0, <1>1, AppendProperties
<1>3. node \in [Nodes -> Fields] /\ NewNode(n, p) \in Fields
  <2>1. node \in [Nodes -> Fields] /\ tail \in Link
    BY DEF IInv, TypeOK, Fields
  <2> QED BY <2>1, NothingFacts DEF NewNode, Before, Fields
<1>4. /\ node' \in [Nodes -> Fields] /\ node'[n] = NewNode(n, p)
      /\ \A m \in Nodes \ {n} : /\ node'[m].payload = node[m].payload
                                /\ node'[m].prev = node[m].prev
                                /\ node'[m].next = IF l # 0 /\ m = s[l] THEN n ELSE node[m].next
  <2>1. CASE l = 0
    BY <1>1, <1>3, <2>1 DEF Linked
  <2>2. CASE l # 0
    <3>1. tail \in Nodes /\ tail # n /\ tail = s[l] /\ head # Nothing
      BY <1>1, <2>2
    <3>2. Linked(n) = [node EXCEPT ![tail].next = n]
      BY <3>1 DEF Linked
    <3>3. /\ Linked(n) \in [Nodes -> Fields]
          /\ \A m \in Nodes : /\ Linked(n)[m].payload = node[m].payload
                              /\ Linked(n)[m].prev = node[m].prev
                              /\ Linked(n)[m].next = IF m = tail THEN n ELSE node[m].next
      BY <1>3, <3>1, <3>2, NothingFacts DEF Fields
    <3> QED BY <1>3, <2>2, <3>1, <3>3
  <2> QED BY <2>1, <2>2
<1>5. Listed(t)'
  <2>1. 1 .. l + 1 = (1 .. l) \cup {l + 1} /\ 1 \in 1 .. l + 1
    BY <1>1
  <2>2. {t[k] : k \in 1 .. Len(t)} = held'
    <3>1. {s[k] : k \in 1 .. l} = held
      BY <1>1 DEF Listed
    <3> QED BY <1>2, <2>1, <3>1
  <2>3. \A i, j \in 1 .. Len(t) : t[i] = t[j] => i = j
    <3>1. \A i, j \in 1 .. l : s[i] = s[j] => i = j
      BY <1>1 DEF Listed
    <3>2. \A i \in 1 .. l : s[i] # n
      BY <1>1
    <3> QED BY <1>2, <2>1, <3>1, <3>2
  <2>4. head' = t[1] /\ tail' = t[Len(t)] /\ Len(t) # 0
    BY <1>1, <1>2
  <2>5. ASSUME NEW k \in 1 .. Len(t)
        PROVE  /\ node'[t[k]].next = IF k = Len(t) THEN Nothing ELSE t[k + 1]
               /\ node'[t[k]].prev = IF k = 1 THEN Nothing ELSE t[k - 1]
    <3>1. CASE k = l + 1
      <4>1. node'[n].next = Nothing /\ node'[n].prev = IF l = 0 THEN Nothing ELSE s[l]
        BY <1>1, <1>4 DEF NewNode, Before
      <4>2. l # 0 => k # 1 /\ k - 1 = l /\ t[l] = s[l]
        BY <1>1, <1>2, <3>1
      <4>3. t[k] = n /\ k = Len(t) /\ (l = 0 => k = 1)
        BY <1>1, <1>2, <3>1
      <4> QED BY <4>1, <4>2, <4>3
    <3>2. CASE k \in 1 .. l
      <4>1. /\ t[k] = s[k] /\ s[k] \in Nodes \ {n} /\ k # Len(t) /\ l # 0
            /\ k # l => k + 1 \in 1 .. l
            /\ k # 1 => k - 1 \in 1 .. l
        BY <1>1, <1>2, <3>2
      <4>2. /\ node[s[k]].next = IF k = l THEN Nothing ELSE s[k + 1]
            /\ node[s[k]].prev = IF k = 1 THEN Nothing ELSE s[k - 1]
            /\ s[k] = s[l] => k = l
        BY <1>1, <3>2, <4>1 DEF Listed
      <4>3. node'[t[k]].next = t[k + 1]
        BY <1>1, <1>2, <1>4, <4>1, <4>2
      <4>4. node'[t[k]].prev = IF k = 1 THEN Nothing ELSE t[k - 1]
        BY <1>2, <1>4, <4>1, <4>2
      <4> QED BY <4>1, <4>3, <4>4
    <3> QED BY <1>2, <2>1, <3>1, <3>2
  <2> QED BY <1>2, <2>2, <2>3, <2>4, <2>5 DEF Listed
<1>6. Order' = t
  BY <1>2, <1>5, OrderIsNext DEF OrderFacts
<1>7. node'[n].payload = p
  BY <1>4 DEF NewNode
<1> QED BY <1>0, <1>4, <1>5, <1>6, <1>7

\* pop() takes the first node off.
LEMMA PopLinks ==
  ASSUME IInv, Pop
  PROVE  /\ Order # <<>> /\ head = Order[1]
         /\ Order' = Tail(Order) /\ Listed(Order)'
         /\ node' \in [Nodes -> Fields]
         /\ \A m \in Nodes : node'[m].payload = node[m].payload
<1>0. PICK s, t : s = Order /\ t = Tail(s)
  OBVIOUS
<1> DEFINE l == Len(s)
           next == node[head].next
<1>1. /\ head # Nothing /\ head' = next /\ held' = held \ {head}
      /\ tail' = IF next = Nothing THEN Nothing ELSE tail
      /\ node' = IF next = Nothing THEN node ELSE [node EXCEPT ![next].prev = Nothing]
  BY DEF Pop, TailAfter
<1>2. /\ Listed(s) /\ s \in Seq(Nodes) /\ l \in Nat /\ l # 0 /\ s # <<>>
      /\ \A k \in 1 .. l : s[k] \in Nodes /\ s[k] \in held
      /\ 1 \in 1 .. l /\ l \in 1 .. l /\ head = s[1] /\ tail = s[l]
  BY <1>0, <1>1, ListFacts
<1>3. /\ t \in Seq(Nodes) /\ Len(t) = l - 1
      /\ \A k \in 1 .. l - 1 : t[k] = s[k + 1] /\ k + 1 \in 1 .. l
  BY <1>0, <1>2, HeadTailProperties
<1>4. /\ next = IF l = 1 THEN Nothing ELSE s[2]
      /\ l # 1 => 2 \in 1 .. l /\ next \in Nodes /\ next # Nothing
  <2>1. next = IF 1 = l THEN Nothing ELSE s[1 + 1]
    BY <1>2 DEF Listed
  <2>2. l # 1 => 2 \in 1 .. l
    <3>1. l \in Nat /\ l # 0
      BY <1>2
    <3> HIDE DEF l
    <3> QED BY <3>1
  <2> QED BY <1>2, <2>1, <2>2, NothingFacts
<1> HIDE DEF next
<1>5. /\ node' \in [Nodes -> Fields]
      /\ \A m \in Nodes : /\ node'[m].payload = node[m].payload
                          /\ node'[m].next = node[m].next
                          /\ node'[m].prev = IF m = next THEN Nothing ELSE node[m].prev
  <2>1. node \in [Nodes -> Fields]
    BY DEF IInv, TypeOK, Fields
  <2>2. CASE l = 1
    <3>1. next = Nothing /\ node' = node
      BY <1>1, <1>4, <2>2
    <3> QED BY <2>1, <3>1, NothingFacts
  <2>3. CASE l # 1
    <3>1. next \in Nodes /\ node' = [node EXCEPT ![next].prev = Nothing]
      BY <1>1, <1>4, <2>3
    <3> QED BY <2>1, <3>1, NothingFacts DEF Fields
  <2> QED BY <2>2, <2>3
<1>6. Listed(t)'
  <2>1. {t[k] : k \in 1 .. Len(t)} = held'
    <3>1. {s[k] : k \in 1 .. l} = held /\ \A i, j \in 1 .. l : s[i] = s[j] => i = j
      BY <1>2 DEF Listed
    <3>2. ASSUME NEW m \in held, m # s[1] PROVE \E k \in 1 .. l - 1 : t[k] = m
      <4>1. PICK i \in 1 .. l : s[i] = m
        BY <3>1
      <4>2. i - 1 \in 1 .. l - 1 /\ (i - 1) + 1 = i
        BY <1>2, <3>2, <4>1
      <4> QED BY <1>3, <4>1, <4>2
    <3>3. \A k \in 1 .. l - 1 : t[k] \in held /\ t[k] # s[1]
      <4> TAKE k \in 1 .. l - 1
      <4>1. k + 1 \in 1 .. l /\ k + 1 # 1 /\ t[k] = s[k + 1]
        BY <1>3
      <4> QED BY <1>2, <3>1, <4>1
    <3> QED BY <1>1, <1>2, <1>3, <3>2, <3>3, SMTT(30)
  <2>2. \A i, j \in 1 .. Len(t) : t[i] = t[j] => i = j
    <3> TAKE i, j \in 1 .. Len(t)
    <3>1. i + 1 \in 1 .. l /\ j + 1 \in 1 .. l /\ (i + 1 = j + 1 => i = j)
      BY <1>3
    <3> QED BY <1>2, <1>3, <3>1 DEF Listed
  <2>3. /\ head' = IF Len(t) = 0 THEN Nothing ELSE t[1]
        /\ tail' = IF Len(t) = 0 THEN Nothing ELSE t[Len(t)]
    <3>1. CASE l = 1
      BY <1>1, <1>3, <1>4, <3>1
    <3>2. CASE l # 1
      <4>1. /\ Len(t) # 0 /\ Len(t) = l - 1 /\ l - 1 \in 1 .. l - 1 /\ 1 \in 1 .. l - 1
            /\ (l - 1) + 1 = l
        BY <1>2, <1>3, <3>2
      <4> QED BY <1>1, <1>2, <1>3, <1>4, <3>2, <4>1
    <3> QED BY <3>1, <3>2
  <2>4. ASSUME NEW k \in 1 .. Len(t)
        PROVE  /\ node'[t[k]].next = IF k = Len(t) THEN Nothing ELSE t[k + 1]
               /\ node'[t[k]].prev = IF k = 1 THEN Nothing ELSE t[k - 1]
    <3>1. /\ k \in 1 .. l - 1 /\ k + 1 \in 1 .. l /\ t[k] = s[k + 1] /\ k + 1 # 1
          /\ s[k + 1] \in Nodes /\ (k + 1 = l <=> k = Len(t)) /\ l # 1
          /\ k # Len(t) => t[k + 1] = s[(k + 1) + 1]
          /\ k # 1 => k - 1 \in 1 .. l - 1 /\ t[k - 1] = s[(k + 1) - 1]
      <4>1. k \in 1 .. l - 1 /\ k + 1 \in 1 .. l /\ t[k] = s[k + 1] /\ k + 1 # 1
            /\ (k + 1 = l <=> k = Len(t)) /\ l # 1
        BY <1>2, <1>3
      <4>2. k # Len(t) => k + 1 \in 1 .. l - 1
        BY <1>2, <1>3, <4>1
      <4>3. k # 1 => k - 1 \in 1 .. l - 1 /\ (k - 1) + 1 = (k + 1) - 1
        BY <1>2, <1>3, <4>1
      <4> QED BY <1>2, <1>3, <4>1, <4>2, <4>3
    <3>2. /\ node[s[k + 1]].next = IF k + 1 = l THEN Nothing ELSE s[(k + 1) + 1]
          /\ node[s[k + 1]].prev = s[(k + 1) - 1]
          /\ s[k + 1] = s[2] <=> k + 1 = 2
      <4>1. 2 \in 1 .. l
        BY <1>4, <3>1
      <4> QED BY <1>2, <3>1, <4>1 DEF Listed
    <3>3. node'[t[k]].next = IF k = Len(t) THEN Nothing ELSE t[k + 1]
      BY <1>5, <3>1, <3>2
    <3>4. node'[t[k]].prev = IF k = 1 THEN Nothing ELSE t[k - 1]
      <4>1. k + 1 = 2 <=> k = 1
        BY <3>1
      <4> QED BY <1>4, <1>5, <3>1, <3>2, <4>1
    <3> QED BY <3>3, <3>4
  <2> QED BY <1>3, <2>1, <2>2, <2>3, <2>4 DEF Listed
<1>7. Order' = t
  BY <1>3, <1>6, OrderIsNext DEF OrderFacts
<1> QED BY <1>0, <1>2, <1>5, <1>6, <1>7

-----------------------------------------------------------------------------
(***************************************************************************)
(* The invariant and the abstract queue                                    *)
(***************************************************************************)
items == [k \in DOMAIN Order |-> node[Order[k]].payload]

LEMMA ItemsAre ==
  ASSUME IInv
  PROVE  /\ items \in Seq(Payloads \cup {Nothing}) /\ Len(items) = Len(Order)
         /\ \A k \in 1 .. Len(Order) : items[k] = node[Order[k]].payload
<1>1. \A k \in 1 .. Len(Order) : node[Order[k]].payload \in Payloads \cup {Nothing}
  BY ListFacts DEF IInv, TypeOK
<1>2. Len(Order) \in Nat /\ DOMAIN Order = 1 .. Len(Order)
  BY ListFacts
<1> QED BY <1>1, <1>2 DEF items

LEMMA PushStep == ASSUME IInv, NEW p \in Payloads, Push(p) PROVE IInv' /\ Abstract!Push(p)
<1>1. PICK n \in Nodes \ held :
        /\ held' = held \cup {n}
        /\ node' = [Linked(n) EXCEPT ![n] = NewNode(n, p)]
        /\ head' = IF head = Nothing THEN n ELSE head
        /\ tail' = n
        /\ answer' = Nothing
  BY DEF Push
<1>2. /\ Order' = Append(Order, n) /\ Listed(Order)'
      /\ node' \in [Nodes -> Fields] /\ node'[n].payload = p
      /\ \A m \in Nodes \ {n} : node'[m].payload = node[m].payload
  BY <1>1, PushLinks
<1>3. IInv'
  <2>1. TypeOK'
    BY <1>1, <1>2, NothingFacts DEF IInv, TypeOK, Fields
  <2> QED BY <1>2, <2>1 DEF IInv
<1>4. items' = Append(items, p)
  <2>1. /\ items \in Seq(Payloads \cup {Nothing}) /\ Len(items) = Len(Order)
        /\ \A k \in 1 .. Len(Order) : items[k] = node[Order[k]].payload
    BY ItemsAre
  <2>2. /\ Append(items, p) \in Seq(Payloads \cup {Nothing})
        /\ Len(Append(items, p)) = Len(items) + 1
        /\ \A k \in 1 .. Len(items) : Append(items, p)[k] = items[k]
        /\ Append(items, p)[Len(items) + 1] = p
    BY <2>1, AppendProperties
  <2>3. /\ Order \in Seq(Nodes) /\ Len(Order) \in Nat
        /\ \A k \in 1 .. Len(Order) : Order[k] \in Nodes \ {n}
    BY ListFacts
  <2>4. /\ Len(Order') = Len(Order) + 1 /\ DOMAIN Order' = 1 .. Len(Order) + 1
        /\ \A k \in 1 .. Len(Order) : Order'[k] = Order[k]
        /\ Order'[Len(Order) + 1] = n
    <3>1. Append(Order, n) \in Seq(Nodes)
      BY <2>3, AppendProperties
    <3> QED BY <1>2, <2>3, <3>1, AppendProperties, LenProperties
  <2>5. items' = [k \in 1 .. Len(Order) + 1 |-> node'[Order'[k]].payload]
    BY <2>4 DEF items
  <2>6. ASSUME NEW k \in 1 .. Len(Order) + 1 PROVE node'[Order'[k]].payload = Append(items, p)[k]
    <3>1. CASE k = Len(Order) + 1
      BY <1>2, <2>1, <2>2, <2>4, <3>1
    <3>2. CASE k \in 1 .. Len(Order)
      BY <1>2, <2>1, <2>2, <2>3, <2>4, <3>2
    <3>3. k = Len(Order) + 1 \/ k \in 1 .. Len(Order)
      BY <2>3
    <3> QED BY <3>1, <3>2, <3>3
  <2>7. Append(items, p) = [k \in 1 .. Len(Order) + 1 |-> Append(items, p)[k]]
    BY <2>1, <2>2, LenProperties
  <2> QED BY <2>5, <2>6, <2>7
<1> QED BY <1>1, <1>3, <1>4 DEF Abstract!Push, items

\* What is at the front of the queue.
LEMMA FrontIs ==
  ASSUME IInv
  PROVE  /\ head = Nothing <=> items = <<>>
         /\ head # Nothing => Head(items) = node[head].payload
<1>1. /\ items \in Seq(Payloads \cup {Nothing}) /\ Len(items) = Len(Order)
      /\ \A k \in 1 .. Len(Order) : items[k] = node[Order[k]].payload
  BY ItemsAre
<1>2. /\ head = Nothing <=> Len(Order) = 0
      /\ Len(Order) # 0 => 1 \in 1 .. Len(Order) /\ head = Order[1]
  BY ListFacts
<1>3. items = <<>> <=> Len(items) = 0
  BY <1>1, EmptySeq
<1>4. Head(items) = items[1]
  BY <1>1
<1> QED BY <1>1, <1>2, <1>3, <1>4

LEMMA PopStep == ASSUME IInv, Pop PROVE IInv' /\ Abstract!Pop
<1>1. /\ Order # <<>> /\ head = Order[1]
      /\ Order' = Tail(Order) /\ Listed(Order)'
      /\ node' \in [Nodes -> Fields]
      /\ \A m \in Nodes : node'[m].payload = node[m].payload
  BY PopLinks
<1>2. /\ head # Nothing /\ answer' = node[head].payload /\ held' = held \ {head}
      /\ head' = node[head].next
      /\ tail' = IF node[head].next = Nothing THEN Nothing ELSE tail
  BY DEF Pop, TailAfter
<1>3. head \in Nodes
  BY <1>2 DEF IInv, TypeOK, Link
<1>4. IInv'
  <2>1. TypeOK'
    BY <1>1, <1>2, <1>3, NothingFacts DEF IInv, TypeOK, Fields
  <2> QED BY <1>1, <2>1 DEF IInv
<1>5. items # <<>> /\ answer' = Head(items)
  BY <1>2, FrontIs
<1>6. items' = Tail(items)
  <2>1. /\ items \in Seq(Payloads \cup {Nothing}) /\ Len(items) = Len(Order)
        /\ \A k \in 1 .. Len(Order) : items[k] = node[Order[k]].payload
    BY ItemsAre
  <2>2. /\ Tail(items) \in Seq(Payloads \cup {Nothing})
        /\ Len(Tail(items)) = Len(items) - 1
        /\ \A k \in 1 .. Len(Tail(items)) : Tail(items)[k] = items[k + 1]
    BY <1>5, <2>1, HeadTailProperties
  <2>3. /\ Order \in Seq(Nodes) /\ Len(Order) \in Nat
        /\ \A k \in 1 .. Len(Order) : Order[k] \in Nodes
    BY ListFacts
  <2>4. /\ Len(Order') = Len(Order) - 1 /\ DOMAIN Order' = 1 .. Len(Order) - 1
        /\ \A k \in 1 .. Len(Order) - 1 : Order'[k] = Order[k + 1]
    <3>1. Tail(Order) \in Seq(Nodes) /\ Len(Tail(Order)) = Len(Order) - 1
          /\ \A k \in 1 .. Len(Tail(Order)) : Tail(Order)[k] = Order[k + 1]
      BY <1>1, <2>3, HeadTailProperties
    <3> QED BY <1>1, <3>1, LenProperties
  <2>5. items' = [k \in 1 .. Len(Order) - 1 |-> node'[Order'[k]].payload]
    BY <2>4 DEF items
  <2>6. ASSUME NEW k \in 1 .. Len(Order) - 1 PROVE node'[Order'[k]].payload = Tail(items)[k]
    <3>1. k + 1 \in 1 .. Len(Order) /\ k \in 1 .. Len(Tail(items))
      BY <2>1, <2>2, <2>3
    <3> QED BY <1>1, <2>1, <2>2, <2>3, <2>4, <3>1
  <2>7. Tail(items) = [k \in 1 .. Len(Order) - 1 |-> Tail(items)[k]]
    BY <2>1, <2>2, LenProperties
  <2> QED BY <2>5, <2>6, <2>7
<1> QED BY <1>4, <1>5, <1>6 DEF Abstract!Pop, items

LEMMA ListSame ==
  ASSUME IInv, UNCHANGED <<head, tail, node, held>>
  PROVE  Order' = Order /\ Listed(Order)' /\ items' = items
<1>1. PICK s : s = Order
  OBVIOUS
<1>2. Listed(s) /\ s \in Seq(Nodes)
  BY <1>1, ListFacts
<1>3. Listed(s)'
  BY <1>2 DEF Listed
<1>4. Order' = s
  BY <1>2, <1>3, OrderIsNext DEF OrderFacts
<1>5. Listed(Order)'
  BY <1>3, <1>4
<1> QED BY <1>1, <1>4, <1>5 DEF items

\* peek(), and pop() from an empty queue, change nothing but the answer.
LEMMA OtherStep ==
  ASSUME IInv, PopEmpty \/ Peek
  PROVE  IInv' /\ Abstract!Next
<1>1. UNCHANGED <<head, tail, node, held>>
  BY DEF PopEmpty, Peek
<1>2. Order' = Order /\ Listed(Order)' /\ items' = items
  BY <1>1, ListSame
<1>3. answer' = IF items = <<>> THEN Nothing ELSE Head(items)
  BY FrontIs DEF PopEmpty, Peek
<1>4. answer' \in Payloads \cup {Nothing}
  BY DEF PopEmpty, Peek, IInv, TypeOK, Link
<1>5. IInv'
  BY <1>1, <1>2, <1>4 DEF IInv, TypeOK
<1> QED BY <1>2, <1>3, <1>5 DEF Abstract!Next, Abstract!Peek, items

LEMMA NextStep == IInv /\ [Next]_vars => IInv' /\ [Abstract!Next]_<<items, answer>>
<1> SUFFICES ASSUME IInv, [Next]_vars PROVE IInv' /\ [Abstract!Next]_<<items, answer>>
  OBVIOUS
<1>1. CASE UNCHANGED vars
  <2>1. UNCHANGED <<head, tail, node, held, answer>>
    BY <1>1 DEF vars
  <2>2. Order' = Order /\ Listed(Order)' /\ items' = items
    BY <2>1, ListSame
  <2> QED BY <2>1, <2>2 DEF IInv, TypeOK
<1> QED BY <1>1, PushStep, PopStep, OtherStep DEF Next, Abstract!Next

LEMMA Invariant == Spec => []IInv
BY InitInv, NextStep, PTL DEF Spec

(***************************************************************************)
(* The pointers and nodes of the list keep their types.                    *)
(***************************************************************************)
THEOREM QueueTypes == Spec => []TypeOK
<1>1. IInv => TypeOK
  BY DEF IInv
<1> QED BY <1>1, Invariant, PTL

(***************************************************************************)
(* The links pass every node on the heap exactly once, there and back.     *)
(***************************************************************************)
THEOREM LinksStayConsistent == Spec => []LinksConsistent
<1>1. IInv => LinksConsistent
  <2> SUFFICES ASSUME IInv PROVE LinksConsistent
    OBVIOUS
  <2>1. /\ Listed(Order) /\ Order \in Seq(Nodes) /\ Len(Order) \in Nat
        /\ DOMAIN Order = 1 .. Len(Order) /\ (Order = <<>> <=> Len(Order) = 0)
        /\ head = Nothing <=> Len(Order) = 0
        /\ Len(Order) # 0 => /\ 1 \in 1 .. Len(Order) /\ Len(Order) \in 1 .. Len(Order)
                             /\ head = Order[1] /\ tail = Order[Len(Order)]
    BY ListFacts
  <2>2. Len(Order) = Cardinality(held)
    BY <2>1, ListLength
  <2>3. {Order[k] : k \in DOMAIN Order} = held
    BY <2>1 DEF Listed
  <2>4. tail = IF Order = <<>> THEN Nothing ELSE Order[Len(Order)]
    BY <2>1 DEF Listed
  <2>5. head # Nothing => node[tail].next = Nothing /\ node[head].prev = Nothing
    BY <2>1 DEF Listed
  <2>6. \A k \in 2 .. Len(Order) : node[Order[k]].prev = Order[k - 1]
    <3>1. \A k \in 2 .. Len(Order) : k \in 1 .. Len(Order) /\ k # 1
      BY <2>1
    <3> QED BY <2>1, <3>1 DEF Listed
  <2> QED BY <2>2, <2>3, <2>4, <2>5, <2>6 DEF LinksConsistent
<1> QED BY <1>1, Invariant, PTL

(***************************************************************************)
(* The list of kernel/queue.c is a queue: payloads come out in the order   *)
(* in which they went in, each once.                                       *)
(***************************************************************************)
THEOREM ListIsFifo == Spec => ImplementsFifo
<1>1. Init => Abstract!Init
  BY InitInv DEF Init, Abstract!Init
<1> QED BY <1>1, InitInv, NextStep, PTL DEF Spec, ImplementsFifo, Abstract!Spec, items
=============================================================================
