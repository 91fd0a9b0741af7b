--------------------------- MODULE ProgramProofs -----------------------------
(***************************************************************************)
(* What is read from a file is what its clusters hold, for every           *)
(* consistent disk with one sector per cluster, and what is loaded is what *)
(* the headers describe, for every executable.                             *)
(***************************************************************************)
EXTENDS Program, SequenceTheorems, WellFoundedInduction, TLAPS

(***************************************************************************)
(* Induction: a set that has 0 and every successor up to n has all of      *)
(* 0 .. n.                                                                 *)
(***************************************************************************)
LEMMA UpTo ==
  ASSUME NEW n \in Nat, NEW S, 0 \in S,
         \A k \in 0 .. n - 1 : k \in S => k + 1 \in S
  PROVE  \A k \in 0 .. n : k \in S
<1> DEFINE T == (0 .. n) \ S
           R == {p \in Nat \X Nat : p[1] < p[2]}
<1> SUFFICES ASSUME T # {} PROVE FALSE
  OBVIOUS
<1>1. IsWellFoundedOn(R, Nat)
  BY NatLessThanWellFounded DEF OpToRel
<1>2. T \subseteq Nat /\ \A x, y \in T : <<y, x>> \notin R => x <= y
  OBVIOUS
<1>3. PICK x \in T : \A y \in T : x <= y
  <2> HIDE DEF R, T
  <2>1. \E x \in T : \A y \in T : <<y, x>> \notin R
    BY <1>1, <1>2, WFMin
  <2> QED BY <1>2, <2>1
<1>4. x \in 0 .. n /\ x # 0
  OBVIOUS
<1>5. x - 1 \in 0 .. n - 1 /\ x - 1 \notin T /\ (x - 1) + 1 = x
  BY <1>3, <1>4
<1> QED BY <1>4, <1>5

-----------------------------------------------------------------------------
(***************************************************************************)
(* The bytes of a file                                                     *)
(***************************************************************************)
Files == UNION {Entries(path) : path \in Paths}

LastSector(e) == IF e.size = 0 THEN 0 ELSE (e.size - 1) \div SectorSize

\* The clusters of a file with one sector each, in order.
Follows(chain, e) ==
  /\ chain \in [0 .. LastSector(e) -> Clusters]
  /\ chain[0] = e.cluster
  /\ \A k \in 1 .. LastSector(e) : chain[k] = Fat[chain[k - 1]]

\* Where the bytes of its sectors from the k-th on stand.
Bytes(chain, k, n) ==
  [p \in 1 .. n |-> <<chain[k + ((p - 1) \div SectorSize)], 0, (p - 1) % SectorSize>>]

LEMMA Numbers ==
  /\ SectorSize \in Nat /\ SectorSize > 0 /\ FatEntries \in Nat /\ FatEntries > 0
  /\ 0 \in 0 .. SectorsPerCluster - 1
  /\ Clusters \subseteq Nat \ {0, 1} /\ DOMAIN Fat = Clusters
  /\ FdCount \in Nat /\ FdCount > 3 /\ Lengths \subseteq Nat /\ Positions \subseteq Nat
  /\ PageSize \in Nat /\ PageSize > 0 /\ HeaderSize \in Nat
BY Fat32Assumption, ProgramAssumption

LEMMA Division ==
  ASSUME NEW a \in Nat, NEW d \in Nat, d > 0
  PROVE  /\ a \div d \in Nat /\ a % d \in 0 .. d - 1 /\ a = d * (a \div d) + (a % d)
         /\ a < d => a \div d = 0 /\ a % d = a
         /\ a >= d => a \div d = ((a - d) \div d) + 1 /\ a % d = (a - d) % d
<1>1. a \div d \in Nat /\ a % d \in 0 .. d - 1 /\ a = d * (a \div d) + (a % d)
  OBVIOUS
<1>2. a < d => a \div d = 0 /\ a % d = a
  OBVIOUS
<1>3. ASSUME a >= d PROVE a \div d = ((a - d) \div d) + 1 /\ a % d = (a - d) % d
  <2> DEFINE q == (a - d) \div d
             r == (a - d) % d
  <2>1. q \in Nat /\ r \in 0 .. d - 1 /\ a - d = d * q + r
    BY <1>3
  <2> HIDE DEF q, r
  <2>2. q + 1 \in Nat /\ a = d * (q + 1) + r
    BY <2>1
  <2>3. (d * (q + 1) + r) \div d = q + 1 /\ (d * (q + 1) + r) % d = r
    BY <2>1, <2>2
  <2> QED BY <2>2, <2>3 DEF q, r
<1> QED BY <1>1, <1>2, <1>3

\* The FAT is split into sectors, and put together again.
LEMMA NextClusterIs ==
  ASSUME NEW c \in Clusters
  PROVE  NextCluster(c) = Fat[c]
<1>1. /\ c \in Nat /\ c \div FatEntries \in Nat /\ c % FatEntries \in 0 .. FatEntries - 1
      /\ c = FatEntries * (c \div FatEntries) + (c % FatEntries)
  BY Numbers, Division
<1> QED BY <1>1 DEF NextCluster, FatSector

LEMMA ByteIs ==
  ASSUME NEW c \in Nat, NEW i \in 0 .. SectorSize - 1
  PROVE  <<c, 0, i>> \in Byte
BY Numbers DEF Byte

LEMMA NextClusterTyped ==
  ASSUME NEW c \in Nat
  PROVE  NextCluster(c) \in Nat
<1>1. c % FatEntries \in 0 .. FatEntries - 1
  BY Numbers, Division
<1>2. \A i : i \in Clusters => Fat[i] \in Nat
  BY Fat32Assumption
<1> QED BY <1>1, <1>2 DEF NextCluster, FatSector

\* What is found by a path has a date, a cluster and a size.
LEMMA FilesAre ==
  ASSUME NEW e \in Files
  PROVE  e.dated /\ e.cluster \in Nat /\ e.size \in Nat
<1>1. PICK path \in Paths : e \in Entries(path)
  BY DEF Files
<1> DEFINE n == Len(path)
           c == Walk(path)[n]
<1>2. n \in 1 .. Len(path)
  <2>1. path \in Seq(STRING) /\ path # <<>>
    BY Fat32Assumption
  <2> QED BY <2>1, EmptySeq
<1>3. c \in DOMAIN Directory \cup {Nowhere}
  BY <1>2, WalkAssumption
<1>4. PICK i \in Located(c, path[n]) : e = Directory[c][i] /\ c # Nowhere
  BY <1>1 DEF Entries
<1> HIDE DEF c, n
<1>5. c \in DOMAIN Directory
  BY <1>3, <1>4
<1>6. i \in DOMAIN Directory[c] /\ \A j \in 1 .. i : Directory[c][j].dated
  BY <1>4 DEF Located
<1>7. PICK D : D = Directory[c]
  OBVIOUS
<1>8. D \in Seq([name : STRING, dated : BOOLEAN, directory : BOOLEAN, cluster : Nat, size : Nat])
  BY <1>5, <1>7, Fat32Assumption
<1>9. i \in 1 .. Len(D)
  BY <1>6, <1>7, <1>8, LenProperties
<1>10. D[i] \in [name : STRING, dated : BOOLEAN, directory : BOOLEAN, cluster : Nat, size : Nat]
  BY <1>8, <1>9, ElementOfSeq
<1>11. i \in 1 .. i
  BY <1>8, <1>9, LenProperties
<1> QED BY <1>4, <1>6, <1>7, <1>10, <1>11

LEMMA LastSectorIs ==
  ASSUME Readable, NEW e \in Files
  PROVE  /\ LastSector(e) \in Nat /\ LastCluster(e) = LastSector(e)
         /\ \A x \in Nat : x \div SectorsPerCluster = x /\ x % SectorsPerCluster = 0
<1>1. \A x \in Nat : x \div SectorsPerCluster = x /\ x % SectorsPerCluster = 0
  BY DEF Readable
<1>2. e.size > 0 => (e.size - 1) \div SectorSize \in Nat
  <2> HAVE e.size > 0
  <2>1. e.size - 1 \in Nat
    BY FilesAre
  <2> QED BY <2>1, Numbers, Division
<1>3. e.size = 0 \/ e.size > 0
  BY FilesAre
<1> QED BY <1>1, <1>2, <1>3 DEF LastSector, LastCluster

LEMMA ChainExists ==
  ASSUME Readable, NEW e \in Files, e.size > 0
  PROVE  \E chain : Follows(chain, e)
BY ChainAssumption, LastSectorIs DEF Files, Follows

\* The sector of a byte.
LEMMA SectorOf ==
  ASSUME NEW l \in Nat, NEW p \in Nat, p > 0, p <= SectorSize * l + SectorSize
  PROVE  (p - 1) \div SectorSize \in 0 .. l /\ (p - 1) % SectorSize \in 0 .. SectorSize - 1
<1> DEFINE q == (p - 1) \div SectorSize
<1>1. /\ q \in Nat /\ SectorSize * q <= p - 1
      /\ (p - 1) % SectorSize \in 0 .. SectorSize - 1
  BY Numbers, Division
<1> HIDE DEF q
<1>2. ASSUME q > l PROVE FALSE
  <2>1. SectorSize * q >= SectorSize * (l + 1)
    BY <1>1, <1>2, Numbers
  <2>2. SectorSize * (l + 1) = SectorSize * l + SectorSize /\ SectorSize * l \in Nat
    BY Numbers
  <2>3. SectorSize * q \in Nat
    BY <1>1, Numbers
  <2> QED BY <1>1, <2>1, <2>2, <2>3, Numbers
<1>3. q \in 0 .. l
  BY <1>1, <1>2
<1> QED BY <1>1, <1>3 DEF q

\* The sectors of a file that has bytes, and how much the last one holds.
LEMMA SectorCount ==
  ASSUME NEW e, e.size \in Nat, e.size > 0
  PROVE  /\ LastSector(e) \in Nat
         /\ SectorSize * LastSector(e) < e.size
         /\ e.size <= SectorSize * LastSector(e) + SectorSize
<1> DEFINE s == e.size
           l == (s - 1) \div SectorSize
<1>1. s - 1 \in Nat /\ LastSector(e) = l
  BY DEF LastSector
<1>2. l \in Nat /\ s - 1 = SectorSize * l + ((s - 1) % SectorSize)
      /\ (s - 1) % SectorSize \in 0 .. SectorSize - 1
  BY <1>1, Numbers, Division
<1> HIDE DEF l, s
<1>3. SectorSize * l \in Nat /\ s \in Nat
  BY <1>2, Numbers DEF s
<1>4. SectorSize * l < s /\ s <= SectorSize * l + SectorSize
  BY <1>1, <1>2, <1>3, Numbers
<1> QED BY <1>1, <1>2, <1>4 DEF s

(***************************************************************************)
(* What the file holds, by the clusters of its chain.                      *)
(***************************************************************************)
Walked(g, e) ==
  g = [k \in 0 .. LastCluster(e) |-> IF k = 0 THEN e.cluster ELSE Fat[g[k - 1]]]

LEMMA ContentsIs ==
  ASSUME Readable, NEW e \in Files, e.size > 0, NEW chain, Follows(chain, e)
  PROVE  Contents(e) = Bytes(chain, 0, e.size)
<1> DEFINE l == LastSector(e)
           w == CHOOSE g : Walked(g, e)
           at(p) == (p - 1) \div SectorSize
<1>1. e.size \in Nat
  BY FilesAre
<1>2. /\ l \in Nat /\ LastCluster(e) = l
      /\ \A p \in 1 .. e.size : at(p) \in 0 .. l
  <2>1. l \in Nat /\ e.size <= SectorSize * l + SectorSize /\ LastCluster(e) = l
    BY <1>1, SectorCount, LastSectorIs
  <2>2. SectorSize * l \in Nat
    BY <2>1, Numbers
  <2> HIDE DEF l
  <2>3. \A p \in 1 .. e.size : p \in Nat /\ p > 0 /\ p <= SectorSize * l + SectorSize
    BY <1>1, <2>1, <2>2, Numbers
  <2> QED BY <2>1, <2>3, SectorOf
<1>3. Contents(e) = [p \in 1 .. e.size |->
        <<w[at(p) \div SectorsPerCluster], at(p) % SectorsPerCluster, (p - 1) % SectorSize>>]
  BY DEF Contents, Walked
<1>4. Walked(chain, e)
  <2>1. chain \in [0 .. l -> Clusters] /\ chain[0] = e.cluster
        /\ \A k \in 1 .. l : chain[k] = Fat[chain[k - 1]]
    BY DEF Follows
  <2> HIDE DEF l
  <2>2. \A k \in 0 .. l : chain[k] = IF k = 0 THEN e.cluster ELSE Fat[chain[k - 1]]
    BY <1>2, <2>1
  <2>3. chain = [k \in 0 .. l |-> chain[k]]
    BY <2>1
  <2> QED BY <1>2, <2>2, <2>3 DEF Walked
<1>5. Walked(w, e)
  BY <1>4
<1> HIDE DEF w, l, at
<1>6. \A k \in 0 .. l : w[k] = chain[k]
  <2> DEFINE S == {k \in 0 .. l : w[k] = chain[k]}
  <2>1. /\ \A k \in 0 .. l : w[k] = IF k = 0 THEN e.cluster ELSE Fat[w[k - 1]]
        /\ \A k \in 0 .. l : chain[k] = IF k = 0 THEN e.cluster ELSE Fat[chain[k - 1]]
    BY <1>2, <1>4, <1>5 DEF Walked
  <2>2. 0 \in S
    BY <1>2, <2>1
  <2>3. ASSUME NEW k \in 0 .. l - 1, k \in S PROVE k + 1 \in S
    <3>1. k + 1 \in 0 .. l /\ k + 1 # 0 /\ (k + 1) - 1 = k
      BY <1>2
    <3> QED BY <2>1, <2>3, <3>1
  <2>4. \A k \in 0 .. l : k \in S
    <3> HIDE DEF S
    <3> QED BY <1>2, <2>2, <2>3, UpTo
  <2> QED BY <2>4
<1>7. \A p \in 1 .. e.size :
        /\ at(p) \div SectorsPerCluster = at(p) /\ at(p) % SectorsPerCluster = 0
        /\ 0 + at(p) = at(p)
  BY <1>2, LastSectorIs
<1>8. Bytes(chain, 0, e.size) =
        [p \in 1 .. e.size |-> <<chain[0 + at(p)], 0, (p - 1) % SectorSize>>]
  BY DEF Bytes, at
<1>9. \A p \in 1 .. e.size :
        <<w[at(p) \div SectorsPerCluster], at(p) % SectorsPerCluster, (p - 1) % SectorSize>>
          = <<chain[0 + at(p)], 0, (p - 1) % SectorSize>>
  BY <1>2, <1>6, <1>7
<1> QED BY <1>3, <1>8, <1>9

(***************************************************************************)
(* load_file() reads those bytes.                                          *)
(***************************************************************************)
Rest(g, n) ==
  [c \in Nat |->
     IF n <= SectorSize THEN Sector(c, n)
     ELSE Sector(c, SectorSize) \o g[n - SectorSize][NextCluster(c)]]

Summed(g, m) == g = [n \in 0 .. m |-> Rest(g, n)]

LEMMA SummedSome ==
  ASSUME NEW m \in Nat
  PROVE  \E g : Summed(g, m)
<1> DEFINE S == {k \in 0 .. m : \E g : Summed(g, k)}
<1>1. 0 \in S
  <2> DEFINE g == [n \in 0 .. 0 |-> [c \in Nat |-> Sector(c, n)]]
  <2>1. \A n \in 0 .. 0 : n <= SectorSize
    BY Numbers
  <2>2. \A n \in 0 .. 0 : Rest(g, n) = [c \in Nat |-> Sector(c, n)]
    BY <2>1 DEF Rest
  <2>3. Summed(g, 0)
    BY <2>2 DEF Summed
  <2> QED BY <2>3
<1>2. ASSUME NEW k \in 0 .. m - 1, k \in S PROVE k + 1 \in S
  <2>1. PICK g : Summed(g, k)
    BY <1>2
  <2> DEFINE h == [n \in 0 .. k + 1 |-> IF n = k + 1 THEN Rest(g, n) ELSE g[n]]
  <2>2. \A n \in 0 .. k : h[n] = g[n] /\ g[n] = Rest(g, n)
    BY <2>1 DEF Summed
  <2>3. ASSUME NEW n \in 0 .. k + 1 PROVE Rest(h, n) = Rest(g, n)
    <3>1. n > SectorSize => n - SectorSize \in 0 .. k
      BY Numbers
    <3>2. n > SectorSize => h[n - SectorSize] = g[n - SectorSize]
      BY <2>2, <3>1
    <3>3. n <= SectorSize \/ n > SectorSize
      BY Numbers
    <3> HIDE DEF h
    <3> QED BY <3>2, <3>3, Numbers DEF Rest
  <2>4. \A n \in 0 .. k + 1 : h[n] = Rest(h, n)
    <3> TAKE n \in 0 .. k + 1
    <3>1. CASE n = k + 1
      BY <2>3, <3>1
    <3>2. CASE n \in 0 .. k
      BY <2>2, <2>3, <3>2
    <3> QED BY <3>1, <3>2
  <2>5. h = [n \in 0 .. k + 1 |-> h[n]]
    OBVIOUS
  <2> HIDE DEF h
  <2>6. Summed(h, k + 1)
    BY <2>4, <2>5 DEF Summed
  <2>7. k + 1 \in 0 .. m
    OBVIOUS
  <2> QED BY <2>6, <2>7
<1>3. m \in S
  <2> HIDE DEF S
  <2> QED BY <1>1, <1>2, UpTo
<1> QED BY <1>3

\* A sector, and the bytes of the sectors behind it.
LEMMA BytesFrom ==
  ASSUME NEW chain, NEW l \in Nat, chain \in [0 .. l -> Clusters],
         NEW k \in 0 .. l, NEW n \in Nat, n > 0,
         \A p \in 1 .. n : (p - 1) \div SectorSize \in 0 .. l - k
  PROVE  /\ Bytes(chain, k, n) \in Seq(Byte) /\ Len(Bytes(chain, k, n)) = n
         /\ n <= SectorSize => Bytes(chain, k, n) = Sector(chain[k], n)
         /\ n > SectorSize => Bytes(chain, k, n) =
              Sector(chain[k], SectorSize) \o Bytes(chain, k + 1, n - SectorSize)
<1> DEFINE b == Bytes(chain, k, n)
           S == SectorSize
<1>1. S \in Nat /\ S > 0
  BY Numbers
<1>2. ASSUME NEW p \in 1 .. n
      PROVE  b[p] = <<chain[k + ((p - 1) \div S)], 0, (p - 1) % S>> /\ b[p] \in Byte
  <2>1. b[p] = <<chain[k + ((p - 1) \div S)], 0, (p - 1) % S>>
    BY DEF Bytes
  <2>2. (p - 1) % S \in 0 .. S - 1
    BY <1>1, Division
  <2>3. k + ((p - 1) \div S) \in 0 .. l
    OBVIOUS
  <2> HIDE DEF b
  <2>4. chain[k + ((p - 1) \div S)] \in Nat
    BY <2>3, Numbers
  <2>5. <<chain[k + ((p - 1) \div S)], 0, (p - 1) % S>> \in Byte
    BY <2>2, <2>4, ByteIs
  <2> QED BY <2>1, <2>5
<1>3. b = [p \in 1 .. n |-> b[p]]
  BY DEF Bytes
<1> HIDE DEF b
<1>4. b \in Seq(Byte) /\ Len(b) = n
  <2>1. b \in [1 .. n -> Byte]
    BY <1>2, <1>3
  <2> QED BY <2>1
<1>5. ASSUME NEW p \in 1 .. n
      PROVE  /\ p <= S => b[p] = <<chain[k], 0, p - 1>>
             /\ p > S => b[p] = <<chain[k + 1 + ((p - S - 1) \div S)], 0, (p - S - 1) % S>>
  <2> DEFINE q == p - 1
  <2>1. q \in Nat /\ k \in Nat /\ b[p] = <<chain[k + (q \div S)], 0, q % S>>
    BY <1>2
  <2>2. p - S - 1 = q - S
    BY <1>1
  <2> HIDE DEF q
  <2>3. ASSUME q < S PROVE b[p] = <<chain[k], 0, q>>
    <3>1. q \div S = 0 /\ q % S = q
      BY <1>1, <2>1, <2>3, Division
    <3>2. k + (q \div S) = k
      BY <2>1, <3>1
    <3> QED BY <2>1, <3>1, <3>2
  <2>4. ASSUME q >= S PROVE b[p] = <<chain[k + 1 + ((q - S) \div S)], 0, (q - S) % S>>
    <3>1. q \div S = ((q - S) \div S) + 1 /\ q % S = (q - S) % S
      BY <1>1, <2>1, <2>4, Division
    <3>2. q - S \in Nat /\ (q - S) \div S \in Nat
      BY <1>1, <2>1, <2>4, Division
    <3>3. k + (q \div S) = k + 1 + ((q - S) \div S)
      BY <2>1, <3>1, <3>2
    <3> QED BY <2>1, <3>1, <3>3
  <2>5. (p <= S <=> q < S) /\ (p > S <=> q >= S)
    BY <1>1 DEF q
  <2> QED BY <2>2, <2>3, <2>4, <2>5 DEF q
<1>6. ASSUME n <= S PROVE b = Sector(chain[k], n)
  <2>1. \A p \in 1 .. n : b[p] = <<chain[k], 0, p - 1>>
    BY <1>1, <1>6, <1>5
  <2> QED BY <1>3, <2>1 DEF Sector
<1>7. ASSUME n > S PROVE b = Sector(chain[k], S) \o Bytes(chain, k + 1, n - S)
  <2> DEFINE s == Sector(chain[k], S)
             t == Bytes(chain, k + 1, n - S)
  <2>1. \A p \in 1 .. n - S : t[p] = b[p + S]
    <3> TAKE p \in 1 .. n - S
    <3> DEFINE r == p + S
    <3>1. r \in 1 .. n /\ r > S /\ r - S - 1 = p - 1
      BY <1>1, <1>7
    <3> HIDE DEF r
    <3>2. b[r] = <<chain[k + 1 + ((r - S - 1) \div S)], 0, (r - S - 1) % S>>
      BY <1>5, <3>1
    <3>3. b[r] = <<chain[k + 1 + ((p - 1) \div S)], 0, (p - 1) % S>>
      BY <3>1, <3>2
    <3> QED BY <3>3 DEF Bytes, r
  <2>2. s \in Seq(Byte) /\ Len(s) = S /\ \A p \in 1 .. S : s[p] = b[p]
    <3>1. \A p \in 1 .. S : p \in 1 .. n /\ s[p] = <<chain[k], 0, p - 1>>
      BY <1>1, <1>7 DEF Sector
    <3>2. \A p \in 1 .. S : s[p] = b[p]
      BY <3>1, <1>5
    <3>3. \A p \in 1 .. S : s[p] \in Byte
      BY <1>2, <3>1, <3>2
    <3>4. s = [p \in 1 .. S |-> s[p]]
      BY DEF Sector
    <3> HIDE DEF s
    <3>5. s \in [1 .. S -> Byte]
      BY <3>3, <3>4
    <3> QED BY <1>1, <3>2, <3>5
  <2>3. t \in Seq(Byte) /\ Len(t) = n - S
    <3>1. \A p \in 1 .. n - S : p + S \in 1 .. n
      BY <1>1, <1>7
    <3>2. \A p \in 1 .. n - S : t[p] \in Byte
      BY <1>2, <2>1, <3>1
    <3>3. t = [p \in 1 .. n - S |-> t[p]]
      BY DEF Bytes
    <3>4. t \in [1 .. n - S -> Byte] /\ n - S \in Nat
      BY <1>1, <1>7, <3>2, <3>3
    <3> QED BY <3>4
  <2> HIDE DEF b, s, t
  <2>4. /\ s \o t \in Seq(Byte) /\ Len(s \o t) = n
        /\ \A i \in 1 .. n : (s \o t)[i] = IF i <= S THEN s[i] ELSE t[i - S]
    <3>1. Len(s) + Len(t) = n
      BY <1>1, <1>7, <2>2, <2>3
    <3> QED BY <2>2, <2>3, <3>1, ConcatProperties
  <2>5. \A i \in 1 .. n : (s \o t)[i] = b[i]
    <3> TAKE i \in 1 .. n
    <3>1. CASE i <= S
      BY <2>2, <2>4, <3>1
    <3>2. CASE i > S
      <4>1. i - S \in 1 .. n - S /\ (i - S) + S = i /\ ~(i <= S)
        BY <1>1, <3>2
      <4> QED BY <2>1, <2>4, <4>1
    <3>3. i <= S \/ i > S
      BY <1>1
    <3> QED BY <3>1, <3>2, <3>3
  <2>6. b = s \o t
    BY <1>4, <2>4, <2>5, SeqEqual
  <2> QED BY <2>6 DEF b, s, t
<1> QED BY <1>4, <1>6, <1>7 DEF b

\* How much of a file is behind its first k sectors.
Behind(e, k) == e.size - SectorSize * k

LEMMA BehindIs ==
  ASSUME NEW e, e.size \in Nat, e.size > 0, NEW k \in 0 .. LastSector(e)
  PROVE  /\ Behind(e, k) \in 1 .. e.size
         /\ \A p \in 1 .. Behind(e, k) : (p - 1) \div SectorSize \in 0 .. LastSector(e) - k
         /\ k = LastSector(e) <=> Behind(e, k) <= SectorSize
         /\ Behind(e, k + 1) = Behind(e, k) - SectorSize
<1> DEFINE l == LastSector(e)
           s == e.size
           r == Behind(e, k)
<1>1. l \in Nat /\ SectorSize * l < s /\ s <= SectorSize * l + SectorSize /\ s \in Nat
  BY SectorCount
<1>2. k \in 0 .. l
  OBVIOUS
<1>3. r = s - SectorSize * k /\ Behind(e, k + 1) = s - SectorSize * (k + 1)
  BY DEF Behind
<1> HIDE DEF l, s, r
<1>4. /\ SectorSize * k \in Nat /\ SectorSize * l \in Nat /\ SectorSize * (l - k) \in Nat
      /\ SectorSize * (l - k) = SectorSize * l - SectorSize * k
      /\ SectorSize * (k + 1) = SectorSize * k + SectorSize
  BY <1>1, <1>2, Numbers
<1>5. SectorSize * (l - k) < r /\ r <= SectorSize * (l - k) + SectorSize
  BY <1>1, <1>3, <1>4, Numbers
<1>6. r \in Nat /\ r > 0 /\ r <= s
  BY <1>1, <1>3, <1>4, <1>5, Numbers
<1>7. ASSUME NEW p \in 1 .. r PROVE (p - 1) \div SectorSize \in 0 .. l - k
  <2>1. p \in Nat /\ p > 0 /\ p <= SectorSize * (l - k) + SectorSize /\ l - k \in Nat
    BY <1>1, <1>2, <1>4, <1>5, <1>6, Numbers
  <2> QED BY <2>1, SectorOf
<1>8. k = l <=> r <= SectorSize
  <2>1. k = l => r <= SectorSize
    BY <1>2, <1>5, Numbers
  <2>2. k # l => SectorSize * (l - k) >= SectorSize
    BY <1>1, <1>2, Numbers
  <2> QED BY <1>4, <1>5, <1>6, <2>1, <2>2, Numbers
<1>9. Behind(e, k + 1) = r - SectorSize
  BY <1>1, <1>3, <1>4, Numbers
<1> QED BY <1>1, <1>6, <1>7, <1>8, <1>9 DEF l, s, r

LEMMA LoadedIs ==
  ASSUME NEW e \in Files, e.size > 0, NEW chain, Follows(chain, e)
  PROVE  Loaded(e) = Bytes(chain, 0, e.size)
<1> DEFINE l == LastSector(e)
           s == e.size
           g == CHOOSE h : Summed(h, e.size)
<1>1. s \in Nat /\ s > 0
  BY FilesAre
<1>2. l \in Nat
  BY <1>1, SectorCount
<1>3. Loaded(e) = g[s][e.cluster]
  BY <1>1 DEF Loaded, Summed, Rest
<1>4. Summed(g, s)
  BY <1>1, SummedSome
<1>5. \A k \in 0 .. l :
        /\ Behind(e, k) \in 1 .. s
        /\ k = l <=> Behind(e, k) <= SectorSize
        /\ Behind(e, k + 1) = Behind(e, k) - SectorSize
  BY <1>1, BehindIs
<1>6. \A k \in 0 .. l :
        LET b == Bytes(chain, k, Behind(e, k)) IN
        /\ b \in Seq(Byte) /\ Len(b) = Behind(e, k)
        /\ Behind(e, k) <= SectorSize => b = Sector(chain[k], Behind(e, k))
        /\ Behind(e, k) > SectorSize => b =
             Sector(chain[k], SectorSize) \o Bytes(chain, k + 1, Behind(e, k) - SectorSize)
  <2> TAKE k \in 0 .. l
  <2>1. /\ Behind(e, k) \in Nat /\ Behind(e, k) > 0 /\ chain \in [0 .. l -> Clusters]
        /\ \A p \in 1 .. Behind(e, k) : (p - 1) \div SectorSize \in 0 .. l - k
    BY <1>1, BehindIs DEF Follows
  <2> HIDE DEF l
  <2> QED BY <1>2, <2>1, BytesFrom
<1> HIDE DEF l, s, g
<1>7. \A n \in 0 .. s : g[n] = Rest(g, n)
  BY <1>4 DEF Summed
<1>8. /\ chain[0] = e.cluster
      /\ \A k \in 0 .. l : chain[k] \in Clusters /\ chain[k] \in Nat
      /\ \A k \in 1 .. l : chain[k] = Fat[chain[k - 1]]
  BY Numbers DEF Follows, l
<1> DEFINE Right(k) == g[Behind(e, k)][chain[k]] = Bytes(chain, k, Behind(e, k))
           S == {j \in 0 .. l : Right(l - j)}
<1>9. 0 \in S
  <2>1. l \in 0 .. l /\ l - 0 = l
    BY <1>2
  <2>2. g[Behind(e, l)] = Rest(g, Behind(e, l)) /\ Behind(e, l) <= SectorSize
    BY <1>5, <1>7, <2>1
  <2>3. g[Behind(e, l)][chain[l]] = Sector(chain[l], Behind(e, l))
    BY <1>8, <2>1, <2>2 DEF Rest
  <2>4. Right(l)
    BY <1>6, <2>1, <2>2, <2>3
  <2> QED BY <1>2, <2>1, <2>4
<1>10. ASSUME NEW j \in 0 .. l - 1, j \in S PROVE j + 1 \in S
  <2> DEFINE k == l - (j + 1)
  <2>1. k \in 0 .. l /\ k + 1 \in 1 .. l /\ k # l /\ l - j = k + 1 /\ j + 1 \in 0 .. l /\ (k + 1) - 1 = k
    BY <1>2
  <2>2. Right(k + 1)
    BY <1>10, <2>1
  <2> HIDE DEF k
  <2>3. /\ g[Behind(e, k)] = Rest(g, Behind(e, k)) /\ ~(Behind(e, k) <= SectorSize)
        /\ Behind(e, k) > SectorSize /\ Behind(e, k) - SectorSize = Behind(e, k + 1)
    BY <1>5, <1>7, <2>1, Numbers
  <2>4. g[Behind(e, k)][chain[k]] =
          Sector(chain[k], SectorSize) \o g[Behind(e, k + 1)][NextCluster(chain[k])]
    BY <1>8, <2>1, <2>3 DEF Rest
  <2>5. NextCluster(chain[k]) = chain[k + 1]
    BY <1>8, <2>1, NextClusterIs
  <2>6. g[Behind(e, k)][chain[k]] =
          Sector(chain[k], SectorSize) \o Bytes(chain, k + 1, Behind(e, k + 1))
    BY <2>2, <2>4, <2>5
  <2>7. Right(k)
    BY <1>6, <2>1, <2>3, <2>6
  <2> QED BY <2>1, <2>7 DEF k
<1>11. l \in S
  <2> HIDE DEF S
  <2> QED BY <1>2, <1>9, <1>10, UpTo
<1>12. 0 \in 0 .. l /\ l - l = 0 /\ Behind(e, 0) = s
  BY <1>1, <1>2, Numbers DEF Behind, s
<1>13. g[s][e.cluster] = Bytes(chain, 0, s)
  BY <1>8, <1>11, <1>12
<1> QED BY <1>3, <1>13 DEF s

\* Whatever the disk, it reads as many bytes as the file has.
LEMMA SectorTyped ==
  ASSUME NEW c \in Nat, NEW n \in 0 .. SectorSize
  PROVE  Sector(c, n) \in Seq(Byte) /\ Len(Sector(c, n)) = n
<1>1. n \in Nat /\ \A i \in 1 .. n : i - 1 \in 0 .. SectorSize - 1
  BY Numbers
<1>2. \A i \in 1 .. n : <<c, 0, i - 1>> \in Byte
  BY <1>1, ByteIs
<1>3. Sector(c, n) \in [1 .. n -> Byte]
  BY <1>2 DEF Sector
<1> QED BY <1>1, <1>3

LEMMA LoadedTyped ==
  ASSUME NEW e \in Files
  PROVE  Loaded(e) \in Seq(Byte) /\ Len(Loaded(e)) = e.size
<1> DEFINE s == e.size
           g == CHOOSE h : Summed(h, e.size)
<1>1. s \in Nat /\ e.cluster \in Nat
  BY FilesAre
<1>2. Loaded(e) = IF s = 0 THEN <<>> ELSE g[s][e.cluster]
  BY DEF Loaded, Summed, Rest
<1>3. Summed(g, s)
  BY <1>1, SummedSome
<1> HIDE DEF s, g
<1>4. \A n \in 0 .. s : g[n] = Rest(g, n)
  BY <1>3 DEF Summed
<1> DEFINE Right(n) == \A c \in Nat : g[n][c] \in Seq(Byte) /\ Len(g[n][c]) = n
           S == {k \in 0 .. s : \A n \in 0 .. k : Right(n)}
<1>5. ASSUME NEW n \in 0 .. s, n > SectorSize => Right(n - SectorSize) PROVE Right(n)
  <2> TAKE c \in Nat
  <2>1. CASE n <= SectorSize
    <3>1. n \in 0 .. SectorSize
      BY <1>1, <2>1, Numbers
    <3>2. g[n][c] = Sector(c, n)
      BY <1>4, <2>1 DEF Rest
    <3> QED BY <3>1, <3>2, SectorTyped
  <2>2. CASE n > SectorSize
    <3>1. g[n][c] = Sector(c, SectorSize) \o g[n - SectorSize][NextCluster(c)]
      <4>1. ~(n <= SectorSize)
        BY <1>1, <2>2, Numbers
      <4> QED BY <1>4, <4>1 DEF Rest
    <3>2. PICK t : t = g[n - SectorSize][NextCluster(c)]
      OBVIOUS
    <3>3. t \in Seq(Byte) /\ Len(t) = n - SectorSize
      BY <1>5, <2>2, <3>2, NextClusterTyped
    <3>4. PICK h : h = Sector(c, SectorSize)
      OBVIOUS
    <3>5. h \in Seq(Byte) /\ Len(h) = SectorSize
      BY <3>4, SectorTyped, Numbers
    <3>6. h \o t \in Seq(Byte) /\ Len(h \o t) = Len(h) + Len(t)
      BY <3>3, <3>5
    <3>7. Len(h \o t) = n
      BY <1>1, <3>3, <3>5, <3>6, Numbers
    <3> QED BY <3>1, <3>2, <3>4, <3>6, <3>7
  <2>3. n <= SectorSize \/ n > SectorSize
    BY <1>1, Numbers
  <2> QED BY <2>1, <2>2, <2>3
<1> HIDE DEF Right
<1>6. 0 \in S
  <2>1. ~(0 > SectorSize) /\ 0 \in 0 .. s
    BY <1>1, Numbers
  <2>2. Right(0)
    BY <1>5, <2>1
  <2>3. \A n \in 0 .. 0 : n = 0
    OBVIOUS
  <2> QED BY <2>1, <2>2, <2>3
<1>7. ASSUME NEW k \in 0 .. s - 1, k \in S PROVE k + 1 \in S
  <2>1. k + 1 \in 0 .. s /\ \A n \in 0 .. k + 1 : n \in 0 .. k \/ n = k + 1
    BY <1>1
  <2>2. k + 1 > SectorSize => (k + 1) - SectorSize \in 0 .. k
    BY <1>1, Numbers
  <2>3. Right(k + 1)
    BY <1>5, <1>7, <2>1, <2>2
  <2> QED BY <1>7, <2>1, <2>3
<1>8. s \in S
  <2> HIDE DEF S
  <2> QED BY <1>1, <1>6, <1>7, UpTo
<1>9. g[s][e.cluster] \in Seq(Byte) /\ Len(g[s][e.cluster]) = s
  <2>1. Right(s)
    BY <1>1, <1>8
  <2> QED BY <1>1, <2>1 DEF Right
<1>10. CASE s = 0
  BY <1>2, <1>10, EmptySeq DEF s
<1>11. CASE s # 0
  BY <1>2, <1>9, <1>11 DEF s
<1> QED BY <1>10, <1>11

(***************************************************************************)
(* On a disk with one sector per cluster open() puts the bytes of a file   *)
(* together as the clusters of its chain hold them, wherever they are: the *)
(* loop of load_file(), over sectors of the FAT, reaches every one of them *)
(* in order, and cuts the last (fat32.c:108-138).                          *)
(***************************************************************************)
THEOREM LoadsChain == Readable => \A e \in Files : Loaded(e) = Contents(e)
<1> SUFFICES ASSUME Readable, NEW e \in Files
             PROVE  Loaded(e) = Contents(e)
  OBVIOUS
<1>1. e.size \in Nat
  BY FilesAre
<1>2. CASE e.size > 0
  <2>1. PICK chain : Follows(chain, e)
    BY <1>2, ChainExists
  <2> QED BY <1>2, <2>1, LoadedIs, ContentsIs
<1>3. CASE e.size = 0
  <2>1. Loaded(e) = <<>>
    BY <1>3 DEF Loaded
  <2>2. 1 .. e.size = {}
    BY <1>3
  <2>3. Contents(e) = [p \in {} |-> <<>>]
    BY <2>2 DEF Contents
  <2> QED BY <2>1, <2>3
<1> QED BY <1>1, <1>2, <1>3

-----------------------------------------------------------------------------
(***************************************************************************)
(* Open files                                                              *)
(***************************************************************************)
Names == {e.name : e \in Files \cup {NoFile.entry}}

Records ==
  [buffer : Seq(Byte), size : Nat, pos : Nat,
   entry : Files \cup {NoFile.entry}, from : Nat, got : Seq(Byte)]

\* A position behind the end is the one sought; one before it was read up to.
Reading(f) ==
  /\ f.entry \in Files
  /\ f.buffer = Loaded(f.entry) /\ Len(f.buffer) = f.size
  /\ f.pos > f.size => f.pos = f.from
  /\ f.pos < f.from => f.pos = f.size
  /\ f.got = SubSeq(f.buffer, f.from + 1, f.pos)

\* The descriptor that an open() has found is still free.
OpeningInv ==
  opening # NoOpening => opening.fd \in Descriptors \ held /\ opening.path \in Paths

FilesInv ==
  /\ held \subseteq Descriptors
  /\ file \in [Descriptors -> Records]
  /\ answer \in Int
  /\ \A d \in held : Reading(file[d])
  /\ OpeningInv /\ overlapped \in BOOLEAN

\* How many bytes read() delivers, and the position after that.
Delivered(b, pos, n) == IF n > Len(b) - pos THEN Len(b) - pos ELSE n
Moved(b, pos, n)     == IF n > Len(b) - pos THEN Len(b) ELSE pos + n

\* What read() delivers continues what was read before.
LEMMA ReadContinues ==
  ASSUME NEW b \in Seq(Byte), NEW from \in Nat, NEW pos \in Nat, NEW n \in Nat,
         pos > Len(b) => pos = from, pos < from => pos = Len(b)
  PROVE  /\ Delivered(b, pos, n) \in Int /\ pos + Delivered(b, pos, n) <= Len(b)
         /\ Moved(b, pos, n) \in Nat /\ Moved(b, pos, n) <= Len(b)
         /\ Moved(b, pos, n) < from => Moved(b, pos, n) = Len(b)
         /\ SubSeq(b, from + 1, pos) \o SubSeq(b, pos + 1, pos + Delivered(b, pos, n))
              = SubSeq(b, from + 1, Moved(b, pos, n))
<1> DEFINE l == Len(b)
           len == Delivered(b, pos, n)
           after == Moved(b, pos, n)
<1>1. l \in Nat
  OBVIOUS
<1>2. /\ len \in Int /\ pos + len = after
      /\ after \in Nat /\ after <= l /\ (after < from => after = l)
  BY <1>1 DEF Delivered, Moved
<1>3. pos <= l => pos <= after
  BY <1>1 DEF Moved
<1> HIDE DEF l, len, after
<1>4. SubSeq(b, from + 1, pos) \o SubSeq(b, pos + 1, after) = SubSeq(b, from + 1, after)
  <2>1. CASE from <= pos /\ pos <= l
    <3>1. from + 1 \in 1 .. l + 1 /\ pos \in (from + 1) - 1 .. l /\ after \in pos .. l
      BY <1>1, <1>2, <1>3, <2>1
    <3> QED BY <3>1, ConcatAdjacentSubSeq DEF l
  <2>2. CASE pos < from \/ pos > l
    <3>1. pos < from + 1 /\ after < pos + 1 /\ after < from + 1
      BY <1>1, <1>2, <2>2 DEF l
    <3>2. /\ SubSeq(b, from + 1, pos) = <<>> /\ SubSeq(b, pos + 1, after) = <<>>
          /\ SubSeq(b, from + 1, after) = <<>>
      BY <1>2, <3>1, SubSeqEmpty
    <3>3. <<>> \o <<>> = <<>>
      OBVIOUS
    <3> QED BY <3>2, <3>3
  <2>3. (from <= pos /\ pos <= l) \/ pos < from \/ pos > l
    BY <1>1
  <2> QED BY <2>1, <2>2, <2>3, Zenon
<1> QED BY <1>1, <1>2, <1>4 DEF l, len, after

LEMMA SubSeqTyped ==
  ASSUME NEW S, NEW b \in Seq(S), NEW m \in Nat, NEW n \in Int, n <= Len(b)
  PROVE  SubSeq(b, m + 1, n) \in Seq(S)
<1>1. \A i \in m + 1 .. n : b[i] \in S
  OBVIOUS
<1> QED BY <1>1, SubSeqProperties

\* A step that changes the file of d.
LEMMA FileChanged ==
  ASSUME FilesInv, NEW d \in Descriptors, NEW f \in Records,
         file' = [file EXCEPT ![d] = f], answer' \in Int,
         held' \subseteq held \cup {d}, d \in held' => Reading(f),
         OpeningInv', overlapped' \in BOOLEAN
  PROVE  FilesInv'
BY DEF FilesInv

LEMMA OpensKept ==
  ASSUME FilesInv, UNCHANGED opens, held' \subseteq held
  PROVE  OpeningInv' /\ overlapped' \in BOOLEAN
BY DEF FilesInv, OpeningInv, opens

LEMMA NoFileTyped ==
  NoFile \in Records /\ NoFile.pos = 0 /\ NoFile.from = 0 /\ NoFile.got = <<>>
BY EmptySeq DEF NoFile, Records

LEMMA FileBegun ==
  ASSUME FilesInv, NEW path \in Paths, OpenBegins(path)
  PROVE  FilesInv' /\ UNCHANGED <<held, file>>
<1>1. PICK d \in 3 .. FdCount : Free(d) /\ opening' = [fd |-> d, path |-> path]
  BY DEF OpenBegins
<1>2. UNCHANGED <<held, file, answer, overlapped>>
  BY DEF OpenBegins, table
<1>3. opening'.fd = d /\ opening'.path = path /\ d \in Descriptors \ held
  BY <1>1 DEF Free
<1>4. OpeningInv'
  BY <1>2, <1>3 DEF OpeningInv
<1> QED BY <1>2, <1>4 DEF FilesInv

LEMMA FileOpened ==
  ASSUME FilesInv, OpenTakes
  PROVE  /\ FilesInv' /\ answer' \in Descriptors \ held /\ held' = held \cup {answer'}
         /\ file'[answer'].entry \in Files
<1>1. PICK d \in Descriptors \ held, path \in Paths : d = opening.fd /\ path = opening.path
  BY DEF OpenTakes, FilesInv, OpeningInv
<1>2. PICK e \in Entries(path) :
        /\ answer' = d
        /\ held' = held \cup {d}
        /\ file' = [file EXCEPT ![d] =
                      [NoFile EXCEPT !.buffer = Loaded(e), !.size = e.size, !.entry = e]]
  BY <1>1 DEF OpenTakes
<1>3. e \in Files /\ e.size \in Nat /\ d \in Int
  BY FilesAre, Numbers DEF Files, Descriptors
<1> DEFINE f == [NoFile EXCEPT !.buffer = Loaded(e), !.size = e.size, !.entry = e]
<1>4. Loaded(e) \in Seq(Byte) /\ Len(Loaded(e)) = e.size
  BY <1>3, LoadedTyped
<1>5. NoFile \in Records /\ NoFile.pos = 0 /\ NoFile.from = 0 /\ NoFile.got = <<>>
  BY NoFileTyped
<1>6. /\ f \in Records
      /\ f.buffer = Loaded(e) /\ f.size = e.size /\ f.entry = e
      /\ f.pos = 0 /\ f.from = 0 /\ f.got = <<>>
  BY <1>3, <1>4, <1>5 DEF Records
<1>7. Reading(f)
  <2>1. SubSeq(f.buffer, f.from + 1, f.pos) = <<>>
    BY <1>6, SubSeqEmpty
  <2> HIDE DEF f
  <2> QED BY <1>3, <1>4, <1>6, <2>1 DEF Reading
<1>8. file'[d] = f
  BY <1>1, <1>2 DEF FilesInv
<1> HIDE DEF f
<1>9. file' = [file EXCEPT ![d] = f]
  BY <1>2 DEF f
<1>10. OpeningInv' /\ overlapped' \in BOOLEAN
  BY DEF OpenTakes, OpeningInv, FilesInv
<1>11. FilesInv'
  BY <1>1, <1>2, <1>3, <1>6, <1>7, <1>9, <1>10, FileChanged
<1>12. file'[answer'].entry = e /\ answer' \in Descriptors \ held
  BY <1>1, <1>2, <1>6, <1>8
<1> QED BY <1>2, <1>3, <1>11, <1>12

LEMMA FileRead ==
  ASSUME FilesInv, NEW d, NEW n \in Nat, Read(d, n)
  PROVE  /\ FilesInv' /\ d \in Descriptors /\ file[d] \in Records
         /\ file[d].pos + answer' <= Len(file[d].buffer) /\ answer' \in Int
<1> DEFINE f == file[d]
           len == IF n > f.size - f.pos THEN f.size - f.pos ELSE n
           g == [f EXCEPT !.pos = PosAfter(f, n),
                          !.got = @ \o SubSeq(f.buffer, f.pos + 1, f.pos + len)]
<1>1. d \in held /\ answer' = len /\ held' = held
  BY DEF Read
<1>2. f \in Records /\ Reading(f) /\ d \in Descriptors
  BY <1>1 DEF FilesInv
<1>3. file' = [file EXCEPT ![d] = g]
  BY <1>2 DEF Read, FilesInv, Records
<1> HIDE DEF f
<1>4. /\ f.buffer \in Seq(Byte) /\ f.from \in Nat /\ f.pos \in Nat
      /\ f.size \in Nat /\ f.size = Len(f.buffer)
      /\ f.got = SubSeq(f.buffer, f.from + 1, f.pos)
      /\ f.pos > Len(f.buffer) => f.pos = f.from
      /\ f.pos < f.from => f.pos = Len(f.buffer)
  BY <1>2 DEF Records, Reading
<1>5. /\ len \in Int /\ f.pos + len <= Len(f.buffer)
      /\ PosAfter(f, n) \in Nat /\ PosAfter(f, n) <= Len(f.buffer)
      /\ PosAfter(f, n) < f.from => PosAfter(f, n) = Len(f.buffer)
      /\ f.got \o SubSeq(f.buffer, f.pos + 1, f.pos + len)
           = SubSeq(f.buffer, f.from + 1, PosAfter(f, n))
  <2>1. len = Delivered(f.buffer, f.pos, n) /\ PosAfter(f, n) = Moved(f.buffer, f.pos, n)
    BY <1>4 DEF PosAfter, Delivered, Moved
  <2> HIDE DEF len
  <2>2. /\ len \in Int /\ f.pos + len <= Len(f.buffer)
        /\ PosAfter(f, n) \in Nat /\ PosAfter(f, n) <= Len(f.buffer)
        /\ PosAfter(f, n) < f.from => PosAfter(f, n) = Len(f.buffer)
        /\ SubSeq(f.buffer, f.from + 1, f.pos) \o SubSeq(f.buffer, f.pos + 1, f.pos + len)
             = SubSeq(f.buffer, f.from + 1, PosAfter(f, n))
    <3>1. PICK b, from, pos : b = f.buffer /\ from = f.from /\ pos = f.pos
      OBVIOUS
    <3>2. b \in Seq(Byte) /\ from \in Nat /\ pos \in Nat
      BY <1>4, <3>1
    <3>3. (pos > Len(b) => pos = from) /\ (pos < from => pos = Len(b))
      BY <1>4, <3>1
    <3>4. /\ Delivered(b, pos, n) \in Int /\ pos + Delivered(b, pos, n) <= Len(b)
          /\ Moved(b, pos, n) \in Nat /\ Moved(b, pos, n) <= Len(b)
          /\ Moved(b, pos, n) < from => Moved(b, pos, n) = Len(b)
          /\ SubSeq(b, from + 1, pos) \o SubSeq(b, pos + 1, pos + Delivered(b, pos, n))
               = SubSeq(b, from + 1, Moved(b, pos, n))
      BY <3>2, <3>3, ReadContinues
    <3> QED BY <2>1, <3>1, <3>4
  <2> QED BY <1>4, <2>2, Zenon
<1>6. SubSeq(f.buffer, f.from + 1, PosAfter(f, n)) \in Seq(Byte)
  <2>1. PosAfter(f, n) \in Int /\ PosAfter(f, n) <= Len(f.buffer)
    BY <1>5
  <2> QED BY <1>4, <2>1, SubSeqTyped
<1> HIDE DEF len
<1>7. /\ g.buffer = f.buffer /\ g.size = f.size /\ g.entry = f.entry /\ g.from = f.from
      /\ g.pos = PosAfter(f, n)
      /\ g.got = SubSeq(f.buffer, f.from + 1, PosAfter(f, n))
      /\ g \in Records
  BY <1>2, <1>5, <1>6 DEF Records
<1> HIDE DEF g
<1>8. Reading(g)
  <2>1. f.entry \in Files /\ f.buffer = Loaded(f.entry)
    BY <1>2 DEF Reading
  <2>2. /\ ~(PosAfter(f, n) > f.size)
        /\ PosAfter(f, n) < f.from => PosAfter(f, n) = f.size
    BY <1>4, <1>5
  <2> QED BY <1>4, <1>7, <2>1, <2>2 DEF Reading
<1>9. FilesInv'
  <2>1. OpeningInv' /\ overlapped' \in BOOLEAN
    BY <1>1, OpensKept DEF Read
  <2> QED BY <1>1, <1>2, <1>3, <1>5, <1>7, <1>8, <2>1, FileChanged
<1> QED BY <1>1, <1>2, <1>5, <1>9 DEF f

LEMMA FileSought ==
  ASSUME FilesInv, NEW d, NEW pos \in Nat, Lseek(d, pos)
  PROVE  FilesInv'
<1> DEFINE f == file[d]
           g == [f EXCEPT !.pos = pos, !.from = pos, !.got = <<>>]
<1>1. d \in held /\ answer' = 0 /\ held' = held
  BY DEF Lseek
<1>2. f \in Records /\ Reading(f) /\ d \in Descriptors
  BY <1>1 DEF FilesInv
<1>3. file' = [file EXCEPT ![d] = g]
  BY <1>2 DEF Lseek, FilesInv, Records
<1> HIDE DEF f
<1>4. /\ g.buffer = f.buffer /\ g.size = f.size /\ g.entry = f.entry
      /\ g.from = pos /\ g.pos = pos /\ g.got = <<>>
      /\ g \in Records
  BY <1>2, EmptySeq DEF Records
<1> HIDE DEF g
<1>5. SubSeq(g.buffer, g.from + 1, g.pos) = <<>>
  BY <1>4, SubSeqEmpty
<1>6. Reading(g)
  BY <1>2, <1>4, <1>5 DEF Reading
<1>7. answer' \in Int /\ OpeningInv' /\ overlapped' \in BOOLEAN
  BY <1>1, OpensKept DEF Lseek
<1> QED BY <1>1, <1>2, <1>3, <1>4, <1>6, <1>7, FileChanged

LEMMA FileClosed ==
  ASSUME FilesInv, NEW d, Close(d)
  PROVE  FilesInv'
<1>1. /\ d \in held /\ d \in Descriptors /\ answer' = 0 /\ held' = held \ {d}
      /\ file' = [file EXCEPT ![d] = NoFile]
  BY DEF Close, FilesInv
<1>2. NoFile \in Records /\ d \notin held' /\ answer' \in Int /\ held' \subseteq held \cup {d}
  BY <1>1, NoFileTyped
<1>3. OpeningInv' /\ overlapped' \in BOOLEAN
  BY <1>1, OpensKept DEF Close
<1> QED BY <1>1, <1>2, <1>3, FileChanged

\* A call that leaves the table of open files alone.
LEMMA FilesAlone ==
  ASSUME FilesInv, OpenFull \/ OpensOverlap \/ OpenFindsNothing \/ BadDescriptor
  PROVE  FilesInv' /\ UNCHANGED <<held, file>>
<1>1. UNCHANGED <<held, file>> /\ (answer' = -1 \/ answer' = answer)
  BY DEF OpenFull, OpensOverlap, OpenFindsNothing, BadDescriptor, table
<1>2. opening' = opening \/ opening' = NoOpening
  BY DEF OpenFull, OpensOverlap, OpenFindsNothing, BadDescriptor, opens
<1>3. OpeningInv'
  BY <1>1, <1>2 DEF FilesInv, OpeningInv
<1>4. overlapped' \in BOOLEAN
  BY DEF FilesInv, OpenFull, OpensOverlap, OpenFindsNothing, BadDescriptor, opens
<1>5. answer' \in Int
  BY <1>1 DEF FilesInv
<1> QED BY <1>1, <1>3, <1>4, <1>5 DEF FilesInv

-----------------------------------------------------------------------------
(***************************************************************************)
(* The loader                                                              *)
(***************************************************************************)
Places == {"idle", "opening", "header", "seek segments", "read segments", "segment", "page", "seek",
           "read", "seek sections", "read sections", "section", "close", "lost"}

Unread == {"idle", "opening", "header", "close", "lost"}    \* no header has been recognised

Page == {<<>>} \cup [1 .. PageSize -> Byte \cup {Zero}]

Loaders ==
  [at : Places, fd : {0} \cup Descriptors, name : Names,
   i : Nat \ {0}, j : Nat, left : Nat]

LoaderInv ==
  /\ loader \in Loaders
  /\ loader.at \notin Unread => IsElf
  /\ loader.at \in {"page", "seek", "read"} =>
       loader.i <= Len(Programs[loader.name].segments)

ImageInv == image \in [PageNumbers -> Page] /\ opened \subseteq Descriptors

ProgramInv == FilesInv /\ LoaderInv /\ ImageInv

\* What the headers of an executable hold.
LEMMA HeadersAre ==
  ASSUME loader \in Loaders, IsElf
  PROVE  /\ Programs[loader.name].phoff \in Nat /\ Programs[loader.name].shoff \in Nat
         /\ loader.i <= Len(Programs[loader.name].segments) =>
              /\ Segment.page \in PageNumbers /\ Segment.load \in BOOLEAN
              /\ Segment.offset \in Nat /\ Segment.filesz \in Nat
         /\ loader.i <= Len(Programs[loader.name].sections) => Section.page \in PageNumbers
<1> DEFINE p == Programs[loader.name]
<1>1. loader.i \in Nat \ {0}
  BY DEF Loaders
<1>2. /\ p.phoff \in Nat /\ p.shoff \in Nat
      /\ p.segments \in Seq([load : BOOLEAN, page : PageNumbers, offset : Nat, filesz : Nat])
      /\ p.sections \in Seq([nobits : BOOLEAN, alloc : BOOLEAN, page : PageNumbers, size : Nat])
  BY ProgramAssumption DEF IsElf
<1> HIDE DEF p
<1>3. loader.i <= Len(p.segments) =>
        p.segments[loader.i] \in [load : BOOLEAN, page : PageNumbers, offset : Nat, filesz : Nat]
  <2>1. loader.i <= Len(p.segments) => loader.i \in 1 .. Len(p.segments)
    BY <1>1, <1>2, LenProperties
  <2> QED BY <1>2, <2>1, ElementOfSeq
<1>4. loader.i <= Len(p.sections) =>
        p.sections[loader.i] \in [nobits : BOOLEAN, alloc : BOOLEAN, page : PageNumbers, size : Nat]
  <2>1. loader.i <= Len(p.sections) => loader.i \in 1 .. Len(p.sections)
    BY <1>1, <1>2, LenProperties
  <2> QED BY <1>2, <2>1, ElementOfSeq
<1> QED BY <1>2, <1>3, <1>4 DEF p, Segment, Section

LEMMA ClearedIs == Cleared \in Page
BY DEF Cleared, Page

LEMMA CopiedIs ==
  ASSUME NEW f \in Records, NEW n \in Int, f.pos + n <= Len(f.buffer)
  PROVE  Copied(f, n) \in Page
<1> DEFINE bytes == SubSeq(f.buffer, f.pos + 1, f.pos + n)
<1>1. f.buffer \in Seq(Byte) /\ f.pos \in Nat /\ f.pos + n \in Int
  BY DEF Records
<1>2. bytes \in Seq(Byte)
  BY <1>1, SubSeqTyped
<1>3. Copied(f, n) = [k \in 1 .. PageSize |-> IF k <= Len(bytes) THEN bytes[k] ELSE Zero]
  BY DEF Copied
<1> HIDE DEF bytes
<1>4. \A k \in 1 .. PageSize : k <= Len(bytes) => bytes[k] \in Byte
  BY <1>2, Numbers
<1> QED BY <1>3, <1>4 DEF Page

\* The loader may go on with other labels and counters, for the same program.
LEMMA LoaderChanged ==
  ASSUME loader' \in Loaders, loader'.name = loader.name,
         loader'.at \notin Unread => IsElf,
         loader'.at \in {"page", "seek", "read"} =>
           loader'.i <= Len(Programs[loader.name].segments)
  PROVE  LoaderInv'
BY DEF LoaderInv, IsElf

\* Where it may go to.
Reachable(l) ==
  /\ l \in Places
  /\ l \notin Unread => IsElf
  /\ l \in {"page", "seek", "read"} => loader.i <= Len(Programs[loader.name].segments)

LEMMA GoneTo ==
  ASSUME LoaderInv, NEW l, Reachable(l), Goto(l)
  PROVE  LoaderInv'
<1>1. /\ loader' \in Loaders /\ loader'.at = l
      /\ loader'.name = loader.name /\ loader'.i = loader.i
  BY DEF LoaderInv, Loaders, Goto, Reachable
<1> QED BY <1>1, LoaderChanged DEF Reachable

-----------------------------------------------------------------------------
(***************************************************************************)
(* The steps                                                               *)
(***************************************************************************)
LEMMA OpenStep ==
  ASSUME ProgramInv,
         (\E path \in Paths : ExecveOpens(path)) \/ ExecveFinds \/ ExecveFindsNothing
  PROVE  ProgramInv'
<1>1. FilesInv /\ LoaderInv /\ ImageInv
  BY DEF ProgramInv
<1>2. Reachable("opening") /\ Reachable("idle")
  BY DEF Reachable, Places, Unread
<1>3. ASSUME NEW path \in Paths, ExecveOpens(path) PROVE ProgramInv'
  <2>1. OpenBegins(path) /\ Goto("opening") /\ UNCHANGED <<image, opened>>
    BY <1>3 DEF ExecveOpens
  <2>2. FilesInv' /\ LoaderInv'
    BY <1>1, <1>2, <2>1, FileBegun, GoneTo
  <2> QED BY <1>1, <2>1, <2>2 DEF ProgramInv, ImageInv
<1>4. CASE ExecveFinds
  <2>1. /\ OpenTakes /\ image' = NoImage /\ opened' = opened
        /\ loader' = [at |-> "header", fd |-> answer', name |-> file'[answer'].entry.name,
                      i |-> 1, j |-> 0, left |-> 0]
    BY <1>4 DEF ExecveFinds
  <2>2. FilesInv' /\ answer' \in Descriptors /\ file'[answer'].entry \in Files
    BY <1>1, <2>1, FileOpened
  <2>3. file'[answer'].entry.name \in Names
    BY <2>2 DEF Names
  <2>4. LoaderInv'
    BY <2>1, <2>2, <2>3 DEF LoaderInv, Loaders, Places, Unread
  <2>5. ImageInv'
    BY <1>1, <2>1 DEF ImageInv, NoImage, Page
  <2> QED BY <2>2, <2>4, <2>5 DEF ProgramInv
<1>5. CASE ExecveFindsNothing
  <2>1. /\ OpenFindsNothing \/ OpenFull
        /\ Goto("idle") \/ loader' = loader
        /\ UNCHANGED <<image, opened>>
    BY <1>5 DEF ExecveFindsNothing, lvars
  <2>2. FilesInv'
    BY <1>1, <2>1, FilesAlone
  <2>3. Goto("idle") => LoaderInv'
    BY <1>1, <1>2, GoneTo
  <2>4. loader' = loader => LoaderInv'
    BY <1>1 DEF LoaderInv, IsElf
  <2> QED BY <1>1, <2>1, <2>2, <2>3, <2>4 DEF ProgramInv, ImageInv
<1> QED BY <1>3, <1>4, <1>5

LEMMA HeaderStep ==
  ASSUME ProgramInv, ReadHeader \/ SeekTable \/ ReadTable
  PROVE  ProgramInv'
<1>1. FilesInv /\ LoaderInv /\ loader \in Loaders /\ UNCHANGED <<image, opened>>
  BY DEF ProgramInv, LoaderInv, ReadHeader, SeekTable, ReadTable
<1>2. ImageInv'
  BY <1>1 DEF ProgramInv, ImageInv
<1>3. CASE ReadHeader
  <2>1. FilesInv'
    BY <1>1, <1>3, FileRead, Numbers DEF ReadHeader
  <2>2. /\ IsElf => Reachable("seek segments")
        /\ Reachable("close")
    BY DEF Reachable, Places, Unread
  <2>3. LoaderInv'
    BY <1>1, <1>3, <2>2, GoneTo DEF ReadHeader
  <2> QED BY <1>2, <2>1, <2>3 DEF ProgramInv
<1>4. CASE SeekTable
  <2>1. IsElf
    BY <1>1, <1>4 DEF SeekTable, LoaderInv, At, Unread
  <2>2. FilesInv'
    BY <1>1, <1>4, <2>1, HeadersAre, FileSought DEF SeekTable
  <2>3. Reachable("read segments") /\ Reachable("read sections")
    BY <2>1 DEF Reachable, Places, Unread
  <2>4. LoaderInv'
    BY <1>1, <1>4, <2>3, GoneTo DEF SeekTable
  <2> QED BY <1>2, <2>2, <2>4 DEF ProgramInv
<1>5. CASE ReadTable
  <2>1. IsElf
    BY <1>1, <1>5 DEF ReadTable, LoaderInv, At, Unread
  <2>2. FilesInv'
    BY <1>1, <1>5, FileRead, Numbers DEF ReadTable
  <2>3. /\ loader' \in Loaders /\ loader'.name = loader.name
        /\ loader'.at \in {"segment", "section"}
    <3>1. \/ loader' = [loader EXCEPT !.at = "segment", !.i = 1]
          \/ loader' = [loader EXCEPT !.at = "section", !.i = 1]
      BY <1>5 DEF ReadTable
    <3>2. "segment" \in Places /\ "section" \in Places /\ 1 \in Nat \ {0}
      BY DEF Places
    <3> QED BY <1>1, <3>1, <3>2 DEF Loaders
  <2>4. LoaderInv'
    BY <2>1, <2>3, LoaderChanged
  <2> QED BY <1>2, <2>2, <2>4 DEF ProgramInv
<1> QED BY <1>3, <1>4, <1>5

LEMMA SegmentStep ==
  ASSUME ProgramInv, NextSegment \/ NextPage \/ NextSection
  PROVE  ProgramInv'
<1>1. UNCHANGED vars /\ opened' = opened
  BY DEF NextSegment, NextPage, NextSection
<1>2. FilesInv'
  BY <1>1 DEF vars, table, opens, ProgramInv, FilesInv, OpeningInv
<1>3. /\ LoaderInv /\ ImageInv /\ loader \in Loaders /\ IsElf
      /\ loader.i \in Nat \ {0}
  BY DEF ProgramInv, LoaderInv, Loaders, NextSegment, NextPage, NextSection, At, Unread
<1>4. CASE NextSegment
  <2>1. ImageInv'
    BY <1>3, <1>4 DEF NextSegment, ImageInv
  <2> DEFINE l == Len(Programs[loader.name].segments)
  <2>2. CASE loader.i > l
    <3>1. loader' = [loader EXCEPT !.at = "seek sections"]
      <4>1. l \in Nat
        BY <1>3, ProgramAssumption DEF IsElf
      <4>2. ~(loader.i <= l)
        BY <1>3, <2>2, <4>1
      <4> QED BY <1>4, <2>2, <4>2 DEF NextSegment
    <3>2. LoaderInv'
      BY <1>3, <3>1, GoneTo DEF Goto, Reachable, Places
    <3> QED BY <1>2, <2>1, <3>2 DEF ProgramInv
  <2>3. CASE loader.i <= l /\ Segment.load
    <3>1. loader' = [loader EXCEPT !.at = "page", !.j = 0, !.left = Segment.filesz]
      BY <1>3, <1>4, <2>3 DEF NextSegment
    <3>2. Segment.filesz \in Nat
      BY <1>3, <2>3, HeadersAre
    <3>3. /\ loader' \in Loaders /\ loader'.name = loader.name /\ loader'.i = loader.i
      BY <1>3, <3>1, <3>2 DEF Loaders, Places
    <3>4. LoaderInv'
      BY <1>3, <2>3, <3>3, LoaderChanged
    <3> QED BY <1>2, <2>1, <3>4 DEF ProgramInv
  <2>4. CASE ~(loader.i > l) /\ ~(loader.i <= l /\ Segment.load)
    <3>1. loader' = [loader EXCEPT !.i = @ + 1] /\ loader.at = "segment"
      BY <1>4, <2>4 DEF NextSegment, At
    <3>2. /\ loader' \in Loaders /\ loader'.name = loader.name /\ loader'.at = "segment"
      BY <1>3, <3>1 DEF Loaders
    <3>3. LoaderInv'
      BY <1>3, <3>2, LoaderChanged
    <3> QED BY <1>2, <2>1, <3>3 DEF ProgramInv
  <2> QED BY <2>2, <2>3, <2>4
<1>5. CASE NextPage
  <2>1. ImageInv'
    BY <1>1, <1>3, <1>5, ClearedIs DEF NextPage, ImageInv
  <2>2. CASE loader.j < NumPages(Segment.filesz)
    <3>1. Goto("seek") /\ loader.i <= Len(Programs[loader.name].segments)
      BY <1>3, <1>5, <2>2 DEF NextPage, LoaderInv, At
    <3>2. LoaderInv'
      BY <1>3, <3>1, GoneTo DEF Reachable, Places
    <3> QED BY <1>2, <2>1, <3>2 DEF ProgramInv
  <2>3. CASE ~(loader.j < NumPages(Segment.filesz))
    <3>1. loader' = [loader EXCEPT !.at = "segment", !.i = @ + 1]
      BY <1>5, <2>3 DEF NextPage
    <3>2. /\ loader' \in Loaders /\ loader'.name = loader.name /\ loader'.at = "segment"
      <4>1. loader.i + 1 \in Nat \ {0} /\ "segment" \in Places
        BY <1>3 DEF Places
      <4> QED BY <1>3, <3>1, <4>1 DEF Loaders
    <3>3. LoaderInv'
      BY <1>3, <3>2, LoaderChanged
    <3> QED BY <1>2, <2>1, <3>3 DEF ProgramInv
  <2> QED BY <2>2, <2>3
<1>6. CASE NextSection
  <2>1. ImageInv'
    BY <1>1, <1>3, <1>6, ClearedIs DEF NextSection, ImageInv
  <2>2. CASE Goto("close")
    <3>1. LoaderInv'
      BY <1>3, <2>2, GoneTo DEF Reachable, Places, Unread
    <3> QED BY <1>2, <2>1, <3>1 DEF ProgramInv
  <2>3. CASE loader' = [loader EXCEPT !.i = @ + 1]
    <3>1. /\ loader' \in Loaders /\ loader'.name = loader.name /\ loader'.at = "section"
      BY <1>3, <1>6, <2>3 DEF Loaders, NextSection, At
    <3>2. LoaderInv'
      BY <1>3, <3>1, LoaderChanged
    <3> QED BY <1>2, <2>1, <3>2 DEF ProgramInv
  <2> QED BY <1>6, <2>2, <2>3 DEF NextSection
<1> QED BY <1>4, <1>5, <1>6

LEMMA PageStep ==
  ASSUME ProgramInv, SeekPage \/ ReadPage \/ Finish
  PROVE  ProgramInv'
<1>1. /\ LoaderInv /\ ImageInv /\ FilesInv /\ loader \in Loaders
      /\ opened' = opened
  BY DEF ProgramInv, LoaderInv, SeekPage, ReadPage, Finish
<1>2. CASE SeekPage
  <2>1. IsElf /\ loader.i <= Len(Programs[loader.name].segments) /\ loader.j \in Nat
    BY <1>1, <1>2 DEF SeekPage, LoaderInv, Loaders, At, Unread
  <2>2. Segment.offset + loader.j * PageSize \in Nat
    BY <1>1, <2>1, HeadersAre, Numbers
  <2>3. FilesInv'
    BY <1>1, <1>2, <2>2, FileSought DEF SeekPage
  <2>4. LoaderInv'
    BY <1>1, <1>2, <2>1, GoneTo DEF SeekPage, Reachable, Places
  <2>5. ImageInv'
    BY <1>1, <1>2 DEF SeekPage, ImageInv
  <2> QED BY <2>3, <2>4, <2>5 DEF ProgramInv
<1>3. CASE ReadPage
  <2>1. IsElf /\ loader.i <= Len(Programs[loader.name].segments)
        /\ loader.j \in Nat /\ loader.left \in Nat
    BY <1>1, <1>3 DEF ReadPage, LoaderInv, Loaders, At, Unread
  <2>2. Wanted \in Nat /\ Read(loader.fd, Wanted)
    BY <1>3, <2>1, Numbers DEF ReadPage, Wanted
  <2>3. /\ FilesInv' /\ file[loader.fd] \in Records /\ answer' \in Int
        /\ file[loader.fd].pos + answer' <= Len(file[loader.fd].buffer)
    BY <1>1, <2>2, FileRead
  <2>4. Copied(file[loader.fd], answer') \in Page
    BY <2>3, CopiedIs
  <2>5. ImageInv'
    BY <1>1, <1>3, <2>4 DEF ReadPage, ImageInv
  <2>6. loader' = [loader EXCEPT !.at = "page", !.j = @ + 1,
                     !.left = IF @ > PageSize THEN @ - PageSize ELSE @]
    BY <1>3 DEF ReadPage
  <2>7. /\ loader.j + 1 \in Nat
        /\ (IF loader.left > PageSize THEN loader.left - PageSize ELSE loader.left) \in Nat
    BY <2>1, Numbers
  <2>8. /\ loader' \in Loaders /\ loader'.name = loader.name /\ loader'.i = loader.i
    BY <1>1, <2>6, <2>7 DEF Loaders, Places
  <2>9. LoaderInv'
    BY <2>1, <2>8, LoaderChanged
  <2> QED BY <2>3, <2>5, <2>9 DEF ProgramInv
<1>4. CASE Finish
  <2>1. FilesInv'
    BY <1>1, <1>4, FileClosed DEF Finish
  <2>2. LoaderInv'
    BY <1>1, <1>4, GoneTo DEF Finish, Reachable, Places, Unread
  <2>3. ImageInv'
    BY <1>1, <1>4 DEF Finish, ImageInv
  <2> QED BY <2>1, <2>2, <2>3 DEF ProgramInv
<1> QED BY <1>2, <1>3, <1>4

LEMMA CallStep ==
  ASSUME ProgramInv, ProgramCalls
  PROVE  ProgramInv'
<1>1. FilesInv
  BY DEF ProgramInv
<1>2. FilesInv'
  <2>1. \A path \in Paths : OpenBegins(path) => FilesInv'
    BY <1>1, FileBegun
  <2>2. OpenTakes => FilesInv'
    BY <1>1, FileOpened
  <2>3. \A d \in Descriptors, n \in Lengths : Read(d, n) => FilesInv'
    BY <1>1, FileRead, Numbers
  <2>4. \A d \in Descriptors, pos \in Positions : Lseek(d, pos) => FilesInv'
    BY <1>1, FileSought, Numbers
  <2>5. \A d \in Descriptors : Close(d) => FilesInv'
    BY <1>1, FileClosed
  <2>6. OpenFull \/ OpensOverlap \/ OpenFindsNothing \/ BadDescriptor => FilesInv'
    BY <1>1, FilesAlone
  <2> QED BY <2>1, <2>2, <2>3, <2>4, <2>5, <2>6 DEF ProgramCalls, Call
<1>3. /\ opened' \subseteq held' /\ image' = image
      /\ Goto("lost") \/ loader' = loader
  BY DEF ProgramCalls, Call
<1>4. ImageInv'
  BY <1>2, <1>3 DEF ProgramInv, ImageInv, FilesInv
<1>5. LoaderInv'
  <2>1. CASE Goto("lost")
    BY <2>1, GoneTo DEF ProgramInv, Reachable, Places, Unread
  <2>2. CASE loader' = loader
    BY <2>2 DEF ProgramInv, LoaderInv, IsElf
  <2> QED BY <1>3, <2>1, <2>2
<1> QED BY <1>2, <1>4, <1>5 DEF ProgramInv

LEMMA ProgramInvHolds == LSpec => []ProgramInv
<1>1. LInit => ProgramInv
  <2> SUFFICES ASSUME LInit PROVE ProgramInv
    OBVIOUS
  <2>1. FilesInv
    <3>1. /\ held = {} /\ file = [d \in Descriptors |-> NoFile] /\ answer = 0
          /\ opening = NoOpening /\ overlapped = FALSE
      BY DEF LInit, Init
    <3>2. OpeningInv /\ overlapped \in BOOLEAN
      BY <3>1 DEF OpeningInv
    <3>3. file \in [Descriptors -> Records]
      BY <3>1, NoFileTyped
    <3>4. answer \in Int /\ held \subseteq Descriptors /\ \A d \in held : Reading(file[d])
      BY <3>1
    <3> QED BY <3>2, <3>3, <3>4 DEF FilesInv
  <2>2. NoFile.entry.name = ""
    BY DEF NoFile
  <2>3. "" \in Names
    BY <2>2 DEF Names
  <2>4. LoaderInv
    <3>1. /\ loader.at = "idle" /\ loader.fd = 0 /\ loader.name = ""
          /\ loader \in Loaders
      <4>1. loader = [at |-> "idle", fd |-> 0, name |-> "", i |-> 1, j |-> 0, left |-> 0]
        BY DEF LInit
      <4>2. "idle" \in Places /\ 1 \in Nat \ {0} /\ 0 \in {0} \cup Descriptors
        BY DEF Places
      <4> QED BY <2>3, <4>1, <4>2 DEF Loaders
    <3> QED BY <3>1 DEF LoaderInv, Unread
  <2>5. ImageInv
    BY DEF LInit, ImageInv, NoImage, Page
  <2> QED BY <2>1, <2>4, <2>5 DEF ProgramInv
<1>2. ProgramInv /\ [LNext]_<<vars, lvars>> => ProgramInv'
  <2> SUFFICES ASSUME ProgramInv, [LNext]_<<vars, lvars>> PROVE ProgramInv'
    OBVIOUS
  <2>1. CASE LoaderStep
    BY <2>1, OpenStep, HeaderStep, SegmentStep, PageStep DEF LoaderStep
  <2>2. CASE ProgramCalls
    BY <2>2, CallStep
  <2>3. CASE UNCHANGED <<vars, lvars>>
    BY <2>3 DEF vars, table, opens, lvars, ProgramInv, FilesInv, OpeningInv, LoaderInv,
         ImageInv, IsElf
  <2> QED BY <2>1, <2>2, <2>3 DEF LNext
<1> QED BY <1>1, <1>2, PTL DEF LSpec

-----------------------------------------------------------------------------
(***************************************************************************)
(* The descriptors, positions and pages have their types, for every disk   *)
(* and every executable: nothing but bytes of the disk and zeros goes to a *)
(* page, and none of them comes from behind the end of the file            *)
(* (fat32.c:145-238, syscall.c:89-170).                                    *)
(***************************************************************************)
THEOREM ProgramTypes == LSpec => []LTypeOK
<1>1. ProgramInv => LTypeOK
  BY DEF ProgramInv, FilesInv, OpeningInv, LoaderInv, Loaders, ImageInv, Page, Records,
       LTypeOK, TypeOK
<1> QED BY <1>1, ProgramInvHolds, PTL

(***************************************************************************)
(* As long as no two open() overlap, what a descriptor delivers between    *)
(* two lseek() is what stands in the file there, for every consistent disk *)
(* with one sector per cluster, any number of descriptors and any lengths  *)
(* and positions (fat32.c:108-138, 198-212).                               *)
(***************************************************************************)
THEOREM ReadsAreInOrder == LSpec => []ReadsInOrder
<1>1. ProgramInv => ReadsInOrder
  BY LoadsChain DEF ProgramInv, FilesInv, Reading, ReadsInOrder
<1> QED BY <1>1, ProgramInvHolds, PTL

-----------------------------------------------------------------------------
(***************************************************************************)
(* The image: what the loops over the segments and the sections have made  *)
(* of it                                                                   *)
(***************************************************************************)
Segs(f)  == Programs[f].segments
Sects(f) == Programs[f].sections

Target(f) == Described(f, Entry(f))

\* The segments before the i-th are loaded, and the first j pages of this one.
Filled(f, i, j, p) ==
  \E n \in DOMAIN Segs(f) :
    /\ Segs(f)[n].load /\ p \in PagesOf(Segs(f)[n])
    /\ n < i \/ (n = i /\ p < Segs(f)[n].page + j)

SegmentImage(f, i, j) ==
  [p \in PageNumbers |-> IF Filled(f, i, j, p) THEN Target(f)[p] ELSE <<>>]

\* The segments are loaded, and the sections before the n-th mapped.
OfSegment(f, p) == \E s \in Loads(f) : p \in PagesOf(s)

IsSpace(t) == t.nobits /\ t.alloc /\ t.size > 0

OfSection(f, n, p) ==
  \E m \in DOMAIN Sects(f) : m < n /\ IsSpace(Sects(f)[m]) /\ Sects(f)[m].page = p

SectionImage(f, n) ==
  [p \in PageNumbers |->
     IF OfSegment(f, p) THEN Target(f)[p]
     ELSE IF OfSection(f, n, p) THEN Cleared ELSE <<>>]

SegmentRecords == [load : BOOLEAN, page : PageNumbers, offset : Nat, filesz : Nat]
SectionRecords == [nobits : BOOLEAN, alloc : BOOLEAN, page : PageNumbers, size : Nat]

LEMMA TablesAre ==
  ASSUME NEW f \in DOMAIN Programs
  PROVE  /\ Segs(f) \in Seq(SegmentRecords) /\ Sects(f) \in Seq(SectionRecords)
         /\ Len(Segs(f)) \in Nat /\ DOMAIN Segs(f) = 1 .. Len(Segs(f))
         /\ Len(Sects(f)) \in Nat /\ DOMAIN Sects(f) = 1 .. Len(Sects(f))
         /\ \A n \in DOMAIN Segs(f) :
              Segs(f)[n] \in SegmentRecords /\ (Segs(f)[n].load => Segs(f)[n] \in Loads(f))
         /\ \A s \in Loads(f) : \E n \in DOMAIN Segs(f) : Segs(f)[n] = s /\ s.load
         /\ \A n \in DOMAIN Sects(f) :
              /\ Sects(f)[n] \in SectionRecords
              /\ IsSpace(Sects(f)[n]) => Sects(f)[n] \in Spaces(f)
         /\ \A t \in Spaces(f) : \E n \in DOMAIN Sects(f) : Sects(f)[n] = t /\ IsSpace(t)
<1>1. /\ Segs(f) \in Seq(SegmentRecords) /\ Sects(f) \in Seq(SectionRecords)
  BY ProgramAssumption DEF Segs, Sects, SegmentRecords, SectionRecords
<1>2. /\ Len(Segs(f)) \in Nat /\ DOMAIN Segs(f) = 1 .. Len(Segs(f))
      /\ Len(Sects(f)) \in Nat /\ DOMAIN Sects(f) = 1 .. Len(Sects(f))
      /\ \A n \in DOMAIN Segs(f) : Segs(f)[n] \in SegmentRecords
      /\ \A n \in DOMAIN Sects(f) : Sects(f)[n] \in SectionRecords
  BY <1>1, LenProperties, ElementOfSeq
<1>3. /\ \A n \in DOMAIN Segs(f) : Segs(f)[n].load => Segs(f)[n] \in Loads(f)
      /\ \A s \in Loads(f) : \E n \in DOMAIN Segs(f) : Segs(f)[n] = s /\ s.load
  BY DEF Loads, Segs, Range
<1>4. /\ \A n \in DOMAIN Sects(f) : IsSpace(Sects(f)[n]) => Sects(f)[n] \in Spaces(f)
      /\ \A t \in Spaces(f) : \E n \in DOMAIN Sects(f) : Sects(f)[n] = t /\ IsSpace(t)
  BY DEF Spaces, Sects, Range, IsSpace
<1> QED BY <1>1, <1>2, <1>3, <1>4

\* Which addresses of a page are in a segment, ...
LEMMA Inside ==
  ASSUME NEW p \in Nat, NEW b \in Nat, NEW z \in Nat, NEW k \in 0 .. PageSize - 1
  PROVE  /\ p * PageSize + k >= b * PageSize /\ p * PageSize + k < b * PageSize + z
              <=> p >= b /\ (p - b) * PageSize + k < z
         /\ p >= b => /\ (p * PageSize + k) - b * PageSize = (p - b) * PageSize + k
                      /\ (p - b) * PageSize \in Nat
<1>1. PageSize \in Nat /\ PageSize > 0 /\ k \in Nat /\ k < PageSize
  BY Numbers
<1>2. p * PageSize \in Nat /\ b * PageSize \in Nat
  BY <1>1
<1>3. ASSUME p >= b PROVE p * PageSize = b * PageSize + (p - b) * PageSize /\ (p - b) * PageSize \in Nat
  BY <1>1, <1>3
<1>4. ASSUME p < b PROVE p * PageSize + PageSize <= b * PageSize
  <2>1. (p + 1) * PageSize <= b * PageSize
    BY <1>1, <1>4
  <2>2. (p + 1) * PageSize = p * PageSize + PageSize
    BY <1>1
  <2> QED BY <2>1, <2>2
<1>5. p >= b \/ p < b
  OBVIOUS
<1> QED BY <1>1, <1>2, <1>3, <1>4, <1>5

\* ... and how many pages it has.
LEMMA PageCount ==
  ASSUME NEW j \in Nat, NEW n \in Nat
  PROVE  j < NumPages(n) <=> j * PageSize < n
<1> DEFINE q == (n + PageSize - 1) \div PageSize
           r == (n + PageSize - 1) % PageSize
<1>1. PageSize \in Nat /\ PageSize > 0 /\ n + PageSize - 1 \in Nat
  BY Numbers
<1>2. q \in Nat /\ r \in 0 .. PageSize - 1 /\ n + PageSize - 1 = PageSize * q + r
  BY <1>1, Division
<1>3. NumPages(n) = q
  BY DEF NumPages
<1> HIDE DEF q, r
<1>4. PageSize * q \in Nat /\ j * PageSize \in Nat
  BY <1>1, <1>2
<1>5. ASSUME j < q PROVE j * PageSize + PageSize <= PageSize * q
  <2>1. (j + 1) * PageSize <= q * PageSize
    BY <1>1, <1>2, <1>5
  <2>2. (j + 1) * PageSize = j * PageSize + PageSize /\ q * PageSize = PageSize * q
    BY <1>1, <1>2
  <2> QED BY <2>1, <2>2
<1>6. ASSUME j >= q PROVE j * PageSize >= PageSize * q
  BY <1>1, <1>2, <1>6
<1>7. j < q \/ j >= q
  BY <1>2
<1> QED BY <1>1, <1>2, <1>3, <1>4, <1>5, <1>6, <1>7

\* The page behind the first j of a segment.
LEMMA PageAt ==
  ASSUME NEW s \in SegmentRecords, NEW j \in Nat, NEW p \in PageNumbers
  PROVE  /\ j * PageSize < s.filesz => (p = s.page + j => p \in PagesOf(s))
         /\ j * PageSize >= s.filesz => (p \in PagesOf(s) => p < s.page + j)
<1>1. /\ PageSize \in Nat /\ PageSize > 0 /\ p \in Nat /\ s.page \in Nat /\ s.filesz \in Nat
  BY Numbers, ProgramAssumption DEF SegmentRecords
<1>2. ASSUME j * PageSize < s.filesz, p = s.page + j PROVE p \in PagesOf(s)
  BY <1>1, <1>2 DEF PagesOf
<1>3. ASSUME j * PageSize >= s.filesz, p \in PagesOf(s) PROVE p < s.page + j
  <2> DEFINE d == p - s.page
  <2>1. d \in Nat /\ d * PageSize < s.filesz
    BY <1>1, <1>3 DEF PagesOf
  <2> HIDE DEF d
  <2>2. d >= j => d * PageSize >= j * PageSize
    BY <1>1, <2>1
  <2>3. d * PageSize \in Nat /\ j * PageSize \in Nat
    BY <1>1, <2>1
  <2>4. d < j
    BY <1>1, <1>3, <2>1, <2>2, <2>3
  <2> QED BY <1>1, <2>4 DEF d
<1> QED BY <1>1, <1>2, <1>3

(***************************************************************************)
(* What the image that the headers describe has in each page               *)
(***************************************************************************)
LEMMA OnPage ==
  ASSUME NEW s \in SegmentRecords, NEW p \in PageNumbers, NEW k \in 0 .. PageSize - 1
  PROVE  /\ Within(s, p * PageSize + k) <=>
              p \in PagesOf(s) /\ (p - s.page) * PageSize + k < s.filesz
         /\ p \in PagesOf(s) =>
              /\ (p * PageSize + k) - s.page * PageSize = (p - s.page) * PageSize + k
              /\ (p - s.page) * PageSize \in Nat
<1>1. /\ PageSize \in Nat /\ PageSize > 0 /\ p \in Nat /\ s.page \in Nat /\ s.filesz \in Nat
      /\ k \in Nat
  <2>1. p \in Nat /\ s.page \in Nat /\ s.filesz \in Nat
    BY ProgramAssumption DEF SegmentRecords
  <2> QED BY <2>1, Numbers
<1>2. PICK b \in Nat, z \in Nat : b = s.page /\ z = s.filesz
  BY <1>1
<1>3. /\ p * PageSize + k >= b * PageSize /\ p * PageSize + k < b * PageSize + z
           <=> p >= b /\ (p - b) * PageSize + k < z
      /\ p >= b => /\ (p * PageSize + k) - b * PageSize = (p - b) * PageSize + k
                   /\ (p - b) * PageSize \in Nat
  BY <1>1, Inside
<1>4. p >= b /\ (p - b) * PageSize + k < z => (p - b) * PageSize < z
  <2>1. p >= b => (p - b) * PageSize \in Nat
    BY <1>3
  <2> QED BY <1>1, <2>1
<1>5. p \in PagesOf(s) <=> p >= b /\ (p - b) * PageSize < z
  BY <1>2 DEF PagesOf
<1>6. Within(s, p * PageSize + k) <=>
        p * PageSize + k >= b * PageSize /\ p * PageSize + k < b * PageSize + z
  BY <1>2 DEF Within
<1> QED BY <1>2, <1>3, <1>4, <1>5, <1>6

LEMMA MappedIs ==
  ASSUME NEW f \in DOMAIN Programs, NEW p \in PageNumbers
  PROVE  Mapped(f, p) <=> OfSegment(f, p) \/ \E t \in Spaces(f) : t.page = p
<1>1. \A s \in Loads(f) : s \in SegmentRecords
  BY TablesAre
<1>2. ASSUME NEW s \in Loads(f)
      PROVE  p \in PagesOf(s) <=> \E k \in 0 .. PageSize - 1 : Within(s, p * PageSize + k)
  <2>1. s \in SegmentRecords /\ 0 \in 0 .. PageSize - 1
    BY <1>1, Numbers
  <2>2. \A k \in 0 .. PageSize - 1 : Within(s, p * PageSize + k) => p \in PagesOf(s)
    BY <2>1, OnPage
  <2>3. ASSUME p \in PagesOf(s) PROVE Within(s, p * PageSize + 0)
    <3>1. (p - s.page) * PageSize + 0 < s.filesz
      <4>1. (p - s.page) * PageSize \in Nat /\ (p - s.page) * PageSize < s.filesz
        BY <2>1, <2>3, OnPage DEF PagesOf
      <4> QED BY <4>1
    <3> QED BY <2>1, <2>3, <3>1, OnPage
  <2> QED BY <2>1, <2>2, <2>3
<1> QED BY <1>2 DEF Mapped, OfSegment

\* A byte of the file, or zero behind the segment's bytes in it.
SegmentByte(f, s, p, k) ==
  IF (p - s.page) * PageSize + (k - 1) < s.filesz
  THEN Contents(Entry(f))[s.offset + ((p - s.page) * PageSize + (k - 1)) + 1]
  ELSE Zero

LEMMA PageOfSegment ==
  ASSUME NEW f \in DOMAIN Programs, Loadable(f), NEW p \in PageNumbers,
         NEW s \in Loads(f), p \in PagesOf(s)
  PROVE  Target(f)[p] = [k \in 1 .. PageSize |-> SegmentByte(f, s, p, k)]
<1>1. Mapped(f, p)
  BY MappedIs DEF OfSegment
<1>2. \A r \in Loads(f) : r \in SegmentRecords
  BY TablesAre
<1>3. \A r \in Loads(f) : p \in PagesOf(r) => r = s
  <2> TAKE r \in Loads(f)
  <2> HAVE p \in PagesOf(r)
  <2>1. PICK m \in DOMAIN Segs(f), n \in DOMAIN Segs(f) :
          Segs(f)[m] = r /\ r.load /\ Segs(f)[n] = s /\ s.load
    BY TablesAre
  <2>2. p \in PagesOf(Segs(f)[m]) \cap PagesOf(Segs(f)[n])
    BY <2>1
  <2> QED BY <2>1, <2>2 DEF Loadable, Segs
<1>4. ASSUME NEW k \in 1 .. PageSize
      PROVE  LET a == p * PageSize + k - 1
                 in == {r \in Loads(f) : Within(r, a)}
             IN  (IF in = {} THEN Zero
                  ELSE LET r == CHOOSE r \in in : TRUE
                       IN  Contents(Entry(f))[r.offset + (a - r.page * PageSize) + 1])
                   = SegmentByte(f, s, p, k)
  <2> DEFINE a == p * PageSize + k - 1
             in == {r \in Loads(f) : Within(r, a)}
  <2>1. k - 1 \in 0 .. PageSize - 1 /\ a = p * PageSize + (k - 1)
    BY Numbers, ProgramAssumption
  <2>2. \A r \in Loads(f) : Within(r, a) <=> p \in PagesOf(r) /\ (p - r.page) * PageSize + (k - 1) < r.filesz
    BY <1>2, <2>1, OnPage
  <2>3. a - s.page * PageSize = (p - s.page) * PageSize + (k - 1)
    BY <1>2, <2>1, OnPage
  <2> HIDE DEF a
  <2>4. in = IF (p - s.page) * PageSize + (k - 1) < s.filesz THEN {s} ELSE {}
    BY <1>3, <2>2
  <2>5. (CHOOSE r \in {s} : TRUE) = s
    OBVIOUS
  <2> HIDE DEF in
  <2>6. (IF in = {} THEN Zero
         ELSE LET r == CHOOSE r \in in : TRUE
              IN  Contents(Entry(f))[r.offset + (a - r.page * PageSize) + 1])
          = SegmentByte(f, s, p, k)
    <3>1. CASE (p - s.page) * PageSize + (k - 1) < s.filesz
      <4>1. in = {s} /\ in # {}
        BY <2>4, <3>1
      <4> QED BY <2>3, <2>5, <3>1, <4>1 DEF SegmentByte
    <3>2. CASE ~((p - s.page) * PageSize + (k - 1) < s.filesz)
      BY <2>4, <3>2 DEF SegmentByte
    <3> QED BY <3>1, <3>2
  <2> QED BY <2>6 DEF a, in
<1> QED BY <1>1, <1>4 DEF Target, Described

LEMMA PageOfSection ==
  ASSUME NEW f \in DOMAIN Programs, NEW p \in PageNumbers, ~OfSegment(f, p)
  PROVE  Target(f)[p] = IF \E t \in Spaces(f) : t.page = p THEN Cleared ELSE <<>>
<1>1. \A r \in Loads(f) : r \in SegmentRecords
  BY TablesAre
<1>2. ASSUME NEW k \in 1 .. PageSize
      PROVE  {r \in Loads(f) : Within(r, p * PageSize + k - 1)} = {}
  <2>1. k - 1 \in 0 .. PageSize - 1 /\ p * PageSize + k - 1 = p * PageSize + (k - 1)
    BY Numbers, ProgramAssumption
  <2> QED BY <1>1, <2>1, OnPage DEF OfSegment
<1>3. Mapped(f, p) <=> \E t \in Spaces(f) : t.page = p
  BY MappedIs
<1>4. CASE Mapped(f, p)
  BY <1>2, <1>3, <1>4 DEF Target, Described, Cleared
<1>5. CASE ~Mapped(f, p)
  BY <1>3, <1>5 DEF Target, Described
<1> QED BY <1>4, <1>5
-----------------------------------------------------------------------------
(***************************************************************************)
(* How the loops change the image                                          *)
(***************************************************************************)
LEMMA NothingFilled ==
  ASSUME NEW f \in DOMAIN Programs
  PROVE  SegmentImage(f, 1, 0) = NoImage
<1>1. \A p \in PageNumbers : ~Filled(f, 1, 0, p)
  <2> SUFFICES ASSUME NEW p \in PageNumbers, Filled(f, 1, 0, p) PROVE FALSE
    OBVIOUS
  <2>1. PICK n \in DOMAIN Segs(f) :
          /\ p \in PagesOf(Segs(f)[n])
          /\ n < 1 \/ (n = 1 /\ p < Segs(f)[n].page + 0)
    BY DEF Filled
  <2>2. n \in Nat /\ n >= 1 /\ Segs(f)[n].page \in Nat /\ p \in Nat /\ p >= Segs(f)[n].page
    BY <2>1, TablesAre, ProgramAssumption DEF SegmentRecords, PagesOf
  <2> QED BY <2>1, <2>2
<1> QED BY <1>1 DEF SegmentImage, NoImage

\* From one segment to the next, when its pages are filled or it is not loaded.
LEMMA SegmentFilled ==
  ASSUME NEW f \in DOMAIN Programs, NEW i \in DOMAIN Segs(f), NEW j \in Nat,
         Segs(f)[i].load => j * PageSize >= Segs(f)[i].filesz
  PROVE  SegmentImage(f, i + 1, 0) = SegmentImage(f, i, j)
<1>1. i \in Nat /\ DOMAIN Segs(f) \subseteq Nat
  BY TablesAre
<1>2. \A n \in DOMAIN Segs(f) : Segs(f)[n] \in SegmentRecords
  BY TablesAre
<1>3. ASSUME NEW p \in PageNumbers
      PROVE  Filled(f, i + 1, 0, p) <=> Filled(f, i, j, p)
  <2>1. p \in Nat
    BY ProgramAssumption
  <2>2. ASSUME NEW n \in DOMAIN Segs(f), Segs(f)[n].load, p \in PagesOf(Segs(f)[n])
        PROVE  n < i + 1 \/ (n = i + 1 /\ p < Segs(f)[n].page + 0) <=>
               n < i \/ (n = i /\ p < Segs(f)[n].page + j)
    <3>1. p >= Segs(f)[n].page /\ Segs(f)[n].page \in Nat /\ n \in Nat
      BY <1>1, <1>2, <2>2, ProgramAssumption DEF PagesOf, SegmentRecords
    <3>2. n = i => p < Segs(f)[n].page + j
      BY <1>2, <2>2, PageAt
    <3> QED BY <1>1, <2>1, <3>1, <3>2
  <2> QED BY <2>2 DEF Filled
<1> QED BY <1>3 DEF SegmentImage

\* The next page of a segment.
LEMMA PageFilled ==
  ASSUME NEW f \in DOMAIN Programs, NEW i \in DOMAIN Segs(f), NEW j \in Nat,
         Segs(f)[i].load, j * PageSize < Segs(f)[i].filesz,
         NEW p \in PageNumbers
  PROVE  SegmentImage(f, i, j + 1)[p] =
           IF p = Segs(f)[i].page + j THEN Target(f)[p] ELSE SegmentImage(f, i, j)[p]
<1>1. /\ p \in Nat /\ i \in Nat /\ Segs(f)[i] \in SegmentRecords /\ Segs(f)[i].page \in Nat
  <2>1. Segs(f)[i] \in SegmentRecords /\ i \in Nat
    BY TablesAre
  <2> QED BY <2>1, ProgramAssumption DEF SegmentRecords
<1>2. p = Segs(f)[i].page + j => Filled(f, i, j + 1, p)
  <2>1. p = Segs(f)[i].page + j => p \in PagesOf(Segs(f)[i]) /\ p < Segs(f)[i].page + (j + 1)
    BY <1>1, PageAt
  <2> QED BY <2>1 DEF Filled
<1>3. p # Segs(f)[i].page + j => (Filled(f, i, j + 1, p) <=> Filled(f, i, j, p))
  <2>1. p # Segs(f)[i].page + j =>
          (p < Segs(f)[i].page + (j + 1) <=> p < Segs(f)[i].page + j)
    BY <1>1
  <2> QED BY <2>1 DEF Filled
<1> QED BY <1>2, <1>3 DEF SegmentImage

\* Behind the last segment the sections begin.
LEMMA SegmentsFilled ==
  ASSUME NEW f \in DOMAIN Programs, NEW i \in Nat, i > Len(Segs(f))
  PROVE  SegmentImage(f, i, 0) = SectionImage(f, 1)
<1>1. /\ \A n \in DOMAIN Segs(f) : n \in Nat /\ n < i
      /\ \A m \in DOMAIN Sects(f) : ~(m < 1)
  BY TablesAre
<1>2. \A p \in PageNumbers : Filled(f, i, 0, p) <=> OfSegment(f, p)
  BY <1>1, TablesAre DEF Filled, OfSegment
<1>3. \A p \in PageNumbers : ~OfSection(f, 1, p)
  BY <1>1 DEF OfSection
<1> QED BY <1>2, <1>3 DEF SegmentImage, SectionImage

\* The next section.
LEMMA SectionMapped ==
  ASSUME NEW f \in DOMAIN Programs, Loadable(f), NEW n \in DOMAIN Sects(f),
         NEW p \in PageNumbers
  PROVE  SectionImage(f, n + 1)[p] =
           IF IsSpace(Sects(f)[n]) /\ Sects(f)[n].page = p THEN Cleared
           ELSE SectionImage(f, n)[p]
<1>1. n \in Nat /\ DOMAIN Sects(f) \subseteq Nat
  BY TablesAre
<1>2. IsSpace(Sects(f)[n]) /\ Sects(f)[n].page = p => ~OfSegment(f, p)
  BY TablesAre DEF Loadable, OfSegment
<1>3. OfSection(f, n + 1, p) <=>
        OfSection(f, n, p) \/ (IsSpace(Sects(f)[n]) /\ Sects(f)[n].page = p)
  <2>1. \A m \in DOMAIN Sects(f) : m < n + 1 <=> m < n \/ m = n
    BY <1>1
  <2> QED BY <2>1 DEF OfSection
<1> QED BY <1>2, <1>3 DEF SectionImage

\* Behind the last one the image is what the headers describe.
LEMMA SectionsMapped ==
  ASSUME NEW f \in DOMAIN Programs, NEW n \in Nat, n > Len(Sects(f))
  PROVE  SectionImage(f, n) = Target(f)
<1>1. \A m \in DOMAIN Sects(f) : m < n
  BY TablesAre
<1>2. ASSUME NEW p \in PageNumbers PROVE SectionImage(f, n)[p] = Target(f)[p]
  <2>1. OfSection(f, n, p) <=> \E t \in Spaces(f) : t.page = p
    BY <1>1, TablesAre DEF OfSection
  <2> QED BY <2>1, PageOfSection DEF SectionImage
<1> QED BY <1>2 DEF SectionImage, Target, Described

(***************************************************************************)
(* read() of the next page's bytes, from where lseek() went, delivers what *)
(* the headers describe.                                                   *)
(***************************************************************************)
PageBytes(left) == IF left > PageSize THEN PageSize ELSE left

LEMMA PageCopied ==
  ASSUME Readable,
         NEW f \in DOMAIN Programs, Loadable(f), NEW s \in Loads(f), NEW j \in Nat,
         j * PageSize < s.filesz, s.page + j \in PageNumbers,
         NEW g \in Records, Reading(g), g.entry = Entry(f),
         g.pos = s.offset + j * PageSize,
         NEW n \in Int, n = Delivered(g.buffer, g.pos, PageBytes(s.filesz - j * PageSize))
  PROVE  Copied(g, n) = Target(f)[s.page + j]
<1> DEFINE P == PageSize
           b == g.buffer
           m == j * P
           o == s.offset
           z == s.filesz
<1>1. P \in Nat /\ P > 0 /\ s \in SegmentRecords /\ s.page \in Nat /\ o \in Nat /\ z \in Nat
  <2>1. s \in SegmentRecords
    BY TablesAre
  <2> QED BY <2>1, Numbers, ProgramAssumption DEF SegmentRecords
<1>2. m \in Nat /\ m < z
  BY <1>1
<1>3. b = Contents(Entry(f)) /\ b \in Seq(Byte) /\ o + z <= Len(b)
  <2>1. b = Contents(Entry(f)) /\ b \in Seq(Byte) /\ Entry(f) \in Files
    BY LoadsChain DEF Reading, Records
  <2>2. Len(b) = Entry(f).size
    BY <2>1, LoadedTyped, LoadsChain
  <2> QED BY <2>1, <2>2 DEF Loadable
<1>4. n = IF z - m > P THEN P ELSE z - m
  <2> HIDE DEF m
  <2>1. g.pos = o + m
    BY DEF m
  <2>2. n = Delivered(b, o + m, IF z - m > P THEN P ELSE z - m)
    BY <2>1 DEF PageBytes, m
  <2>3. Len(b) \in Nat
    BY <1>3
  <2> HIDE DEF b, o, z
  <2> QED BY <1>1, <1>2, <1>3, <2>2, <2>3 DEF Delivered
<1> DEFINE bytes == SubSeq(b, o + m + 1, o + m + n)
<1>5. Copied(g, n) = [k \in 1 .. P |-> IF k <= Len(bytes) THEN bytes[k] ELSE Zero]
  BY DEF Copied
<1>6. Target(f)[s.page + j] = [k \in 1 .. P |-> SegmentByte(f, s, s.page + j, k)]
  BY <1>1, PageAt, PageOfSegment
<1>7. (s.page + j) - s.page = j
  BY <1>1
<1>8. \A k \in 1 .. P :
        SegmentByte(f, s, s.page + j, k) =
          IF m + (k - 1) < z THEN b[o + (m + (k - 1)) + 1] ELSE Zero
  BY <1>3, <1>7 DEF SegmentByte
<1> HIDE DEF b, m, o, z, P
<1>9. n \in Nat /\ o + m \in Nat /\ o + m + n <= Len(b) /\ Len(b) \in Nat
  BY <1>1, <1>2, <1>3, <1>4
<1>10. Len(bytes) = n /\ \A k \in 1 .. n : bytes[k] = b[o + m + k]
  <2> DEFINE q == o + m
  <2>1. \A i \in q + 1 .. q + n : b[i] \in Byte
    BY <1>3, <1>9
  <2> HIDE DEF q
  <2>2. q \in Nat /\ q + n <= Len(b)
    BY <1>9 DEF q
  <2>3. Len(SubSeq(b, q + 1, q + n)) = n
        /\ \A k \in 1 .. n : SubSeq(b, q + 1, q + n)[k] = b[q + k]
    BY <1>3, <1>9, <2>2
  <2> QED BY <2>3 DEF q
<1> HIDE DEF bytes
<1>11. \A k \in 1 .. P :
         (IF k <= Len(bytes) THEN bytes[k] ELSE Zero) = SegmentByte(f, s, s.page + j, k)
  <2> TAKE k \in 1 .. P
  <2>1. k <= n <=> m + (k - 1) < z
    BY <1>1, <1>2, <1>4
  <2>2. o + (m + (k - 1)) + 1 = o + m + k
    BY <1>1, <1>2
  <2>3. k <= n => bytes[k] = b[o + (m + (k - 1)) + 1]
    BY <1>1, <1>10, <2>2
  <2> QED BY <1>8, <1>10, <2>1, <2>3
<1> QED BY <1>5, <1>6, <1>11 DEF P
-----------------------------------------------------------------------------
(***************************************************************************)
(* The invariant of the loader: what it made of the image, and that its    *)
(* file is open and stands where it went, whatever programs do with theirs *)
(***************************************************************************)
Built(l, im) ==
  LET f == l.name
  IN  /\ l.at \in {"header", "seek segments", "read segments"} => im = NoImage
      /\ l.at = "segment" => im = SegmentImage(f, l.i, 0)
      /\ l.at = "page" => im = SegmentImage(f, l.i, l.j)
      /\ l.at \in {"seek", "read"} =>
           \A p \in PageNumbers :
             p # Segs(f)[l.i].page + l.j => im[p] = SegmentImage(f, l.i, l.j)[p]
      /\ l.at \in {"seek sections", "read sections"} => im = SectionImage(f, 1)
      /\ l.at = "section" => im = SectionImage(f, l.i)
      /\ l.at \in {"close", "idle", "opening"} => im = Target(f)

ImageSoFar ==
  /\ ~At("lost") /\ ~IsElf => image = NoImage
  /\ ~At("lost") /\ IsElf /\ Readable /\ Loadable(loader.name) => Built(loader, image)

OwnFile ==
  /\ loader.at \in {"idle", "opening"} => held = opened
  /\ loader.at \notin {"idle", "opening", "lost"} =>
       /\ loader.fd \in held /\ loader.fd \notin opened /\ held = opened \cup {loader.fd}
       /\ file[loader.fd].entry.name = loader.name

OwnPage ==
  LET s == Segs(loader.name)[loader.i]
      m == loader.j * PageSize
  IN  loader.at \in {"page", "seek", "read"} =>
        /\ s.load
        /\ m < s.filesz => loader.left = s.filesz - m
        /\ loader.at \in {"seek", "read"} => m < s.filesz
        /\ At("read") => file[loader.fd].pos = s.offset + m

FaithInv == ProgramInv /\ OwnFile /\ OwnPage /\ ImageSoFar

\* The segment at hand.
LEMMA SegmentAtHand ==
  ASSUME LoaderInv, loader.at \in {"page", "seek", "read"}
         \/ (At("segment") /\ loader.i <= Len(Segs(loader.name)))
  PROVE  /\ loader.name \in DOMAIN Programs /\ loader.i \in DOMAIN Segs(loader.name)
         /\ loader.i \in Nat /\ loader.j \in Nat
         /\ Segment = Segs(loader.name)[loader.i] /\ Segment \in SegmentRecords
         /\ Segment.page \in Nat /\ Segment.filesz \in Nat /\ Segment.offset \in Nat
<1>1. IsElf /\ loader.i \in Nat \ {0} /\ loader.j \in Nat /\ loader.i <= Len(Segs(loader.name))
  BY DEF LoaderInv, Unread, Loaders, At, Segs
<1>2. loader.name \in DOMAIN Programs
  BY <1>1 DEF IsElf
<1>3. loader.i \in DOMAIN Segs(loader.name)
  BY <1>1, <1>2, TablesAre
<1>4. Segment = Segs(loader.name)[loader.i] /\ Segment \in SegmentRecords
  BY <1>2, <1>3, TablesAre DEF Segment, Segs
<1>5. Segment.page \in Nat /\ Segment.filesz \in Nat /\ Segment.offset \in Nat
  BY <1>4, ProgramAssumption DEF SegmentRecords
<1> QED BY <1>1, <1>2, <1>3, <1>4, <1>5

\* read() and lseek() leave the table of descriptors and the other files alone.
LEMMA SameFiles ==
  ASSUME FilesInv, NEW d, NEW n \in Nat, Read(d, n) \/ Lseek(d, n)
  PROVE  /\ held' = held /\ d \in held
         /\ \A c \in held : file'[c].entry = file[c].entry
         /\ Lseek(d, n) => file'[d].pos = n
<1>1. held' = held /\ d \in held /\ d \in Descriptors /\ file[d] \in Records
      /\ DOMAIN file = Descriptors /\ held \subseteq Descriptors
  BY DEF FilesInv, Read, Lseek
<1>2. Lseek(d, n) => file'[d].pos = n
  BY <1>1 DEF Lseek, Records
<1>3. CASE Read(d, n)
  <2> DEFINE f == file[d]
             g == [f EXCEPT !.pos = PosAfter(f, n),
                            !.got = @ \o SubSeq(f.buffer, f.pos + 1, f.pos + answer')]
  <2>1. file' = [file EXCEPT ![d] = g]
    BY <1>1, <1>3 DEF Read, Records
  <2>2. g.entry = f.entry
    BY <1>1 DEF Records
  <2> HIDE DEF g
  <2>3. \A c \in held : file'[c].entry = file[c].entry
    BY <1>1, <2>1, <2>2
  <2> QED BY <1>1, <1>2, <1>3, <2>3
<1>4. CASE Lseek(d, n)
  BY <1>1, <1>4 DEF Lseek, Records
<1> QED BY <1>1, <1>2, <1>3, <1>4

\* The file that the loader has open is the one that is executed.
LEMMA OwnEntry ==
  ASSUME FilesInv, OwnFile, loader.at \notin {"idle", "opening", "lost"}, IsElf
  PROVE  /\ file[loader.fd] \in Records /\ Reading(file[loader.fd])
         /\ file[loader.fd].entry = Entry(loader.name)
<1>1. file[loader.fd] \in Records /\ Reading(file[loader.fd])
  BY DEF FilesInv, OwnFile
<1>2. PICK e \in Files : e = file[loader.fd].entry /\ e.name = loader.name
  BY <1>1 DEF Reading, OwnFile
<1>3. PICK d \in Files : d = Entry(loader.name) /\ d.name = loader.name
  BY <1>2 DEF Entry, Files
<1>4. d = e
  BY <1>2, <1>3, ProgramAssumption DEF Files, IsElf
<1> QED BY <1>1, <1>2, <1>3, <1>4

\* What a step of the loader keeps of OwnFile, and of ImageSoFar.
Moves ==
  /\ loader' \in Loaders /\ loader.at \notin {"idle", "opening", "lost"}
  /\ loader'.name = loader.name /\ loader'.fd = loader.fd
  /\ opened' = opened

LEMMA OwnFileKept ==
  ASSUME OwnFile, Moves, loader'.at \notin {"idle", "opening", "lost"}, held' = held,
         \A c \in held : file'[c].entry = file[c].entry
  PROVE  OwnFile'
BY DEF OwnFile, Moves, At

LEMMA ImageMoved ==
  ASSUME ImageSoFar, Moves, ~IsElf => image' = image,
         IsElf /\ Readable /\ Loadable(loader.name) /\ Built(loader, image) =>
           Built(loader', image')
  PROVE  ImageSoFar'
BY DEF ImageSoFar, Moves, At, IsElf

\* A step that goes elsewhere than into a segment.
LEMMA PageLeft ==
  ASSUME loader'.at \notin {"page", "seek", "read"}
  PROVE  OwnPage'
BY DEF OwnPage

LEMMA OpenFaith ==
  ASSUME FaithInv,
         (\E path \in Paths : ExecveOpens(path)) \/ ExecveFinds \/ ExecveFindsNothing
  PROVE  OwnFile' /\ OwnPage' /\ ImageSoFar'
<1>1. FilesInv /\ loader \in Loaders /\ OwnFile /\ OwnPage /\ ImageSoFar
  BY DEF FaithInv, ProgramInv, LoaderInv
<1>2. CASE ExecveFinds
  <2>1. /\ At("opening") /\ OpenTakes /\ image' = NoImage /\ opened' = opened
        /\ loader' = [at |-> "header", fd |-> answer', name |-> file'[answer'].entry.name,
                      i |-> 1, j |-> 0, left |-> 0]
    BY <1>2 DEF ExecveFinds
  <2>2. /\ loader'.at = "header" /\ loader'.fd = answer'
        /\ loader'.name = file'[answer'].entry.name
    BY <2>1
  <2>3. held = opened /\ answer' \notin held /\ held' = held \cup {answer'}
    BY <1>1, <2>1, FileOpened DEF OwnFile, At
  <2>4. OwnFile'
    BY <2>1, <2>2, <2>3 DEF OwnFile, At
  <2>5. OwnPage'
    BY <2>2, PageLeft
  <2>6. ImageSoFar'
    BY <2>1, <2>2 DEF ImageSoFar, Built, At
  <2> QED BY <2>4, <2>5, <2>6
<1>3. CASE (\E path \in Paths : ExecveOpens(path)) \/ ExecveFindsNothing
  <2>1. /\ UNCHANGED <<held, file, image, opened>>
        /\ loader.at \in {"idle", "opening"} /\ \E l \in {"idle", "opening"} : Goto(l)
    <3>1. ASSUME NEW path \in Paths, ExecveOpens(path)
          PROVE  /\ UNCHANGED <<held, file, image, opened>>
                 /\ At("idle") /\ Goto("opening")
      BY <1>1, <3>1, FileBegun DEF ExecveOpens
    <3>2. CASE At("opening") /\ OpenFindsNothing /\ Goto("idle") /\ UNCHANGED <<image, opened>>
      BY <1>1, <3>2, FilesAlone DEF At
    <3>3. CASE At("idle") /\ OpenFull /\ UNCHANGED lvars
      <4>1. UNCHANGED <<held, file, image, opened>> /\ loader' = loader
        BY <1>1, <3>3, FilesAlone DEF lvars
      <4>2. Goto("idle")
        BY <1>1, <3>3, <4>1 DEF Goto, At, Loaders
      <4> QED BY <3>3, <4>1, <4>2 DEF At
    <3> QED BY <1>3, <3>1, <3>2, <3>3 DEF ExecveFindsNothing, At
  <2>2. loader'.at \in {"idle", "opening"} /\ loader'.name = loader.name
    BY <1>1, <2>1 DEF Goto, Loaders
  <2>3. OwnFile' /\ OwnPage'
    BY <1>1, <2>1, <2>2 DEF OwnFile, OwnPage, At
  <2>4. ImageSoFar'
    BY <1>1, <2>1, <2>2 DEF ImageSoFar, Built, At, IsElf
  <2> QED BY <2>3, <2>4
<1> QED BY <1>2, <1>3

LEMMA HeaderFaith ==
  ASSUME FaithInv, ReadHeader \/ SeekTable \/ ReadTable
  PROVE  OwnFile' /\ OwnPage' /\ ImageSoFar'
<1>1. FilesInv /\ LoaderInv /\ loader \in Loaders /\ OwnFile /\ ImageSoFar
  BY DEF FaithInv, ProgramInv, LoaderInv
<1>2. \/ At("header") /\ loader' = [loader EXCEPT !.at = "seek segments"] /\ IsElf
      \/ At("header") /\ loader' = [loader EXCEPT !.at = "close"] /\ ~IsElf
      \/ At("seek segments") /\ loader' = [loader EXCEPT !.at = "read segments"]
      \/ At("read segments") /\ loader' = [loader EXCEPT !.at = "segment", !.i = 1]
      \/ At("seek sections") /\ loader' = [loader EXCEPT !.at = "read sections"]
      \/ At("read sections") /\ loader' = [loader EXCEPT !.at = "section", !.i = 1]
  BY DEF ReadHeader, SeekTable, ReadTable, Goto
<1>3. /\ Moves /\ image' = image
      /\ loader'.at \notin {"idle", "opening", "lost", "page", "seek", "read"}
  <2>1. /\ {"seek segments", "read segments", "close", "segment", "read sections", "section"}
            \subseteq Places
        /\ 1 \in Nat \ {0}
    BY DEF Places
  <2>2. image' = image /\ opened' = opened
    BY DEF ReadHeader, SeekTable, ReadTable
  <2> QED BY <1>1, <1>2, <2>1, <2>2 DEF Moves, Loaders, At
<1>4. held' = held /\ \A c \in held : file'[c].entry = file[c].entry
  <2>1. CASE ReadHeader \/ ReadTable
    BY <1>1, <2>1, SameFiles, Numbers DEF ReadHeader, ReadTable
  <2>2. CASE SeekTable
    <3>1. IsElf
      BY <1>1, <2>2 DEF SeekTable, LoaderInv, At, Unread
    <3>2. Programs[loader.name].phoff \in Nat /\ Programs[loader.name].shoff \in Nat
      BY <1>1, <3>1, HeadersAre
    <3> QED BY <1>1, <2>2, <3>2, SameFiles DEF SeekTable
  <2> QED BY <2>1, <2>2
<1>5. OwnFile'
  BY <1>1, <1>3, <1>4, OwnFileKept
<1>6. ASSUME IsElf, Built(loader, image) PROVE Built(loader', image')
  <2>1. loader.name \in DOMAIN Programs
    BY <1>6 DEF IsElf
  <2>2. SegmentImage(loader.name, 1, 0) = NoImage
    BY <2>1, NothingFilled
  <2>3. \/ loader.at \in {"header", "seek segments"} /\ loader'.at \in {"seek segments", "read segments"}
        \/ At("read segments") /\ loader'.at = "segment" /\ loader'.i = 1
        \/ At("seek sections") /\ loader'.at = "read sections"
        \/ At("read sections") /\ loader'.at = "section" /\ loader'.i = 1
    BY <1>1, <1>2, <1>6 DEF Loaders, At
  <2> QED BY <1>3, <1>6, <2>2, <2>3 DEF Built, Moves, At
<1>7. ImageSoFar'
  BY <1>1, <1>3, <1>6, ImageMoved
<1> QED BY <1>3, <1>5, <1>7, PageLeft

LEMMA NextSegmentFaith ==
  ASSUME FaithInv, NextSegment
  PROVE  OwnFile' /\ OwnPage' /\ ImageSoFar'
<1> DEFINE f == loader.name
           i == loader.i
<1>1. /\ LoaderInv /\ loader \in Loaders /\ OwnFile /\ ImageSoFar
      /\ At("segment") /\ IsElf /\ f \in DOMAIN Programs /\ i \in Nat
  BY DEF FaithInv, ProgramInv, LoaderInv, NextSegment, At, Unread, Loaders, IsElf
<1>2. UNCHANGED <<held, file, image, opened>>
  BY DEF NextSegment, vars, table
<1>3. Len(Segs(f)) \in Nat
  BY <1>1, TablesAre
<1>4. CASE i > Len(Segs(f))
  <2>1. loader' = [loader EXCEPT !.at = "seek sections"]
    <3>1. ~(i <= Len(Segs(f)))
      BY <1>1, <1>3, <1>4
    <3> QED BY <1>4, <3>1 DEF NextSegment, Segs
  <2>2. Moves /\ loader'.at = "seek sections"
    BY <1>1, <1>2, <2>1 DEF Moves, Loaders, Places, At
  <2>3. Built(loader, image) => Built(loader', image')
    BY <1>1, <1>2, <1>4, <2>2, SegmentsFilled DEF Built, Moves, At
  <2>4. OwnFile' /\ ImageSoFar'
    BY <1>1, <1>2, <2>2, <2>3, OwnFileKept, ImageMoved
  <2> QED BY <2>2, <2>4, PageLeft
<1>5. CASE i <= Len(Segs(f)) /\ Segment.load
  <2>1. loader' = [loader EXCEPT !.at = "page", !.j = 0, !.left = Segment.filesz]
    <3>1. ~(i > Len(Segs(f)))
      BY <1>1, <1>3, <1>5
    <3> QED BY <1>5, <3>1 DEF NextSegment, Segs
  <2>2. Segment = Segs(f)[i] /\ Segment.filesz \in Nat
    BY <1>1, <1>5, SegmentAtHand
  <2>3. /\ Moves /\ loader'.at = "page" /\ loader'.i = i /\ loader'.j = 0
        /\ loader'.left = Segment.filesz
    BY <1>1, <1>2, <2>1, <2>2 DEF Moves, Loaders, Places, At
  <2>4. Built(loader, image) => Built(loader', image')
    BY <1>1, <1>2, <2>3 DEF Built, Moves, At
  <2>5. OwnFile' /\ ImageSoFar'
    BY <1>1, <1>2, <2>3, <2>4, OwnFileKept, ImageMoved
  <2>6. loader'.j * PageSize = 0 /\ Segment.filesz - 0 = Segment.filesz
    BY <2>2, <2>3, Numbers
  <2>7. OwnPage'
    BY <1>5, <2>2, <2>3, <2>6 DEF OwnPage, Moves, At
  <2> QED BY <2>5, <2>7
<1>6. CASE i <= Len(Segs(f)) /\ ~Segment.load
  <2>1. loader' = [loader EXCEPT !.i = @ + 1]
    <3>1. ~(i > Len(Segs(f)))
      BY <1>1, <1>3, <1>6
    <3> QED BY <1>6, <3>1 DEF NextSegment, Segs
  <2>2. Segment = Segs(f)[i] /\ i \in DOMAIN Segs(f)
    BY <1>1, <1>6, SegmentAtHand
  <2>3. Moves /\ loader'.at = "segment" /\ loader'.i = i + 1
    <3>1. i + 1 \in Nat \ {0}
      BY <1>1
    <3> QED BY <1>1, <1>2, <2>1, <3>1 DEF Moves, Loaders, At
  <2>4. SegmentImage(f, i + 1, 0) = SegmentImage(f, i, 0)
    BY <1>1, <1>6, <2>2, SegmentFilled
  <2>5. Built(loader, image) => Built(loader', image')
    BY <1>1, <1>2, <2>3, <2>4 DEF Built, Moves, At
  <2>6. OwnFile' /\ ImageSoFar'
    BY <1>1, <1>2, <2>3, <2>5, OwnFileKept, ImageMoved
  <2> QED BY <2>3, <2>6, PageLeft
<1> QED BY <1>1, <1>3, <1>4, <1>5, <1>6
LEMMA NextPageFaith ==
  ASSUME FaithInv, NextPage
  PROVE  OwnFile' /\ OwnPage' /\ ImageSoFar'
<1> DEFINE f == loader.name
           i == loader.i
           j == loader.j
           s == Segment
<1>1. /\ LoaderInv /\ loader \in Loaders /\ OwnFile /\ OwnPage /\ ImageSoFar
      /\ image \in [PageNumbers -> Page] /\ At("page") /\ IsElf
  BY DEF FaithInv, ProgramInv, LoaderInv, ImageInv, NextPage, At, Unread
<1>2. UNCHANGED <<held, file, opened>>
  BY DEF NextPage, vars, table
<1>3. /\ f \in DOMAIN Programs /\ i \in DOMAIN Segs(f) /\ i \in Nat /\ j \in Nat
      /\ s = Segs(f)[i] /\ s \in SegmentRecords /\ s.filesz \in Nat /\ s.load
  BY <1>1, SegmentAtHand DEF At, OwnPage
<1>4. j < NumPages(s.filesz) <=> j * PageSize < s.filesz
  BY <1>3, PageCount
<1>5. CASE j < NumPages(s.filesz)
  <2>1. /\ image' = [image EXCEPT ![s.page + j] = Cleared]
        /\ loader' = [loader EXCEPT !.at = "seek"]
    BY <1>5 DEF NextPage, Goto
  <2>2. /\ Moves /\ loader'.at = "seek" /\ loader'.i = i /\ loader'.j = j
        /\ loader'.left = loader.left
    BY <1>1, <1>2, <2>1 DEF Moves, Loaders, Places, At
  <2>3. \A p \in PageNumbers : p # s.page + j => image'[p] = image[p]
    BY <1>1, <2>1
  <2>4. Built(loader, image) => Built(loader', image')
    BY <1>1, <1>3, <2>2, <2>3 DEF Built, Moves, At
  <2>5. OwnFile' /\ ImageSoFar'
    BY <1>1, <1>2, <2>2, <2>4, OwnFileKept, ImageMoved
  <2>6. OwnPage'
    BY <1>1, <1>3, <1>4, <1>5, <2>2 DEF OwnPage, Moves, At
  <2> QED BY <2>5, <2>6
<1>6. CASE ~(j < NumPages(s.filesz))
  <2>1. image' = image /\ loader' = [loader EXCEPT !.at = "segment", !.i = @ + 1]
    BY <1>6 DEF NextPage
  <2>2. Moves /\ loader'.at = "segment" /\ loader'.i = i + 1
    <3>1. i + 1 \in Nat \ {0} /\ "segment" \in Places
      BY <1>3 DEF Places
    <3> QED BY <1>1, <1>2, <2>1, <3>1 DEF Moves, Loaders, At
  <2>3. SegmentImage(f, i + 1, 0) = SegmentImage(f, i, j)
    <3>1. j * PageSize \in Nat /\ j * PageSize >= s.filesz
      BY <1>3, <1>4, <1>6, Numbers
    <3> QED BY <1>3, <3>1, SegmentFilled
  <2>4. Built(loader, image) => Built(loader', image')
    BY <1>1, <2>1, <2>2, <2>3 DEF Built, Moves, At
  <2>5. OwnFile' /\ ImageSoFar'
    BY <1>1, <1>2, <2>1, <2>2, <2>4, OwnFileKept, ImageMoved
  <2> QED BY <2>2, <2>5, PageLeft
<1> QED BY <1>5, <1>6

LEMMA SeekPageFaith ==
  ASSUME FaithInv, SeekPage
  PROVE  OwnFile' /\ OwnPage' /\ ImageSoFar'
<1> DEFINE s == Segment
           m == loader.j * PageSize
<1>1. /\ FilesInv /\ LoaderInv /\ loader \in Loaders /\ OwnFile /\ OwnPage /\ ImageSoFar
      /\ At("seek") /\ UNCHANGED <<image, opened>> /\ Lseek(loader.fd, s.offset + m)
      /\ loader' = [loader EXCEPT !.at = "read"]
  BY DEF FaithInv, ProgramInv, LoaderInv, SeekPage, Goto
<1>2. /\ s = Segs(loader.name)[loader.i] /\ s.offset \in Nat /\ m \in Nat /\ s.filesz \in Nat
  BY <1>1, SegmentAtHand, Numbers DEF At
<1>3. /\ held' = held /\ \A c \in held : file'[c].entry = file[c].entry
      /\ file'[loader.fd].pos = s.offset + m
  <2>1. PICK n \in Nat : n = s.offset + m
    BY <1>2
  <2> HIDE DEF s, m
  <2> QED BY <1>1, <2>1, SameFiles
<1>4. /\ Moves /\ loader'.at = "read" /\ loader'.i = loader.i /\ loader'.j = loader.j
      /\ loader'.left = loader.left
  BY <1>1 DEF Moves, Loaders, Places, At
<1>5. Built(loader, image) => Built(loader', image')
  BY <1>1, <1>4 DEF Built, Moves, At
<1>6. OwnFile' /\ ImageSoFar'
  BY <1>1, <1>3, <1>4, <1>5, OwnFileKept, ImageMoved
<1>7. OwnPage'
  BY <1>1, <1>2, <1>3, <1>4 DEF OwnPage, Moves, At
<1> QED BY <1>6, <1>7

LEMMA ReadPageFaith ==
  ASSUME FaithInv, ReadPage
  PROVE  OwnFile' /\ OwnPage' /\ ImageSoFar'
<1> DEFINE f == loader.name
           i == loader.i
           j == loader.j
           s == Segment
           m == j * PageSize
           g == file[loader.fd]
<1>1. /\ FilesInv /\ LoaderInv /\ loader \in Loaders /\ OwnFile /\ OwnPage /\ ImageSoFar
      /\ image \in [PageNumbers -> Page]
      /\ At("read") /\ IsElf /\ opened' = opened /\ Read(loader.fd, Wanted)
      /\ image' = [image EXCEPT ![s.page + j] = Copied(g, answer')]
      /\ loader' = [loader EXCEPT !.at = "page", !.j = @ + 1,
                      !.left = IF @ > PageSize THEN @ - PageSize ELSE @]
  BY DEF FaithInv, ProgramInv, LoaderInv, ImageInv, ReadPage, At, Unread
<1>2. /\ f \in DOMAIN Programs /\ i \in DOMAIN Segs(f) /\ i \in Nat /\ j \in Nat
      /\ s = Segs(f)[i] /\ s \in SegmentRecords /\ s.page \in Nat /\ s.filesz \in Nat
      /\ s.offset \in Nat
  BY <1>1, SegmentAtHand DEF At
<1>3. /\ s.load /\ m \in Nat /\ m < s.filesz /\ loader.left = s.filesz - m
      /\ g.pos = s.offset + m
  BY <1>1, <1>2, Numbers DEF OwnPage, At
<1>4. PageSize \in Nat /\ PageSize > 0 /\ loader.left \in Nat /\ Wanted \in Nat
      /\ Wanted = PageBytes(s.filesz - m)
  <2>1. loader.left \in Nat /\ PageSize \in Nat /\ PageSize > 0
    BY <1>2, <1>3, Numbers
  <2>2. Wanted = PageBytes(s.filesz - m)
    BY <1>3 DEF Wanted, PageBytes
  <2>3. Wanted \in Nat
    BY <2>1 DEF Wanted
  <2> QED BY <2>1, <2>2, <2>3
<1>5. held' = held /\ \A c \in held : file'[c].entry = file[c].entry
  BY <1>1, <1>4, SameFiles
<1>6. /\ Moves /\ loader'.at = "page" /\ loader'.i = i /\ loader'.j = j + 1
      /\ loader'.left = IF loader.left > PageSize THEN loader.left - PageSize ELSE loader.left
  <2>1. /\ j + 1 \in Nat /\ "page" \in Places
        /\ (IF loader.left > PageSize THEN loader.left - PageSize ELSE loader.left) \in Nat
    BY <1>2, <1>4 DEF Places
  <2> QED BY <1>1, <2>1 DEF Moves, Loaders, At
<1>7. OwnFile'
  BY <1>1, <1>5, <1>6, OwnFileKept DEF At
<1>8. OwnPage'
  <2>1. (j + 1) * PageSize = m + PageSize
    BY <1>2, <1>4
  <2>2. (j + 1) * PageSize < s.filesz => loader'.left = s.filesz - (j + 1) * PageSize
    <3> HIDE DEF m
    <3> QED BY <1>2, <1>3, <1>4, <1>6, <2>1
  <2> QED BY <1>2, <1>3, <1>6, <2>2 DEF OwnPage, Moves, At
<1>9. ASSUME Readable, Loadable(f), Built(loader, image) PROVE Built(loader', image')
  <2>1. \A p \in PageNumbers : p # s.page + j => image[p] = SegmentImage(f, i, j)[p]
    BY <1>1, <1>2, <1>9 DEF Built, At
  <2>2. s.page + j \in PageNumbers => Copied(g, answer') = Target(f)[s.page + j]
    <3>1. s \in Loads(f) /\ g \in Records /\ Reading(g) /\ g.entry = Entry(f)
      BY <1>1, <1>2, <1>3, OwnEntry, TablesAre DEF At
    <3>2. answer' = Delivered(g.buffer, g.pos, PageBytes(s.filesz - m))
      <4>1. answer' = IF Wanted > g.size - g.pos THEN g.size - g.pos ELSE Wanted
        BY <1>1 DEF Read
      <4>2. g.size = Len(g.buffer)
        BY <3>1 DEF Reading
      <4> QED BY <1>4, <4>1, <4>2 DEF Delivered
    <3>3. answer' \in Int
      BY <1>1, <1>4, FileRead
    <3> QED BY <1>2, <1>3, <1>9, <3>1, <3>2, <3>3, PageCopied
  <2>3. \A p \in PageNumbers : image'[p] = SegmentImage(f, i, j + 1)[p]
    <3> TAKE p \in PageNumbers
    <3>1. SegmentImage(f, i, j + 1)[p] =
            IF p = s.page + j THEN Target(f)[p] ELSE SegmentImage(f, i, j)[p]
      BY <1>2, <1>3, PageFilled
    <3>2. p = s.page + j => image'[p] = Target(f)[p]
      BY <1>1, <2>2
    <3>3. p # s.page + j => image'[p] = image[p]
      BY <1>1
    <3> QED BY <2>1, <3>1, <3>2, <3>3
  <2>4. image' = SegmentImage(f, i, j + 1)
    <3>1. DOMAIN image' = PageNumbers /\ image' = [p \in PageNumbers |-> image'[p]]
      BY <1>1
    <3> QED BY <2>3, <3>1 DEF SegmentImage
  <2> QED BY <1>6, <2>4 DEF Built, Moves
<1>10. ImageSoFar'
  BY <1>1, <1>6, <1>9, ImageMoved
<1> QED BY <1>7, <1>8, <1>10

LEMMA NextSectionFaith ==
  ASSUME FaithInv, NextSection
  PROVE  OwnFile' /\ OwnPage' /\ ImageSoFar'
<1> DEFINE f == loader.name
           n == loader.i
           t == Section
<1>1. /\ LoaderInv /\ loader \in Loaders /\ OwnFile /\ ImageSoFar
      /\ image \in [PageNumbers -> Page]
      /\ At("section") /\ IsElf /\ f \in DOMAIN Programs /\ n \in Nat \ {0}
  BY DEF FaithInv, ProgramInv, LoaderInv, ImageInv, NextSection, At, Unread, Loaders, IsElf
<1>2. UNCHANGED <<held, file, opened>>
  BY DEF NextSection, vars, table
<1>3. CASE n > Len(Sects(f))
  <2>1. loader' = [loader EXCEPT !.at = "close"] /\ image' = image
    BY <1>3 DEF NextSection, Goto, Sects
  <2>2. Moves /\ loader'.at = "close"
    BY <1>1, <1>2, <2>1 DEF Moves, Loaders, Places, At
  <2>3. Built(loader, image) => Built(loader', image')
    BY <1>1, <1>3, <2>1, <2>2, SectionsMapped DEF Built, Moves, At
  <2>4. OwnFile' /\ ImageSoFar'
    BY <1>1, <1>2, <2>1, <2>2, <2>3, OwnFileKept, ImageMoved
  <2> QED BY <2>2, <2>4, PageLeft
<1>4. CASE ~(n > Len(Sects(f)))
  <2>1. /\ loader' = [loader EXCEPT !.i = @ + 1]
        /\ image' = IF IsSpace(t) THEN [image EXCEPT ![t.page] = Cleared] ELSE image
    BY <1>4 DEF NextSection, Sects, IsSpace
  <2>2. Moves /\ loader'.at = "section" /\ loader'.i = n + 1
    <3>1. n + 1 \in Nat \ {0}
      BY <1>1
    <3> QED BY <1>1, <1>2, <2>1, <3>1 DEF Moves, Loaders, At
  <2>3. n \in DOMAIN Sects(f) /\ t = Sects(f)[n]
    BY <1>1, <1>4, TablesAre DEF Section, Sects
  <2>4. ASSUME Loadable(f), Built(loader, image) PROVE Built(loader', image')
    <3>1. image = SectionImage(f, n)
      BY <1>1, <2>4 DEF Built, At
    <3>2. \A p \in PageNumbers : image'[p] = SectionImage(f, n + 1)[p]
      BY <1>1, <2>1, <2>3, <2>4, <3>1, SectionMapped
    <3>3. image' = [p \in PageNumbers |-> image'[p]]
      BY <1>1, <2>1
    <3>4. image' = SectionImage(f, n + 1)
      BY <3>2, <3>3 DEF SectionImage
    <3> QED BY <2>2, <3>4 DEF Built, Moves
  <2>5. OwnFile' /\ ImageSoFar'
    BY <1>1, <1>2, <2>2, <2>4, OwnFileKept, ImageMoved
  <2> QED BY <2>2, <2>5, PageLeft
<1> QED BY <1>3, <1>4
LEMMA FinishFaith ==
  ASSUME FaithInv, Finish
  PROVE  OwnFile' /\ OwnPage' /\ ImageSoFar'
<1>1. /\ loader \in Loaders /\ OwnFile /\ ImageSoFar /\ At("close")
      /\ loader' = [loader EXCEPT !.at = "idle"]
      /\ held' = held \ {loader.fd} /\ UNCHANGED <<image, opened>>
  BY DEF FaithInv, ProgramInv, LoaderInv, Finish, Goto, Close
<1>2. Moves /\ loader'.at = "idle"
  BY <1>1 DEF Moves, Loaders, Places, At
<1>3. OwnFile'
  BY <1>1, <1>2 DEF OwnFile, At
<1>4. Built(loader, image) => Built(loader', image')
  BY <1>1, <1>2 DEF Built, Moves, At
<1>5. ImageSoFar'
  BY <1>1, <1>2, <1>4, ImageMoved
<1> QED BY <1>2, <1>3, <1>5, PageLeft

(***************************************************************************)
(* Programs cannot close the loader's descriptor unnoticed: what is found  *)
(* by name has a date, and a closed entry has none.                        *)
(***************************************************************************)
Calls ==
  \/ \E path \in Paths : OpenBegins(path)
  \/ OpenTakes \/ OpenFindsNothing \/ OpenFull \/ OpensOverlap
  \/ \E d \in Descriptors, n \in Nat : Read(d, n) \/ Lseek(d, n)
  \/ \E d \in Descriptors : Close(d)
  \/ BadDescriptor

LEMMA StaysOpen ==
  ASSUME FilesInv, Calls, NEW d \in held, file'[d] = file[d]
  PROVE  d \in held'
<1>1. ASSUME NEW c \in Descriptors, Close(c) PROVE d \in held'
  <2>1. held' = held \ {c} /\ file' = [file EXCEPT ![c] = NoFile]
    BY <1>1 DEF Close
  <2>2. c # d
    <3> SUFFICES ASSUME c = d PROVE FALSE
      OBVIOUS
    <3>1. file[d] = NoFile /\ file[d].entry \in Files
      BY <1>1, <2>1 DEF FilesInv, Reading
    <3>2. ~NoFile.entry.dated
      BY DEF NoFile
    <3> QED BY <3>1, <3>2, FilesAre
  <2> QED BY <2>1, <2>2
<1>2. ASSUME NEW path \in Paths, OpenBegins(path) PROVE d \in held'
  BY <1>2, FileBegun
<1>3. ASSUME NEW c \in Descriptors, NEW n \in Nat, Read(c, n) \/ Lseek(c, n) PROVE d \in held'
  BY <1>3 DEF Read, Lseek
<1>4. OpenFindsNothing \/ OpenFull \/ OpensOverlap \/ BadDescriptor => d \in held'
  BY FilesAlone
<1>5. OpenTakes => d \in held'
  BY FileOpened
<1> QED BY <1>1, <1>2, <1>3, <1>4, <1>5 DEF Calls

LEMMA CallFaith ==
  ASSUME FaithInv, ProgramCalls
  PROVE  OwnFile' /\ OwnPage' /\ ImageSoFar'
<1>1. /\ FilesInv /\ LoaderInv /\ loader \in Loaders /\ OwnFile /\ OwnPage /\ ImageSoFar
  BY DEF FaithInv, ProgramInv, LoaderInv
<1>2. /\ Calls /\ image' = image /\ opened' = (opened \cup (held' \ held)) \cap held'
      /\ \/ loader' = [loader EXCEPT !.at = "lost"]
         \/ loader' = loader /\ (loader.at \in {"idle", "opening"} \/ file'[loader.fd] = file[loader.fd])
  BY Numbers DEF ProgramCalls, Call, Calls, Goto
<1>3. CASE loader' = [loader EXCEPT !.at = "lost"]
  <2>1. loader'.at = "lost"
    BY <1>1, <1>3 DEF Loaders
  <2> QED BY <2>1 DEF OwnFile, OwnPage, ImageSoFar, At
<1>4. CASE loader' = loader /\ loader.at \in {"idle", "opening"}
  <2>1. held = opened /\ held' = opened'
    BY <1>1, <1>2, <1>4 DEF OwnFile
  <2> QED BY <1>1, <1>2, <1>4, <2>1 DEF OwnFile, OwnPage, ImageSoFar, At, IsElf
<1>5. CASE loader' = loader /\ loader.at \notin {"idle", "opening"} /\ file'[loader.fd] = file[loader.fd]
  <2>1. CASE At("lost")
    BY <1>5, <2>1 DEF OwnFile, OwnPage, ImageSoFar, At
  <2>2. CASE ~At("lost")
    <3>1. /\ loader.fd \in held /\ loader.fd \notin opened /\ held = opened \cup {loader.fd}
          /\ file[loader.fd].entry.name = loader.name
      BY <1>1, <1>5, <2>2 DEF OwnFile, At
    <3>2. loader.fd \in held'
      BY <1>1, <1>2, <1>5, <3>1, StaysOpen
    <3>3. loader.fd \notin opened' /\ held' = opened' \cup {loader.fd}
      BY <1>2, <3>1, <3>2
    <3>4. OwnFile'
      BY <1>5, <3>1, <3>2, <3>3 DEF OwnFile, At
    <3>5. OwnPage' /\ ImageSoFar'
      BY <1>1, <1>2, <1>5 DEF OwnPage, ImageSoFar, At, IsElf
    <3> QED BY <3>4, <3>5
  <2> QED BY <2>1, <2>2
<1> QED BY <1>2, <1>3, <1>4, <1>5

LEMMA FaithInvHolds == LSpec => []FaithInv
<1>1. LInit => OwnFile /\ OwnPage /\ ImageSoFar
  <2> SUFFICES ASSUME LInit PROVE OwnFile /\ OwnPage /\ ImageSoFar
    OBVIOUS
  <2>1. /\ loader = [at |-> "idle", fd |-> 0, name |-> "", i |-> 1, j |-> 0, left |-> 0]
        /\ held = {} /\ opened = {} /\ image = NoImage
    BY DEF LInit, Init
  <2>2. "" \notin DOMAIN Programs
    BY ProgramAssumption DEF NoFile
  <2> QED BY <2>1, <2>2 DEF OwnFile, OwnPage, ImageSoFar, At, IsElf
<1>2. ProgramInv /\ FaithInv /\ [LNext]_<<vars, lvars>> => OwnFile' /\ OwnPage' /\ ImageSoFar'
  <2> SUFFICES ASSUME FaithInv, [LNext]_<<vars, lvars>>
               PROVE  OwnFile' /\ OwnPage' /\ ImageSoFar'
    OBVIOUS
  <2>1. CASE LoaderStep
    BY <2>1, OpenFaith, HeaderFaith, NextSegmentFaith, NextPageFaith, SeekPageFaith,
       ReadPageFaith, NextSectionFaith, FinishFaith DEF LoaderStep
  <2>2. CASE ProgramCalls
    BY <2>2, CallFaith
  <2>3. CASE UNCHANGED <<vars, lvars>>
    BY <2>3 DEF vars, table, lvars, FaithInv, OwnFile, OwnPage, ImageSoFar, At, IsElf
  <2> QED BY <2>1, <2>2, <2>3 DEF LNext
<1>3. FaithInv <=> ProgramInv /\ OwnFile /\ OwnPage /\ ImageSoFar
  BY DEF FaithInv
<1>4. LSpec => []ProgramInv
  BY ProgramInvHolds
<1>5. LSpec /\ []ProgramInv => [](OwnFile /\ OwnPage /\ ImageSoFar)
  <2>1. ProgramInv /\ (OwnFile /\ OwnPage /\ ImageSoFar) /\ [LNext]_<<vars, lvars>>
          => (OwnFile /\ OwnPage /\ ImageSoFar)'
    BY <1>2, <1>3
  <2> QED BY <1>1, <2>1, PTL DEF LSpec
<1> QED BY <1>3, <1>4, <1>5, PTL

(***************************************************************************)
(* As long as no two open() overlap, what execve() has made of a program   *)
(* whose segments lie in the file and share no page is the image that its  *)
(* headers describe, byte for byte, for every disk with one sector per     *)
(* cluster, page size and executable, and whatever programs do with their  *)
(* own descriptors meanwhile; the loader gives back its descriptor and no  *)
(* other (syscall.c:89-155, 170).                                          *)
(***************************************************************************)
THEOREM LoadsAreFaithful == LSpec => []LoadsFaithfully
<1>1. FaithInv => LoadsFaithfully
  <2> SUFFICES ASSUME FaithInv, At("idle") PROVE LoadsFaithfully
    BY DEF LoadsFaithfully
  <2>1. held = opened /\ ~At("lost")
    BY DEF FaithInv, OwnFile, At
  <2>2. ~IsElf => image = NoImage
    BY <2>1 DEF FaithInv, ImageSoFar
  <2>3. IsElf /\ Readable /\ Loadable(loader.name) => image = Target(loader.name)
    BY <2>1 DEF FaithInv, ImageSoFar, Built, At
  <2> QED BY <2>1, <2>2, <2>3 DEF LoadsFaithfully, Target
<1> QED BY <1>1, FaithInvHolds, PTL
=============================================================================
