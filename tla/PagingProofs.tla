---------------------------- MODULE PagingProofs -----------------------------
(***************************************************************************)
(* No frame is used twice, the kernel stays mapped and the end of a        *)
(* process gives its frames back, for every number of frames, processes    *)
(* and entries.                                                            *)
(***************************************************************************)
EXTENDS Paging, Functions, FiniteSetTheorems, WellFoundedInduction, TLAPS

(***************************************************************************)
(* Induction over sets of numbers instead of predicates: a set of naturals *)
(* has a least element, ...                                                *)
(***************************************************************************)
LEMMA LeastElement ==
  ASSUME NEW T, T \subseteq Nat, T # {}
  PROVE  \E x \in T : \A y \in T : x <= y
<1> DEFINE R == {p \in Nat \X Nat : p[1] < p[2]}
<1>1. IsWellFoundedOn(R, Nat)
  BY NatLessThanWellFounded DEF OpToRel
<1>2. \A x, y \in T : <<y, x>> \notin R => x <= y
  OBVIOUS
<1> HIDE DEF R
<1>3. \E x \in T : \A y \in T : <<y, x>> \notin R
  BY <1>1, WFMin
<1> QED BY <1>2, <1>3

\* ... and one that has 0 and every successor up to n has all of 0 .. n.
LEMMA UpTo ==
  ASSUME NEW n \in Nat, NEW S, 0 \in S,
         \A k \in 0 .. n - 1 : k \in S => k + 1 \in S
  PROVE  \A k \in 0 .. n : k \in S
<1> DEFINE T == (0 .. n) \ S
<1> SUFFICES ASSUME T # {} PROVE FALSE
  OBVIOUS
<1>1. PICK x \in T : \A y \in T : x <= y
  <2>1. T \subseteq Nat
    OBVIOUS
  <2> HIDE DEF T
  <2> QED BY <2>1, LeastElement
<1>2. x \in 0 .. n /\ x # 0
  OBVIOUS
<1>3. x - 1 \in 0 .. n - 1 /\ x - 1 \notin T /\ (x - 1) + 1 = x
  BY <1>1, <1>2
<1> QED BY <1>2, <1>3

-----------------------------------------------------------------------------
(***************************************************************************)
(* The places at which a directory d can use a frame: place -1 is d itself, *)
(* 0 .. 3 are its tables, 4 + j is the entry j of its user table.          *)
(***************************************************************************)
Places == -1 .. Entries + 3

Used(m, d, n) ==
  IF n = -1 THEN d ELSE IF n <= UserTable THEN m[d][n] ELSE m[m[d][UserTable]][n - 4]

Contents == [Frames \cup {Null} -> [Index -> Entry]]

(***************************************************************************)
(* The inductive invariant, for frames with contents m, allocated frames b *)
(* and directories L.  A directory may lack tables while it is made;       *)
(* mem[Null] is what the code would read and write at address 0.           *)
(***************************************************************************)
Exclusive(m, b, L) ==
  \A d, e \in L, n, k \in Places :
    Used(m, d, n) \in Frames =>
      /\ Used(m, d, n) \in b
      /\ Used(m, d, n) = Used(m, e, k) => d = e /\ n = k

Sound(m, b, L) ==
  /\ m \in Contents /\ m[Null] = Zero
  /\ b \subseteq Frames /\ L \subseteq Frames
  /\ \A d \in L, i \in Index :
       IF i <= UserTable THEN m[d][i] \in Frames \cup {Null} ELSE m[d][i] = Null
  /\ Exclusive(m, b, L)

Mapped(m, d, i) == m[d][i] # Null /\ \A j \in Index : m[m[d][i]][j] = Kernel

Complete(m, d) == m[d][UserTable] # Null /\ \A i \in KernelTables : Mapped(m, d, i)

\* What a directory has of that is not taken away from m to t.
Kept(m, t, L) ==
  \A d \in L : /\ m[d][UserTable] # Null => t[d][UserTable] = m[d][UserTable]
               /\ \A i \in KernelTables : Mapped(m, d, i) => Mapped(t, d, i)

-----------------------------------------------------------------------------
\* What the numbers are.
LEMMA Numbers ==
  /\ FrameCount \in Nat /\ FrameCount >= 5 /\ Entries \in Nat /\ Entries > 4
  /\ Frames \subseteq Nat /\ Null \notin Frames /\ Kernel \notin Frames /\ Vga \notin Frames
  /\ IsFiniteSet(Frames)
  /\ Kernel # Null /\ Vga # Null
  /\ 0 .. UserTable \subseteq Index /\ Entries - 1 \in Index
BY FrameAssumption, PagingAssumption, FS_Interval
   DEF Frames, Null, Kernel, Vga, UserTable, Index

\* malloc() finds the first free frame if there is one, and null if not.
LEMMA MallocIs ==
  ASSUME NEW b, b \subseteq Frames
  PROVE  /\ Malloc(b) \in Frames \cup {Null}
         /\ Malloc(b) \notin b
         /\ b # Frames => Malloc(b) \in Frames
         /\ Taken(b) = IF Malloc(b) = Null THEN b ELSE b \cup {Malloc(b)}
         /\ Taken(b) \subseteq Frames
<1> DEFINE T == Frames \ b
<1>1. CASE b = Frames
  BY <1>1, Numbers DEF Malloc, Taken
<1>2. CASE b # Frames
  <2>1. T # {} /\ T \subseteq Nat
    BY <1>2, Numbers
  <2>2. PICK f \in T : \A g \in T : f <= g
    <3> HIDE DEF T
    <3> QED BY <2>1, LeastElement
  <2>3. 1 .. f - 1 \subseteq b
    BY <2>2, FrameAssumption DEF Frames
  <2>4. Malloc(b) \in Frames \ b
    BY <1>2, <2>2, <2>3 DEF Malloc
  <2> QED BY <1>2, <2>4, Numbers DEF Taken
<1> QED BY <1>1, <1>2

\* Each call takes one of the free frames.
LEMMA RoomLeft ==
  ASSUME NEW b, b \subseteq Frames, NEW k \in Nat, Cardinality(Frames \ b) >= k + 1
  PROVE  /\ Malloc(b) \in Frames \ b
         /\ Taken(b) = b \cup {Malloc(b)} /\ Taken(b) \subseteq Frames
         /\ Cardinality(Frames \ Taken(b)) >= k
<1>1. b # Frames
  BY FS_EmptySet
<1>2. Malloc(b) \in Frames \ b /\ Taken(b) = b \cup {Malloc(b)} /\ Taken(b) \subseteq Frames
  BY <1>1, MallocIs, Numbers
<1>3. /\ IsFiniteSet(Frames \ b)
      /\ Cardinality((Frames \ b) \ {Malloc(b)}) = Cardinality(Frames \ b) - 1
  BY <1>2, Numbers, FS_Subset, FS_RemoveElement
<1>4. Frames \ Taken(b) = (Frames \ b) \ {Malloc(b)}
  BY <1>2
<1>5. Cardinality(Frames \ b) \in Nat
  BY <1>3, FS_CardinalityType
<1> QED BY <1>2, <1>3, <1>4, <1>5

-----------------------------------------------------------------------------
(***************************************************************************)
(* What the functions of paging.c do to the frames in use                  *)
(***************************************************************************)
Rewritten(m, f, r) == [m EXCEPT ![f] = r]

Entered(m, f, x, i) == [m EXCEPT ![f] = Zero, ![x][i] = f]

\* What is used where.
LEMMA UsedIs ==
  ASSUME NEW m, NEW d
  PROVE  /\ Used(m, d, -1) = d
         /\ \A i \in 0 .. UserTable : i \in Places /\ Used(m, d, i) = m[d][i]
         /\ \A j \in Index : j + 4 \in Places /\ Used(m, d, j + 4) = m[m[d][UserTable]][j]
         /\ \A n \in Places : \/ n = -1
                              \/ n \in 0 .. UserTable
                              \/ \E j \in Index : n = j + 4
<1>1. ASSUME NEW n \in Places, n # -1, n \notin 0 .. UserTable
      PROVE  n - 4 \in Index /\ n = (n - 4) + 4
  BY <1>1, Numbers DEF Places, Index, UserTable
<1> QED BY <1>1, Numbers DEF Used, Places, Index, UserTable

\* Directories and tables are allocated, and no table is a directory.
LEMMA Allocated ==
  ASSUME NEW m, NEW b, NEW L, Sound(m, b, L), NEW d \in L
  PROVE  /\ d \in b
         /\ \A i \in 0 .. UserTable : m[d][i] \in b \cup {Null} /\ m[d][i] \notin L
         /\ \A e \in L, i, k \in 0 .. UserTable :
              m[d][i] # Null /\ m[d][i] = m[e][k] => d = e /\ i = k
<1>1. /\ L \subseteq Frames /\ Exclusive(m, b, L)
      /\ \A i \in 0 .. UserTable : m[d][i] \in Frames \cup {Null}
  BY Numbers DEF Sound, UserTable
<1>2. -1 \in Places /\ -1 \notin 0 .. UserTable
  BY Numbers DEF Places
<1>3. \A e \in L : /\ Used(m, e, -1) = e
                   /\ \A i \in 0 .. UserTable : i \in Places /\ Used(m, e, i) = m[e][i]
  BY UsedIs
<1>4. d \in b
  BY <1>1, <1>2, <1>3 DEF Exclusive
<1>5. ASSUME NEW i \in 0 .. UserTable
      PROVE  m[d][i] \in b \cup {Null} /\ m[d][i] \notin L
  <2>1. m[d][i] \in b \cup {Null}
    BY <1>1, <1>3 DEF Exclusive
  <2>2. ASSUME m[d][i] \in L PROVE FALSE
    <3>1. Used(m, d, i) = Used(m, m[d][i], -1) /\ Used(m, d, i) \in Frames
      BY <1>1, <1>3, <2>2
    <3>2. i = -1
      BY <1>1, <1>2, <1>3, <2>2, <3>1 DEF Exclusive
    <3> QED BY <1>2, <3>2
  <2> QED BY <2>1, <2>2
<1>6. ASSUME NEW e \in L, NEW i \in 0 .. UserTable, NEW k \in 0 .. UserTable,
             m[d][i] # Null, m[d][i] = m[e][k]
      PROVE  d = e /\ i = k
  BY <1>1, <1>3, <1>6 DEF Exclusive
<1> QED BY <1>4, <1>5, <1>6

\* create_directory(): a frame that nobody uses becomes a directory.
LEMMA NewDirectory ==
  ASSUME NEW m, NEW b, NEW L, Sound(m, b, L), NEW f \in Frames \ b
  PROVE  /\ Sound(Rewritten(m, f, Zero), b \cup {f}, L \cup {f})
         /\ Kept(m, Rewritten(m, f, Zero), L)
<1> DEFINE t == Rewritten(m, f, Zero)
<1>1. /\ m \in Contents /\ m[Null] = Zero /\ b \subseteq Frames /\ L \subseteq Frames
      /\ \A d \in L, i \in Index :
           IF i <= UserTable THEN m[d][i] \in Frames \cup {Null} ELSE m[d][i] = Null
      /\ Exclusive(m, b, L)
  BY DEF Sound
<1>2. /\ t \in Contents /\ t[f] = Zero
      /\ \A g \in Frames \cup {Null} : g # f => t[g] = m[g]
      /\ Zero \in [Index -> Entry] /\ \A i \in Index : Zero[i] = Null
  BY <1>1 DEF Contents, Zero, Entry, Rewritten
<1> HIDE DEF t
<1>3. \A d \in L : d \in b /\ \A i \in 0 .. UserTable : m[d][i] \in b \cup {Null}
  BY Allocated
<1>4. \A d \in L : d # f /\ t[d] = m[d]
  BY <1>1, <1>2, <1>3
<1>5. \A d \in L, n \in Places : Used(t, d, n) = Used(m, d, n)
  <2> TAKE d \in L, n \in Places
  <2>1. m[d][UserTable] # f /\ m[d][UserTable] \in Frames \cup {Null}
    BY <1>1, <1>3, Numbers DEF UserTable
  <2>2. t[m[d][UserTable]] = m[m[d][UserTable]]
    BY <1>2, <2>1
  <2> QED BY <1>4, <2>2 DEF Used
<1>6. \A n \in Places : Used(t, f, n) = IF n = -1 THEN f ELSE Null
  <2> TAKE n \in Places
  <2>1. t[Null] = Zero /\ UserTable \in Index /\ 0 .. UserTable \subseteq Index
    <3>1. Null # f
      BY Numbers
    <3>2. UserTable \in 0 .. UserTable
      BY DEF UserTable
    <3> QED BY <1>1, <1>2, <3>1, <3>2, Numbers
  <2>2. CASE n = -1
    BY <2>2, UsedIs
  <2>3. CASE n # -1 /\ n \in 0 .. UserTable
    BY <1>2, <2>1, <2>3, UsedIs
  <2>4. ASSUME n # -1, NEW j \in Index, n = j + 4 PROVE Used(t, f, n) = Null
    BY <1>2, <2>1, <2>4, UsedIs
  <2> QED BY <2>2, <2>3, <2>4, UsedIs
<1>7. Exclusive(t, b \cup {f}, L \cup {f})
  <2> SUFFICES ASSUME NEW d \in L \cup {f}, NEW e \in L \cup {f}, NEW n \in Places,
                      NEW k \in Places, Used(t, d, n) \in Frames
               PROVE  /\ Used(t, d, n) \in b \cup {f}
                      /\ Used(t, d, n) = Used(t, e, k) => d = e /\ n = k
    BY DEF Exclusive
  <2>1. CASE d \in L /\ e \in L
    BY <1>1, <1>5, <2>1 DEF Exclusive
  <2>2. CASE d \in L /\ e = f
    BY <1>1, <1>5, <1>6, <2>2, Numbers DEF Exclusive
  <2>3. CASE d = f /\ e \in L
    <3>1. Used(t, d, n) = f /\ n = -1
      BY <1>6, <2>3, Numbers
    <3>2. Used(t, e, k) # f
      BY <1>1, <1>5, <2>3 DEF Exclusive
    <3> QED BY <3>1, <3>2
  <2>4. CASE d = f /\ e = f
    BY <1>6, <2>4, Numbers
  <2> QED BY <2>1, <2>2, <2>3, <2>4
<1>8. Sound(t, b \cup {f}, L \cup {f})
  BY <1>1, <1>2, <1>4, <1>7, Numbers DEF Sound
<1>9. Kept(m, t, L)
  <2>1. ASSUME NEW d \in L, NEW i \in KernelTables
        PROVE  t[d][i] = m[d][i] /\ t[m[d][i]] = m[m[d][i]]
    <3>1. m[d][i] # f /\ m[d][i] \in Frames \cup {Null}
      BY <1>1, <1>3, Numbers DEF KernelTables, UserTable
    <3> QED BY <1>2, <1>4, <3>1
  <2> QED BY <1>4, <2>1 DEF Kept, Mapped
<1> QED BY <1>8, <1>9 DEF t

\* create_table(), create_page(): a free frame, or none, is entered at a place
\* of a directory: for a table there was nothing there before.
LEMMA NewEntry ==
  ASSUME NEW m, NEW b, NEW L, Sound(m, b, L),
         NEW f \in (Frames \cup {Null}) \ b, NEW d \in L, NEW x, NEW i \in Index,
         \/ x = d /\ i <= UserTable /\ m[d][i] = Null
         \/ x = m[d][UserTable] /\ x # Null
  PROVE  /\ Sound(Entered(m, f, x, i), (b \cup {f}) \ {Null}, L)
         /\ Kept(m, Entered(m, f, x, i), L)
<1> DEFINE t == Entered(m, f, x, i)
           c == (b \cup {f}) \ {Null}
           p == IF x = d THEN i ELSE i + 4
<1>1. /\ m \in Contents /\ m[Null] = Zero /\ b \subseteq Frames /\ L \subseteq Frames
      /\ \A e \in L, k \in Index :
           IF k <= UserTable THEN m[e][k] \in Frames \cup {Null} ELSE m[e][k] = Null
      /\ Exclusive(m, b, L)
  BY DEF Sound
<1>2. /\ \A e \in L : e \in b /\ \A k \in 0 .. UserTable : m[e][k] \in b \cup {Null}
      /\ \A e \in L, k \in 0 .. UserTable : m[e][k] \notin L
      /\ \A e, g \in L, k, l \in 0 .. UserTable :
           m[e][k] # Null /\ m[e][k] = m[g][l] => e = g /\ k = l
  BY Allocated
<1>3. x \in b /\ x # f /\ UserTable \in 0 .. UserTable /\ (x = d => i <= UserTable)
  BY <1>2 DEF UserTable
<1>4. /\ t \in Contents /\ t[f] = Zero
      /\ t[x] = [m[x] EXCEPT ![i] = f]
      /\ \A g \in Frames \cup {Null} : g # f /\ g # x => t[g] = m[g]
  BY <1>1, <1>3 DEF Contents, Zero, Entry, Entered
<1>5. \A g \in b \cup {Null} : g # x => t[g] = m[g]
  BY <1>1, <1>4
<1> HIDE DEF t, c
<1>6. \A j \in Index : Zero[j] = Null
  BY DEF Zero
<1>7. \A e \in L, n \in Places :
        Used(t, e, n) = IF e = d /\ n = p THEN f ELSE Used(m, e, n)
  <2> TAKE e \in L, n \in Places
  <2>1. /\ m[e][UserTable] \in b \cup {Null} /\ m[d][UserTable] \in b \cup {Null}
        /\ m[d][UserTable] \notin L /\ m[e][UserTable] \notin L
        /\ p # -1
    BY <1>2, <1>3, Numbers DEF Index
  <2>2. CASE x = d /\ i <= UserTable /\ m[d][i] = Null
    <3>1. i \in 0 .. UserTable /\ p = i /\ \A k \in Index : p # k + 4
      BY <2>2 DEF Index, UserTable
    <3>2. \A k \in 0 .. UserTable : t[e][k] = IF e = d /\ k = p THEN f ELSE m[e][k]
      <4>1. CASE e = d
        BY <1>1, <1>4, <2>2, <3>1, <4>1, Numbers DEF Contents
      <4>2. CASE e # d
        BY <1>2, <1>5, <2>2, <4>2
      <4> QED BY <4>1, <4>2
    <3>3. \A j \in Index : t[t[e][UserTable]][j] = m[m[e][UserTable]][j]
      <4>1. CASE e = d /\ p = UserTable
        BY <1>1, <1>3, <1>4, <1>6, <2>2, <3>1, <3>2, <4>1
      <4>2. CASE ~(e = d /\ p = UserTable)
        BY <1>3, <1>5, <2>1, <2>2, <3>2, <4>2
      <4> QED BY <4>1, <4>2
    <3>4. CASE n = -1
      BY <2>1, <3>4, UsedIs
    <3>5. CASE n \in 0 .. UserTable
      BY <3>1, <3>2, <3>5, UsedIs
    <3>6. ASSUME NEW j \in Index, n = j + 4
          PROVE  Used(t, e, n) = IF e = d /\ n = p THEN f ELSE Used(m, e, n)
      BY <3>1, <3>3, <3>6, UsedIs
    <3> QED BY <3>4, <3>5, <3>6, UsedIs
  <2>3. CASE x = m[d][UserTable] /\ x # Null
    <3>1. p = i + 4 /\ \A k \in 0 .. UserTable : p # k
      BY <2>1, <2>3 DEF Index, UserTable
    <3>2. t[e] = m[e]
      BY <1>2, <1>5, <2>1, <2>3
    <3>3. \A j \in Index : t[m[e][UserTable]][j] =
             IF e = d /\ j + 4 = p THEN f ELSE m[m[e][UserTable]][j]
      <4>1. CASE e = d
        <5>1. m[x] \in [Index -> Entry] /\ \A j \in Index : j + 4 = i + 4 <=> j = i
          BY <1>1, <1>3 DEF Contents, Index
        <5> QED BY <1>4, <2>3, <3>1, <4>1, <5>1
      <4>2. CASE e # d
        BY <1>2, <1>3, <1>5, <2>1, <2>3, <4>2
      <4> QED BY <4>1, <4>2
    <3> QED BY <2>1, <3>1, <3>2, <3>3, UsedIs
  <2> QED BY <2>2, <2>3
<1>8. Exclusive(t, c, L)
  <2> SUFFICES ASSUME NEW e \in L, NEW g \in L, NEW n \in Places, NEW k \in Places,
                      Used(t, e, n) \in Frames
               PROVE  /\ Used(t, e, n) \in c
                      /\ Used(t, e, n) = Used(t, g, k) => e = g /\ n = k
    BY DEF Exclusive
  <2>1. \A h \in L, l \in Places : Used(m, h, l) # f \/ f = Null
    BY <1>1 DEF Exclusive
  <2>2. CASE e = d /\ n = p
    BY <1>7, <2>1, <2>2, Numbers DEF c
  <2>3. CASE ~(e = d /\ n = p)
    BY <1>1, <1>7, <2>1, <2>3, Numbers DEF c, Exclusive
  <2> QED BY <2>2, <2>3
<1>9. \A e \in L, k \in Index : t[e][k] = IF e = d /\ x = d /\ k = i THEN f ELSE m[e][k]
  <2> TAKE e \in L, k \in Index
  <2>1. CASE x = d
    BY <1>1, <1>2, <1>4, <1>5, <2>1 DEF Contents
  <2>2. CASE x # d
    BY <1>2, <1>3, <1>5, <2>2
  <2> QED BY <2>1, <2>2
<1>10. Sound(t, c, L)
  <2>1. t[Null] = Zero
    BY <1>1, <1>3, <1>4, Numbers
  <2>2. c \subseteq Frames
    BY <1>1, Numbers DEF c
  <2>3. \A e \in L, k \in Index :
          IF k <= UserTable THEN t[e][k] \in Frames \cup {Null} ELSE t[e][k] = Null
    BY <1>1, <1>3, <1>9
  <2> QED BY <1>1, <1>4, <1>8, <2>1, <2>2, <2>3 DEF Sound
<1>11. Kept(m, t, L)
  <2>1. \A e \in L, k \in 0 .. UserTable :
          k \in Index /\ (m[e][k] # Null => t[e][k] = m[e][k])
    BY <1>2, <1>3, <1>9, Numbers
  <2>2. \A k \in KernelTables : k \in 0 .. UserTable /\ k # UserTable
    BY DEF KernelTables, UserTable
  <2>3. \A e \in L, k \in KernelTables : m[e][k] # Null => t[m[e][k]] = m[m[e][k]]
    <3>1. \A e \in L, k \in KernelTables : m[e][k] # Null => m[e][k] # x /\ m[e][k] \in b
      BY <1>2, <1>3, <2>2
    <3> QED BY <1>5, <3>1
  <2> QED BY <1>3, <2>1, <2>2, <2>3 DEF Kept, Mapped
<1> QED BY <1>10, <1>11 DEF t, c

\* A new table is filled: one of the kernel with anything, the user table only
\* with what is no frame.
LEMMA FilledTable ==
  ASSUME NEW m, NEW b, NEW L, Sound(m, b, L), NEW d \in L, NEW i \in 0 .. UserTable,
         m[d][i] # Null, NEW r \in [Index -> Entry],
         i = UserTable => \A j \in Index : r[j] \in Frames => r[j] = m[m[d][i]][j]
  PROVE  /\ Sound(Rewritten(m, m[d][i], r), b, L)
         /\ \A e \in L : Rewritten(m, m[d][i], r)[e] = m[e]
         /\ \A g \in Frames \cup {Null} :
              Rewritten(m, m[d][i], r)[g] = IF g = m[d][i] THEN r ELSE m[g]
         /\ i = UserTable \/ (\A j \in Index : r[j] = Kernel)
              => Kept(m, Rewritten(m, m[d][i], r), L)
<1> DEFINE f == m[d][i]
           t == Rewritten(m, f, r)
<1>1. /\ m \in Contents /\ m[Null] = Zero /\ b \subseteq Frames /\ L \subseteq Frames
      /\ \A e \in L, k \in Index :
           IF k <= UserTable THEN m[e][k] \in Frames \cup {Null} ELSE m[e][k] = Null
      /\ Exclusive(m, b, L)
  BY DEF Sound
<1>2. /\ \A e \in L : e \in b /\ \A k \in 0 .. UserTable : m[e][k] \in b \cup {Null}
      /\ \A e \in L, k \in 0 .. UserTable : m[e][k] \notin L
      /\ \A e, g \in L, k, l \in 0 .. UserTable :
           m[e][k] # Null /\ m[e][k] = m[g][l] => e = g /\ k = l
  BY Allocated
<1>3. f \in b /\ f \notin L /\ f # Null /\ UserTable \in 0 .. UserTable
  BY <1>2 DEF UserTable
<1>4. /\ t \in Contents
      /\ \A g \in Frames \cup {Null} : t[g] = IF g = f THEN r ELSE m[g]
      /\ \A e \in L : t[e] = m[e]
  BY <1>1, <1>3 DEF Contents, Rewritten
<1> HIDE DEF t
<1>5. \A e \in L, n \in Places :
        Used(t, e, n) = Used(m, e, n) \/ Used(t, e, n) \notin Frames
  <2> TAKE e \in L, n \in Places
  <2>1. CASE n = -1
    BY <2>1, UsedIs
  <2>2. CASE n \in 0 .. UserTable
    BY <1>4, <2>2, UsedIs
  <2>3. ASSUME NEW j \in Index, n = j + 4
        PROVE  Used(t, e, n) = Used(m, e, n) \/ Used(t, e, n) \notin Frames
    <3>1. Used(t, e, n) = t[m[e][UserTable]][j] /\ Used(m, e, n) = m[m[e][UserTable]][j]
      BY <1>4, <2>3, UsedIs
    <3>2. m[e][UserTable] \in Frames \cup {Null}
      BY <1>1, <1>2, <1>3
    <3>3. CASE m[e][UserTable] = f
      BY <1>2, <1>3, <1>4, <3>1, <3>2, <3>3
    <3>4. CASE m[e][UserTable] # f
      BY <1>4, <3>1, <3>2, <3>4
    <3> QED BY <3>3, <3>4
  <2> QED BY <2>1, <2>2, <2>3, UsedIs
<1>6. Exclusive(t, b, L)
  BY <1>1, <1>5 DEF Exclusive
<1>7. t[Null] = Zero
  BY <1>1, <1>3, <1>4
<1>8. Sound(t, b, L)
  BY <1>1, <1>4, <1>6, <1>7 DEF Sound
<1>9. ASSUME i = UserTable \/ \A j \in Index : r[j] = Kernel
      PROVE  Kept(m, t, L)
  <2>1. \A k \in KernelTables : k \in 0 .. UserTable /\ k # UserTable
    BY DEF KernelTables, UserTable
  <2>2. \A e \in L, k \in KernelTables : m[e][k] # Null => m[e][k] \in Frames
    BY <1>1, <1>2, <2>1
  <2>3. \A e \in L, k \in KernelTables : m[e][k] = f => i # UserTable
    BY <1>2, <1>3, <2>1
  <2> QED BY <1>4, <1>9, <2>2, <2>3 DEF Kept, Mapped
<1> QED BY <1>4, <1>8, <1>9 DEF t

-----------------------------------------------------------------------------
(***************************************************************************)
(* The functions of the model, one call after the other                    *)
(***************************************************************************)
SoundIn(s, L) == Sound(s.mem, s.bitmap, L)

Memories == [mem : Contents, bitmap : SUBSET Frames]

\* create_table() and create_page(): nothing is written to a directory that
\* was there before.
LEMMA EntryAdded ==
  ASSUME NEW s \in Memories, NEW L, SoundIn(s, L), NEW d \in L, NEW t, NEW i \in Index,
         \/ t = d /\ i <= UserTable /\ s.mem[d][i] = Null
         \/ t = s.mem[d][UserTable] /\ t # Null
  PROVE  /\ SoundIn(CreateEntry(i, t, s), L) /\ CreateEntry(i, t, s) \in Memories
         /\ CreateEntry(i, t, s).bitmap = Taken(s.bitmap)
         /\ Kept(s.mem, CreateEntry(i, t, s).mem, L)
         /\ \A e \in L : e # t => CreateEntry(i, t, s).mem[e] = s.mem[e]
         /\ t = d => CreateEntry(i, t, s).mem[d] = [s.mem[d] EXCEPT ![i] = Malloc(s.bitmap)]
<1> DEFINE f == Malloc(s.bitmap)
           c == (s.bitmap \cup {f}) \ {Null}
           m == Entered(s.mem, f, t, i)
<1>1. /\ s.bitmap \subseteq Frames /\ s.mem \in Contents
      /\ f \in (Frames \cup {Null}) \ s.bitmap
      /\ Taken(s.bitmap) = c
  BY MallocIs, Numbers DEF Memories
<1>2. CreateEntry(i, t, s) = [mem |-> m, bitmap |-> c]
  BY <1>1 DEF CreateEntry, Fresh, Entered
<1>3. /\ Sound(m, c, L)
      /\ Kept(s.mem, m, L)
  <2>1. Sound(s.mem, s.bitmap, L)
    BY DEF SoundIn
  <2> HIDE DEF f
  <2> QED BY <1>1, <2>1, NewEntry
<1>4. m \in Contents /\ c \subseteq Frames
  BY <1>3 DEF Sound
<1>5. /\ L \subseteq s.bitmap /\ d \in Frames
  BY Allocated, <1>1 DEF SoundIn, Sound
<1>6. \A e \in L : e \in Frames /\ e # f
  BY <1>1, <1>5
<1>7. /\ \A e \in L : e # t => m[e] = s.mem[e]
      /\ t = d => m[d] = [s.mem[d] EXCEPT ![i] = f]
  BY <1>1, <1>6 DEF Contents, Entered
<1> QED BY <1>1, <1>2, <1>3, <1>4, <1>7 DEF SoundIn, Memories

\* A table of the kernel, and the user table of a new directory.
LEMMA KernelTableAdded ==
  ASSUME NEW s \in Memories, NEW L, SoundIn(s, L), NEW d \in L, NEW i \in KernelTables,
         s.mem[d][i] = Null, Malloc(s.bitmap) \in Frames,
         NEW u, u = CreateKernelTable(i, d, s)
  PROVE  /\ SoundIn(u, L) /\ u \in Memories /\ u.bitmap = Taken(s.bitmap)
         /\ Kept(s.mem, u.mem, L) /\ Mapped(u.mem, d, i)
         /\ \A k \in Index : k # i => u.mem[d][k] = s.mem[d][k]
<1> DEFINE f == Malloc(s.bitmap)
           v == CreateEntry(i, d, s)
           r == [j \in Index |-> Kernel]
<1>1. i \in Index /\ i <= UserTable /\ i \in 0 .. UserTable
  BY Numbers DEF KernelTables, UserTable
<1>2. /\ SoundIn(v, L) /\ v \in Memories /\ v.bitmap = Taken(s.bitmap)
      /\ Kept(s.mem, v.mem, L) /\ v.mem[d] = [s.mem[d] EXCEPT ![i] = f]
  BY <1>1, EntryAdded
<1>3. s.mem[d] \in [Index -> Entry] /\ v.mem \in Contents /\ d \in Frames
  BY <1>2 DEF SoundIn, Sound, Contents
<1>4. v.mem[d][i] = f /\ \A k \in Index : k # i => v.mem[d][k] = s.mem[d][k]
  BY <1>1, <1>2, <1>3
<1>5. u = [mem |-> Rewritten(v.mem, f, r), bitmap |-> v.bitmap]
  <2> HIDE DEF v
  <2>1. u = [v EXCEPT !.mem[f] = r]
    BY DEF CreateKernelTable, v
  <2> QED BY <1>2, <2>1 DEF Rewritten, Memories
<1> HIDE DEF v, r
<1>6. /\ Sound(Rewritten(v.mem, f, r), v.bitmap, L)
      /\ Kept(v.mem, Rewritten(v.mem, f, r), L)
      /\ Rewritten(v.mem, f, r)[d] = v.mem[d] /\ Rewritten(v.mem, f, r)[f] = r
  <2>1. r \in [Index -> Entry] /\ \A j \in Index : r[j] = Kernel
    BY DEF r, Entry
  <2>2. /\ Sound(v.mem, v.bitmap, L) /\ v.mem[d][i] # Null /\ i # UserTable
        /\ d \in Frames /\ f \in Frames /\ v.mem[d][i] = f
    BY <1>2, <1>3, <1>4, Numbers DEF SoundIn, KernelTables, UserTable
  <2> HIDE DEF f
  <2>3. /\ Sound(Rewritten(v.mem, v.mem[d][i], r), v.bitmap, L)
        /\ Kept(v.mem, Rewritten(v.mem, v.mem[d][i], r), L)
        /\ Rewritten(v.mem, v.mem[d][i], r)[d] = v.mem[d]
        /\ Rewritten(v.mem, v.mem[d][i], r)[f] = r
    BY <1>1, <2>1, <2>2, FilledTable
  <2> QED BY <2>2, <2>3
<1>7. Mapped(u.mem, d, i)
  BY <1>4, <1>5, <1>6, Numbers DEF Mapped, r
<1>8. Kept(s.mem, u.mem, L)
  BY <1>2, <1>5, <1>6 DEF Kept
<1>9. u \in Memories
  BY <1>2, <1>5, <1>6 DEF Memories, Sound
<1>10. SoundIn(u, L) /\ u.bitmap = Taken(s.bitmap)
  BY <1>2, <1>5, <1>6 DEF SoundIn
<1>11. \A k \in Index : k # i => u.mem[d][k] = s.mem[d][k]
  BY <1>4, <1>5, <1>6
<1> QED BY <1>7, <1>8, <1>9, <1>10, <1>11

LEMMA UserTableAdded ==
  ASSUME NEW s \in Memories, NEW L, SoundIn(s, L), NEW d \in L,
         s.mem[d][UserTable] = Null, Malloc(s.bitmap) \in Frames,
         NEW u, u = CreateUserTable(d, s)
  PROVE  /\ SoundIn(u, L) /\ u \in Memories /\ u.bitmap = Taken(s.bitmap)
         /\ Kept(s.mem, u.mem, L) /\ u.mem[d][UserTable] = Malloc(s.bitmap)
<1> DEFINE f == Malloc(s.bitmap)
           v == CreateEntry(UserTable, d, s)
           r == [v.mem[f] EXCEPT ![Entries - 1] = Vga]
<1>1. UserTable \in Index /\ UserTable <= UserTable /\ UserTable \in 0 .. UserTable
  BY Numbers DEF UserTable
<1>2. /\ SoundIn(v, L) /\ v \in Memories /\ v.bitmap = Taken(s.bitmap)
      /\ Kept(s.mem, v.mem, L) /\ v.mem[d] = [s.mem[d] EXCEPT ![UserTable] = f]
  BY <1>1, EntryAdded
<1>3. s.mem[d] \in [Index -> Entry] /\ v.mem \in Contents /\ v.mem[f] \in [Index -> Entry]
      /\ d \in Frames
  BY <1>2 DEF SoundIn, Sound, Contents
<1>4. v.mem[d][UserTable] = f
  BY <1>1, <1>2, <1>3
<1>5. u = [mem |-> Rewritten(v.mem, f, r), bitmap |-> v.bitmap]
  <2>1. u = [v EXCEPT !.mem[f][Entries - 1] = Vga]
    BY DEF CreateUserTable
  <2> HIDE DEF v
  <2>2. u = [v EXCEPT !.mem[f] = r]
    BY <2>1
  <2> QED BY <1>2, <2>2 DEF Rewritten, Memories
<1>6. r \in [Index -> Entry] /\ \A j \in Index : r[j] \in Frames => r[j] = v.mem[f][j]
  BY <1>3, Numbers DEF Entry
<1> HIDE DEF v, r
<1>7. /\ Sound(Rewritten(v.mem, f, r), v.bitmap, L)
      /\ Kept(v.mem, Rewritten(v.mem, f, r), L)
      /\ Rewritten(v.mem, f, r)[d] = v.mem[d]
  <2>1. Sound(v.mem, v.bitmap, L) /\ f # Null
    BY <1>2, Numbers DEF SoundIn
  <2> HIDE DEF f
  <2> QED BY <1>1, <1>4, <1>6, <2>1, FilledTable
<1>8. Kept(s.mem, u.mem, L)
  BY <1>2, <1>5, <1>7 DEF Kept
<1>9. u \in Memories
  BY <1>2, <1>5, <1>7 DEF Memories, Sound
<1>10. SoundIn(u, L) /\ u.bitmap = Taken(s.bitmap)
  BY <1>2, <1>5, <1>7 DEF SoundIn
<1>11. u.mem[d][UserTable] = f
  BY <1>4, <1>5, <1>7
<1> QED BY <1>8, <1>9, <1>10, <1>11

\* create_directory() with its tables.
LEMMA DirectoryMade ==
  ASSUME NEW s \in Memories, NEW L, SoundIn(s, L), NEW k \in Nat,
         Cardinality(Frames \ s.bitmap) >= k + 5, NEW u, u = DefaultDirectory(s)
  PROVE  /\ Malloc(s.bitmap) \in Frames \ s.bitmap
         /\ SoundIn(u, L \cup {Malloc(s.bitmap)}) /\ u \in Memories
         /\ Kept(s.mem, u.mem, L) /\ Complete(u.mem, Malloc(s.bitmap))
         /\ Cardinality(Frames \ u.bitmap) >= k
<1> DEFINE d  == Malloc(s.bitmap)
           M  == L \cup {d}
           s1 == Fresh(s)
           s2 == CreateKernelTable(0, d, s1)
           s3 == CreateKernelTable(1, d, s2)
           s4 == CreateKernelTable(2, d, s3)
<1>1. s.bitmap \subseteq Frames /\ u = CreateUserTable(d, s4)
  BY DEF DefaultDirectory, Memories
<1>2. /\ d \in Frames \ s.bitmap /\ Taken(s.bitmap) = s.bitmap \cup {d}
      /\ Cardinality(Frames \ Taken(s.bitmap)) >= k + 4
  BY <1>1, RoomLeft
<1>3. s1 = [mem |-> Rewritten(s.mem, d, Zero), bitmap |-> s.bitmap \cup {d}]
  BY <1>2 DEF Fresh, Rewritten
<1> HIDE DEF d, s1, s2, s3, s4, M
<1>4. /\ SoundIn(s1, M) /\ s1 \in Memories /\ Kept(s.mem, s1.mem, L) /\ d \in M /\ L \subseteq M
      /\ \A i \in Index : s1.mem[d][i] = Null
      /\ Cardinality(Frames \ s1.bitmap) >= k + 4
  <2>1. Sound(s.mem, s.bitmap, L)
    BY DEF SoundIn
  <2>2. Sound(Rewritten(s.mem, d, Zero), s.bitmap \cup {d}, M) /\ Kept(s.mem, Rewritten(s.mem, d, Zero), L)
    BY <1>2, <2>1, NewDirectory DEF M
  <2>3. Rewritten(s.mem, d, Zero)[d] = Zero
    BY <1>2 DEF Rewritten, Memories, Contents
  <2> QED BY <1>2, <1>3, <2>2, <2>3 DEF SoundIn, Sound, Memories, Zero, M
<1>5. /\ 0 \in KernelTables /\ 1 \in KernelTables /\ 2 \in KernelTables
      /\ KernelTables = {0, 1, 2} /\ KernelTables \cup {UserTable} \subseteq Index
      /\ UserTable \notin KernelTables
  BY Numbers DEF KernelTables, UserTable, Index
<1>6. \A v \in Memories, l \in Nat : Cardinality(Frames \ v.bitmap) >= l + 1 =>
        Malloc(v.bitmap) \in Frames /\ Cardinality(Frames \ Taken(v.bitmap)) >= l
  BY RoomLeft DEF Memories
<1>7. /\ SoundIn(s2, M) /\ s2 \in Memories /\ Kept(s1.mem, s2.mem, M) /\ Mapped(s2.mem, d, 0)
      /\ \A i \in Index : i # 0 => s2.mem[d][i] = Null
      /\ Cardinality(Frames \ s2.bitmap) >= k + 3
  <2>1. Malloc(s1.bitmap) \in Frames /\ Cardinality(Frames \ Taken(s1.bitmap)) >= k + 3
    BY <1>4, <1>6
  <2>2. s2 = CreateKernelTable(0, d, s1)
    BY DEF s2
  <2>4. /\ SoundIn(s2, M) /\ s2 \in Memories /\ s2.bitmap = Taken(s1.bitmap)
        /\ Kept(s1.mem, s2.mem, M) /\ Mapped(s2.mem, d, 0)
        /\ \A l \in Index : l # 0 => s2.mem[d][l] = s1.mem[d][l]
    BY <1>4, <1>5, <2>1, <2>2, KernelTableAdded
  <2> QED BY <1>4, <1>5, <2>1, <2>4
<1>8. /\ SoundIn(s3, M) /\ s3 \in Memories /\ Kept(s2.mem, s3.mem, M) /\ Mapped(s3.mem, d, 1)
      /\ \A i \in Index : i # 0 /\ i # 1 => s3.mem[d][i] = Null
      /\ Cardinality(Frames \ s3.bitmap) >= k + 2
  <2>1. Malloc(s2.bitmap) \in Frames /\ Cardinality(Frames \ Taken(s2.bitmap)) >= k + 2
    BY <1>6, <1>7
  <2>2. s3 = CreateKernelTable(1, d, s2) /\ s2.mem[d][1] = Null
    BY <1>5, <1>7 DEF s3
  <2>4. /\ SoundIn(s3, M) /\ s3 \in Memories /\ s3.bitmap = Taken(s2.bitmap)
        /\ Kept(s2.mem, s3.mem, M) /\ Mapped(s3.mem, d, 1)
        /\ \A l \in Index : l # 1 => s3.mem[d][l] = s2.mem[d][l]
    BY <1>4, <1>5, <1>7, <2>1, <2>2, KernelTableAdded
  <2> QED BY <1>7, <1>5, <2>1, <2>4
<1>9. /\ SoundIn(s4, M) /\ s4 \in Memories /\ Kept(s3.mem, s4.mem, M) /\ Mapped(s4.mem, d, 2)
      /\ s4.mem[d][UserTable] = Null
      /\ Cardinality(Frames \ s4.bitmap) >= k + 1
  <2>1. Malloc(s3.bitmap) \in Frames /\ Cardinality(Frames \ Taken(s3.bitmap)) >= k + 1
    <3>1. k + 1 \in Nat /\ k + 2 = (k + 1) + 1
      OBVIOUS
    <3> QED BY <1>6, <1>8, <3>1
  <2>2. UserTable # 0 /\ UserTable # 1 /\ UserTable # 2
    BY DEF UserTable
  <2>3. s4 = CreateKernelTable(2, d, s3) /\ s3.mem[d][2] = Null
    BY <1>5, <1>8 DEF s4
  <2>4. /\ SoundIn(s4, M) /\ s4 \in Memories /\ s4.bitmap = Taken(s3.bitmap)
        /\ Kept(s3.mem, s4.mem, M) /\ Mapped(s4.mem, d, 2)
        /\ \A l \in Index : l # 2 => s4.mem[d][l] = s3.mem[d][l]
    BY <1>4, <1>5, <1>8, <2>1, <2>2, <2>3, KernelTableAdded
  <2> QED BY <1>8, <1>5, <2>1, <2>4
<1>10. /\ SoundIn(u, M) /\ u \in Memories /\ Kept(s4.mem, u.mem, M)
       /\ u.mem[d][UserTable] # Null
       /\ Cardinality(Frames \ u.bitmap) >= k
  <2>1. Malloc(s4.bitmap) \in Frames /\ Cardinality(Frames \ Taken(s4.bitmap)) >= k
    BY <1>6, <1>9
  <2>4. /\ SoundIn(u, M) /\ u \in Memories /\ u.bitmap = Taken(s4.bitmap)
        /\ Kept(s4.mem, u.mem, M) /\ u.mem[d][UserTable] = Malloc(s4.bitmap)
    BY <1>1, <1>4, <1>9, <2>1, UserTableAdded
  <2> QED BY <2>1, <2>4, Numbers
<1>11. Complete(u.mem, d)
  BY <1>4, <1>5, <1>7, <1>8, <1>9, <1>10 DEF Complete, Kept
<1>12. Kept(s.mem, u.mem, L)
  BY <1>4, <1>7, <1>8, <1>9, <1>10 DEF Kept
<1> QED BY <1>2, <1>10, <1>11, <1>12 DEF d, M

\* create_page() called for one page after the other, in the user table of d.
LEMMA PagesAdded ==
  ASSUME NEW s \in Memories, NEW L, SoundIn(s, L), NEW d \in L, s.mem[d][UserTable] # Null,
         NEW i \in Int, NEW n \in Nat, InUserTable(i, n),
         NEW u, u = CreatePages(i, n, s.mem[d][UserTable], s)
  PROVE  /\ SoundIn(u, L) /\ u \in Memories /\ Kept(s.mem, u.mem, L)
<1> DEFINE t == s.mem[d][UserTable]
           Pages(g, l) == g = [k \in 0 .. l |-> IF k = 0 THEN s ELSE CreateEntry(i + k - 1, t, g[k - 1])]
           after == CHOOSE g : Pages(g, n)
<1>1. u = after[n]
  BY DEF CreatePages
<1>2. \E g : Pages(g, n)
  <2> DEFINE S == {l \in 0 .. n : \E g : Pages(g, l)}
  <2>1. 0 \in S
    <3>1. Pages([k \in 0 .. 0 |-> s], 0)
      OBVIOUS
    <3> HIDE DEF Pages
    <3> QED BY <3>1
  <2>2. ASSUME NEW l \in 0 .. n - 1, l \in S PROVE l + 1 \in S
    <3>1. PICK g : Pages(g, l)
      BY <2>2
    <3> DEFINE h == [k \in 0 .. l + 1 |-> IF k = l + 1 THEN CreateEntry(i + k - 1, t, g[k - 1]) ELSE g[k]]
    <3>2. /\ DOMAIN h = 0 .. l + 1 /\ l + 1 # 0
          /\ h[l + 1] = CreateEntry(i + (l + 1) - 1, t, g[(l + 1) - 1])
          /\ \A k \in 0 .. l : h[k] = g[k]
      OBVIOUS
    <3>3. \A k \in 0 .. l : g[k] = IF k = 0 THEN s ELSE CreateEntry(i + k - 1, t, g[k - 1])
      BY <3>1
    <3>4. Pages(h, l + 1)
      <4>1. \A k \in 0 .. l + 1 : h[k] = IF k = 0 THEN s ELSE CreateEntry(i + k - 1, t, h[k - 1])
        <5> TAKE k \in 0 .. l + 1
        <5>1. CASE k = l + 1
          BY <3>2, <5>1
        <5>2. CASE k \in 0 .. l
          <6>1. k # 0 => k - 1 \in 0 .. l
            BY <5>2
          <6> QED BY <3>2, <3>3, <5>2, <6>1
        <5> QED BY <5>1, <5>2
      <4> QED BY <4>1
    <3>5. l + 1 \in 0 .. n
      OBVIOUS
    <3> HIDE DEF Pages
    <3> QED BY <3>4, <3>5
  <2>3. n \in S
    <3> HIDE DEF S
    <3> QED BY <2>1, <2>2, UpTo
  <2> QED BY <2>3
<1>3. Pages(after, n)
  BY <1>2
<1> HIDE DEF after
<1>4. after[0] = s /\ \A k \in 0 .. n - 1 : after[k + 1] = CreateEntry(i + k, t, after[k])
  <2>1. \A k \in 0 .. n : after[k] = IF k = 0 THEN s ELSE CreateEntry(i + k - 1, t, after[k - 1])
    BY <1>3
  <2>2. \A k \in 0 .. n - 1 : k + 1 \in 0 .. n /\ k + 1 # 0 /\ i + (k + 1) - 1 = i + k /\ (k + 1) - 1 = k
    OBVIOUS
  <2> QED BY <2>1, <2>2
<1> DEFINE Right(v) == SoundIn(v, L) /\ v \in Memories /\ Kept(s.mem, v.mem, L)
           S == {k \in 0 .. n : Right(after[k])}
<1>5. 0 \in S
  BY <1>4 DEF Kept
<1>6. ASSUME NEW k \in 0 .. n - 1, k \in S PROVE k + 1 \in S
  <2> DEFINE v == after[k]
             w == CreateEntry(i + k, t, v)
  <2>1. SoundIn(v, L) /\ v \in Memories /\ Kept(s.mem, v.mem, L) /\ after[k + 1] = w
    BY <1>4, <1>6
  <2>2. t = v.mem[d][UserTable] /\ t # Null /\ i + k \in Index
    <3>1. i + k \in i .. i + n - 1
      OBVIOUS
    <3> QED BY <2>1, <3>1 DEF Kept, InUserTable
  <2> HIDE DEF v, t
  <2>3. SoundIn(w, L) /\ w \in Memories /\ Kept(v.mem, w.mem, L)
    BY <2>1, <2>2, EntryAdded
  <2>4. Kept(s.mem, w.mem, L)
    BY <2>1, <2>3 DEF Kept
  <2> QED BY <2>1, <2>3, <2>4
<1>7. n \in S
  <2> HIDE DEF S
  <2> QED BY <1>5, <1>6, UpTo
<1> QED BY <1>1, <1>7

-----------------------------------------------------------------------------
(***************************************************************************)
(* The invariant of the specification                                      *)
(***************************************************************************)
IInv ==
  /\ Sound(mem, bitmap, Live)
  /\ \A d \in Live : Complete(mem, d)
  /\ boot \in Frames
  /\ cr3 \in [Procs -> Frames \cup {Null}]
  /\ heapEnd \in [Procs -> -MaxPages .. Entries]
  /\ created \in 0 .. Cardinality(Procs)
  /\ strayed \in BOOLEAN
  /\ \A p \in Procs : cr3[p] # boot /\ (p > created => cr3[p] = Null)
  /\ \A p, q \in Procs : cr3[p] # Null /\ cr3[p] = cr3[q] => p = q

LEMMA InvTypes == IInv => TypeOK
BY DEF IInv, TypeOK, Sound, Contents

\* Two uses of a frame are the same place of the same directory.
LEMMA InvExclusive == IInv => FramesExclusive
<1> SUFFICES ASSUME IInv, NEW f \in Frames
             PROVE  LET users == UNION {{<<d, u>> : u \in Uses(d, f)} : d \in Live}
                    IN  /\ Cardinality(users) <= 1
                        /\ users # {} => f \in bitmap
  BY DEF FramesExclusive
<1> DEFINE users == UNION {{<<d, u>> : u \in Uses(d, f)} : d \in Live}
           PlaceOf(n) == IF n = -1 THEN <<"directory">>
                         ELSE IF n <= UserTable THEN <<"table", n>>
                         ELSE <<"page", UserTable, n - 4>>
<1>1. /\ Exclusive(mem, bitmap, Live) /\ mem[Null] = Zero
      /\ \A d \in Live, i \in Index : i > UserTable => mem[d][i] = Null
  <2>1. \A i \in Index : i > UserTable => ~(i <= UserTable)
    BY Numbers DEF Index, UserTable
  <2> QED BY <2>1 DEF IInv, Sound
<1>2. ASSUME NEW x \in users
      PROVE  \E d \in Live, n \in Places : Used(mem, d, n) = f /\ x = <<d, PlaceOf(n)>>
  <2>0. PICK d \in Live : \E v \in Uses(d, f) : x = <<d, v>>
    BY <1>2
  <2>1. PICK u \in Uses(d, f) : x = <<d, u>>
    BY <2>0
  <2>2. CASE u = <<"directory">> /\ d = f
    BY <2>1, <2>2, UsedIs, Numbers DEF Places
  <2>3. ASSUME NEW i \in Index, u = <<"table", i>>, mem[d][i] = f
        PROVE  \E n \in Places : Used(mem, d, n) = f /\ x = <<d, PlaceOf(n)>>
    <3>1. i \in 0 .. UserTable /\ i # -1 /\ i <= UserTable
      BY <1>1, <2>3, Numbers DEF Index, UserTable
    <3>2. PlaceOf(i) = <<"table", i>>
      BY <3>1
    <3> HIDE DEF PlaceOf
    <3>3. i \in Places /\ Used(mem, d, i) = f
      BY <2>3, <3>1, UsedIs
    <3> QED BY <2>1, <2>3, <3>2, <3>3
  <2>4. ASSUME NEW i \in DestroyedTables, NEW j \in Index, u = <<"page", i, j>>,
               mem[d][i] # Null, mem[mem[d][i]][j] = f
        PROVE  \E n \in Places : Used(mem, d, n) = f /\ x = <<d, PlaceOf(n)>>
    <3>1. i = UserTable
      BY <1>1, <2>4, Numbers DEF DestroyedTables, Index, UserTable
    <3>2. j + 4 # -1 /\ ~(j + 4 <= UserTable) /\ (j + 4) - 4 = j
      BY Numbers DEF Index, UserTable
    <3>3. PlaceOf(j + 4) = <<"page", i, j>>
      BY <3>1, <3>2
    <3> HIDE DEF PlaceOf
    <3>4. j + 4 \in Places /\ Used(mem, d, j + 4) = f
      BY <2>4, <3>1, UsedIs
    <3> QED BY <2>1, <2>4, <3>3, <3>4
  <2>5. \/ u = <<"directory">> /\ d = f
        \/ \E i \in Index : u = <<"table", i>> /\ mem[d][i] = f
        \/ \E i \in DestroyedTables, j \in Index :
             u = <<"page", i, j>> /\ mem[d][i] # Null /\ mem[mem[d][i]][j] = f
    BY DEF Uses, DestroyedTables
  <2> QED BY <2>2, <2>3, <2>4, <2>5
<1> HIDE DEF users, PlaceOf
<1>3. \A x, y \in users : x = y
  BY <1>1, <1>2 DEF Exclusive
<1>4. users # {} => f \in bitmap
  BY <1>1, <1>2 DEF Exclusive
<1>5. Cardinality(users) <= 1
  <2>1. CASE users = {}
    BY <2>1, FS_EmptySet
  <2>2. ASSUME NEW x \in users PROVE Cardinality(users) <= 1
    <3>1. users = {x}
      BY <1>3
    <3>2. Cardinality({x}) = 1
      BY FS_Singleton
    <3>3. Cardinality(users) = 1
      BY <3>1, <3>2
    <3> QED BY <3>3
  <2> QED BY <2>1, <2>2
<1> QED BY <1>4, <1>5 DEF users

LEMMA InvMapped == IInv => KernelMapped
BY DEF IInv, KernelMapped, Complete, Mapped

LEMMA InitInv == Init => IInv
<1> SUFFICES ASSUME Init PROVE IInv
  OBVIOUS
<1> DEFINE s == [mem |-> [f \in Frames \cup {Null} |-> Zero], bitmap |-> {}]
           u == DefaultDirectory(s)
<1>1. s \in Memories
  BY DEF Memories, Contents, Zero, Entry
<1>2. SoundIn(s, {})
  BY <1>1 DEF SoundIn, Sound, Memories, Exclusive
<1>3. Cardinality(Frames \ s.bitmap) >= 0 + 5
  <2>1. Cardinality(1 .. FrameCount) = FrameCount
    BY Numbers, FS_Interval
  <2>2. Frames \ s.bitmap = 1 .. FrameCount
    BY DEF Frames
  <2>3. Cardinality(Frames \ s.bitmap) = FrameCount
    BY <2>1, <2>2
  <2> QED BY <2>3, Numbers
<1>4. bitmap = u.bitmap /\ mem = u.mem /\ boot = Malloc(s.bitmap)
  BY DEF Init
<1> HIDE DEF s, u
<1>5. /\ Malloc(s.bitmap) \in Frames \ s.bitmap
      /\ SoundIn(u, {} \cup {Malloc(s.bitmap)}) /\ Complete(u.mem, Malloc(s.bitmap))
  BY <1>1, <1>2, <1>3, DirectoryMade DEF u
<1>6. \A p \in Procs : cr3[p] = Null
  BY DEF Init
<1>7. Live = {boot} /\ boot # Null
  BY <1>4, <1>5, <1>6, Numbers DEF Live
<1>8. Sound(mem, bitmap, Live) /\ \A d \in Live : Complete(mem, d)
  BY <1>4, <1>5, <1>7 DEF SoundIn
<1>9. /\ cr3 \in [Procs -> Frames \cup {Null}] /\ strayed \in BOOLEAN
      /\ heapEnd \in [Procs -> -MaxPages .. Entries] /\ created \in 0 .. Cardinality(Procs)
  <2>1. Cardinality(Procs) \in Nat
    BY PagingAssumption, FS_CardinalityType
  <2>2. 0 \in -MaxPages .. Entries /\ 0 \in 0 .. Cardinality(Procs)
    BY <2>1, PagingAssumption
  <2>3. /\ cr3 = [p \in Procs |-> Null] /\ heapEnd = [p \in Procs |-> 0]
        /\ created = 0 /\ strayed = FALSE
    BY DEF Init
  <2> QED BY <2>2, <2>3
<1> QED BY <1>4, <1>5, <1>6, <1>7, <1>8, <1>9 DEF IInv

\* What the memory of a process that has just been created must be like.
Ready(s) ==
  LET d == Malloc(bitmap)
  IN  /\ s \in Memories /\ SoundIn(s, Live \cup {d}) /\ Kept(mem, s.mem, Live)
      /\ d \in Frames \ bitmap /\ Complete(s.mem, d)

LEMMA NewProcessInv ==
  ASSUME IInv, NEW s, Ready(s), NewProcess(s)
  PROVE  IInv'
<1> DEFINE d == Malloc(bitmap)
           p == created + 1
<1>1. /\ p \in Procs /\ created' = p /\ cr3' = [cr3 EXCEPT ![p] = d]
      /\ heapEnd' = [heapEnd EXCEPT ![p] = HeapStart]
      /\ bitmap' = s.bitmap /\ mem' = s.mem /\ boot' = boot /\ strayed' = strayed
  BY DEF NewProcess, CanCreate
<1>2. /\ cr3 \in [Procs -> Frames \cup {Null}] /\ heapEnd \in [Procs -> -MaxPages .. Entries]
      /\ created \in 0 .. Cardinality(Procs) /\ Procs = 1 .. Cardinality(Procs)
      /\ Cardinality(Procs) \in Nat
  BY PagingAssumption, FS_CardinalityType DEF IInv
<1>3. d \in Frames /\ d \notin Live /\ d # Null /\ d # boot
  BY Allocated, Numbers DEF IInv, Ready, Live
<1>4. cr3[p] = Null /\ \A q \in Procs : q # p => cr3'[q] = cr3[q]
  BY <1>1, <1>2 DEF IInv
<1>5. cr3'[p] = d /\ cr3' \in [Procs -> Frames \cup {Null}]
  BY <1>1, <1>2, <1>3
<1>6. Live' = Live \cup {d}
  BY <1>1, <1>3, <1>4, <1>5 DEF Live
<1>7. Sound(mem, bitmap, Live)' /\ \A e \in Live' : Complete(mem', e)
  <2>1. \A e \in Live : Complete(mem', e)
    BY <1>1 DEF Ready, IInv, Complete, Kept
  <2> QED BY <1>1, <1>6, <2>1 DEF Ready, SoundIn
<1>8. /\ heapEnd' \in [Procs -> -MaxPages .. Entries] /\ created' \in 0 .. Cardinality(Procs)
      /\ boot' \in Frames /\ strayed' \in BOOLEAN
  BY <1>1, <1>2, PagingAssumption DEF IInv
<1>9. \A q \in Procs : cr3'[q] # boot /\ (q > created' => cr3'[q] = Null)
  <2> TAKE q \in Procs
  <2>1. CASE q = p
    BY <1>1, <1>2, <1>3, <1>5, <2>1
  <2>2. CASE q # p
    BY <1>1, <1>2, <1>4, <2>2 DEF IInv
  <2> QED BY <2>1, <2>2
<1>10. \A q, r \in Procs : cr3'[q] # Null /\ cr3'[q] = cr3'[r] => q = r
  <2>1. \A q \in Procs : q # p => cr3'[q] # d
    BY <1>3, <1>4 DEF Live
  <2> QED BY <1>4, <1>5, <2>1 DEF IInv
<1> QED BY <1>1, <1>5, <1>7, <1>8, <1>9, <1>10 DEF IInv

LEMMA StackReady ==
  ASSUME IInv, Room
  PROVE  /\ Ready(WithStack)
         /\ LET t == WithStack.mem[Malloc(bitmap)][UserTable]
            IN  t = DefaultDirectory(Memory).mem[Malloc(bitmap)][UserTable]
<1> DEFINE d == Malloc(bitmap)
           u == DefaultDirectory(Memory)
           t == u.mem[d][UserTable]
<1>1. /\ Memory \in Memories /\ SoundIn(Memory, Live)
      /\ Memory.bitmap = bitmap /\ Memory.mem = mem
  BY DEF Memory, Memories, IInv, SoundIn, Sound
<1>2. Cardinality(Frames \ Memory.bitmap) >= 1 + 5
  BY <1>1 DEF Room
<1>3. WithStack = CreateEntry(0, t, u)
  BY DEF WithStack
<1> HIDE DEF u, d
<1>4. /\ d \in Frames \ bitmap /\ SoundIn(u, Live \cup {d}) /\ u \in Memories
      /\ Kept(mem, u.mem, Live) /\ Complete(u.mem, d)
  BY <1>1, <1>2, DirectoryMade DEF u, d
<1>5. t # Null /\ 0 \in Index
  BY <1>4, Numbers DEF Complete, UserTable
<1>6. /\ SoundIn(WithStack, Live \cup {d}) /\ WithStack \in Memories
      /\ Kept(u.mem, WithStack.mem, Live \cup {d})
  <2>1. d \in Live \cup {d} /\ t = u.mem[d][UserTable]
    OBVIOUS
  <2> HIDE DEF t
  <2> QED BY <1>3, <1>4, <1>5, <2>1, EntryAdded
<1>7. Kept(mem, WithStack.mem, Live) /\ Complete(WithStack.mem, d)
  BY <1>4, <1>6 DEF Kept, Complete
<1>8. WithStack.mem[d][UserTable] = t
  BY <1>5, <1>6 DEF Kept
<1> QED BY <1>4, <1>6, <1>7, <1>8 DEF Ready, d, u

LEMMA CreateInv == IInv /\ Create => IInv'
<1> SUFFICES ASSUME IInv, Create PROVE IInv'
  OBVIOUS
<1> QED BY StackReady, NewProcessInv DEF Create, NewProcess, CanCreate

LEMMA ExecveInv == IInv /\ Execve => IInv'
<1> SUFFICES ASSUME IInv, Execve PROVE IInv'
  OBVIOUS
<1> DEFINE d == Malloc(bitmap)
           t == WithStack.mem[d][UserTable]
<1>1. PICK i \in Anywhere, bss \in Anywhere, n \in 0 .. MaxPages :
        /\ InUserTable(i, n) /\ InUserTable(bss, 1)
        /\ NewProcess(CreateEntry(bss, t, CreatePages(i, n, t, WithStack)))
  BY DEF Execve
<1>2. Ready(WithStack)
  BY <1>1, StackReady DEF NewProcess, CanCreate
<1> DEFINE v == CreatePages(i, n, t, WithStack)
           w == CreateEntry(bss, t, v)
<1>3. i \in Int /\ n \in Nat /\ bss \in Index
  <2>1. i \in Int /\ n \in Nat /\ bss \in bss .. bss + 1 - 1
    BY PagingAssumption DEF Anywhere
  <2> QED BY <1>1, <2>1 DEF InUserTable
<1>4. NewProcess(w)
  BY <1>1
<1> HIDE DEF d, v, w
<1>5. /\ WithStack \in Memories /\ SoundIn(WithStack, Live \cup {d}) /\ t # Null
      /\ Kept(mem, WithStack.mem, Live) /\ d \in Frames \ bitmap
      /\ Complete(WithStack.mem, d)
  BY <1>2 DEF Ready, Complete, d
<1>6. /\ SoundIn(v, Live \cup {d}) /\ v \in Memories
      /\ Kept(WithStack.mem, v.mem, Live \cup {d})
  BY <1>1, <1>3, <1>5, PagesAdded DEF v
<1>7. t = v.mem[d][UserTable]
  BY <1>5, <1>6 DEF Kept
<1> HIDE DEF t
<1>8. /\ SoundIn(w, Live \cup {d}) /\ w \in Memories
      /\ Kept(v.mem, w.mem, Live \cup {d})
  <2>1. d \in Live \cup {d}
    OBVIOUS
  <2> QED BY <1>3, <1>5, <1>6, <1>7, <2>1, EntryAdded DEF w
<1>9. Kept(mem, w.mem, Live) /\ Complete(w.mem, d)
  BY <1>5, <1>6, <1>8 DEF Kept, Complete
<1>10. Ready(w)
  BY <1>5, <1>8, <1>9 DEF Ready, d
<1> QED BY <1>4, <1>10, NewProcessInv

LEMMA SbrkInv == ASSUME IInv, NEW p \in Procs, Sbrk(p) PROVE IInv'
<1> DEFINE d == cr3[p]
           N(num) == IF num > 0 THEN num ELSE 0
           S(num) == CreatePages(heapEnd[p], N(num), mem[d][UserTable], Memory)
<1>1. PICK num \in -MaxPages .. MaxPages \ {0} :
        /\ cr3[p] # Null
        /\ InUserTable(heapEnd[p], N(num)) /\ heapEnd[p] + num >= -MaxPages
        /\ bitmap' = S(num).bitmap /\ mem' = S(num).mem
        /\ heapEnd' = [heapEnd EXCEPT ![p] = @ + num]
        /\ UNCHANGED <<boot, cr3, created, strayed>>
  BY DEF Sbrk
<1> DEFINE n == N(num)
           s == S(num)
<1>2. /\ num \in Int /\ heapEnd \in [Procs -> -MaxPages .. Entries] /\ heapEnd[p] \in Int
      /\ n \in Nat /\ InUserTable(heapEnd[p], n)
      /\ heapEnd[p] + num \in -MaxPages .. Entries
  <2>1. /\ num \in Int /\ heapEnd \in [Procs -> -MaxPages .. Entries]
        /\ heapEnd[p] \in Int /\ heapEnd[p] <= Entries /\ n \in Nat
    BY <1>1, PagingAssumption DEF IInv
  <2>2. num > 0 => heapEnd[p] + num <= Entries
    <3> SUFFICES ASSUME num > 0 PROVE heapEnd[p] + num <= Entries
      OBVIOUS
    <3>1. heapEnd[p] + num - 1 \in heapEnd[p] .. heapEnd[p] + num - 1
      BY <2>1
    <3> QED BY <1>1, <2>1, <3>1, Numbers DEF InUserTable, Index
  <2> QED BY <1>1, <2>1, <2>2, PagingAssumption
<1>3. /\ Memory \in Memories /\ SoundIn(Memory, Live)
      /\ Memory.mem = mem
  BY DEF Memory, Memories, IInv, SoundIn, Sound
<1>4. d \in Live /\ mem[d][UserTable] # Null
  BY <1>1 DEF Live, IInv, Complete
<1>5. bitmap' = s.bitmap /\ mem' = s.mem
  BY <1>1
<1> HIDE DEF d, n, s
<1>6. SoundIn(s, Live) /\ Kept(mem, s.mem, Live)
  BY <1>2, <1>3, <1>4, PagesAdded DEF s, n, d
<1>7. Live' = Live
  BY <1>1 DEF Live
<1>8. Sound(mem, bitmap, Live)' /\ \A e \in Live' : Complete(mem', e)
  BY <1>5, <1>6, <1>7 DEF SoundIn, IInv, Complete, Kept
<1>9. heapEnd' \in [Procs -> -MaxPages .. Entries]
  BY <1>1, <1>2
<1> QED BY <1>1, <1>8, <1>9 DEF IInv

\* A stray is only noted.
LEMMA StrayInv == ASSUME IInv, Stray PROVE IInv'
BY DEF IInv, Stray, Live

\* The frames of a process are the places -1, 3, 4, ... of its directory.
LEMMA FramesOf ==
  ASSUME IInv, NEW p \in Procs, cr3[p] # Null
  PROVE  LET d == cr3[p]
             t == mem[d][UserTable]
         IN  /\ d \in Live /\ d \in Frames /\ t \in Frames /\ d # t /\ Tables(d) = {UserTable}
             /\ \A j \in Index : mem[t][j] # d /\ mem[t][j] # t
             /\ \A j, k \in Index : mem[t][j] \in Frames /\ mem[t][j] = mem[t][k] => j = k
             /\ UserFrames(p) = {d, t} \cup {mem[t][j] : j \in {i \in Index : mem[t][i] \in Frames}}
             /\ UserFrames(p) \subseteq bitmap
             /\ \A e \in Live, k \in Places : Used(mem, e, k) \in UserFrames(p) => e = d
<1> DEFINE d == cr3[p]
           t == mem[d][UserTable]
           P == {-1, UserTable} \cup {j + 4 : j \in Index}
<1>1. d \in Live /\ t # Null
  BY DEF Live, IInv, Complete
<1>2. /\ Exclusive(mem, bitmap, Live) /\ Live \subseteq Frames
      /\ \A i \in Index : i # UserTable /\ i \in DestroyedTables => mem[d][i] = Null
      /\ t \in Frames
  <2>1. \A i \in Index : i # UserTable /\ i \in DestroyedTables => ~(i <= UserTable)
    BY Numbers DEF Index, UserTable, DestroyedTables
  <2>2. UserTable \in Index /\ UserTable <= UserTable
    BY Numbers DEF UserTable
  <2> QED BY <1>1, <2>1, <2>2 DEF IInv, Sound
<1>3. Tables(d) = {UserTable}
  <2>1. UserTable \in DestroyedTables /\ DestroyedTables \subseteq Index
    BY Numbers DEF DestroyedTables, UserTable, Index
  <2> QED BY <1>1, <1>2, <2>1 DEF Tables
<1>4. /\ Used(mem, d, -1) = d /\ Used(mem, d, UserTable) = t /\ -1 \in Places
      /\ UserTable \in Places /\ UserTable # -1
      /\ \A j \in Index : /\ j + 4 \in Places /\ Used(mem, d, j + 4) = mem[t][j]
                          /\ j + 4 # -1 /\ j + 4 # UserTable
      /\ \A j, k \in Index : j + 4 = k + 4 => j = k
  <2>1. UserTable \in 0 .. UserTable /\ -1 \in Places /\ UserTable # -1
    BY Numbers DEF UserTable, Places
  <2>2. \A j \in Index : j + 4 # -1 /\ j + 4 # UserTable
    BY Numbers DEF UserTable, Index
  <2>3. \A j, k \in Index : j + 4 = k + 4 => j = k
    BY Numbers DEF Index
  <2> QED BY <2>1, <2>2, <2>3, UsedIs
<1>5. d # t /\ \A j \in Index : mem[t][j] # d /\ mem[t][j] # t
  BY <1>1, <1>2, <1>4 DEF Exclusive
<1>6. \A j, k \in Index : mem[t][j] \in Frames /\ mem[t][j] = mem[t][k] => j = k
  BY <1>1, <1>2, <1>4 DEF Exclusive
<1>7. UserFrames(p) = {d, t} \cup {mem[t][j] : j \in {i \in Index : mem[t][i] \in Frames}}
  BY DEF UserFrames
<1>8. \A f \in UserFrames(p) : f \in Frames /\ \E n \in Places : f = Used(mem, d, n)
  BY <1>1, <1>2, <1>4, <1>7
<1>9. /\ UserFrames(p) \subseteq bitmap
      /\ \A e \in Live, k \in Places : Used(mem, e, k) \in UserFrames(p) => e = d
  BY <1>1, <1>2, <1>8 DEF Exclusive
<1> QED BY <1>1, <1>2, <1>3, <1>5, <1>6, <1>7, <1>9

\* destroy_directory() frees every one of them once, and nothing else.
LEMMA FreedOnce ==
  ASSUME IInv, NEW p \in Procs, cr3[p] # Null
  PROVE  Freed(bitmap, TimesFreed(cr3[p])) = bitmap \ UserFrames(p)
<1> DEFINE d == cr3[p]
           t == mem[d][UserTable]
<1>1. /\ d \in Frames /\ t \in Frames /\ d # t /\ Tables(d) = {UserTable}
      /\ \A j \in Index : mem[t][j] # d /\ mem[t][j] # t
      /\ \A j, k \in Index : mem[t][j] \in Frames /\ mem[t][j] = mem[t][k] => j = k
      /\ UserFrames(p) = {d, t} \cup {mem[t][j] : j \in {i \in Index : mem[t][i] \in Frames}}
      /\ UserFrames(p) \subseteq bitmap
  BY FramesOf
<1>2. bitmap \subseteq Frames
  BY DEF IInv, Sound
<1> HIDE DEF d
<1>3. ASSUME NEW f \in Frames
      PROVE  TimesFreed(d)[f] = IF f \in UserFrames(p) THEN 1 ELSE 0
  <2> DEFINE A == {e \in Tables(d) \X Index : mem[mem[d][e[1]]][e[2]] = f}
             B == {i \in Tables(d) : mem[d][i] = f}
             C == IF f = d THEN 1 ELSE 0
  <2>1. TimesFreed(d)[f] = Cardinality(A) + Cardinality(B) + C
    BY DEF TimesFreed
  <2>2. A = {<<UserTable, j>> : j \in {i \in Index : mem[t][i] = f}}
    BY <1>1
  <2>3. B = IF f = t THEN {UserTable} ELSE {}
    BY <1>1
  <2> HIDE DEF t, A, B
  <2>4. /\ Cardinality({}) = 0 /\ \A x : Cardinality({x}) = 1
    BY FS_EmptySet, FS_Singleton
  <2>5. Cardinality(B) = IF f = t THEN 1 ELSE 0
    BY <2>3, <2>4
  <2>6. CASE f = d \/ f = t
    <3>1. A = {} /\ f \in UserFrames(p)
      BY <1>1, <2>2, <2>6
    <3>2. Cardinality(A) = 0
      BY <2>4, <3>1
    <3> QED BY <1>1, <2>1, <2>5, <2>6, <3>1, <3>2
  <2>7. ASSUME f # d, f # t, NEW j \in Index, f = mem[t][j]
        PROVE  TimesFreed(d)[f] = IF f \in UserFrames(p) THEN 1 ELSE 0
    <3>1. f \in UserFrames(p)
      BY <1>1, <2>7
    <3>2. A = {<<UserTable, j>>}
      BY <1>1, <2>2, <2>7
    <3>3. Cardinality(A) = 1
      BY <2>4, <3>2
    <3> QED BY <2>1, <2>5, <2>7, <3>1, <3>3
  <2>8. CASE f # d /\ f # t /\ \A j \in Index : f # mem[t][j]
    <3>1. A = {} /\ f \notin UserFrames(p)
      BY <1>1, <2>2, <2>8
    <3>2. Cardinality(A) = 0
      BY <2>4, <3>1
    <3> QED BY <2>1, <2>5, <2>8, <3>1, <3>2
  <2> QED BY <2>6, <2>7, <2>8
<1>4. \A f \in Frames : TimesFreed(d)[f] % 2 = 1 <=> f \in UserFrames(p)
  <2>1. 0 % 2 = 0 /\ 1 % 2 = 1
    OBVIOUS
  <2> QED BY <1>3, <2>1
<1> QED BY <1>1, <1>2, <1>4 DEF Freed, d

LEMMA DestroyInv == ASSUME IInv, NEW p \in Procs, Destroy(p) PROVE IInv'
<1> DEFINE d == cr3[p]
           t == mem[d][UserTable]
           U == UserFrames(p)
<1>1. /\ d # Null /\ bitmap' = Freed(bitmap, TimesFreed(d))
      /\ mem' = [f \in Frames \cup {Null} |->
                   IF f = d
                     THEN [i \in Index |-> IF i \in Tables(d) THEN Null ELSE mem[d][i]]
                   ELSE IF \E i \in Tables(d) : mem[d][i] = f
                     THEN [j \in Index |-> Cleared(mem[f][j])]
                   ELSE mem[f]]
      /\ cr3' = [cr3 EXCEPT ![p] = Null]
      /\ UNCHANGED <<boot, heapEnd, created, strayed>>
  BY DEF Destroy
<1>2. /\ d \in Live /\ d \in Frames /\ t \in Frames /\ d # t /\ Tables(d) = {UserTable}
      /\ U \subseteq bitmap /\ d \in U /\ t \in U
      /\ \A e \in Live, k \in Places : Used(mem, e, k) \in U => e = d
  <2>1. /\ d \in Live /\ d \in Frames /\ t \in Frames /\ d # t /\ Tables(d) = {UserTable}
        /\ U = {d, t} \cup {mem[t][j] : j \in {i \in Index : mem[t][i] \in Frames}}
        /\ U \subseteq bitmap
        /\ \A e \in Live, k \in Places : Used(mem, e, k) \in U => e = d
    BY <1>1, FramesOf
  <2> HIDE DEF U, t
  <2> QED BY <2>1
<1>3. /\ bitmap' = bitmap \ U
      /\ mem' \in [Frames \cup {Null} -> [Index -> Entry]]
      /\ \A f \in Frames \cup {Null} : f # d /\ f # t => mem'[f] = mem[f]
  <2>1. mem \in [Frames \cup {Null} -> [Index -> Entry]]
    BY DEF IInv, Sound, Contents
  <2>2. \A x \in Entry : Cleared(x) \in Entry
    BY DEF Cleared, Entry
  <2>3. Null \in Entry
    BY DEF Entry
  <2> QED BY <1>1, <1>2, <2>1, <2>2, <2>3, FreedOnce
<1>4. /\ cr3 \in [Procs -> Frames \cup {Null}] /\ boot # d /\ boot \in Frames
      /\ \A q \in Procs : q # p => cr3[q] # d
      /\ \A q \in Procs : cr3'[q] = IF q = p THEN Null ELSE cr3[q]
  BY <1>1 DEF IInv
<1>5. Live' = Live \ {d}
  BY <1>1, <1>4, Numbers DEF Live
<1> HIDE DEF d, t, U
<1>6. /\ Exclusive(mem, bitmap, Live) /\ mem[Null] = Zero /\ Live \subseteq Frames
      /\ bitmap \subseteq Frames
      /\ \A e \in Live, i \in Index :
           IF i <= UserTable THEN mem[e][i] \in Frames \cup {Null} ELSE mem[e][i] = Null
  BY DEF IInv, Sound
<1>7. ASSUME NEW e \in Live'
      PROVE  /\ e \in Live /\ e # d /\ mem'[e] = mem[e]
             /\ \A i \in 0 .. UserTable : mem'[mem[e][i]] = mem[mem[e][i]]
  <2>1. e \in Live /\ e # d /\ UserTable \in 0 .. UserTable
    BY <1>5 DEF UserTable
  <2>2. e # t
    BY <1>2, <2>1, Allocated DEF IInv, t
  <2>3. ASSUME NEW i \in 0 .. UserTable
        PROVE  mem[e][i] \in Frames \cup {Null} /\ mem[e][i] # d /\ mem[e][i] # t
    <3>1. mem[e][i] \in bitmap \cup {Null} /\ mem[e][i] \notin Live
      BY <2>1, Allocated DEF IInv
    <3>2. mem[e][i] # t
      <4>1. Null \notin Frames /\ Sound(mem, bitmap, Live)
        BY Numbers DEF IInv
      <4> QED BY <1>2, <2>1, <4>1, Allocated DEF t
    <3> QED BY <1>2, <1>6, <3>1, <3>2
  <2> QED BY <1>3, <1>6, <2>1, <2>2, <2>3
<1>8. \A e \in Live', n \in Places : Used(mem', e, n) = Used(mem, e, n)
  <2>1. UserTable \in 0 .. UserTable
    BY DEF UserTable
  <2> QED BY <1>7, <2>1 DEF Used
<1>9. Exclusive(mem', bitmap', Live')
  BY <1>2, <1>3, <1>6, <1>7, <1>8 DEF Exclusive
<1>10. Sound(mem, bitmap, Live)'
  <2>1. mem'[Null] = Zero
    BY <1>2, <1>3, <1>6, Numbers
  <2>2. mem' \in Contents
    BY <1>3 DEF Contents
  <2> QED BY <1>3, <1>5, <1>6, <1>7, <1>9, <2>1, <2>2 DEF Sound
<1>11. \A e \in Live' : Complete(mem', e)
  <2>1. \A i \in KernelTables : i \in 0 .. UserTable
    BY DEF KernelTables, UserTable
  <2> QED BY <1>7, <2>1 DEF IInv, Complete, Mapped
<1>12. cr3' \in [Procs -> Frames \cup {Null}]
  BY <1>1 DEF IInv
<1>13. /\ \A q \in Procs : cr3'[q] # boot /\ (q > created => cr3'[q] = Null)
       /\ \A q, r \in Procs : cr3'[q] # Null /\ cr3'[q] = cr3'[r] => q = r
  BY <1>4, Numbers DEF IInv
<1> QED BY <1>1, <1>10, <1>11, <1>12, <1>13 DEF IInv

-----------------------------------------------------------------------------
LEMMA NextInv == IInv /\ [Next]_vars => IInv'
<1> SUFFICES ASSUME IInv, [Next]_vars PROVE IInv'
  OBVIOUS
<1>1. CASE UNCHANGED vars
  BY <1>1 DEF vars, IInv, Live
<1>2. CASE ExecveStrays \/ \E p \in Procs : SbrkStrays(p)
  BY <1>2, StrayInv DEF ExecveStrays, SbrkStrays
<1> QED BY <1>1, <1>2, CreateInv, ExecveInv, SbrkInv, DestroyInv DEF Next

LEMMA Invariant == Spec => []IInv
BY InitInv, NextInv, PTL DEF Spec

(***************************************************************************)
(* The state of paging.c keeps its shape: a frame is in the memory, an     *)
(* entry of a table names a frame, the kernel or nothing, as far as a      *)
(* behaviour is followed: up to a page entered outside the user table.     *)
(***************************************************************************)
THEOREM PagingTypes == Spec => []TypeOK
BY Invariant, InvTypes, PTL

(***************************************************************************)
(* However processes are created, loaded, extended and ended, also when    *)
(* memory runs out, a frame in use is allocated and has one use in one     *)
(* address space, as long as execve() and sbrk() enter their pages in the  *)
(* user table.  Nothing in the code sees to that: the first page elsewhere *)
(* (strayed) ends what is claimed.                                         *)
(***************************************************************************)
THEOREM PagesExclusive == Spec => []FramesExclusive
BY Invariant, InvExclusive, PTL

(***************************************************************************)
(* Every directory that can be loaded maps the kernel: default_directory() *)
(* enters its tables, and no page in the user table, no end of a process   *)
(* and no frame that is used again rewrites them.  A page that execve() or *)
(* sbrk() enters outside the user table may, and ends what is claimed.     *)
(***************************************************************************)
THEOREM KernelStaysMapped == Spec => []KernelMapped
BY Invariant, InvMapped, PTL

(***************************************************************************)
(* free() flips bits and destroy_page() checks nothing, and still the end  *)
(* of a process frees exactly its frames, each of them once, as long as    *)
(* every page was entered in a user table.                                 *)
(***************************************************************************)
THEOREM EndGivesBack == Spec => EndReturnsUserFrames
<1> DEFINE A == \A p \in Procs :
                  ~strayed /\ cr3[p] # Null /\ cr3'[p] = Null =>
                    bitmap' = bitmap \ UserFrames(p)
<1>1. IInv /\ [Next]_vars => [A]_vars
  <2> SUFFICES ASSUME IInv, [Next]_vars, NEW p \in Procs, cr3[p] # Null, cr3'[p] = Null
               PROVE  bitmap' = bitmap \ UserFrames(p) \/ UNCHANGED vars
    OBVIOUS
  <2>1. ASSUME NEW s, NewProcess(s) PROVE FALSE
    <3>1. /\ created + 1 \in Procs /\ cr3 \in [Procs -> Frames \cup {Null}]
          /\ cr3' = [cr3 EXCEPT ![created + 1] = Malloc(bitmap)] /\ Room
      BY <2>1 DEF NewProcess, CanCreate, IInv
    <3>2. Malloc(bitmap) # Null
      BY StackReady, <3>1, Numbers DEF Ready
    <3> QED BY <3>1, <3>2
  <2>2. ASSUME NEW q \in Procs, Sbrk(q) PROVE FALSE
    BY <2>2 DEF Sbrk
  <2>3. ASSUME NEW q \in Procs, Destroy(q) PROVE bitmap' = bitmap \ UserFrames(p)
    <3>1. cr3[q] # Null /\ bitmap' = Freed(bitmap, TimesFreed(cr3[q])) /\ q = p
      BY <2>3 DEF Destroy, IInv
    <3> QED BY <3>1, FreedOnce
  <2>4. ASSUME Stray PROVE FALSE
    BY <2>4 DEF Stray
  <2> QED BY <2>1, <2>2, <2>3, <2>4 DEF Next, Create, Execve, ExecveStrays, SbrkStrays
<1>2. Spec => [][A]_vars
  BY <1>1, Invariant, PTL DEF Spec
<1> QED BY <1>2 DEF EndReturnsUserFrames
=============================================================================
