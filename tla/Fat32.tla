-------------------------------- MODULE Fat32 --------------------------------
(***************************************************************************)
(* Files of kernel/filesystem/fat32.c: looking up a path, loading a file   *)
(* along its cluster chain, and the table of open files, which all         *)
(* processes share.  The disk does not change: nothing writes to it.       *)
(*                                                                         *)
(* A byte on the disk is <<c, s, i>>: byte i of sector s of cluster c.     *)
(* cluster2lba() gives the first sector of a cluster, and the code reads   *)
(* no other one.                                                           *)
(*                                                                         *)
(* open() reads the disk with interrupts enabled, between the test that a  *)
(* descriptor is free and its use; programs may do anything meanwhile.  A  *)
(* second open() that begins there (the same descriptor, the same static   *)
(* __buffer, a clash in the disk driver) ends a behaviour.  The search for *)
(* a free descriptor, read(), lseek() and close() are whole: two of them   *)
(* on one descriptor that the timer cuts into each other are out.  Who     *)
(* calls these operations is in Program.                                   *)
(***************************************************************************)
EXTENDS Integers, Sequences, FiniteSets

CONSTANTS
  SectorSize,   (* bytes of a sector: 512 in the code                      *)
  SectorsPerCluster,    (* of the boot record                              *)
  FatEntries,   (* entries of a sector of the FAT: 128 in the code         *)
  Clusters,     (* clusters of the disk, numbered from 2                   *)
  Fat,          (* the FAT: the cluster behind each cluster                *)
  Root,         (* the cluster of the root directory                       *)
  Directory,    (* the entries that the first sector of a cluster holds if *)
                (* it is read as a directory                               *)
  Paths,        (* paths that programs open, as sequences of names         *)
  FdCount,      (* entries of __files: 32 in the code                      *)
  Lengths,      (* sizes that programs read                                *)
  Positions     (* positions that programs seek, not below zero            *)

ASSUME Fat32Assumption ==
  /\ SectorSize \in Nat \ {0} /\ FatEntries \in Nat \ {0}
  /\ SectorsPerCluster \in Nat \ {0}
  /\ Clusters \subseteq Nat \ {0, 1} /\ Root \in DOMAIN Directory
  /\ Fat \in [Clusters -> Nat]
  /\ \A c \in DOMAIN Directory : Directory[c] \in
       Seq([name : STRING, dated : BOOLEAN, directory : BOOLEAN, cluster : Nat, size : Nat])
  /\ Paths \subseteq Seq(STRING) \ {<<>>}
  /\ FdCount \in Nat /\ FdCount > 3
  /\ Lengths \subseteq Nat /\ Positions \subseteq Nat

Descriptors == 3 .. FdCount - 1

VARIABLES
  held,         (* descriptors whose entry of __files is not null          *)
  file,         (* the open file of each of them                           *)
  opening,      (* the open() that reads the disk: its fd and its path     *)
  overlapped,   (* a second open() has begun while one read the disk       *)
  answer        (* what the last call returned                             *)

table == <<held, file>>
opens == <<opening, overlapped>>
vars  == <<table, opens, answer>>

-----------------------------------------------------------------------------
(***************************************************************************)
(* locate(): the first entry of that name in the first sector of a         *)
(* directory.  The search ends at an entry without a creation date, and    *)
(* nowhere else: a sector without one, which it would run past, is out.    *)
(***************************************************************************)
ASSUME SearchAssumption ==
  \A c \in DOMAIN Directory : \E i \in DOMAIN Directory[c] : ~Directory[c][i].dated

Located(c, name) ==
  {i \in DOMAIN Directory[c] :
     /\ Directory[c][i].name = name
     /\ \A j \in 1 .. i : Directory[c][j].dated
     /\ \A j \in 1 .. i - 1 : Directory[c][j].name # name}

(***************************************************************************)
(* The loop of open() over the components of a path.  Walk(path)[k] is     *)
(* where component k is looked up: in the cluster of the entry before it,  *)
(* which may be a file as well, or nowhere if there is none.               *)
(***************************************************************************)
Nowhere == -1

Walk(path) ==
  LET walk[k \in 1 .. Len(path)] ==
        IF k = 1 THEN Root
        ELSE LET c == walk[k - 1] IN
             IF c # Nowhere /\ Located(c, path[k - 1]) # {}
               THEN Directory[c][CHOOSE i \in Located(c, path[k - 1]) : TRUE].cluster
               ELSE Nowhere
  IN  walk

\* Directory says what is read wherever a path leads.
ASSUME WalkAssumption ==
  \A path \in Paths : \A k \in 1 .. Len(path) :
    Walk(path)[k] \in DOMAIN Directory \cup {Nowhere}

Entries(path) ==        \* what the path names: one file or nothing
  LET c == Walk(path)[Len(path)] IN
  IF c = Nowhere THEN {}
  ELSE {e \in {Directory[c][i] : i \in Located(c, path[Len(path)])} : ~e.directory}

(***************************************************************************)
(* load_file(): the first sector of each cluster, the next cluster from    *)
(* the FAT, until what is left fits in a sector.                           *)
(***************************************************************************)
FatSector(n) ==         \* the entries in sector n of the FAT
  [i \in 0 .. FatEntries - 1 |->
     IF FatEntries * n + i \in Clusters THEN Fat[FatEntries * n + i] ELSE 0]

\* fault: sector and entry are found by the number of bytes in a sector
NextClusterByte(c) == FatSector(c \div SectorSize)[c % SectorSize]
NextCluster(c) == FatSector(c \div FatEntries)[c % FatEntries]

Sector(c, n) == [i \in 1 .. n |-> <<c, 0, i - 1>>]

Loaded(e) ==
  LET rest[n \in 0 .. e.size] ==        \* n bytes, from cluster c on
        [c \in Nat |->
           IF n <= SectorSize THEN Sector(c, n)
           ELSE Sector(c, SectorSize) \o rest[n - SectorSize][NextCluster(c)]]
  IN  IF e.size = 0 THEN <<>> ELSE rest[e.size][e.cluster]

-----------------------------------------------------------------------------
(***************************************************************************)
(* entry, from and got are history: what was opened, the last position     *)
(* sought, and what was read since.                                        *)
(***************************************************************************)
NoFile == [buffer |-> <<>>, size |-> 0, pos |-> 0,
           entry |-> [name |-> "", dated |-> FALSE, directory |-> FALSE,
                      cluster |-> Root, size |-> 0],
           from |-> 0, got |-> <<>>]

NoOpening == [fd |-> 0, path |-> <<>>]

Init ==
  /\ held = {}
  /\ file = [d \in Descriptors |-> NoFile]
  /\ opening = NoOpening /\ overlapped = FALSE
  /\ answer = 0

\* fault: the search goes one entry past the table
FreePast(d) == d \in (3 .. FdCount) \ held
Free(d) == d \in Descriptors \ held

OpenBegins(path) ==
  /\ ~overlapped /\ opening = NoOpening
  /\ \E d \in 3 .. FdCount :
       /\ Free(d) /\ \A c \in 3 .. d - 1 : ~Free(c)
       /\ opening' = [fd |-> d, path |-> path]
  /\ UNCHANGED <<table, overlapped, answer>>

\* No free descriptor: the disk is not read.
OpenFull ==
  /\ ~overlapped /\ held = Descriptors
  /\ answer' = -1
  /\ UNCHANGED <<table, opens>>

OpensOverlap ==
  /\ ~overlapped /\ opening # NoOpening /\ held # Descriptors
  /\ overlapped' = TRUE
  /\ UNCHANGED <<table, opening, answer>>

\* The file is found and loaded: the descriptor is taken.
OpenTakes ==
  /\ ~overlapped /\ opening # NoOpening
  /\ \E e \in Entries(opening.path) :
       /\ held' = held \cup {opening.fd}
       /\ file' = [file EXCEPT ![opening.fd] =
                     [NoFile EXCEPT !.buffer = Loaded(e), !.size = e.size, !.entry = e]]
       /\ answer' = opening.fd
  /\ opening' = NoOpening
  /\ UNCHANGED overlapped

OpenFindsNothing ==
  /\ ~overlapped /\ opening # NoOpening
  /\ Entries(opening.path) = {}
  /\ answer' = -1
  /\ opening' = NoOpening
  /\ UNCHANGED <<table, overlapped>>

(***************************************************************************)
(* read() of n bytes.  A position behind the end of the file makes len     *)
(* negative: nothing is copied, and the position moves back to the end.    *)
(***************************************************************************)
PosAfterLong(f, n) == f.pos + n     \* fault: a short read moves on by n
PosAfter(f, n) == IF n > f.size - f.pos THEN f.size ELSE f.pos + n

Read(d, n) ==
  LET f == file[d]
      len == IF n > f.size - f.pos THEN f.size - f.pos ELSE n
  IN  /\ ~overlapped /\ d \in held
      /\ answer' = len
      /\ file' = [file EXCEPT ![d].pos = PosAfter(f, n),
                              ![d].got = @ \o SubSeq(f.buffer, f.pos + 1, f.pos + len)]
      /\ UNCHANGED <<held, opens>>

Lseek(d, pos) ==
  /\ ~overlapped /\ d \in held
  /\ answer' = 0
  /\ file' = [file EXCEPT ![d].pos = pos, ![d].from = pos, ![d].got = <<>>]
  /\ UNCHANGED <<held, opens>>

Close(d) ==
  /\ ~overlapped /\ d \in held
  /\ answer' = 0
  /\ held' = held \ {d}
  /\ file' = [file EXCEPT ![d] = NoFile]
  /\ UNCHANGED opens

\* read(), lseek() or close() of a descriptor that is not open.
BadDescriptor ==
  /\ ~overlapped /\ held # Descriptors
  /\ answer' = -1
  /\ UNCHANGED <<table, opens>>

-----------------------------------------------------------------------------
Byte == Nat \X (0 .. SectorsPerCluster - 1) \X (0 .. SectorSize - 1)

TypeOK ==
  /\ held \subseteq Descriptors
  /\ DOMAIN file = Descriptors
  /\ \A d \in Descriptors :
       /\ file[d].buffer \in Seq(Byte) /\ file[d].got \in Seq(Byte)
       /\ file[d].size \in Nat /\ file[d].pos \in Nat /\ file[d].from \in Nat
  /\ opening # NoOpening => opening.fd \in Descriptors \ held
  /\ overlapped \in BOOLEAN
  /\ answer \in Int

(***************************************************************************)
(* What a file holds: all sectors of the clusters along its chain, one     *)
(* behind the other, the last one cut.  The disk is consistent: the chain  *)
(* of a file is as long as its size demands.                               *)
(***************************************************************************)
LastCluster(e) ==
  IF e.size = 0 THEN 0 ELSE ((e.size - 1) \div SectorSize) \div SectorsPerCluster

ASSUME ChainAssumption ==
  \A path \in Paths : \A e \in Entries(path) :
    e.size > 0 =>
      \E chain \in [0 .. LastCluster(e) -> Clusters] :
        /\ chain[0] = e.cluster
        /\ \A k \in 1 .. LastCluster(e) : chain[k] = Fat[chain[k - 1]]

Contents(e) ==
  LET chain[k \in 0 .. LastCluster(e)] == IF k = 0 THEN e.cluster ELSE Fat[chain[k - 1]]
  IN  [p \in 1 .. e.size |->
         LET sector == (p - 1) \div SectorSize
         IN  <<chain[sector \div SectorsPerCluster], sector % SectorsPerCluster,
               (p - 1) % SectorSize>>]

\* Disks of which load_file() reads all that a file holds.
Readable == SectorsPerCluster = 1

(***************************************************************************)
(* On a disk with one sector per cluster, and as long as no two open()     *)
(* overlap, the reads of a descriptor since the last lseek() deliver       *)
(* together what stands between that position and the current one, each    *)
(* byte once and in order, however they are cut and whatever is done with  *)
(* other descriptors, whatever the order of the file's clusters and        *)
(* however its size falls on sector boundaries; they never go past the end *)
(* (fat32.c:108-138, 198-212).                                             *)
(***************************************************************************)
ReadsInOrder ==
  Readable /\ ~overlapped =>
    \A d \in held :
      LET f == file[d]
      IN  /\ f.pos > f.size => f.pos = f.from
          /\ f.got = SubSeq(Contents(f.entry), f.from + 1, f.pos)
=============================================================================
