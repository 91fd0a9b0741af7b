------------------------------- MODULE Paging --------------------------------
(***************************************************************************)
(* Page directories and tables (kernel/memory/paging.c) over the frame     *)
(* allocator, and the four places that use them: paging.init() at boot,    *)
(* create() and the freeing of dead processes in scheduler.c, and the      *)
(* loading of a program and sbrk() in syscall.c.                           *)
(*                                                                         *)
(* The contents of a frame are its entries; flags are left out.  The       *)
(* contents of pages are left out as well: no code reads them as a table.  *)
(***************************************************************************)
EXTENDS PhysicalMemory

CONSTANTS
  Procs,        (* pids, 1 .. n: bounds the number of processes created    *)
  Entries,      (* entries of a directory or table: 1024 in the code       *)
  HeapStart,    (* the entry of the first heap page: 256 in the code       *)
  MaxPages      (* bound: pages of a segment, or of one call of sbrk()     *)

ASSUME PagingAssumption ==
  /\ Entries \in Nat /\ Entries > 4
  /\ HeapStart \in 1 .. Entries - 1
  /\ MaxPages \in Nat
  /\ IsFiniteSet(Procs) /\ Procs = 1 .. Cardinality(Procs)
  /\ FrameCount >= 5            \* the boot directory and its tables

Index  == 0 .. Entries - 1
Kernel == -1                    \* an entry that maps kernel memory one to one
Vga    == -2                    \* an entry that maps the VGA buffer
Entry  == Frames \cup {Null, Kernel, Vga}
KernelTables == 0 .. 2
UserTable    == 3

VARIABLES
  bitmap,       (* frames whose bit in __bitmap is set                     *)
  mem,          (* the entries in each frame                               *)
  boot,         (* the directory paging.init() loads                       *)
  cr3,          (* pcb->cr3; Null before create() and once freed           *)
  heapEnd,      (* pcb->heap_end, as pages from the start of the user table *)
  created,      (* processes created so far                                *)
  strayed       (* a page was entered outside the user table               *)

vars == <<bitmap, mem, boot, cr3, heapEnd, created, strayed>>

(***************************************************************************)
(* create_directory(), create_table(), create_page(): s holds the memory   *)
(* and the bitmap; the frame they take is Malloc(s.bitmap), set to zero.   *)
(***************************************************************************)
Zero == [i \in Index |-> Null]

Fresh(s) ==
  [mem    |-> [s.mem EXCEPT ![Malloc(s.bitmap)] = Zero],
   bitmap |-> Taken(s.bitmap)]

CreateEntry(i, t, s) == [Fresh(s) EXCEPT !.mem[t][i] = Malloc(s.bitmap)]

\* A table of the directory d, at index i, that maps the kernel.
CreateKernelTable(i, d, s) ==
  [CreateEntry(i, d, s) EXCEPT !.mem[Malloc(s.bitmap)] = [j \in Index |-> Kernel]]

\* A table with nothing mapped but, at its end, the VGA buffer.
CreateUserTable(d, s) ==
  [CreateEntry(UserTable, d, s) EXCEPT !.mem[Malloc(s.bitmap)][Entries - 1] = Vga]

DefaultDirectory(s) ==
  LET d == Malloc(s.bitmap)
  IN  CreateUserTable(d, CreateKernelTable(2, d,
        CreateKernelTable(1, d, CreateKernelTable(0, d, Fresh(s)))))

CreatePages(i, n, t, s) ==      \* create_page() for i .. i + n - 1 in table t
  LET after[k \in 0 .. n] ==
        IF k = 0 THEN s ELSE CreateEntry(i + k - 1, t, after[k - 1])
  IN  after[n]

Memory == [mem |-> mem, bitmap |-> bitmap]

-----------------------------------------------------------------------------
(***************************************************************************)
(* At boot every frame is free but those of the boot directory.            *)
(***************************************************************************)
Init ==
  LET s == [mem |-> [f \in Frames \cup {Null} |-> Zero], bitmap |-> {}]
  IN  /\ bitmap = DefaultDirectory(s).bitmap
      /\ mem = DefaultDirectory(s).mem
      /\ boot = Malloc({})
      /\ cr3 = [p \in Procs |-> Null]
      /\ heapEnd = [p \in Procs |-> 0]
      /\ created = 0
      /\ strayed = FALSE

(***************************************************************************)
(* execve() takes the table and the index of a page from the program file, *)
(* sbrk() from heap_end, and neither checks them.  n pages from page i of  *)
(* the user table on may lie in a table of the kernel, in one that does    *)
(* not exist (whose address is 0) or behind the frame of the table.  What  *)
(* that overwrites is left out: it ends a behaviour.                       *)
(***************************************************************************)
InUserTable(i, n) == i .. i + n - 1 \subseteq Index

\* Pages that a program may ask for: -1 and Entries stand for all outside.
Anywhere == -1 .. Entries

Stray == strayed' = TRUE /\ UNCHANGED <<bitmap, mem, boot, cr3, heapEnd, created>>

(***************************************************************************)
(* create() of scheduler.c: a directory and the first page of the user     *)
(* table.  Bound: six free frames; without them the code would write its   *)
(* tables at address 0.                                                    *)
(***************************************************************************)
Room == Cardinality(Frames \ bitmap) >= 6

WithStack ==
  LET s == DefaultDirectory(Memory)
  IN  CreateEntry(0, s.mem[Malloc(bitmap)][UserTable], s)

CanCreate == ~strayed /\ Room /\ created + 1 \in Procs

NewProcess(s) ==
  /\ CanCreate
  /\ created' = created + 1
  /\ cr3' = [cr3 EXCEPT ![created + 1] = Malloc(bitmap)]
  /\ heapEnd' = [heapEnd EXCEPT ![created + 1] = HeapStart]
  /\ bitmap' = s.bitmap
  /\ mem' = s.mem
  /\ UNCHANGED <<boot, strayed>>

Create == NewProcess(WithStack)

(***************************************************************************)
(* execve(): create(), then a page for every page of a segment, then one   *)
(* page for a section without bits, wherever the program wants them.  A    *)
(* page mapped twice is allocated twice.                                   *)
(***************************************************************************)
Execve ==
  \E i, bss \in Anywhere, n \in 0 .. MaxPages :
    /\ InUserTable(i, n) /\ InUserTable(bss, 1)
    /\ LET t == WithStack.mem[Malloc(bitmap)][UserTable]
       IN  NewProcess(CreateEntry(bss, t, CreatePages(i, n, t, WithStack)))

ExecveStrays ==
  \E i, bss \in Anywhere, n \in 0 .. MaxPages :
    /\ CanCreate
    /\ ~InUserTable(i, n) \/ ~InUserTable(bss, 1)
    /\ Stray

(***************************************************************************)
(* sbrk(): num pages at the end of the heap.  A negative increment moves   *)
(* the end back, below the user table too, and leaves the pages mapped.    *)
(* Bound: the end falls at most MaxPages below the table.                  *)
(***************************************************************************)
Sbrk(p) ==
  \E num \in -MaxPages .. MaxPages \ {0} :
    LET n == IF num > 0 THEN num ELSE 0
        s == CreatePages(heapEnd[p], n, mem[cr3[p]][UserTable], Memory)
    IN  /\ ~strayed /\ cr3[p] # Null
        /\ InUserTable(heapEnd[p], n) /\ heapEnd[p] + num >= -MaxPages
        /\ bitmap' = s.bitmap
        /\ mem' = s.mem
        /\ heapEnd' = [heapEnd EXCEPT ![p] = @ + num]
        /\ UNCHANGED <<boot, cr3, created, strayed>>

SbrkStrays(p) ==
  \E num \in 1 .. MaxPages :
    /\ ~strayed /\ cr3[p] # Null
    /\ ~InUserTable(heapEnd[p], num)
    /\ Stray

(***************************************************************************)
(* destroy_directory(): the tables from index 3 on, with their pages, and  *)
(* the directory.                                                          *)
(***************************************************************************)
DestroyedTablesShort == UserTable + 1 .. Entries - 1    \* fault: one too few
DestroyedTables == UserTable .. Entries - 1

Tables(d) == {i \in DestroyedTables : mem[d][i] # Null}

TimesFreed(d) ==
  [f \in Frames |->
     Cardinality({e \in Tables(d) \X Index : mem[mem[d][e[1]]][e[2]] = f})
       + Cardinality({i \in Tables(d) : mem[d][i] = f})
       + (IF f = d THEN 1 ELSE 0)]

Cleared(e) == IF e \in {Vga, Kernel} THEN e ELSE Null

Destroy(p) ==
  LET d == cr3[p]
  IN  /\ ~strayed /\ d # Null
      /\ bitmap' = Freed(bitmap, TimesFreed(d))
      /\ mem' = [f \in Frames \cup {Null} |->
                   IF f = d
                     THEN [i \in Index |-> IF i \in Tables(d) THEN Null ELSE mem[d][i]]
                   ELSE IF \E i \in Tables(d) : mem[d][i] = f
                     THEN [j \in Index |-> Cleared(mem[f][j])]
                   ELSE mem[f]]
      /\ cr3' = [cr3 EXCEPT ![p] = Null]
      /\ UNCHANGED <<boot, heapEnd, created, strayed>>

Next ==
  \/ Create
  \/ Execve
  \/ ExecveStrays
  \/ \E p \in Procs : Sbrk(p)
  \/ \E p \in Procs : SbrkStrays(p)
  \/ \E p \in Procs : Destroy(p)

Spec == Init /\ [][Next]_vars

-----------------------------------------------------------------------------
TypeOK ==
  /\ bitmap \subseteq Frames
  /\ mem \in [Frames \cup {Null} -> [Index -> Entry]]
  /\ boot \in Frames
  /\ cr3 \in [Procs -> Frames \cup {Null}]
  /\ heapEnd \in [Procs -> -MaxPages .. Entries]
  /\ created \in 0 .. Cardinality(Procs)
  /\ strayed \in BOOLEAN

Live == {boot} \cup ({cr3[p] : p \in Procs} \ {Null})

\* Where a frame is used by the directory d: as d, as a table, as a page.
Uses(d, f) ==
  {<<"directory">> : x \in {d} \cap {f}}
    \cup {<<"table", i>> : i \in {h \in Index : mem[d][h] = f}}
    \cup {<<"page", e[1], e[2]>> :
            e \in {g \in (UserTable .. Entries - 1) \X Index :
                     mem[d][g[1]] # Null /\ mem[mem[d][g[1]]][g[2]] = f}}

(***************************************************************************)
(* As long as execve() and sbrk() stay in the user table, which nothing    *)
(* checks (syscall.c:115-125, 148-151, 262-270): a frame that a live       *)
(* directory uses, as directory, table or page, is allocated and used      *)
(* once, so no process can reach the memory of another, and free(), which  *)
(* flips a bit, never gets a frame twice.                                  *)
(***************************************************************************)
FramesExclusive ==
  ~strayed =>
    \A f \in Frames :
      LET users == UNION {{<<d, u>> : u \in Uses(d, f)} : d \in Live}
      IN  /\ Cardinality(users) <= 1
          /\ users # {} => f \in bitmap

(***************************************************************************)
(* As long as they stay there, the kernel stays mapped in every address    *)
(* space, through tables of its own: whatever is mapped in user tables and *)
(* freed with them, the interrupt entry code and the kernel heap are there *)
(* when the directory is loaded.                                           *)
(***************************************************************************)
KernelMapped ==
  ~strayed =>
    \A d \in Live : \A i \in KernelTables :
      mem[d][i] # Null /\ \A j \in Index : mem[mem[d][i]][j] = Kernel

(***************************************************************************)
(* As long as they stay there, the end of a process gives back its         *)
(* directory, its user table and every page mapped there, and changes      *)
(* nothing else, although destroy_page() and palloc.free() check nothing   *)
(* (paging.c:37-62, physical.c:25-30).  The tables of the kernel are not   *)
(* given back: the loop starts at 3.                                       *)
(***************************************************************************)
UserFrames(p) ==
  LET d == cr3[p] IN LET t == mem[d][UserTable] IN
  {d, t} \cup {mem[t][j] : j \in {i \in Index : mem[t][i] \in Frames}}

EndReturnsUserFrames ==
  [][\A p \in Procs :
       ~strayed /\ cr3[p] # Null /\ cr3'[p] = Null => bitmap' = bitmap \ UserFrames(p)]_vars
=============================================================================
