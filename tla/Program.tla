------------------------------- MODULE Program -------------------------------
(***************************************************************************)
(* execve() of kernel/interrupt/syscall.c as far as it loads a program     *)
(* through a file descriptor, page by page, over Fat32.  Descriptors       *)
(* belong to no process and a system call may be preempted, so programs    *)
(* may open, read, seek and close any descriptor between two steps, the    *)
(* loader's own included: what is loaded after that is undefined, and ends *)
(* a behaviour, as a second open() does while one reads the disk.  One     *)
(* execve() is in progress at a time.                                      *)
(*                                                                         *)
(* Headers are not encoded: Programs says what they contain.               *)
(***************************************************************************)
EXTENDS Fat32, Functions

CONSTANTS
  PageSize,     (* bytes of a page: 4096 in the code                       *)
  HeaderSize,   (* bytes of an ELF header and of each table                *)
  PageNumbers,  (* pages of the user table                                 *)
  Programs      (* the headers of the files that are ELF executables       *)

ASSUME ProgramAssumption ==
  /\ PageSize \in Nat \ {0} /\ HeaderSize \in Nat /\ PageNumbers \subseteq Nat
  /\ \A f \in DOMAIN Programs :
       /\ Programs[f].phoff \in Nat /\ Programs[f].shoff \in Nat
       /\ Programs[f].segments \in
            Seq([load : BOOLEAN, page : PageNumbers, offset : Nat, filesz : Nat])
       /\ Programs[f].sections \in
            Seq([nobits : BOOLEAN, alloc : BOOLEAN, page : PageNumbers, size : Nat])
  /\ NoFile.entry.name \notin DOMAIN Programs
  /\ \A p, q \in Paths : \A d \in Entries(p), e \in Entries(q) :
       d.name = e.name /\ d.name \in DOMAIN Programs => d = e

VARIABLES
  loader,       (* the execve() in progress: its local variables           *)
  image,        (* the pages of the new process; <<>> if not mapped        *)
  opened        (* history: descriptors that programs hold                 *)

lvars == <<loader, image, opened>>

Zero    == <<0, 0, 0>>                  \* a byte that memset() has written
NoImage == [p \in PageNumbers |-> <<>>]

LInit ==
  /\ Init
  /\ loader = [at |-> "idle", fd |-> 0, name |-> "", i |-> 1, j |-> 0, left |-> 0]
  /\ image = NoImage
  /\ opened = {}

-----------------------------------------------------------------------------
At(l) == loader.at = l

Goto(l) == loader' = [loader EXCEPT !.at = l]

Segment == Programs[loader.name].segments[loader.i]
Section == Programs[loader.name].sections[loader.i]

ExecveOpens(path) ==
  /\ At("idle")
  /\ OpenBegins(path)
  /\ Goto("opening")
  /\ UNCHANGED <<image, opened>>

ExecveFinds ==
  /\ At("opening")
  /\ OpenTakes
  /\ loader' = [at |-> "header", fd |-> answer', name |-> file'[answer'].entry.name,
                i |-> 1, j |-> 0, left |-> 0]
  /\ image' = NoImage
  /\ UNCHANGED opened

ExecveFindsNothing ==
  \/ /\ At("opening") /\ OpenFindsNothing
     /\ Goto("idle")
     /\ UNCHANGED <<image, opened>>
  \/ /\ At("idle") /\ OpenFull
     /\ UNCHANGED lvars

IsElf == loader.name \in DOMAIN Programs

ReadHeader ==
  /\ At("header")
  /\ Read(loader.fd, HeaderSize)
  /\ Goto(IF IsElf THEN "seek segments" ELSE "close")
  /\ UNCHANGED <<image, opened>>

SeekTable ==
  \/ /\ At("seek segments") /\ Lseek(loader.fd, Programs[loader.name].phoff)
     /\ Goto("read segments")
     /\ UNCHANGED <<image, opened>>
  \/ /\ At("seek sections") /\ Lseek(loader.fd, Programs[loader.name].shoff)
     /\ Goto("read sections")
     /\ UNCHANGED <<image, opened>>

ReadTable ==
  \/ /\ At("read segments") /\ Read(loader.fd, HeaderSize)
     /\ loader' = [loader EXCEPT !.at = "segment", !.i = 1]
     /\ UNCHANGED <<image, opened>>
  \/ /\ At("read sections") /\ Read(loader.fd, HeaderSize)
     /\ loader' = [loader EXCEPT !.at = "section", !.i = 1]
     /\ UNCHANGED <<image, opened>>

(***************************************************************************)
(* The loop over the segments, and the one over the pages of a segment.    *)
(***************************************************************************)
NumPagesFloor(n) == n \div PageSize     \* fault: the last part of a page is left out
NumPages(n) == (n + PageSize - 1) \div PageSize

NextSegment ==
  /\ ~overlapped /\ At("segment")
  /\ loader' =
       CASE loader.i > Len(Programs[loader.name].segments) ->
              [loader EXCEPT !.at = "seek sections"]
         [] loader.i <= Len(Programs[loader.name].segments) /\ Segment.load ->
              [loader EXCEPT !.at = "page", !.j = 0, !.left = Segment.filesz]
         [] OTHER -> [loader EXCEPT !.i = @ + 1]
  /\ UNCHANGED <<vars, image, opened>>

Cleared == [k \in 1 .. PageSize |-> Zero]

NextPage ==
  /\ ~overlapped /\ At("page")
  /\ IF loader.j < NumPages(Segment.filesz)
     THEN /\ image' = [image EXCEPT ![Segment.page + loader.j] = Cleared]
          /\ Goto("seek")
     ELSE /\ loader' = [loader EXCEPT !.at = "segment", !.i = @ + 1]
          /\ UNCHANGED image
  /\ UNCHANGED <<vars, opened>>

SeekPage ==
  /\ At("seek")
  /\ Lseek(loader.fd, Segment.offset + loader.j * PageSize)
  /\ Goto("read")
  /\ UNCHANGED <<image, opened>>

\* What read() copies to a page: n bytes from the position, or up to the end.
Copied(f, n) ==
  LET bytes == SubSeq(f.buffer, f.pos + 1, f.pos + n)
  IN  [k \in 1 .. PageSize |-> IF k <= Len(bytes) THEN bytes[k] ELSE Zero]

Wanted == IF loader.left > PageSize THEN PageSize ELSE loader.left

ReadPage ==
  /\ At("read")
  /\ Read(loader.fd, Wanted)
  /\ image' = [image EXCEPT ![Segment.page + loader.j] =
                 Copied(file[loader.fd], answer')]
  /\ loader' = [loader EXCEPT !.at = "page", !.j = @ + 1,
                  !.left = IF @ > PageSize THEN @ - PageSize ELSE @]
  /\ UNCHANGED opened

\* One page for a section without bits, however large it is.
NextSection ==
  /\ ~overlapped /\ At("section")
  /\ IF loader.i > Len(Programs[loader.name].sections)
     THEN Goto("close") /\ UNCHANGED image
     ELSE /\ loader' = [loader EXCEPT !.i = @ + 1]
          /\ image' = IF Section.nobits /\ Section.size > 0 /\ Section.alloc
                      THEN [image EXCEPT ![Section.page] = Cleared] ELSE image
  /\ UNCHANGED <<vars, opened>>

Finish ==
  /\ At("close")
  /\ Close(loader.fd)
  /\ Goto("idle")
  /\ UNCHANGED <<image, opened>>

(***************************************************************************)
(* Programs                                                                *)
(***************************************************************************)
\* A call that changes the loader's open file ends what is followed here.
Call(A) ==
  /\ ~At("lost")
  /\ A
  /\ opened' = (opened \cup (held' \ held)) \cap held'
  /\ IF loader.at \notin {"idle", "opening"} /\ file'[loader.fd] # file[loader.fd]
     THEN Goto("lost") ELSE UNCHANGED loader
  /\ UNCHANGED image

\* The open() that reads the disk is the loader's, or one of a program.
ProgramCalls ==
  \/ \E path \in Paths : Call(OpenBegins(path))
  \/ ~At("opening") /\ Call(OpenTakes \/ OpenFindsNothing)
  \/ Call(OpenFull)
  \/ Call(OpensOverlap)
  \/ \E d \in Descriptors, n \in Lengths : Call(Read(d, n))
  \/ \E d \in Descriptors, pos \in Positions : Call(Lseek(d, pos))
  \/ \E d \in Descriptors : Call(Close(d))
  \/ Call(BadDescriptor)

LoaderStep ==
  \/ \E path \in Paths : ExecveOpens(path)
  \/ ExecveFinds \/ ExecveFindsNothing
  \/ ReadHeader \/ SeekTable \/ ReadTable
  \/ NextSegment \/ NextPage \/ SeekPage \/ ReadPage \/ NextSection
  \/ Finish

LNext == LoaderStep \/ ProgramCalls

LSpec == LInit /\ [][LNext]_<<vars, lvars>>

-----------------------------------------------------------------------------
LTypeOK ==
  /\ TypeOK
  /\ loader.fd \in {0} \cup Descriptors
  /\ loader.i \in Nat /\ loader.j \in Nat /\ loader.left \in Nat
  /\ image \in [PageNumbers -> {<<>>} \cup [1 .. PageSize -> Byte \cup {Zero}]]
  /\ opened \subseteq Descriptors

(***************************************************************************)
(* The image a program's headers describe, by addresses: the bytes of the  *)
(* file where a segment lies, zeros in the rest of its last page, and a    *)
(* page of zeros for each section without bits.                            *)
(***************************************************************************)
Loads(f) == {s \in Range(Programs[f].segments) : s.load}

Spaces(f) ==
  {s \in Range(Programs[f].sections) : s.nobits /\ s.alloc /\ s.size > 0}

Within(s, a) == a >= s.page * PageSize /\ a < s.page * PageSize + s.filesz

Mapped(f, p) ==
  \/ \E s \in Loads(f), k \in 0 .. PageSize - 1 : Within(s, p * PageSize + k)
  \/ \E s \in Spaces(f) : s.page = p

Described(f, e) ==
  [p \in PageNumbers |->
     IF Mapped(f, p)
     THEN [k \in 1 .. PageSize |->
             LET a == p * PageSize + k - 1
                 in == {s \in Loads(f) : Within(s, a)}
             IN  IF in = {} THEN Zero
                 ELSE LET s == CHOOSE s \in in : TRUE
                      IN  Contents(e)[s.offset + (a - s.page * PageSize) + 1]]
     ELSE <<>>]

(***************************************************************************)
(* Programs whose segments lie in the file, and share no page with each    *)
(* other or with a section.                                                *)
(***************************************************************************)
Entry(f) == CHOOSE e \in UNION {Entries(path) : path \in Paths} : e.name = f

PagesOf(s) == {p \in PageNumbers : p >= s.page /\ (p - s.page) * PageSize < s.filesz}

Loadable(f) ==
  LET segments == Programs[f].segments
  IN  /\ \A i, j \in DOMAIN segments :
           i # j /\ segments[i].load /\ segments[j].load =>
             PagesOf(segments[i]) \cap PagesOf(segments[j]) = {}
      /\ \A s \in Loads(f) : s.offset + s.filesz <= Entry(f).size
      /\ \A s \in Loads(f), t \in Spaces(f) : t.page \notin PagesOf(s)

(***************************************************************************)
(* As long as no two open() overlap, an execve() whose descriptor nobody   *)
(* touches gives its descriptor back whether the file was an executable or *)
(* not, without closing that of another; what it leaves of an executable,  *)
(* read from a disk with one sector per cluster, is the image that the     *)
(* headers describe (syscall.c:89-155, 170).                               *)
(***************************************************************************)
LoadsFaithfully ==
  ~overlapped /\ At("idle") =>
    /\ held = opened
    /\ ~IsElf => image = NoImage
    /\ IsElf /\ Readable /\ Loadable(loader.name) =>
         image = Described(loader.name, Entry(loader.name))
=============================================================================
