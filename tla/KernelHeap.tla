----------------------------- MODULE KernelHeap ------------------------------
(***************************************************************************)
(* The kernel heap, kernel/memory/heap.c: 4 MiB cut into blocks of 256     *)
(* bytes, each with a header of 12 bytes, linked in address order.  Block  *)
(* b is at 0x800000 + 256 * b.                                             *)
(*                                                                         *)
(* malloc() looks for its memory one step at a time here, because its loop *)
(* ends only when it finds some.  The contents of the memory are left out, *)
(* but for what clients write over headers that lie inside their memory.   *)
(***************************************************************************)
EXTENDS Integers, FiniteSets

CONSTANTS
  BlockCount,   (* blocks of the heap: 16384 in the code                   *)
  Sizes         (* the sizes in bytes that clients ask for                 *)

ASSUME HeapAssumption ==
  /\ BlockCount \in Nat /\ BlockCount > 3
  /\ Sizes \subseteq Nat \ {0}

BlockSize  == 256               \* HEAP_BLOCK_MIN_SIZE
HeaderSize == 12                \* sizeof(heap_block_header_t)
Blocks     == 0 .. BlockCount - 1
Sentinel   == BlockCount - 1    \* never available: no chain runs over the end

VARIABLES
  header,       (* the header, or what was one, at the start of each block *)
  initial,      (* initial_header                                          *)
  want,         (* size of the running malloc(), 0 when there is none      *)
  cursor,       (* header in the loop of malloc()                          *)
  allocated,    (* what clients hold: where it is, and the size asked for  *)
  zeroed        (* a client has left a zero in place of available          *)

vars == <<header, initial, want, cursor, allocated, zeroed>>

Payload(n) == BlockSize * n - HeaderSize    \* header->size of n blocks
Length(h)  == (header[h].size + HeaderSize) \div BlockSize

(***************************************************************************)
(* init(): the heap is cut into blocks.  Then it allocates three times and *)
(* frees everything, which leaves initial_header at the fourth block.      *)
(***************************************************************************)
\* fault: the last block is as available as the others
InitialAvailableAll(b) == 1
InitialAvailable(b) == IF b = Sentinel THEN 0 ELSE 1

Init ==
  /\ header = [b \in Blocks |-> [size |-> Payload(1),
                                 available |-> InitialAvailable(b),
                                 next |-> (b + 1) % BlockCount]]
  /\ initial = 3
  /\ want = 0
  /\ cursor = 3
  /\ allocated = {}
  /\ zeroed = FALSE

-----------------------------------------------------------------------------
(***************************************************************************)
(* heap_chain_fit(): the chain of available headers from h whose sizes     *)
(* add up to what is wanted.  It ends at the header Hop(h, k).             *)
(***************************************************************************)
Hop(h, k) ==
  LET hop[i \in 0 .. k] == IF i = 0 THEN h ELSE header[hop[i - 1]].next
  IN  hop[k]

Sum(h, k) ==            \* of the sizes of the first k headers from h
  LET sum[i \in 0 .. k] ==
        IF i = 0 THEN 0 ELSE sum[i - 1] + header[Hop(h, i - 1)].size
  IN  sum[k]

ChainFit(h, size, k) ==
  /\ \A i \in 0 .. k : header[Hop(h, i)].available # 0
  /\ Sum(h, k) < size
  /\ Sum(h, k + 1) >= size

(***************************************************************************)
(* heap_join_chain(): the first header takes over the blocks of the chain; *)
(* the other headers stay behind inside the memory handed out.             *)
(***************************************************************************)
\* fault: the first header stays available
JoinedAvailable(h, next) ==
  [size |-> Payload(next - h), available |-> 1, next |-> next]
Joined(h, next) ==
  [size |-> Payload(next - h), available |-> 0, next |-> next]

Malloc(size) ==
  /\ want = 0
  /\ want' = size
  /\ cursor' = initial
  /\ UNCHANGED <<header, initial, allocated, zeroed>>

Found ==
  \E k \in Blocks :
    /\ want # 0
    /\ ChainFit(cursor, want, k)
    /\ LET next == header[Hop(cursor, k)].next
       IN  /\ header' = [header EXCEPT ![cursor] = Joined(cursor, next)]
           /\ initial' = next
    /\ allocated' = allocated \cup {[at |-> cursor, size |-> want]}
    /\ want' = 0
    /\ UNCHANGED <<cursor, zeroed>>

\* The loop skips the available headers, and the header behind them.
SkippedShort(k) == Hop(cursor, k)     \* fault: not the header behind them
Skipped(k) == Hop(cursor, k + 1)

Skip ==
  \E k \in Blocks :
    /\ want # 0
    /\ \A i \in Blocks : ~ChainFit(cursor, want, i)
    /\ \A i \in 0 .. k - 1 : header[Hop(cursor, i)].available = 1
    /\ header[Hop(cursor, k)].available # 1
    /\ cursor' = Skipped(k)
    /\ UNCHANGED <<header, initial, want, allocated, zeroed>>

(***************************************************************************)
(* free(): the header becomes available, and blocks are split off its      *)
(* front until two or fewer are left.  The headers that the split makes    *)
(* get a size and a next, but nothing is said of their being available.    *)
(***************************************************************************)
RestOf(h) == h + Length(h) - 2        \* the header of the last two blocks

SplitHeader(h, b) ==
  [header[b] EXCEPT !.size = IF b < RestOf(h) THEN Payload(1) ELSE Payload(2),
                    !.next = IF b < RestOf(h) THEN b + 1 ELSE header[h].next]

\* fault: the last two blocks get no header
SplitShort(h) == IF Length(h) > 2 THEN h .. RestOf(h) - 1 ELSE {}
Split(h) == IF Length(h) > 2 THEN h .. RestOf(h) ELSE {}

\* fault: a header that needs no split does not become available
NowAvailableSplit(h, b) == b = h /\ Length(h) > 2
NowAvailable(h, b) == b = h

Freed(h) ==
  [b \in Blocks |->
     LET s == IF b \in Split(h) THEN SplitHeader(h, b) ELSE header[b]
     IN  IF NowAvailable(h, b) THEN [s EXCEPT !.available = 1] ELSE s]

Free(a) ==
  /\ want = 0
  /\ a \in allocated
  /\ header' = Freed(a.at)
  /\ allocated' = allocated \ {a}
  /\ UNCHANGED <<initial, want, cursor, zeroed>>

(***************************************************************************)
(* A client fills its memory, and so the headers inside: the word that was *)
(* available becomes 0, 1, or 2 for anything else.  Size and next become   *)
(* 0, for anything: free() writes them before they are read.               *)
(***************************************************************************)
Inside(a) == {b \in Blocks : b > a.at /\ BlockSize * (b - a.at) <= a.size}

Fill(a) ==
  \E v \in 0 .. 2 :
    /\ want = 0
    /\ a \in allocated
    /\ Inside(a) # {}
    /\ header' = [b \in Blocks |-> IF b \in Inside(a)
                                   THEN [size |-> 0, available |-> v, next |-> 0]
                                   ELSE header[b]]
    /\ zeroed' = (zeroed \/ v = 0)
    /\ UNCHANGED <<initial, want, cursor, allocated>>

Next ==
  \/ \E size \in Sizes : Malloc(size)
  \/ Found
  \/ Skip
  \/ \E a \in allocated : Free(a) \/ Fill(a)

Spec == Init /\ [][Next]_vars

\* malloc() keeps looking; nothing is assumed of the clients.
FairSpec == Spec /\ WF_vars(Found \/ Skip)

-----------------------------------------------------------------------------
Allocation == [at : Blocks, size : Sizes]

TypeOK ==
  /\ header \in [Blocks -> [size : {0} \cup {Payload(n) : n \in 1 .. BlockCount},
                            available : 0 .. 2, next : Blocks]]
  /\ initial \in Blocks
  /\ want \in Sizes \cup {0}
  /\ cursor \in Blocks
  /\ allocated \subseteq Allocation
  /\ zeroed \in BOOLEAN

Chain == {Hop(0, k) : k \in Blocks}   \* the headers linked from the first
Extent(a) == a.at .. a.at + Length(a.at) - 1

(***************************************************************************)
(* The headers linked from the first block tile the heap: each is followed *)
(* by the one where its blocks end, whatever was joined, split and         *)
(* overwritten in between, and malloc() always starts from one of them.    *)
(***************************************************************************)
HeapTiled ==
  /\ \A h \in Chain \ {Sentinel} : header[h].next = h + Length(h)
  /\ Sentinel \in Chain
  /\ {initial, cursor} \subseteq Chain

(***************************************************************************)
(* What two clients hold never overlaps, is as large as they asked for     *)
(* with the header in front, and is not available: the headers they        *)
(* overwrite are not taken for headers while they hold it.                 *)
(***************************************************************************)
AllocationsDisjoint ==
  \A a \in allocated :
    /\ a.at \in Chain /\ header[a.at].available = 0
    /\ Payload(Length(a.at)) >= a.size
    /\ \A b \in allocated : a # b => Extent(a) \cap Extent(b) = {}
    /\ Extent(a) \cap Chain = {a.at}

(***************************************************************************)
(* Memory is lost only through a zero that a client leaves where free()    *)
(* makes a header: while none has, whatever nobody holds can be allocated, *)
(* because heap_join_chain() leaves the headers inside available and       *)
(* free() relies on it (heap.c:21-26, 50-57).                              *)
(***************************************************************************)
NothingLeaks ==
  ~zeroed => \A h \in Chain \ {Sentinel} :
    header[h].available # 0 \/ \E a \in allocated : a.at = h

(***************************************************************************)
(* malloc() returns when there is a chain that is large enough, wherever   *)
(* initial_header stands: the loop of heap.c:31-43 comes round to it.      *)
(***************************************************************************)
SomeFit == \E h \in Chain, k \in Blocks : ChainFit(h, want, k)

MallocReturns == want # 0 /\ SomeFit ~> want = 0
=============================================================================
