--------------------------- MODULE PhysicalMemory ----------------------------
(***************************************************************************)
(* The page frame allocator of kernel/memory/physical.c: one bit for each  *)
(* frame between 4 MiB and 8 MiB.  Frame f is the page at                  *)
(* 0x400000 + 0x1000 * (f - 1); Null is the null pointer.                  *)
(***************************************************************************)
EXTENDS Integers, FiniteSets

CONSTANT FrameCount     (* bits of __bitmap: 1024 in the code              *)

ASSUME FrameAssumption == FrameCount \in Nat \ {0}

Frames == 1 .. FrameCount
Null   == 0

(***************************************************************************)
(* malloc(): the first clear bit, and the bitmap with that bit set.  When  *)
(* all bits are set the result is null and nothing changes.                *)
(***************************************************************************)
MallocPastEnd(bitmap) ==       \* fault: the search goes one bit too far
  CHOOSE f \in 1 .. FrameCount + 1 : f \notin bitmap /\ 1 .. f - 1 \subseteq bitmap

Malloc(bitmap) ==
  IF bitmap = Frames THEN Null
  ELSE CHOOSE f \in Frames \ bitmap : 1 .. f - 1 \subseteq bitmap

Taken(bitmap) == bitmap \cup ({Malloc(bitmap)} \ {Null})

(***************************************************************************)
(* free() flips the bit of a frame; it does not clear it.  The result of a *)
(* set of calls depends on how often each frame is freed.                  *)
(***************************************************************************)
FreedNext(bitmap, times) ==    \* fault: the bit after the frame's is flipped
  {f \in Frames : (f \in bitmap) # (f > 1 /\ times[f - 1] % 2 = 1)}

Freed(bitmap, times) ==
  {f \in Frames : (f \in bitmap) # (times[f] % 2 = 1)}
=============================================================================
