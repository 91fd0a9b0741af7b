-------------------------------- MODULE Fifo ---------------------------------
(***************************************************************************)
(* What the users of kernel/queue.c rely on: a queue that hands out its    *)
(* payloads in the order in which they were put in, each once.             *)
(***************************************************************************)
EXTENDS Integers, Sequences

CONSTANTS
  Payloads,     (* what callers put in: PCBs, tasks of the disk driver     *)
  Nothing       (* the null pointer                                        *)

VARIABLES
  items,        (* the payloads in the queue, oldest first                 *)
  answer        (* what the last call returned                             *)

Init == items = <<>> /\ answer = Nothing

Push(p) ==
  /\ items' = Append(items, p)
  /\ answer' = Nothing

Pop ==
  /\ answer' = IF items = <<>> THEN Nothing ELSE Head(items)
  /\ items' = IF items = <<>> THEN <<>> ELSE Tail(items)

Peek ==
  /\ answer' = IF items = <<>> THEN Nothing ELSE Head(items)
  /\ UNCHANGED items

Next == (\E p \in Payloads : Push(p)) \/ Pop \/ Peek

Spec == Init /\ [][Next]_<<items, answer>>
=============================================================================
