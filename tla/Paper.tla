-------------------------------- MODULE Paper --------------------------------
(***************************************************************************)
(* What the console promises: a page of unlimited length.  A character is  *)
(* printed at the head, which then moves right; before the last column of  *)
(* a line the head goes to the start of the next one.  What is printed     *)
(* stays.  Once the console has been interrupted nothing is promised.      *)
(***************************************************************************)
EXTENDS Naturals

CONSTANTS
  Width,        (* columns                                                 *)
  Letters       (* printable characters                                    *)

VARIABLES
  page,         (* what stands at <<row, column>>                          *)
  head,
  torn          (* an interrupt has printed                                *)

Init ==
  /\ page = {}
  /\ head = <<0, 0>>
  /\ torn = FALSE

Wrap ==
  /\ head[2] = Width - 1
  /\ head' = <<head[1] + 1, 0>>
  /\ UNCHANGED page

Write(c) ==
  /\ head[2] < Width - 1
  /\ page' = {m \in page : m[1] # head} \cup {<<head, c>>}
  /\ head' = <<head[1], head[2] + 1>>

NewLine ==
  /\ head[2] < Width - 1
  /\ head' = <<head[1] + 1, 0>>
  /\ UNCHANGED page

Return ==
  /\ head[2] < Width - 1
  /\ head' = <<head[1], 0>>
  /\ UNCHANGED page

Next ==
  \/ ~torn /\ (Wrap \/ (\E c \in Letters : Write(c)) \/ NewLine \/ Return) /\ UNCHANGED torn
  \/ torn'

Spec == Init /\ [][Next]_<<page, head, torn>>
=============================================================================
