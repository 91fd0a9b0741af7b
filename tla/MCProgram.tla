------------------------------ MODULE MCProgram ------------------------------
(***************************************************************************)
(* An executable for TLC, on the disk of MCFat32: "long" has a segment     *)
(* that ends within its second page, one that is not loaded, one that      *)
(* fills its page, one without bytes, and sections of which one is mapped. *)
(***************************************************************************)
EXTENDS Program, MCFat32

Segments(load, page, offset, filesz) ==
  [load |-> load, page |-> page, offset |-> offset, filesz |-> filesz]

ASection(nobits, alloc, page, size) ==
  [nobits |-> nobits, alloc |-> alloc, page |-> page, size |-> size]

MCPrograms ==
  "long" :> [phoff |-> 1, shoff |-> 3,
             segments |-> <<Segments(TRUE, 0, 1, 3), Segments(FALSE, 3, 0, 2),
                            Segments(TRUE, 2, 3, 2), Segments(TRUE, 3, 0, 0)>>,
             sections |-> <<ASection(FALSE, TRUE, 0, 3), ASection(TRUE, TRUE, 4, 3),
                            ASection(TRUE, FALSE, 3, 1), ASection(TRUE, TRUE, 3, 0)>>]
=============================================================================
