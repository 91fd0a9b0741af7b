------------------------------- MODULE Console -------------------------------
(***************************************************************************)
(* putchar() and scroll() of kernel/tty.c over the text screen.  A handler *)
(* prints with interrupts enabled, so the keyboard's handler, or one for   *)
(* an unexpected interrupt, may print whole characters between any two     *)
(* steps of a putchar().  Out of the model are two handlers that are both  *)
(* within a putchar(), one suspended there by the timer while the other is *)
(* interrupted: then a store may miss the screen.  Colours are left out.   *)
(***************************************************************************)
EXTENDS Integers

CONSTANTS
  Width,        (* __width: 80 in the code                                 *)
  Height,       (* __height: 25 in the code                                *)
  Letters,      (* printable characters                                    *)
  MaxLost       (* bound: lines scrolled off before an interrupt           *)

ASSUME ConsoleAssumption ==
  /\ Width \in Nat /\ Width >= 3
  /\ Height \in Nat /\ Height >= 3
  /\ MaxLost \in Nat

Cells    == 0 .. Width * Height - 1
Controls == {"\n", "\r", "nul"}
Blank    == "blank"                     \* a cell written by memset()
Old      == "old"                       \* what was there before the kernel

ASSUME LettersAssumption == Letters \cap (Controls \cup {Blank, Old}) = {}

VARIABLES
  screen,       (* __tty                                                   *)
  row, col,     (* __row, __col                                            *)
  at, char,     (* the putchar() that a handler is in, and its argument    *)
  gone,         (* history: what stood on the lines scrolled off           *)
  lost,         (* history: how many lines these are                       *)
  torn          (* history: an interrupt has printed within a putchar()    *)

history == <<gone, lost, torn>>
vars    == <<screen, row, col, at, char, history>>

Steps == {"idle", "wrap", "fit", "copied", "cleared", "put", "advance", "home"}

\* init() clears Width * Height bytes, and a cell has two.
Init ==
  /\ screen = [i \in Cells |-> IF 2 * i < Width * Height THEN Blank ELSE Old]
  /\ row = 0 /\ col = 0
  /\ at = "idle" /\ char = "nul"
  /\ gone = {} /\ lost = 0 /\ torn = FALSE

-----------------------------------------------------------------------------
LineEndsLate(c) == c >= Width           \* fault: off by one
LineEnds(c) == c + 1 >= Width
PageEndsLate(r) == r >= Height          \* fault: off by one
PageEnds(r) == r + 1 >= Height

WrapRow(r, c) == IF LineEnds(c) THEN r + 1 ELSE r
WrapCol(c)    == IF LineEnds(c) THEN 0 ELSE c

\* fault: the lines are moved by one cell too few
CopiedShort(s) == [i \in Cells |-> IF i < Width * (Height - 1) THEN s[i + Width - 1] ELSE s[i]]
Copied(s) == [i \in Cells |-> IF i < Width * (Height - 1) THEN s[i + Width] ELSE s[i]]
Cleared(s) == [i \in Cells |-> IF i >= Width * (Height - 1) THEN Blank ELSE s[i]]

Stored(s, r, c, x) == [s EXCEPT ![r * Width + c] = x]

(***************************************************************************)
(* putchar(c) in steps                                                     *)
(***************************************************************************)
Begin(c) ==
  /\ at = "idle" /\ lost < MaxLost
  /\ at' = "wrap" /\ char' = c
  /\ UNCHANGED <<screen, row, col, history>>

Wrap ==
  /\ at = "wrap"
  /\ row' = WrapRow(row, col) /\ col' = WrapCol(col)
  /\ at' = "fit"
  /\ UNCHANGED <<screen, char, history>>

OnLine(r) == {<<<<r + lost, c>>, screen[r * Width + c]>> :
                c \in {k \in 0 .. Width - 1 : screen[r * Width + k] \in Letters}}

Fit ==
  /\ at = "fit"
  /\ IF PageEnds(row)
     THEN /\ screen' = Copied(screen) /\ at' = "copied"
          /\ gone' = IF torn THEN {} ELSE gone \cup OnLine(0)
          /\ lost' = IF torn THEN 0 ELSE lost + 1
     ELSE at' = "put" /\ UNCHANGED <<screen, gone, lost>>
  /\ UNCHANGED <<row, col, char, torn>>

Clear ==
  /\ at = "copied"
  /\ screen' = Cleared(screen)
  /\ at' = "cleared"
  /\ UNCHANGED <<row, col, char, history>>

Raise ==
  /\ at = "cleared"
  /\ row' = row - 1
  /\ at' = "put"
  /\ UNCHANGED <<screen, col, char, history>>

Put ==
  /\ at = "put"
  /\ \/ char = "\n" /\ row' = row + 1 /\ at' = "home" /\ UNCHANGED <<screen, col>>
     \/ char = "\r" /\ col' = 0 /\ at' = "idle" /\ UNCHANGED <<screen, row>>
     \/ char = "nul" /\ at' = "idle" /\ UNCHANGED <<screen, row, col>>
     \/ /\ char \in Letters
        /\ screen' = Stored(screen, row, col, char)
        /\ at' = "advance"
        /\ UNCHANGED <<row, col>>
  /\ UNCHANGED <<char, history>>

Finish ==
  /\ \/ at = "advance" /\ col' = col + 1
     \/ at = "home" /\ col' = 0
  /\ at' = "idle"
  /\ UNCHANGED <<screen, row, char, history>>

(***************************************************************************)
(* A whole putchar(c) by an interrupt handler, within one of the above.    *)
(***************************************************************************)
FitRow(r) == IF PageEnds(r) THEN r - 1 ELSE r

StoreRow == FitRow(WrapRow(row, col))   \* where it would store a letter
StoreCol == WrapCol(col)

Interrupt(c) ==
  /\ at # "idle"
  /\ LET s == IF PageEnds(WrapRow(row, col)) THEN Cleared(Copied(screen)) ELSE screen
     IN  screen' = IF c \in Letters THEN Stored(s, StoreRow, StoreCol, c) ELSE s
  /\ row' = IF c = "\n" THEN StoreRow + 1 ELSE StoreRow
  /\ col' = CASE c \in {"\n", "\r"} -> 0 [] c = "nul" -> StoreCol [] OTHER -> StoreCol + 1
  /\ torn' = TRUE /\ gone' = {} /\ lost' = 0
  /\ UNCHANGED <<at, char>>

Next ==
  \/ \E c \in Letters \cup Controls : Begin(c) \/ Interrupt(c)
  \/ Wrap \/ Fit \/ Clear \/ Raise \/ Put \/ Finish

Spec == Init /\ [][Next]_vars

-----------------------------------------------------------------------------
TypeOK ==
  /\ screen \in [Cells -> Letters \cup {Blank, Old}]
  /\ row \in 0 .. Height /\ col \in 0 .. Width
  /\ at \in Steps /\ char \in Letters \cup Controls
  /\ lost \in 0 .. MaxLost /\ torn \in BOOLEAN

(***************************************************************************)
(* No letter is ever stored beside the screen: neither by a putchar()      *)
(* however often it is interrupted, nor by an interrupt, wherever it hits  *)
(* (tty.c:29-55).  An interrupted scroll() may raise the cursor twice.      *)
(***************************************************************************)
OnScreen(r, c) == r \in 0 .. Height - 1 /\ c \in 0 .. Width - 1

StoresOnScreen ==
  /\ at = "put" => OnScreen(row, col)
  /\ OnScreen(StoreRow, StoreCol)

(***************************************************************************)
(* Without interrupts the screen is a window on an endless page: what was  *)
(* printed stays as it was printed, in its line, until it scrolls off.     *)
(***************************************************************************)
printed ==
  gone \cup UNION {OnLine(r) : r \in 0 .. Height - 1}

head ==
  <<row + lost - (IF at \in {"copied", "cleared"} THEN 1 ELSE 0),
    CASE at = "advance" -> col + 1 [] at = "home" -> 0 [] OTHER -> col>>

P == INSTANCE Paper WITH page <- printed

ImplementsPaper == P!Spec
=============================================================================
