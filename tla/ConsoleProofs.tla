---------------------------- MODULE ConsoleProofs ----------------------------
(***************************************************************************)
(* For every size of at least 3 by 3 and any number of lines: however      *)
(* often interrupts print in the middle of a putchar(), no letter is       *)
(* stored beside the screen; and until one does, putchar() with its        *)
(* scroll() in four steps prints on the page of Paper.                     *)
(***************************************************************************)
EXTENDS Console, TLAPS

(***************************************************************************)
(* Where the cursor can be.  A line feed by an interrupt, right after a    *)
(* wrap, takes it one row below the screen, but only to the left edge, so  *)
(* that the next scroll() brings it back before a line can end there; a    *)
(* putchar() past its own scroll() is then at most in the last row.        *)
(***************************************************************************)
CursorInv ==
  /\ at \in Steps
  /\ row \in 0 .. Height /\ col \in 0 .. Width
  /\ row = Height => col <= 1
  /\ row = Height /\ at = "advance" => col = 0
  /\ at \in {"fit", "copied", "cleared", "put", "advance"} => col <= Width - 1
  /\ at \in {"copied", "cleared"} => row >= Height - 2
  /\ at = "put" => row <= Height - 1 /\ (row = Height - 1 => col <= 1)

\* The cursor is where it should be at the start.
LEMMA CursorInit == Init => CursorInv
BY ConsoleAssumption DEF Init, CursorInv, Steps

\* No place that CursorInv allows lets a letter be stored beside the screen.
LEMMA CursorSafe == CursorInv => StoresOnScreen
BY ConsoleAssumption
   DEF CursorInv, StoresOnScreen, OnScreen, StoreRow, StoreCol, FitRow, WrapRow,
       WrapCol, LineEnds, PageEnds

\* A putchar() keeps the cursor there, whatever happened before each step.
LEMMA CursorStep ==
  ASSUME CursorInv,
         (\E c \in Letters \cup Controls : Begin(c))
           \/ Wrap \/ Fit \/ Clear \/ Raise \/ Put \/ Finish
  PROVE  CursorInv'
<1> USE ConsoleAssumption DEF CursorInv, Steps
<1>1. CASE \E c \in Letters \cup Controls : Begin(c)
  BY <1>1 DEF Begin
<1>2. CASE Wrap
  BY <1>2 DEF Wrap, WrapRow, WrapCol, LineEnds
<1>3. CASE Fit
  BY <1>3 DEF Fit, PageEnds
<1>4. CASE Clear
  BY <1>4 DEF Clear
<1>5. CASE Raise
  BY <1>5 DEF Raise
<1>6. CASE Put
  BY <1>6 DEF Put
<1>7. CASE Finish
  BY <1>7 DEF Finish
<1> QED BY <1>1, <1>2, <1>3, <1>4, <1>5, <1>6, <1>7

\* So does a character printed by an interrupt, wherever it hits.
LEMMA CursorInterrupt ==
  ASSUME CursorInv, NEW c \in Letters \cup Controls, Interrupt(c)
  PROVE  CursorInv'
<1>1. /\ at' = at /\ at # "idle"
      /\ row' = IF c = "\n" THEN StoreRow + 1 ELSE StoreRow
      /\ col' = IF c \in {"\n", "\r"} THEN 0
                ELSE IF c = "nul" THEN StoreCol ELSE StoreCol + 1
  BY DEF Interrupt
<1>2. /\ StoreRow \in 0 .. Height - 1 /\ StoreCol \in 0 .. Width - 2
      /\ at \in {"copied", "cleared"} => StoreRow >= Height - 2
      /\ at = "put" => StoreRow <= Height - 2
  BY ConsoleAssumption
     DEF CursorInv, StoreRow, StoreCol, FitRow, WrapRow, WrapCol, LineEnds, PageEnds
<1>3. /\ row' \in 0 .. Height /\ col' \in 0 .. Width - 1
      /\ row' = Height => col' = 0
      /\ at \in {"copied", "cleared"} => row' >= Height - 2
      /\ at = "put" => row' <= Height - 1 /\ (row' = Height - 1 => col' = 0)
  BY <1>1, <1>2, ConsoleAssumption
<1> QED BY <1>1, <1>3, ConsoleAssumption DEF CursorInv

LEMMA CursorNext == CursorInv /\ [Next]_vars => CursorInv'
<1>1. CursorInv /\ UNCHANGED vars => CursorInv'
  BY DEF vars, CursorInv
<1> QED BY <1>1, CursorStep, CursorInterrupt DEF Next

(***************************************************************************)
(* No letter is stored beside the screen.                                  *)
(***************************************************************************)
THEOREM NoStoreOffScreen == Spec => []StoresOnScreen
BY CursorInit, CursorNext, CursorSafe, PTL DEF Spec

-----------------------------------------------------------------------------
(***************************************************************************)
(* The page                                                                *)
(***************************************************************************)
Rows    == 0 .. Height - 1
Columns == 0 .. Width - 1

\* A line ends where the next one begins.
LEMMA Times ==
  ASSUME NEW w \in Nat, NEW r \in Nat, NEW t \in Nat, r < t
  PROVE  /\ r * w \in Nat /\ t * w \in Nat
         /\ r * w + w <= t * w /\ (r + 1) * w = r * w + w
<1>1. PICK d \in Nat : t = r + 1 + d
  <2>1. t - r - 1 \in Nat /\ t = r + 1 + (t - r - 1)
    OBVIOUS
  <2> QED BY <2>1
<1>2. t * w = r * w + w + d * w
  BY <1>1
<1>3. d * w \in Nat /\ r * w \in Nat
  BY <1>1
<1> QED BY <1>2, <1>3

\* The cell in a row and column is on the screen, and no other has it.
LEMMA CellUnique ==
  ASSUME NEW r \in Rows, NEW c \in Columns, NEW q \in Rows, NEW d \in Columns
  PROVE  /\ r * Width + c \in Cells
         /\ r * Width + c = q * Width + d => r = q /\ c = d
<1> USE ConsoleAssumption
<1>1. /\ Width \in Nat /\ Height \in Nat /\ r \in Nat /\ q \in Nat /\ r < Height
      /\ c \in 0 .. Width - 1 /\ d \in 0 .. Width - 1
  BY DEF Rows, Columns
<1>2. r * Width + Width <= Height * Width /\ r * Width \in Nat /\ Height * Width \in Nat
  BY <1>1, Times
<1>3. r * Width + c \in Cells
  <2>1. Width * Height = Height * Width
    BY <1>1
  <2> QED BY <1>1, <1>2, <2>1 DEF Cells
<1>4. CASE r < q
  <2>1. r * Width + Width <= q * Width /\ q * Width \in Nat
    BY <1>1, <1>4, Times
  <2> QED BY <1>1, <1>2, <1>3, <2>1
<1>5. CASE q < r
  <2>1. q * Width + Width <= r * Width /\ q * Width \in Nat
    BY <1>1, <1>5, Times
  <2> QED BY <1>1, <1>2, <1>3, <2>1
<1>6. CASE r = q
  BY <1>1, <1>2, <1>3, <1>6
<1> QED BY <1>1, <1>4, <1>5, <1>6

\* Where a line is after the first and after the second half of scroll().
LEMMA ScrolledCells ==
  ASSUME NEW s, NEW r \in Rows, NEW c \in Columns
  PROVE  /\ Copied(s)[r * Width + c] =
              IF r < Height - 1 THEN s[(r + 1) * Width + c] ELSE s[r * Width + c]
         /\ Cleared(s)[r * Width + c] = IF r < Height - 1 THEN s[r * Width + c] ELSE Blank
<1> USE ConsoleAssumption
<1>1. /\ Width \in Nat /\ Height \in Nat /\ Height - 1 \in Nat /\ r \in Nat
      /\ r <= Height - 1 /\ c \in 0 .. Width - 1
  BY DEF Rows, Columns
<1>2. r * Width + c \in Cells /\ r * Width \in Nat
  BY <1>1, CellUnique, Times
<1>3. Width * (Height - 1) = (Height - 1) * Width /\ (Height - 1) * Width \in Nat
  BY <1>1
<1>4. CASE r < Height - 1
  <2>1. r * Width + Width <= (Height - 1) * Width /\ (r + 1) * Width = r * Width + Width
    BY <1>1, <1>4, Times
  <2>2. r * Width + c < Width * (Height - 1)
    BY <1>1, <1>2, <1>3, <2>1
  <2>3. r * Width + c + Width = (r + 1) * Width + c
    BY <1>1, <1>2, <2>1
  <2> HIDE DEF Cells
  <2>4. Copied(s)[r * Width + c] = s[(r + 1) * Width + c]
    BY <1>2, <2>2, <2>3 DEF Copied
  <2>5. Cleared(s)[r * Width + c] = s[r * Width + c]
    <3>1. ~(r * Width + c >= Width * (Height - 1))
      BY <1>1, <1>2, <1>3, <2>2
    <3> QED BY <1>2, <3>1 DEF Cleared
  <2> QED BY <1>4, <2>4, <2>5
<1>5. CASE r = Height - 1
  <2>1. /\ ~(r * Width + c < Width * (Height - 1))
        /\ r * Width + c >= Width * (Height - 1)
    BY <1>1, <1>2, <1>3, <1>5
  <2> QED BY <1>1, <1>2, <1>5, <2>1 DEF Copied, Cleared
<1> QED BY <1>1, <1>4, <1>5

\* A character is stored in one cell.
LEMMA StoredCell ==
  ASSUME NEW s \in [Cells -> Letters \cup {Blank, Old}], NEW x,
         NEW q \in Rows, NEW d \in Columns, NEW r \in Rows, NEW c \in Columns
  PROVE  Stored(s, q, d, x)[r * Width + c] = IF r = q /\ c = d THEN x ELSE s[r * Width + c]
<1>1. /\ r * Width + c \in Cells /\ q * Width + d \in Cells
      /\ r * Width + c = q * Width + d => r = q /\ c = d
  BY CellUnique
<1> QED BY <1>1 DEF Stored

-----------------------------------------------------------------------------
(***************************************************************************)
(* As long as no interrupt has printed, a scroll() comes before anything   *)
(* is stored in the last line, which is therefore empty.                   *)
(***************************************************************************)
ConsoleType ==
  /\ screen \in [Cells -> Letters \cup {Blank, Old}]
  /\ at \in Steps /\ char \in Letters \cup Controls
  /\ lost \in Nat /\ torn \in BOOLEAN

Window ==
  /\ row \in Rows /\ col \in Columns
  /\ row = Height - 1 => at \notin {"put", "advance"} /\ (at # "home" => col = 0)
  /\ at \in {"copied", "cleared"} => row = Height - 1
  /\ at \in {"fit", "put", "advance"} => col <= Width - 2
  /\ \A c \in Columns : screen[(Height - 1) * Width + c] \notin Letters
  /\ \A m \in gone : m[1][1] \in 0 .. lost - 1

PaperInv == ConsoleType /\ (~torn => Window)

\* A mark of the page: on a line that has scrolled off, or on the screen.
Mark(m, s, g, l) ==
  m \in g \/ \E r \in Rows, c \in Columns :
               /\ s[r * Width + c] \in Letters
               /\ m = <<<<r + l, c>>, s[r * Width + c]>>

\* The page consists of these marks, before and after a step.
LEMMA PrintedMarks ==
  /\ \A m : m \in printed <=> Mark(m, screen, gone, lost)
  /\ \A m : m \in printed' <=> Mark(m, screen', gone', lost')
<1>1. \A m : m \in printed <=> Mark(m, screen, gone, lost)
  BY DEF printed, Mark, OnLine, Rows, Columns
<1>2. \A m : m \in printed' <=> Mark(m, screen', gone', lost')
  BY DEF printed, Mark, OnLine, Rows, Columns
<1> QED BY <1>1, <1>2

\* scroll() leaves the page as it is: the copy, ...
LEMMA CopyKeepsMarks ==
  ASSUME PaperInv, ~torn, NEW m
  PROVE  Mark(m, Copied(screen), gone \cup OnLine(0), lost + 1) <=> Mark(m, screen, gone, lost)
<1> DEFINE t == Copied(screen)
<1>1. /\ Height \in Nat /\ Height >= 3 /\ lost \in Nat
      /\ \A c \in Columns : screen[(Height - 1) * Width + c] \notin Letters
  BY ConsoleAssumption DEF PaperInv, ConsoleType, Window
<1>2. \A r \in Rows, c \in Columns :
        t[r * Width + c] = IF r < Height - 1 THEN screen[(r + 1) * Width + c]
                                             ELSE screen[r * Width + c]
  BY ScrolledCells
<1> HIDE DEF t
<1>3. \A x : x \in OnLine(0) <=>
        \E c \in Columns : /\ screen[0 * Width + c] \in Letters
                           /\ x = <<<<0 + lost, c>>, screen[0 * Width + c]>>
  BY DEF OnLine, Columns
<1>4. ASSUME Mark(m, t, gone \cup OnLine(0), lost + 1) PROVE Mark(m, screen, gone, lost)
  <2>1. CASE m \in gone
    BY <2>1 DEF Mark
  <2>2. CASE m \in OnLine(0)
    <3>1. 0 \in Rows
      BY <1>1 DEF Rows
    <3> QED BY <1>3, <2>2, <3>1 DEF Mark
  <2>3. ASSUME NEW r \in Rows, NEW c \in Columns, t[r * Width + c] \in Letters,
               m = <<<<r + (lost + 1), c>>, t[r * Width + c]>>
        PROVE  Mark(m, screen, gone, lost)
    <3>1. r < Height - 1
      <4>1. r = Height - 1 \/ r < Height - 1
        BY <1>1 DEF Rows
      <4>2. r # Height - 1
        BY <1>1, <1>2, <2>3
      <4> QED BY <4>1, <4>2
    <3>2. t[r * Width + c] = screen[(r + 1) * Width + c]
      BY <1>2, <3>1
    <3>3. r + 1 \in Rows /\ r + (lost + 1) = (r + 1) + lost
      BY <1>1, <3>1 DEF Rows
    <3> QED BY <2>3, <3>2, <3>3 DEF Mark
  <2> QED BY <1>4, <2>1, <2>2, <2>3 DEF Mark
<1>5. ASSUME Mark(m, screen, gone, lost) PROVE Mark(m, t, gone \cup OnLine(0), lost + 1)
  <2>1. CASE m \in gone
    BY <2>1 DEF Mark
  <2>2. ASSUME NEW r \in Rows, NEW c \in Columns, screen[r * Width + c] \in Letters,
               m = <<<<r + lost, c>>, screen[r * Width + c]>>
        PROVE  Mark(m, t, gone \cup OnLine(0), lost + 1)
    <3>1. CASE r = 0
      <4>1. m \in OnLine(0)
        BY <1>3, <2>2, <3>1
      <4> QED BY <4>1 DEF Mark
    <3>2. CASE r # 0
      <4>1. /\ r - 1 \in Rows /\ r - 1 < Height - 1 /\ (r - 1) + 1 = r
            /\ (r - 1) + (lost + 1) = r + lost
        BY <1>1, <3>2 DEF Rows
      <4>2. t[(r - 1) * Width + c] = screen[r * Width + c]
        BY <1>2, <4>1
      <4> QED BY <2>2, <4>1, <4>2 DEF Mark
    <3> QED BY <3>1, <3>2
  <2> QED BY <1>5, <2>1, <2>2 DEF Mark
<1> QED BY <1>4, <1>5 DEF t

\* ... and the clearing of the last line.
LEMMA ClearKeepsMarks ==
  ASSUME PaperInv, ~torn, NEW m
  PROVE  Mark(m, Cleared(screen), gone, lost) <=> Mark(m, screen, gone, lost)
<1> DEFINE t == Cleared(screen)
<1>1. /\ \A c \in Columns : screen[(Height - 1) * Width + c] \notin Letters
      /\ Blank \notin Letters
  BY LettersAssumption DEF PaperInv, ConsoleType, Window
<1>2. \A r \in Rows, c \in Columns :
        t[r * Width + c] = IF r < Height - 1 THEN screen[r * Width + c] ELSE Blank
  BY ScrolledCells
<1>3. \A r \in Rows : r < Height - 1 \/ (r = Height - 1 /\ ~(r < Height - 1))
  BY ConsoleAssumption DEF Rows
<1> HIDE DEF t
<1>4. \A r \in Rows, c \in Columns :
        \/ t[r * Width + c] = screen[r * Width + c]
        \/ t[r * Width + c] \notin Letters /\ screen[r * Width + c] \notin Letters
  BY <1>1, <1>2, <1>3
<1>5. Mark(m, t, gone, lost) <=> Mark(m, screen, gone, lost)
  BY <1>4 DEF Mark
<1> QED BY <1>5 DEF t

\* A stored letter takes the place of what stood at the head, if anything did.
LEMMA StoreAddsMark ==
  ASSUME PaperInv, ~torn, at = "put", NEW x \in Letters, NEW m
  PROVE  Mark(m, Stored(screen, row, col, x), gone, lost)
           <=> (Mark(m, screen, gone, lost) /\ m[1] # <<row + lost, col>>)
                 \/ m = <<<<row + lost, col>>, x>>
<1> DEFINE t == Stored(screen, row, col, x)
<1>1. row \in Rows /\ col \in Columns /\ row \in Nat /\ col \in Nat /\ lost \in Nat
  BY DEF PaperInv, ConsoleType, Window, Rows, Columns
<1>2. \A r \in Rows, c \in Columns :
        t[r * Width + c] = IF r = row /\ c = col THEN x ELSE screen[r * Width + c]
  <2>1. screen \in [Cells -> Letters \cup {Blank, Old}]
    BY DEF PaperInv, ConsoleType, Window
  <2> TAKE r \in Rows, c \in Columns
  <2> QED BY <1>1, <2>1, StoredCell
<1>3. \A r \in Rows : r \in Nat /\ (r + lost = row + lost => r = row)
  BY <1>1 DEF Rows
<1>4. m \in gone => m[1] # <<row + lost, col>>
  <2>1. m \in gone => m[1][1] \in 0 .. lost - 1
    BY DEF PaperInv, ConsoleType, Window
  <2>2. <<row + lost, col>>[1] = row + lost
    OBVIOUS
  <2>3. ASSUME m[1][1] \in 0 .. lost - 1 PROVE m[1] # <<row + lost, col>>
    BY <1>1, <2>2, <2>3
  <2> QED BY <2>1, <2>3
<1> HIDE DEF t
<1>5. ASSUME Mark(m, t, gone, lost)
      PROVE  (Mark(m, screen, gone, lost) /\ m[1] # <<row + lost, col>>)
               \/ m = <<<<row + lost, col>>, x>>
  <2>1. CASE m \in gone
    BY <1>4, <2>1 DEF Mark
  <2>2. ASSUME NEW r \in Rows, NEW c \in Columns, t[r * Width + c] \in Letters,
               m = <<<<r + lost, c>>, t[r * Width + c]>>
        PROVE  (Mark(m, screen, gone, lost) /\ m[1] # <<row + lost, col>>)
                 \/ m = <<<<row + lost, col>>, x>>
    <3>1. CASE r = row /\ c = col
      BY <1>2, <2>2, <3>1
    <3>2. CASE ~(r = row /\ c = col)
      <4>1. t[r * Width + c] = screen[r * Width + c]
        BY <1>2, <3>2
      <4>2. m[1] = <<r + lost, c>> /\ m[1] # <<row + lost, col>>
        BY <1>3, <2>2, <3>2
      <4> QED BY <2>2, <4>1, <4>2 DEF Mark
    <3> QED BY <3>1, <3>2
  <2> QED BY <1>5, <2>1, <2>2 DEF Mark
<1>6. ASSUME m = <<<<row + lost, col>>, x>> PROVE Mark(m, t, gone, lost)
  <2>1. t[row * Width + col] = x
    BY <1>1, <1>2
  <2> QED BY <1>1, <1>6, <2>1 DEF Mark
<1>7. ASSUME Mark(m, screen, gone, lost), m[1] # <<row + lost, col>> PROVE Mark(m, t, gone, lost)
  <2>1. CASE m \in gone
    BY <2>1 DEF Mark
  <2>2. ASSUME NEW r \in Rows, NEW c \in Columns, screen[r * Width + c] \in Letters,
               m = <<<<r + lost, c>>, screen[r * Width + c]>>
        PROVE  Mark(m, t, gone, lost)
    <3>1. t[r * Width + c] = screen[r * Width + c]
      BY <1>2, <1>7, <2>2
    <3> QED BY <2>2, <3>1 DEF Mark
  <2> QED BY <1>7, <2>1, <2>2 DEF Mark
<1> QED BY <1>5, <1>6, <1>7 DEF t

\* Nothing else that a putchar() does is seen on the page.
LEMMA PageKept == ASSUME UNCHANGED <<screen, gone, lost>> PROVE printed' = printed
BY DEF printed, OnLine

\* The page is the same if its marks are.
LEMMA PageEqual ==
  ASSUME \A m : Mark(m, screen', gone', lost') <=> Mark(m, screen, gone, lost)
  PROVE  printed' = printed
<1>1. \A m : m \in printed' <=> m \in printed
  BY PrintedMarks
<1> QED BY <1>1

-----------------------------------------------------------------------------
(***************************************************************************)
(* Every step of a putchar() that no interrupt has torn is a step of the   *)
(* page, or leaves it alone.                                               *)
(***************************************************************************)
Follows == P!Next \/ UNCHANGED <<printed, head, torn>>

\* Nothing is printed by the call itself.
LEMMA BeginFollows ==
  ASSUME PaperInv, ~torn, NEW c \in Letters \cup Controls, Begin(c)
  PROVE  Window' /\ Follows
<1>1. /\ at = "idle" /\ at' = "wrap"
      /\ UNCHANGED <<screen, row, col, gone, lost, torn>>
  BY DEF Begin, history
<1>2. Window'
  BY <1>1 DEF PaperInv, Window, Rows, Columns
<1>3. printed' = printed /\ head' = head
  BY <1>1, PageKept DEF head
<1> QED BY <1>1, <1>2, <1>3 DEF Follows

\* At the last column the head goes to the next line, and elsewhere it stays.
LEMMA WrapFollows ==
  ASSUME PaperInv, ~torn, Wrap
  PROVE  Window' /\ Follows
<1>1. /\ at = "wrap" /\ at' = "fit"
      /\ row' = WrapRow(row, col) /\ col' = WrapCol(col)
      /\ UNCHANGED <<screen, gone, lost, torn>>
  BY DEF Wrap, history
<1>2. /\ row \in 0 .. Height - 1 /\ col \in 0 .. Width - 1
      /\ row = Height - 1 => col = 0
      /\ Width \in Nat /\ Width >= 3 /\ Height \in Nat /\ Height >= 3 /\ lost \in Nat
  BY <1>1, ConsoleAssumption DEF PaperInv, ConsoleType, Window, Rows, Columns
<1>3. IF col = Width - 1 THEN row' = row + 1 /\ col' = 0 ELSE row' = row /\ col' = col
  BY <1>1, <1>2 DEF WrapRow, WrapCol, LineEnds
<1>4. Window'
  <2>1. row' \in 0 .. Height - 1 /\ col' \in 0 .. Width - 2
    BY <1>2, <1>3
  <2>2. row' = Height - 1 => col' = 0
    BY <1>2, <1>3
  <2> QED BY <1>1, <1>2, <2>1, <2>2 DEF PaperInv, Window, Rows, Columns
<1>5. printed' = printed
  BY <1>1, PageKept
<1>6. head = <<row + lost, col>> /\ head' = <<row' + lost, col'>>
  BY <1>1, <1>2, <1>3 DEF head
<1>7. CASE col = Width - 1
  <2>1. P!Wrap
    BY <1>2, <1>3, <1>5, <1>6, <1>7 DEF P!Wrap
  <2> QED BY <1>1, <1>4, <2>1 DEF Follows, P!Next
<1>8. CASE col # Width - 1
  BY <1>1, <1>3, <1>4, <1>5, <1>6, <1>8 DEF Follows
<1> QED BY <1>7, <1>8

\* The copy takes the line that is lost to the record of lost lines.
LEMMA FitFollows ==
  ASSUME PaperInv, ~torn, Fit
  PROVE  Window' /\ Follows
<1>1. /\ at = "fit" /\ row \in Rows /\ col \in Columns /\ lost \in Nat
      /\ Height \in Nat /\ Height >= 3
      /\ UNCHANGED <<row, col, torn>>
  BY ConsoleAssumption DEF Fit, PaperInv, ConsoleType, Window
<1>2. CASE PageEnds(row)
  <2>1. /\ screen' = Copied(screen) /\ at' = "copied"
        /\ gone' = gone \cup OnLine(0) /\ lost' = lost + 1
    BY <1>2 DEF Fit
  <2>2. row = Height - 1
    BY <1>1, <1>2 DEF PageEnds, Rows
  <2>3. \A c \in Columns : screen'[(Height - 1) * Width + c] \notin Letters
    <3>1. Height - 1 \in Rows /\ ~(Height - 1 < Height - 1)
      BY <1>1 DEF Rows
    <3>2. \A c \in Columns : screen'[(Height - 1) * Width + c] = screen[(Height - 1) * Width + c]
      BY <2>1, <3>1, ScrolledCells
    <3> QED BY <3>2 DEF PaperInv, Window
  <2>4. \A m \in gone' : m[1][1] \in 0 .. lost' - 1
    <3>1. \A m \in gone : m[1][1] \in 0 .. (lost + 1) - 1
      BY <1>1 DEF PaperInv, Window
    <3>2. \A m \in OnLine(0) : m[1][1] = lost
      BY <1>1 DEF OnLine
    <3> QED BY <1>1, <2>1, <3>1, <3>2
  <2>5. Window'
    BY <1>1, <2>1, <2>2, <2>3, <2>4 DEF PaperInv, Window, Rows, Columns
  <2>6. printed' = printed
    BY <2>1, CopyKeepsMarks, PageEqual
  <2>7. head' = head
    BY <1>1, <2>1, <2>2 DEF head
  <2> QED BY <1>1, <2>5, <2>6, <2>7 DEF Follows
<1>3. CASE ~PageEnds(row)
  <2>1. at' = "put" /\ UNCHANGED <<screen, gone, lost>>
    BY <1>3 DEF Fit
  <2>2. row # Height - 1
    BY <1>1, <1>3 DEF PageEnds, Rows
  <2>3. Window'
    BY <1>1, <2>1, <2>2 DEF PaperInv, Window
  <2>4. printed' = printed /\ head' = head
    BY <1>1, <2>1, PageKept DEF head
  <2> QED BY <1>1, <2>3, <2>4 DEF Follows
<1> QED BY <1>2, <1>3

\* The line that is cleared was empty already.
LEMMA ClearFollows ==
  ASSUME PaperInv, ~torn, Clear
  PROVE  Window' /\ Follows
<1>1. /\ at = "copied" /\ at' = "cleared" /\ screen' = Cleared(screen)
      /\ UNCHANGED <<row, col, gone, lost, torn>>
      /\ Height \in Nat /\ Height >= 3
  BY ConsoleAssumption DEF Clear, history
<1>2. \A c \in Columns : screen'[(Height - 1) * Width + c] \notin Letters
  <2>1. Height - 1 \in Rows /\ ~(Height - 1 < Height - 1)
    BY <1>1 DEF Rows
  <2>2. \A c \in Columns : screen'[(Height - 1) * Width + c] = Blank
    BY <1>1, <2>1, ScrolledCells
  <2> QED BY <2>2, LettersAssumption
<1>3. Window'
  BY <1>1, <1>2 DEF PaperInv, Window, Rows, Columns
<1>4. printed' = printed /\ head' = head
  BY <1>1, ClearKeepsMarks, PageEqual DEF head
<1> QED BY <1>1, <1>3, <1>4 DEF Follows

\* The cursor is one row up, and one more line has gone: the head stays.
LEMMA RaiseFollows ==
  ASSUME PaperInv, ~torn, Raise
  PROVE  Window' /\ Follows
<1>1. /\ at = "cleared" /\ at' = "put" /\ row' = row - 1
      /\ UNCHANGED <<screen, col, gone, lost, torn>>
  BY DEF Raise, history
<1>2. /\ row = Height - 1 /\ col = 0 /\ lost \in Nat
      /\ Width \in Nat /\ Width >= 3 /\ Height \in Nat /\ Height >= 3
  BY <1>1, ConsoleAssumption DEF PaperInv, ConsoleType, Window
<1>3. Window'
  BY <1>1, <1>2 DEF PaperInv, Window, Rows, Columns
<1>4. printed' = printed /\ head' = head
  BY <1>1, <1>2, PageKept DEF head
<1> QED BY <1>1, <1>3, <1>4 DEF Follows

\* The head has moved with the letter or line feed before it.
LEMMA FinishFollows ==
  ASSUME PaperInv, ~torn, Finish
  PROVE  Window' /\ Follows
<1>1. /\ \/ at = "advance" /\ col' = col + 1
         \/ at = "home" /\ col' = 0
      /\ at' = "idle" /\ UNCHANGED <<screen, row, gone, lost, torn>>
  BY DEF Finish, history
<1>2. Width \in Nat /\ Width >= 3
  BY ConsoleAssumption
<1>3. Window'
  BY <1>1, <1>2 DEF PaperInv, Window, Rows, Columns
<1>4. printed' = printed /\ head' = head
  BY <1>1, PageKept DEF head
<1> QED BY <1>1, <1>3, <1>4 DEF Follows

\* The character is printed where the head is.
LEMMA PutFollows ==
  ASSUME PaperInv, ~torn, Put
  PROVE  Window' /\ Follows
<1>1. /\ at = "put" /\ UNCHANGED <<gone, lost, torn>>
      /\ row \in 0 .. Height - 2 /\ col \in 0 .. Width - 2 /\ lost \in Nat
      /\ Width \in Nat /\ Width >= 3 /\ Height \in Nat /\ Height >= 3
  BY ConsoleAssumption DEF Put, history, PaperInv, ConsoleType, Window, Rows, Columns
<1>2. head = <<row + lost, col>> /\ head[1] = row + lost /\ head[2] = col
  BY <1>1 DEF head
<1>3. CASE char = "\n" /\ row' = row + 1 /\ at' = "home" /\ UNCHANGED <<screen, col>>
  <2>1. Window'
    BY <1>1, <1>3 DEF PaperInv, Window, Rows, Columns
  <2>2. printed' = printed
    BY <1>1, <1>3, PageKept
  <2>3. head' = <<(row + lost) + 1, 0>>
    BY <1>1, <1>3 DEF head
  <2>4. P!NewLine
    BY <1>1, <1>2, <2>2, <2>3 DEF P!NewLine
  <2> QED BY <1>1, <2>1, <2>4 DEF Follows, P!Next
<1>4. CASE char = "\r" /\ col' = 0 /\ at' = "idle" /\ UNCHANGED <<screen, row>>
  <2>1. Window'
    BY <1>1, <1>4 DEF PaperInv, Window, Rows, Columns
  <2>2. printed' = printed
    BY <1>1, <1>4, PageKept
  <2>3. head' = <<row + lost, 0>>
    BY <1>1, <1>4 DEF head
  <2>4. P!Return
    BY <1>1, <1>2, <2>2, <2>3 DEF P!Return
  <2> QED BY <1>1, <2>1, <2>4 DEF Follows, P!Next
<1>5. CASE char = "nul" /\ at' = "idle" /\ UNCHANGED <<screen, row, col>>
  <2>1. Window'
    BY <1>1, <1>5 DEF PaperInv, Window, Rows, Columns
  <2>2. printed' = printed /\ head' = head
    BY <1>1, <1>5, PageKept DEF head
  <2> QED BY <1>1, <2>1, <2>2 DEF Follows
<1>6. CASE /\ char \in Letters /\ screen' = Stored(screen, row, col, char)
           /\ at' = "advance" /\ UNCHANGED <<row, col>>
  <2>1. Window'
    <3>1. row \in Rows /\ col \in Columns /\ Height - 1 \in Rows /\ Height - 1 # row
      BY <1>1 DEF Rows, Columns
    <3>2. screen \in [Cells -> Letters \cup {Blank, Old}]
      BY DEF PaperInv, ConsoleType
    <3>3. \A c \in Columns : screen'[(Height - 1) * Width + c] = screen[(Height - 1) * Width + c]
      BY <1>6, <3>1, <3>2, StoredCell
    <3> QED BY <1>1, <1>6, <3>1, <3>3 DEF PaperInv, Window
  <2>2. head' = <<row + lost, col + 1>>
    BY <1>1, <1>6 DEF head
  <2>3. \A m : m \in printed' <=>
               m \in {n \in printed : n[1] # head} \cup {<<head, char>>}
    <3>1. \A m : Mark(m, screen', gone', lost') <=>
            (Mark(m, screen, gone, lost) /\ m[1] # head) \/ m = <<head, char>>
      BY <1>1, <1>2, <1>6, StoreAddsMark
    <3> QED BY <3>1, PrintedMarks
  <2>4. printed' = {n \in printed : n[1] # head} \cup {<<head, char>>}
    BY <2>3
  <2>5. P!Write(char)
    BY <1>1, <1>2, <2>2, <2>4 DEF P!Write
  <2> QED BY <1>1, <1>6, <2>1, <2>5 DEF Follows, P!Next
<1> QED BY <1>3, <1>4, <1>5, <1>6 DEF Put

-----------------------------------------------------------------------------
\* The cells written are cells of the screen, also by an interrupt.
LEMMA ConsoleTyped == ConsoleType /\ [Next]_vars => ConsoleType'
<1> SUFFICES ASSUME ConsoleType, [Next]_vars PROVE ConsoleType'
  OBVIOUS
<1> DEFINE Screens == [Cells -> Letters \cup {Blank, Old}]
           Typed == /\ screen' \in Screens /\ at' \in Steps
                    /\ char' \in Letters \cup Controls
                    /\ lost' \in Nat /\ torn' \in BOOLEAN
<1>1. \A s \in Screens : Copied(s) \in Screens
  <2> TAKE s \in Screens
  <2>1. ASSUME NEW i \in Cells, i < Width * (Height - 1) PROVE i + Width \in Cells
    <3>1. /\ Width \in Nat /\ Height \in Nat /\ Height - 1 \in Nat
          /\ Width * Height = Width * (Height - 1) + Width
      BY ConsoleAssumption
    <3>2. Width * Height \in Nat /\ Width * (Height - 1) \in Nat
      BY <3>1
    <3> QED BY <2>1, <3>1, <3>2 DEF Cells
  <2> HIDE DEF Cells
  <2> QED BY <2>1 DEF Copied
<1>2. \A s \in Screens : Cleared(s) \in Screens
  BY DEF Cleared
<1>3. \A s \in Screens, x \in Letters : \A r, c : Stored(s, r, c, x) \in Screens
  BY DEF Stored
<1> HIDE DEF Screens
<1>4. /\ screen \in Screens /\ at \in Steps /\ char \in Letters \cup Controls
      /\ lost \in Nat /\ torn \in BOOLEAN
  BY DEF ConsoleType, Screens
<1>5. Typed
  <2>1. CASE UNCHANGED vars
    BY <1>4, <2>1 DEF vars, history
  <2>2. ASSUME NEW c \in Letters \cup Controls, Begin(c) PROVE Typed
    BY <1>4, <2>2 DEF Begin, history, Steps
  <2>3. ASSUME NEW c \in Letters \cup Controls, Interrupt(c) PROVE Typed
    BY <1>1, <1>2, <1>3, <1>4, <2>3 DEF Interrupt
  <2>4. CASE Wrap
    BY <1>4, <2>4 DEF Wrap, history, Steps
  <2>5. CASE Fit
    BY <1>1, <1>4, <2>5 DEF Fit, Steps
  <2>6. CASE Clear
    BY <1>2, <1>4, <2>6 DEF Clear, history, Steps
  <2>7. CASE Raise
    BY <1>4, <2>7 DEF Raise, history, Steps
  <2>8. CASE Put
    BY <1>3, <1>4, <2>8 DEF Put, history, Steps
  <2>9. CASE Finish
    BY <1>4, <2>9 DEF Finish, history, Steps
  <2> QED BY <2>1, <2>2, <2>3, <2>4, <2>5, <2>6, <2>7, <2>8, <2>9 DEF Next
<1> QED BY <1>5 DEF ConsoleType, Screens

\* At the start both the page and the screen are empty.
LEMMA PaperStart == Init => PaperInv /\ P!Init
<1> SUFFICES ASSUME Init PROVE PaperInv /\ P!Init
  OBVIOUS
<1>0. row = 0 /\ col = 0 /\ at = "idle" /\ gone = {} /\ lost = 0 /\ torn = FALSE
  BY DEF Init
<1>1. \A r \in Rows, c \in Columns : screen[r * Width + c] \notin Letters
  <2>1. \A r \in Rows, c \in Columns : r * Width + c \in Cells
    BY CellUnique
  <2>2. \A i \in Cells : screen[i] \in {Blank, Old}
    BY DEF Init
  <2> QED BY <2>1, <2>2, LettersAssumption
<1>2. ConsoleType
  BY DEF Init, ConsoleType, Steps, Controls
<1>3. Window
  <2>1. Height - 1 \in Rows
    BY ConsoleAssumption DEF Rows
  <2> QED BY <1>0, <1>1, <2>1, ConsoleAssumption DEF Window, Rows, Columns
<1>4. printed = {}
  <2>1. \A m : ~Mark(m, screen, gone, lost)
    BY <1>0, <1>1 DEF Mark
  <2> QED BY <2>1, PrintedMarks
<1>5. head = <<0, 0>>
  <2>1. ~(at \in {"copied", "cleared"}) /\ at # "advance" /\ at # "home"
    BY <1>0
  <2>2. row + lost - 0 = 0 /\ col = 0
    BY <1>0
  <2> QED BY <2>1, <2>2 DEF head
<1> QED BY <1>0, <1>2, <1>3, <1>4, <1>5 DEF PaperInv, P!Init

\* Once an interrupt has printed, the page may be anything.
LEMMA PaperStep == PaperInv /\ [Next]_vars => PaperInv' /\ [P!Next]_<<printed, head, torn>>
<1> SUFFICES ASSUME PaperInv, [Next]_vars PROVE PaperInv' /\ Follows
  BY DEF Follows
<1>1. ConsoleType'
  BY ConsoleTyped DEF PaperInv
<1>2. CASE torn'
  BY <1>1, <1>2 DEF PaperInv, Follows, P!Next
<1>3. CASE ~torn'
  <2>1. CASE UNCHANGED vars
    <3>1. UNCHANGED <<screen, row, col, at, gone, lost, torn>>
      BY <2>1 DEF vars, history
    <3>2. printed' = printed /\ head' = head /\ (Window => Window')
      BY <3>1, PageKept DEF head, Window
    <3> QED BY <1>1, <3>1, <3>2 DEF PaperInv, Follows
  <2>2. \A c : ~Interrupt(c)
    BY <1>3 DEF Interrupt
  <2>3. CASE Next
    <3>1. torn' = torn
      BY <2>2, <2>3 DEF Next, Begin, Wrap, Fit, Clear, Raise, Put, Finish, history
    <3>2. ~torn
      BY <1>3, <3>1
    <3>3. Window' /\ Follows
      BY <2>2, <2>3, <3>2, BeginFollows, WrapFollows, FitFollows, ClearFollows,
         RaiseFollows, PutFollows, FinishFollows
         DEF Next
    <3> QED BY <1>1, <3>3 DEF PaperInv
  <2> QED BY <2>1, <2>3
<1> QED BY <1>2, <1>3

(***************************************************************************)
(* The console prints on a page without end, as long as no interrupt       *)
(* prints within a putchar(): Console implements Paper.                     *)
(***************************************************************************)
THEOREM PrintsOnPaper == Spec => ImplementsPaper
BY PaperStart, PaperStep, PTL DEF Spec, ImplementsPaper, P!Spec

-----------------------------------------------------------------------------
\* A putchar() that can scroll has a line to lose.
LostInv ==
  /\ lost \in 0 .. MaxLost
  /\ at # "idle" => MaxLost > 0
  /\ at \in {"wrap", "fit"} => lost < MaxLost

LEMMA LostStep == LostInv /\ [Next]_vars => LostInv'
<1> SUFFICES ASSUME LostInv, [Next]_vars PROVE LostInv'
  OBVIOUS
<1> USE ConsoleAssumption DEF LostInv
<1>1. CASE UNCHANGED vars
  BY <1>1 DEF vars, history
<1>2. ASSUME NEW c \in Letters \cup Controls, Begin(c) \/ Interrupt(c) PROVE LostInv'
  BY <1>2 DEF Begin, Interrupt, history
<1>3. CASE Wrap \/ Clear \/ Raise \/ Put \/ Finish
  BY <1>3 DEF Wrap, Clear, Raise, Put, Finish, history
<1>4. CASE Fit
  BY <1>4 DEF Fit
<1> QED BY <1>1, <1>2, <1>3, <1>4 DEF Next

(***************************************************************************)
(* The cursor is on the screen or one beyond its edges, and the cells are  *)
(* those of the screen, whatever handlers print in between (tty.c:29-83).  *)
(***************************************************************************)
THEOREM ConsoleTypes == Spec => []TypeOK
<1>1. Spec => []CursorInv
  BY CursorInit, CursorNext, PTL DEF Spec
<1>2. Spec => []PaperInv
  BY PaperStart, PaperStep, PTL DEF Spec
<1>3. Init => LostInv
  BY ConsoleAssumption DEF Init, LostInv
<1>4. Spec => []LostInv
  BY <1>3, LostStep, PTL DEF Spec
<1>5. CursorInv /\ PaperInv /\ LostInv => TypeOK
  BY DEF CursorInv, PaperInv, ConsoleType, LostInv, TypeOK
<1> QED BY <1>1, <1>2, <1>4, <1>5, PTL
=============================================================================
