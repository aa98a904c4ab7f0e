------------------------------- MODULE Panel -------------------------------
(***************************************************************************)
(* What can be read on the panel: the layout of displayNum(),              *)
(* displayText() and startDisplay() (byter/byter.ino) by print() and       *)
(* drawChar() of Adafruit_GFX, put together with the device that calls     *)
(* them (module Byter).                                                    *)
(*                                                                         *)
(* Every page sets the cursor before it prints, but for the one of a full  *)
(* count: that one goes on where the page before it ended, so what can be  *)
(* seen of it depends on the order of the pages.                           *)
(*                                                                         *)
(* A page is the set of its characters, with their places; the font has 5  *)
(* columns, and 7 rows for digits and 8 for letters.                       *)
(***************************************************************************)
EXTENDS Byter, FiniteSets

CONSTANTS
  Width, Height,  \* SCREEN_WIDTH, SCREEN_HEIGHT
  Digits          \* how many digits each count below MaxCnt has

ASSUME PanelAssumption ==
  /\ {Width, Height} \subseteq Nat
  /\ Digits \in [0..MaxCnt - 1 -> 1..10]

\* No message is longer than the rules it stands between; how long the last
\* word of the start page is decides where the page ends.
ASSUME MessageAssumption ==
  /\ \A t \in Texts \cup {"Overflowing"} : Len(t) \in 1..19
  /\ Len("Counter") = 7

VARIABLES
  cursor,         \* cursor_x and cursor_y
  drawn,          \* the characters of the image in RAM
  lit             \* those of the image on the panel

panelVars == <<vars, cursor, drawn, lit>>

At(x, y) == [x |-> x, y |-> y]

-----------------------------------------------------------------------------
(* Adafruit_GFX                                                            *)

\* How many characters fit into the rest of a line.
Fit(x, size) == (Width - x) \div (6 * size)

\* write(): the line and the column of the i-th character printed from x on; a
\* full line is continued at the left of the next one.
Line(x, size, i) ==
  IF i <= Fit(x, size) THEN 0
  ELSE 1 + (i - Fit(x, size) - 1) \div Fit(0, size)
Column(x, size, i) ==
  6 * size * IF i <= Fit(x, size) THEN i - 1
             ELSE (i - Fit(x, size) - 1) % Fit(0, size)

\* The new line at the end of println().  Mutant: the carriage return before
\* it is not ignored.
NewlineTwice(c, size) == At(0, c.y + 16 * size)
Newline(c, size) == At(0, c.y + 8 * size)

\* println() of n characters that have so many rows
Println(page, size, n, rows) ==
  LET c    == page.cursor
      Y(i) == c.y + 8 * size * Line(c.x, size, i)
      X(i) == Column(c.x, size, i)
                + (IF i <= Fit(c.x, size) THEN c.x ELSE 0)
  IN [cursor |-> Newline(At(0, Y(n)), size),
      chars  |-> page.chars \cup
                   {[x |-> X(i), y |-> Y(i), size |-> size, rows |-> rows] :
                     i \in 1..n}]

Clear(c) == [cursor |-> c, chars |-> {}]
SetCursor(page, x, y) == [page EXCEPT !.cursor = At(x, y)]

\* drawChar() and drawPixel() clip at the edges: all of a character is to be
\* seen, or some of it.
Whole(c) == c.x + 5 * c.size <= Width /\ c.y + c.rows * c.size <= Height
Some(c)  == c.x < Width /\ c.y < Height

-----------------------------------------------------------------------------
(* The pages                                                               *)

\* The size of the text, up to 99999 and up to 9999999.  Mutant: one digit
\* late.
SizeLate(digits) == IF digits <= 6 THEN 4 ELSE IF digits <= 8 THEN 3 ELSE 2
Size(digits) == IF digits <= 5 THEN 4 ELSE IF digits <= 7 THEN 3 ELSE 2

\* displayNum(n) with the cursor at c; isCloseToMax is never set.
NumPage(c, n) ==
  IF n < MaxCnt
  THEN LET size == Size(Digits[n])
           y    == CASE size = 4 -> 2 [] size = 3 -> 5 [] size = 2 -> 9
       IN Println(SetCursor(Clear(c), 0, y), size, Digits[n], 7)
  ELSE Println(Println(Clear(c), 1, Len("Overflowing"), 8), 1, 10, 7)

\* displayText(text): the text between two rules of 19 dashes.  Mutant: the
\* cursor is not set.
TextPageAtCursor(c, text) ==
  Println(Println(Println(Clear(c), 1, 19, 8), 1, Len(text), 8), 1, 19, 8)
TextPage(c, text) ==
  LET top == Println(SetCursor(Clear(c), 0, 3), 1, 19, 8)
  IN Println(Println(top, 1, Len(text), 8), 1, 19, 8)

\* startDisplay()
StartPage ==
  LET one == Println(Clear(At(0, 0)), 1, Len("Keyboard"), 8)
      two == Println(SetCursor(one, 48, 10), 1, Len("Stokes"), 8)
  IN Println(SetCursor(two, 85, 20), 1, Len("Counter"), 8)

-----------------------------------------------------------------------------
(* The device with its panel                                               *)

\* setup() shows the start page, then the count.
SetupPage(n) == NumPage(StartPage.cursor, n)

PanelInit ==
  /\ Init
  /\ LET page == SetupPage(cnt) IN
       cursor = page.cursor /\ drawn = page.chars /\ lit = page.chars

Draw(page) == cursor' = page.cursor /\ drawn' = page.chars

\* displayNum() and displayText() draw when loop() gets to their display().
Drawing ==
  CASE pc' # pc /\ pc' \in {"rwNum", "num"} -> Draw(NumPage(cursor, cnt'))
    [] pc' # pc /\ pc' = "text"             -> Draw(TextPage(cursor, buffer'[2]))
    [] OTHER                                -> UNCHANGED <<cursor, drawn>>

\* display() has transferred the image when loop() goes on.
Transfer ==
  lit' = IF pc \in {"rwNum", "text", "num"} /\ pc' # pc THEN drawn ELSE lit

PanelNext ==
  \/ Loop /\ Drawing /\ Transfer
  \/ (System \/ \E v \in Reports : Arrive(v)) /\ UNCHANGED <<cursor, drawn, lit>>
  \/ PowerCycle /\ Draw(SetupPage(cnt')) /\ lit' = drawn'

PanelSpec == PanelInit /\ [][PanelNext]_panelVars

-----------------------------------------------------------------------------
(* Properties                                                              *)

\* Every digit of the count that is on the panel can be read, whatever pages
\* came before (the sizes and cursors of displayNum()).
CountIsReadable ==
  \A n \in 0..MaxCnt - 1 :
    screen = Num(n) => Cardinality(lit) = Digits[n] /\ \A c \in lit : Whole(c)

\* So can every message.
MessagesAreReadable ==
  \A t \in Texts : screen = Text(t) => \A c \in lit : Whole(c)

\* The panel is never dark: also of the page of a full count something is to
\* be seen, wherever the page before it has left the cursor.  Needs reports
\* that repeat no slot and nobody who uses /set: a count that gets full
\* another way than by the strokes just below its maximum follows a page
\* that ends below the panel.
PanelIsNeverDark == \E c \in lit : Some(c)

=============================================================================
