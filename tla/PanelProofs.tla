---------------------------- MODULE PanelProofs ----------------------------
(***************************************************************************)
(* Every count below the maximum and every message can be read whole, for  *)
(* every width of the count and every order of the pages, on a panel that  *)
(* is at least 126 columns wide and 30 rows high (the sketch's has 128 and *)
(* 32); on one that is 127 columns wide it is never dark either, as long   *)
(* as only strokes fill the count and the last counts below the maximum    *)
(* have at least 8 digits (the sketch's have 10).                          *)
(*                                                                         *)
(* The invariant says that the characters drawn are those of the page that *)
(* Byter says is in the image; a page that sets the cursor first does not  *)
(* depend on the pages before it.  The page of a full count does not set   *)
(* it: for that one a second invariant says where each page leaves it.     *)
(***************************************************************************)
EXTENDS Panel, ByterProofs, FunctionTheorems

LargeEnough == Width \in Nat /\ Height \in Nat /\ Width >= 126 /\ Height >= 30

\* The characters of a line of n characters that begins at the left edge.
OnLine(y, size, n, rows) ==
  {[x |-> 6 * size * (i - 1), y |-> y, size |-> size, rows |-> rows] : i \in 1..n}

\* How many characters of each size fit into a line.
LEMMA FitFacts ==
  ASSUME LargeEnough
  PROVE  /\ Fit(0, 1) \in Nat /\ Fit(0, 1) >= 19
         /\ Fit(0, 2) \in Nat /\ Fit(0, 2) >= 10
         /\ Fit(0, 3) \in Nat /\ Fit(0, 3) >= 7
         /\ Fit(0, 4) \in Nat /\ Fit(0, 4) >= 5
<1> USE DEF LargeEnough
<1>1. Width \div 6 \in Nat /\ Width \div 6 >= 19
  OBVIOUS
<1>2. Width \div 12 \in Nat /\ Width \div 12 >= 10
  OBVIOUS
<1>3. Width \div 18 \in Nat /\ Width \div 18 >= 7
  OBVIOUS
<1>4. Width \div 24 \in Nat /\ Width \div 24 >= 5
  OBVIOUS
<1>5. Width - 0 = Width /\ 6 * 1 = 6 /\ 6 * 2 = 12 /\ 6 * 3 = 18 /\ 6 * 4 = 24
  OBVIOUS
<1> QED
  BY <1>1, <1>2, <1>3, <1>4, <1>5 DEF Fit

\* print() of characters that fit into the line puts them on that line.
LEMMA OneLine ==
  ASSUME NEW page, NEW y \in Nat, NEW size \in 1..4, NEW n \in Nat \ {0},
         NEW rows, page.cursor = At(0, y), Fit(0, size) \in Nat,
         n <= Fit(0, size)
  PROVE  /\ Println(page, size, n, rows).chars
              = page.chars \cup OnLine(y, size, n, rows)
         /\ Println(page, size, n, rows).cursor = At(0, y + 8 * size)
<1> DEFINE c == page.cursor
           Y(i) == c.y + 8 * size * Line(c.x, size, i)
           X(i) == Column(c.x, size, i)
                     + (IF i <= Fit(c.x, size) THEN c.x ELSE 0)
<1>1. c.x = 0 /\ c.y = y
  BY DEF At
<1>2. ASSUME NEW i \in 1..n
      PROVE  X(i) = 6 * size * (i - 1) /\ Y(i) = y
  <2>1. i <= Fit(0, size)
    OBVIOUS
  <2>2. Line(0, size, i) = 0 /\ Column(0, size, i) = 6 * size * (i - 1)
    BY <2>1 DEF Line, Column
  <2>3. 6 * size * (i - 1) \in Int
    OBVIOUS
  <2>4. Y(i) = y
    <3>1. 8 * size * 0 = 0 /\ y + 0 = y
      OBVIOUS
    <3> QED
      BY <1>1, <2>2, <3>1, Zenon
  <2>5. X(i) = 6 * size * (i - 1)
    BY <1>1, <2>1, <2>2, <2>3
  <2> QED
    BY <2>4, <2>5
<1>3. Println(page, size, n, rows)
        = [cursor |-> Newline(At(0, Y(n)), size),
           chars  |-> page.chars \cup
             {[x |-> X(i), y |-> Y(i), size |-> size, rows |-> rows] : i \in 1..n}]
  BY DEF Println
<1> HIDE DEF X, Y
<1>4. {[x |-> X(i), y |-> Y(i), size |-> size, rows |-> rows] : i \in 1..n}
        = OnLine(y, size, n, rows)
  BY <1>2 DEF OnLine
<1>5. Newline(At(0, Y(n)), size) = At(0, y + 8 * size)
  <2>1. Y(n) = y
    BY <1>2
  <2> QED
    BY <2>1 DEF Newline, At
<1> QED
  BY <1>3, <1>4, <1>5

\* A line of n characters has n characters, and is seen whole if its end and
\* its last row are on the panel.
LEMMA LineIsWhole ==
  ASSUME LargeEnough, NEW y \in Nat, NEW size \in 1..4, NEW n \in Nat \ {0},
         NEW rows \in Nat, 6 * size * (n - 1) + 5 * size <= Width,
         y + rows * size <= Height
  PROVE  \A c \in OnLine(y, size, n, rows) : Whole(c)
<1> SUFFICES ASSUME NEW i \in 1..n
             PROVE  /\ 6 * size * (i - 1) + 5 * size <= Width
                    /\ y + rows * size <= Height
  BY DEF OnLine, Whole
<1>1. 6 * size * (i - 1) <= 6 * size * (n - 1)
  <2>1. CASE size = 1
    BY <2>1
  <2>2. CASE size = 2
    BY <2>2
  <2>3. CASE size = 3
    BY <2>3
  <2>4. CASE size = 4
    BY <2>4
  <2> QED
    BY <2>1, <2>2, <2>3, <2>4
<1>2. /\ 6 * size * (i - 1) \in Int /\ 6 * size * (n - 1) \in Int
      /\ 5 * size \in Int
  OBVIOUS
<1> QED
  BY <1>1, <1>2 DEF LargeEnough

LEMMA LineCount ==
  ASSUME NEW y, NEW size \in 1..4, NEW n \in Nat, NEW rows
  PROVE  Cardinality(OnLine(y, size, n, rows)) = n
<1> DEFINE S == OnLine(y, size, n, rows)
           g(i) == [x |-> 6 * size * (i - 1), y |-> y, size |-> size, rows |-> rows]
           f == [i \in 1..n |-> g(i)]
<1>1. \A i, j \in 1..n : 6 * size * (i - 1) = 6 * size * (j - 1) => i = j
  <2>1. CASE size = 1
    BY <2>1
  <2>2. CASE size = 2
    BY <2>2
  <2>3. CASE size = 3
    BY <2>3
  <2>4. CASE size = 4
    BY <2>4
  <2> QED
    BY <2>1, <2>2, <2>3, <2>4
<1>2. \A i, j \in 1..n : g(i) = g(j) => i = j
  <2>1. \A i, j \in 1..n : g(i) = g(j) => g(i).x = g(j).x
    OBVIOUS
  <2>2. \A i \in 1..n : g(i).x = 6 * size * (i - 1)
    OBVIOUS
  <2> HIDE DEF g
  <2> QED
    BY <1>1, <2>1, <2>2, Zenon
<1>3. S = {g(i) : i \in 1..n}
  BY DEF OnLine
<1> HIDE DEF g, S
<1>4. f \in [1..n -> S] /\ \A a, b \in 1..n : f[a] = f[b] => a = b
  BY <1>2, <1>3
<1>5. \A t \in S : \E s \in 1..n : f[s] = t
  BY <1>3
<1> HIDE DEF f
<1>6. f \in Bijection(1..n, S)
  BY <1>4, <1>5, Fun_IsBij
<1>7. ExistsBijection(1..n, S)
  BY <1>6, Fun_ExistsBij, Zenon
<1>8. Cardinality(S) = n
  BY <1>7, FS_CountingElements
<1> QED
  BY <1>8 DEF S

-----------------------------------------------------------------------------
(* The pages                                                               *)

\* The size and the height of the page of n, as displayNum() chooses them.
TextSize(n) == Size(Digits[n])
Top(size) == CASE size = 4 -> 2 [] size = 3 -> 5 [] size = 2 -> 9

\* Where it leaves the cursor.
Foot(n) == Top(TextSize(n)) + 8 * TextSize(n)

Number(n) == OnLine(Top(TextSize(n)), TextSize(n), Digits[n], 7)
Message(t) ==
  (OnLine(3, 1, 19, 8) \cup OnLine(11, 1, Len(t), 8)) \cup OnLine(19, 1, 19, 8)

\* The digits of a count fit into one line, in width and in height.
LEMMA SizeFacts ==
  ASSUME LargeEnough, NEW n \in 0..MaxCnt - 1
  PROVE  /\ Digits[n] \in Nat \ {0} /\ TextSize(n) \in 2..4
         /\ Top(TextSize(n)) \in Nat
         /\ Fit(0, TextSize(n)) \in Nat /\ Digits[n] <= Fit(0, TextSize(n))
         /\ 6 * TextSize(n) * (Digits[n] - 1) + 5 * TextSize(n) <= Width
         /\ Top(TextSize(n)) + 7 * TextSize(n) <= Height
<1> DEFINE d == Digits[n]
<1>1. d \in 1..10
  BY PanelAssumption
<1>2. TextSize(n) = Size(d)
  BY DEF TextSize
<1> HIDE DEF d
<1>3. CASE d <= 5
  <2>1. TextSize(n) = 4 /\ Top(4) = 2
    BY <1>1, <1>2, <1>3 DEF Size, Top
  <2> QED
    BY <1>1, <1>3, <2>1, FitFacts DEF LargeEnough, d
<1>4. CASE d > 5 /\ d <= 7
  <2>1. TextSize(n) = 3 /\ Top(3) = 5
    BY <1>1, <1>2, <1>4 DEF Size, Top
  <2> QED
    BY <1>1, <1>4, <2>1, FitFacts DEF LargeEnough, d
<1>5. CASE d > 7
  <2>1. TextSize(n) = 2 /\ Top(2) = 9
    BY <1>1, <1>2, <1>5 DEF Size, Top
  <2> QED
    BY <1>1, <1>5, <2>1, FitFacts DEF LargeEnough, d
<1> QED
  BY <1>1, <1>3, <1>4, <1>5

\* displayNum() draws the same and leaves the cursor at the same place,
\* wherever it was.
LEMMA NumPageIs ==
  ASSUME LargeEnough, NEW n \in 0..MaxCnt - 1, NEW c
  PROVE  /\ NumPage(c, n).chars = Number(n)
         /\ NumPage(c, n).cursor = At(0, Foot(n))
<1> DEFINE s == TextSize(n)
           p == SetCursor(Clear(c), 0, Top(s))
<1>1. NumPage(c, n) = Println(p, s, Digits[n], 7)
  <2>1. n < MaxCnt
    BY MaxCntAssumption
  <2> QED
    BY <2>1 DEF NumPage, TextSize, Top
<1>2. p.cursor = At(0, Top(s)) /\ p.chars = {}
  BY DEF SetCursor, Clear
<1> HIDE DEF p
<1>3. /\ Println(p, s, Digits[n], 7).chars
           = p.chars \cup OnLine(Top(s), s, Digits[n], 7)
      /\ Println(p, s, Digits[n], 7).cursor = At(0, Top(s) + 8 * s)
  <2> DEFINE y == Top(s)
             d == Digits[n]
  <2>1. s \in 1..4 /\ y \in Nat /\ d \in Nat \ {0} /\ Fit(0, s) \in Nat /\ d <= Fit(0, s)
    BY SizeFacts
  <2>2. p.cursor = At(0, y)
    BY <1>2
  <2> HIDE DEF s, y, d
  <2>3. /\ Println(p, s, d, 7).chars = p.chars \cup OnLine(y, s, d, 7)
        /\ Println(p, s, d, 7).cursor = At(0, y + 8 * s)
    BY <2>1, <2>2, OneLine
  <2> QED
    BY <2>3 DEF y, d
<1> QED
  BY <1>1, <1>2, <1>3 DEF Number, Foot

\* So does displayText().
LEMMA TextPageIs ==
  ASSUME LargeEnough, NEW t \in Texts, NEW c
  PROVE  TextPage(c, t).chars = Message(t) /\ TextPage(c, t).cursor = At(0, 27)
<1> DEFINE p == SetCursor(Clear(c), 0, 3)
           one == Println(p, 1, 19, 8)
           two == Println(one, 1, Len(t), 8)
<1>1. /\ Fit(0, 1) \in Nat /\ 19 <= Fit(0, 1) /\ 1 \in 1..4
      /\ 3 \in Nat /\ 19 \in Nat \ {0}
  BY FitFacts
<1>2. Len(t) \in Nat \ {0} /\ Len(t) <= Fit(0, 1)
  <2> DEFINE m == Len(t)
  <2>1. m \in 1..19
    BY MessageAssumption
  <2> HIDE DEF m
  <2>2. m \in Nat \ {0} /\ m <= Fit(0, 1)
    BY <1>1, <2>1
  <2> QED
    BY <2>2 DEF m
<1>3. p.cursor = At(0, 3) /\ p.chars = {}
  BY DEF SetCursor, Clear
<1> HIDE DEF p
<1>4. one.chars = OnLine(3, 1, 19, 8) /\ one.cursor = At(0, 11)
  <2>0. p.cursor = At(0, 3)
    BY <1>3
  <2>1. Println(p, 1, 19, 8).chars = p.chars \cup OnLine(3, 1, 19, 8)
    BY <1>1, <2>0, OneLine
  <2>2. Println(p, 1, 19, 8).cursor = At(0, 3 + 8 * 1)
    BY <1>1, <2>0, OneLine
  <2> QED
    BY <1>3, <2>1, <2>2
<1> HIDE DEF one
<1>5. /\ two.chars = OnLine(3, 1, 19, 8) \cup OnLine(11, 1, Len(t), 8)
      /\ two.cursor = At(0, 19)
  <2>1. /\ two.chars = one.chars \cup OnLine(11, 1, Len(t), 8)
        /\ two.cursor = At(0, 11 + 8 * 1)
    BY <1>1, <1>2, <1>4, OneLine
  <2> QED
    BY <1>4, <2>1
<1> HIDE DEF two
<1>6. /\ Println(two, 1, 19, 8).chars = two.chars \cup OnLine(19, 1, 19, 8)
      /\ Println(two, 1, 19, 8).cursor = At(0, 19 + 8 * 1)
  BY <1>1, <1>5, OneLine
<1>7. TextPage(c, t) = Println(two, 1, 19, 8)
  BY DEF TextPage, two, one, p
<1> QED
  BY <1>5, <1>6, <1>7 DEF Message

-----------------------------------------------------------------------------
(* The invariant                                                           *)

\* The characters are those of the image.
Shows(image, chars) ==
  /\ \A n \in 0..MaxCnt - 1 : image = Num(n) => chars = Number(n)
  /\ \A t \in Texts : image = Text(t) => chars = Message(t)

PageInv == Shows(buffer, drawn) /\ Shows(screen, lit)

LEMMA ImagesDiffer ==
  /\ \A m, n : Num(m) = Num(n) => m = n
  /\ \A t, u : Text(t) = Text(u) => t = u
  /\ \A n, t : Text(t) # Num(n)
  /\ \A t : Text(t)[2] = t
  BY DEF Num, Text

\* A page that has just been drawn.
LEMMA PageShown ==
  ASSUME LargeEnough
  PROVE  /\ \A c, m : Shows(Num(m), NumPage(c, m).chars)
         /\ \A c : \A u \in Texts : Shows(Text(u), TextPage(c, u).chars)
<1>1. ASSUME NEW c, NEW m
      PROVE  Shows(Num(m), NumPage(c, m).chars)
  <2>1. ASSUME NEW n \in 0..MaxCnt - 1, Num(m) = Num(n)
        PROVE  NumPage(c, m).chars = Number(n)
    <3>1. m = n
      BY <2>1, ImagesDiffer, Zenon
    <3> QED
      BY <3>1, NumPageIs, Zenon
  <2> QED
    BY <2>1, ImagesDiffer DEF Shows
<1>2. ASSUME NEW c, NEW u \in Texts
      PROVE  Shows(Text(u), TextPage(c, u).chars)
  <2>1. ASSUME NEW t \in Texts, Text(u) = Text(t)
        PROVE  TextPage(c, u).chars = Message(t)
    <3>1. u = t
      BY <2>1, ImagesDiffer, Zenon
    <3> QED
      BY <3>1, TextPageIs, Zenon
  <2> QED
    BY <2>1, ImagesDiffer DEF Shows
<1> QED
  BY <1>1, <1>2, Zenon

ShownPlaces == {"rwNum", "text", "num"}

\* What a step of loop() does to the images: a count is drawn, a message is
\* drawn, the image is transferred, or nothing.
LEMMA LoopDraws ==
  ASSUME Loop
  PROVE  \/ /\ pc \notin ShownPlaces /\ pc' \in {"rwNum", "num"}
            /\ buffer' = Num(cnt') /\ screen' = screen
         \/ /\ pc \notin ShownPlaces /\ pc' = "text"
            /\ \E t \in Texts : buffer' = Text(t)
            /\ screen' = screen
         \/ /\ pc \in ShownPlaces /\ pc' \notin ShownPlaces
            /\ buffer' = buffer /\ screen' = buffer
         \/ /\ pc \notin ShownPlaces /\ pc' \notin ShownPlaces
            /\ buffer' = buffer /\ screen' = screen
<1> USE DEF ShownPlaces, panel
<1>1. CASE LoopStart \/ Available \/ NoPress \/ NoEvent
  BY <1>1 DEF LoopStart, Available, NoPress, NoEvent
<1>2. CASE CountReport
  BY <1>2 DEF CountReport, DisplayNum
<1>3. CASE RwShown \/ TextShown \/ ButtonDone \/ EventDone
  BY <1>3 DEF RwShown, TextShown, ButtonDone, EventDone
<1>4. CASE ShortPress \/ LongPress \/ SetEvent
  BY <1>4 DEF ShortPress, LongPress, SetEvent, DisplayText, Texts
<1>5. CASE MuchLongerPress \/ ClearEvent
  BY <1>5 DEF MuchLongerPress, ClearEvent, ManualClear, DisplayText, Texts
<1>6. CASE WaitOver
  BY <1>6 DEF WaitOver, DisplayNum
<1> QED
  BY <1>1, <1>2, <1>3, <1>4, <1>5, <1>6 DEF Loop

LEMMA PageInvStep ==
  ASSUME LargeEnough, PageInv, [PanelNext]_panelVars
  PROVE  PageInv'
<1> USE DEF PageInv
<1>1. CASE Loop /\ Drawing /\ Transfer
  <2>1. CASE /\ pc \notin ShownPlaces /\ pc' \in {"rwNum", "num"}
             /\ buffer' = Num(cnt') /\ screen' = screen
    <3>1. drawn' = NumPage(cursor, cnt').chars /\ lit' = lit
      BY <1>1, <2>1 DEF Drawing, Transfer, Draw, ShownPlaces
    <3>2. Shows(buffer', drawn')
      BY <2>1, <3>1, PageShown, Zenon
    <3> QED
      BY <2>1, <3>1, <3>2 DEF Shows
  <2>2. CASE /\ pc \notin ShownPlaces /\ pc' = "text"
             /\ \E t \in Texts : buffer' = Text(t)
             /\ screen' = screen
    <3>1. PICK t \in Texts : buffer' = Text(t)
      BY <2>2
    <3>2. drawn' = TextPage(cursor, buffer'[2]).chars /\ lit' = lit
      BY <1>1, <2>2 DEF Drawing, Transfer, Draw, ShownPlaces
    <3>3. buffer'[2] = t
      BY <3>1, ImagesDiffer, Zenon
    <3>4. Shows(buffer', drawn')
      BY <3>1, <3>2, <3>3, PageShown, Zenon
    <3> QED
      BY <2>2, <3>2, <3>4 DEF Shows
  <2>3. CASE /\ pc \in ShownPlaces /\ pc' \notin ShownPlaces
             /\ buffer' = buffer /\ screen' = buffer
    <3>1. drawn' = drawn /\ lit' = drawn
      BY <1>1, <2>3 DEF Drawing, Transfer, ShownPlaces
    <3> QED
      BY <2>3, <3>1 DEF Shows
  <2>4. CASE /\ pc \notin ShownPlaces /\ pc' \notin ShownPlaces
             /\ buffer' = buffer /\ screen' = screen
    <3>1. drawn' = drawn /\ lit' = lit
      BY <1>1, <2>4 DEF Drawing, Transfer, ShownPlaces
    <3> QED
      BY <2>4, <3>1 DEF Shows
  <2> QED
    BY <1>1, <2>1, <2>2, <2>3, <2>4, LoopDraws, Zenon
<1>2. CASE (System \/ \E v \in Reports : Arrive(v))
             /\ UNCHANGED <<cursor, drawn, lit>>
  <2>1. buffer' = buffer /\ screen' = screen
    BY <1>2 DEF System, WebClear, WebSet, TickerSave, Arrive, panel
  <2> QED
    BY <1>2, <2>1 DEF Shows
<1>3. CASE PowerCycle /\ Draw(SetupPage(cnt')) /\ lit' = drawn'
  <2>1. buffer' = Num(cnt') /\ screen' = Num(cnt')
    BY <1>3 DEF PowerCycle
  <2>2. drawn' = NumPage(StartPage.cursor, cnt').chars /\ lit' = drawn'
    BY <1>3 DEF Draw, SetupPage
  <2>3. Shows(Num(cnt'), NumPage(StartPage.cursor, cnt').chars)
    BY PageShown, Zenon
  <2> QED
    BY <2>1, <2>2, <2>3, Zenon
<1>4. CASE UNCHANGED panelVars
  BY <1>4 DEF panelVars, vars, panel, Shows
<1> QED
  BY <1>1, <1>2, <1>3, <1>4 DEF PanelNext

\* What is drawn is the page of the image, and what is lit that of the panel.
THEOREM PageInvariant ==
  ASSUME LargeEnough
  PROVE  PanelSpec => []PageInv
<1>1. PanelInit => PageInv
  <2> SUFFICES ASSUME PanelInit PROVE PageInv
    OBVIOUS
  <2>1. buffer = Num(cnt) /\ screen = Num(cnt)
    BY DEF PanelInit, Init
  <2>2. drawn = NumPage(StartPage.cursor, cnt).chars /\ lit = drawn
    BY DEF PanelInit, SetupPage
  <2>3. Shows(Num(cnt), NumPage(StartPage.cursor, cnt).chars)
    BY PageShown, Zenon
  <2> QED
    BY <2>1, <2>2, <2>3, Zenon DEF PageInv
<1>2. LargeEnough /\ PageInv /\ [PanelNext]_panelVars => PageInv'
  BY PageInvStep
<1>3. LargeEnough
  OBVIOUS
<1> QED
  BY <1>1, <1>2, <1>3, PTL DEF PanelSpec

\* Every digit of the count on the panel can be read (displayNum()).
THEOREM CountsAreReadable ==
  ASSUME LargeEnough
  PROVE  PanelSpec => []CountIsReadable
<1>1. ASSUME PageInv PROVE CountIsReadable
  <2> SUFFICES ASSUME NEW n \in 0..MaxCnt - 1, screen = Num(n)
               PROVE  Cardinality(lit) = Digits[n] /\ \A c \in lit : Whole(c)
    BY DEF CountIsReadable
  <2> DEFINE s == TextSize(n)
             d == Digits[n]
             y == Top(s)
  <2>1. lit = OnLine(y, s, d, 7)
    BY <1>1 DEF PageInv, Shows, Number
  <2>2. /\ d \in Nat \ {0} /\ s \in 1..4 /\ y \in Nat
        /\ 6 * s * (d - 1) + 5 * s <= Width /\ y + 7 * s <= Height
    BY SizeFacts
  <2> HIDE DEF d, s, y
  <2>3. Cardinality(lit) = d
    BY <2>1, <2>2, LineCount
  <2>4. \A c \in lit : Whole(c)
    BY <2>1, <2>2, LineIsWhole
  <2> QED
    BY <2>3, <2>4 DEF d
<1> QED
  BY <1>1, PageInvariant, PTL

\* Every message can be read (displayText()).
THEOREM MessagesAlwaysReadable ==
  ASSUME LargeEnough
  PROVE  PanelSpec => []MessagesAreReadable
<1>1. ASSUME PageInv PROVE MessagesAreReadable
  <2> SUFFICES ASSUME NEW t \in Texts, screen = Text(t)
               PROVE  \A c \in lit : Whole(c)
    BY DEF MessagesAreReadable
  <2>1. lit = Message(t)
    BY <1>1 DEF PageInv, Shows
  <2> DEFINE n == Len(t)
  <2>2. n \in 1..19
    BY MessageAssumption
  <2> HIDE DEF n
  <2>3. \A c \in OnLine(3, 1, 19, 8) : Whole(c)
    <3>1. 6 * 1 * (19 - 1) + 5 * 1 <= Width /\ 3 + 8 * 1 <= Height
      BY DEF LargeEnough
    <3> QED
      BY <3>1, LineIsWhole
  <2>4. \A c \in OnLine(11, 1, n, 8) : Whole(c)
    <3>1. 6 * 1 * (n - 1) + 5 * 1 <= Width /\ 11 + 8 * 1 <= Height
      BY <2>2 DEF LargeEnough
    <3> QED
      BY <2>2, <3>1, LineIsWhole
  <2>5. \A c \in OnLine(19, 1, 19, 8) : Whole(c)
    <3>1. 6 * 1 * (19 - 1) + 5 * 1 <= Width /\ 19 + 8 * 1 <= Height
      BY DEF LargeEnough
    <3> QED
      BY <3>1, LineIsWhole
  <2> QED
    BY <2>1, <2>3, <2>4, <2>5 DEF Message, n
<1> QED
  BY <1>1, PageInvariant, PTL
-----------------------------------------------------------------------------
(* The device with its panel is the device of module Byter                 *)

LEMMA PanelStepIsStep == [PanelNext]_panelVars => [Next]_vars
<1> SUFFICES ASSUME [PanelNext]_panelVars PROVE [Next]_vars
  OBVIOUS
<1>1. CASE PanelNext
  BY <1>1 DEF PanelNext, Next, Environment
<1>2. CASE UNCHANGED panelVars
  BY <1>2 DEF panelVars
<1> QED
  BY <1>1, <1>2

\* What is drawn on it does not change what the device does, so that all that
\* is proved of Byter holds here.
THEOREM PanelIsDevice == PanelSpec => Spec
<1>1. PanelInit => Init
  BY DEF PanelInit
<1> QED
  BY <1>1, PanelStepIsStep, PTL DEF PanelSpec, Spec

LEMMA PanelDevice == PanelSpec => []DeviceInv
BY PanelIsDevice, DeviceInvariant, PTL

-----------------------------------------------------------------------------
(* Where the pages leave the cursor                                        *)

Seen(chars) == \E c \in chars : Some(c)

\* The first character of a line that begins on the panel is seen.
LEMMA LineIsSeen ==
  ASSUME LargeEnough, NEW y \in Nat, y < Height, NEW size \in 1..4,
         NEW n \in Nat \ {0}, NEW rows, NEW chars,
         OnLine(y, size, n, rows) \subseteq chars
  PROVE  Seen(chars)
<1> DEFINE c == [x |-> 6 * size * (1 - 1), y |-> y, size |-> size, rows |-> rows]
<1>1. 1 \in 1..n /\ 6 * size * (1 - 1) = 0
  OBVIOUS
<1>2. c \in chars
  BY <1>1 DEF OnLine
<1>3. c.x = 0 /\ c.y = y
  BY <1>1
<1> HIDE DEF c
<1>4. Some(c)
  BY <1>3 DEF Some, LargeEnough
<1> QED
  BY <1>2, <1>4 DEF Seen

LEMMA NumberIsSeen ==
  ASSUME LargeEnough, NEW n \in 0..MaxCnt - 1
  PROVE  Seen(Number(n))
<1> DEFINE s == TextSize(n)
           y == Top(s)
           d == Digits[n]
<1>1. /\ s \in 1..4 /\ s \in 2..4 /\ y \in Nat /\ d \in Nat \ {0}
      /\ y + 7 * s <= Height
  BY SizeFacts
<1>2. Number(n) = OnLine(y, s, d, 7)
  BY DEF Number
<1> HIDE DEF s, y, d
<1>3. y < Height
  BY <1>1 DEF LargeEnough
<1>4. OnLine(y, s, d, 7) \subseteq Number(n)
  BY <1>2
<1> QED
  BY <1>1, <1>3, <1>4, LineIsSeen

LEMMA MessageIsSeen ==
  ASSUME LargeEnough, NEW t \in Texts
  PROVE  Seen(Message(t))
<1>1. OnLine(3, 1, 19, 8) \subseteq Message(t)
  BY DEF Message
<1>2. 3 \in Nat /\ 3 < Height /\ 1 \in 1..4 /\ 19 \in Nat \ {0}
  BY DEF LargeEnough
<1> QED
  BY <1>1, <1>2, LineIsSeen

\* The page of a full count goes on where the cursor is.
LEMMA FullPageIsSeen ==
  ASSUME LargeEnough, NEW y \in Nat, y < Height, NEW c, c = At(0, y)
  PROVE  Seen(NumPage(c, MaxCnt).chars)
<1> DEFINE p == Clear(c)
           n == Len("Overflowing")
           one == Println(p, 1, n, 8)
<1>1. NumPage(c, MaxCnt) = Println(one, 1, 10, 7)
  <2>1. ~(MaxCnt < MaxCnt)
    BY MaxCntAssumption
  <2> QED
    BY <2>1 DEF NumPage
<1>2. p.cursor = At(0, y) /\ p.chars = {}
  BY DEF Clear
<1> HIDE DEF p
<1>3. n \in 1..19
  BY MessageAssumption
<1>4. Fit(0, 1) \in Nat /\ Fit(0, 1) >= 19 /\ 1 \in 1..4
  BY FitFacts
<1> HIDE DEF n
<1>5. n \in Nat \ {0} /\ n <= Fit(0, 1)
  BY <1>3, <1>4
<1>6. one.chars = p.chars \cup OnLine(y, 1, n, 8)
  <2>1. p.cursor = At(0, y)
    BY <1>2
  <2>2. Println(p, 1, n, 8).chars = p.chars \cup OnLine(y, 1, n, 8)
    BY <1>4, <1>5, <2>1, OneLine
  <2> QED
    BY <2>2
<1> HIDE DEF one
<1>7. one.chars \subseteq Println(one, 1, 10, 7).chars
  BY DEF Println
<1>8. OnLine(y, 1, n, 8) \subseteq NumPage(c, MaxCnt).chars
  BY <1>1, <1>6, <1>7
<1> QED
  BY <1>4, <1>5, <1>8, LineIsSeen

\* The start page ends on the panel: its last word fits into its line.
LEMMA StartPageEnds ==
  ASSUME LargeEnough, Width >= 127
  PROVE  StartPage.cursor = At(0, 28)
<1> DEFINE one == Println(Clear(At(0, 0)), 1, Len("Keyboard"), 8)
           two == Println(SetCursor(one, 48, 10), 1, Len("Stokes"), 8)
           p == SetCursor(two, 85, 20)
           Y(i) == p.cursor.y + 8 * 1 * Line(p.cursor.x, 1, i)
<1>1. p.cursor = At(85, 20)
  BY DEF Println, SetCursor
<1>2. StartPage = Println(p, 1, 7, 8)
  BY MessageAssumption DEF StartPage
<1> HIDE DEF p
<1>3. p.cursor.x = 85 /\ p.cursor.y = 20
  BY <1>1 DEF At
<1>4. 7 <= Fit(85, 1)
  <2>1. (Width - 85) \div 6 >= 7
    BY DEF LargeEnough
  <2>2. 6 * 1 = 6
    OBVIOUS
  <2> QED
    BY <2>1, <2>2 DEF Fit
<1>5. Line(85, 1, 7) = 0
  BY <1>4 DEF Line
<1>6. Y(7) = 20
  <2>1. 8 * 1 * 0 = 0 /\ 20 + 0 = 20
    OBVIOUS
  <2> QED
    BY <1>3, <1>5, <2>1
<1>7. Println(p, 1, 7, 8).cursor = Newline(At(0, Y(7)), 1)
  BY DEF Println
<1> HIDE DEF Y
<1>8. Newline(At(0, 20), 1) = At(0, 28)
  BY DEF Newline, At
<1> QED
  BY <1>2, <1>6, <1>7, <1>8

-----------------------------------------------------------------------------
(* The panel is never dark                                                 *)

\* No report takes a stroke back and nobody uses /set: only strokes fill the
\* count.
OnlyStrokes == SetParams = {} /\ \A v \in Reports : Phantoms(v) = {}

\* The counts from which one report can fill it are shown in the small size.
LastAreLong ==
  MaxCnt > 6 /\ \A n \in 0..MaxCnt - 1 : n >= MaxCnt - 6 => Digits[n] >= 8

\* The cursor is where the page in the image has left it, the image is that
\* of the count unless a message is up, and something is seen of it and of
\* what is on the panel.
CursorInv ==
  /\ \A n \in 0..MaxCnt - 1 : buffer = Num(n) => cursor = At(0, Foot(n))
  /\ pc \in {"text", "wait"} => cursor = At(0, 27)
  /\ pc \notin {"text", "wait"} => buffer = Num(cnt)
  /\ Seen(drawn) /\ Seen(lit)

\* A count fills up to at most six strokes below the maximum, and the page of
\* such a count ends on the panel.
LEMMA FullComesFromNear ==
  ASSUME LargeEnough, LastAreLong, NEW c \in Cnt, NEW prior, NEW v,
         Phantoms(v) = {}, Incr(prior, v) # 0, Tally(c, prior, v) = MaxCnt
  PROVE  c \in 0..MaxCnt - 1 /\ Foot(c) = 25
<1> DEFINE up == Incr(prior, v)
<1>1. up \in 0..6 /\ up # 0
  BY IncrRange
<1>2. Tally(c, prior, v) = (c + up) % (MaxCnt + 1)
  <2>1. Cardinality(Phantoms(v)) = 0
    BY FS_EmptySet
  <2>2. c - 0 + up = c + up
    BY <1>1 DEF Cnt
  <2> HIDE DEF up
  <2> QED
    BY <2>1, <2>2 DEF Tally, Wrap, up
<1> HIDE DEF up
<1>3. MaxCnt \in Nat /\ c \in 0..MaxCnt /\ MaxCnt > 6
  BY MaxCntAssumption DEF Cnt, LastAreLong
<1>4. CASE c + up <= MaxCnt
  <2>1. (c + up) % (MaxCnt + 1) = c + up
    BY <1>1, <1>3, <1>4
  <2>2. c + up = MaxCnt
    BY <1>2, <2>1
  <2>3. c \in 0..MaxCnt - 1 /\ c >= MaxCnt - 6
    BY <1>1, <1>3, <2>2
  <2> DEFINE d == Digits[c]
  <2>4. d >= 8 /\ d \in 1..10
    BY <2>3, PanelAssumption DEF LastAreLong
  <2>5. TextSize(c) = Size(d)
    BY DEF TextSize
  <2> HIDE DEF d
  <2>6. ~(d <= 5) /\ ~(d <= 7)
    BY <2>4
  <2>7. TextSize(c) = 2
    BY <2>5, <2>6 DEF Size
  <2>8. Foot(c) = 9 + 8 * 2
    BY <2>7 DEF Foot, Top
  <2> QED
    BY <2>3, <2>8
<1>5. CASE c + up > MaxCnt
  <2> DEFINE k == MaxCnt + 1
             r == c + up - k
  <2>1. r \in 0..5 /\ k \in Nat \ {0} /\ c + up = k + r /\ r < k /\ r # MaxCnt
    BY <1>1, <1>3, <1>5
  <2> HIDE DEF k, r
  <2>2. (k + r) % k = r
    BY <2>1
  <2> QED
    BY <1>2, <2>1, <2>2 DEF k
<1> QED
  BY <1>1, <1>3, <1>4, <1>5

\* A number drawn where the cursor is on the panel.
LEMMA NumDrawn ==
  ASSUME LargeEnough, NEW n \in Cnt, NEW c,
         n = MaxCnt => \E y \in 0..28 : c = At(0, y)
  PROVE  /\ Seen(NumPage(c, n).chars)
         /\ \A m \in 0..MaxCnt - 1 :
              Num(n) = Num(m) => NumPage(c, n).cursor = At(0, Foot(m))
<1>1. CASE n = MaxCnt
  <2>1. PICK y \in 0..28 : c = At(0, y)
    BY <1>1
  <2>2. y \in Nat /\ y < Height
    BY DEF LargeEnough
  <2>3. Seen(NumPage(c, n).chars)
    BY <1>1, <2>1, <2>2, FullPageIsSeen
  <2>4. \A m \in 0..MaxCnt - 1 : m # MaxCnt
    BY MaxCntAssumption
  <2> QED
    BY <1>1, <2>3, <2>4, ImagesDiffer
<1>2. CASE n # MaxCnt
  <2>1. n \in 0..MaxCnt - 1
    BY <1>2, MaxCntAssumption DEF Cnt
  <2>2. NumPage(c, n).chars = Number(n) /\ NumPage(c, n).cursor = At(0, Foot(n))
    BY <2>1, NumPageIs
  <2>3. \A m \in 0..MaxCnt - 1 : Num(n) = Num(m) => m = n
    BY ImagesDiffer
  <2> QED
    BY <2>1, <2>2, <2>3, NumberIsSeen
<1> QED
  BY <1>1, <1>2

\* A message drawn, wherever the cursor is.
LEMMA TextDrawn ==
  ASSUME LargeEnough, NEW t \in Texts, Draw(TextPage(cursor, t))
  PROVE  Seen(drawn') /\ cursor' = At(0, 27)
BY TextPageIs, MessageIsSeen DEF Draw

LEMMA LoopKeepsCursor ==
  ASSUME LargeEnough, OnlyStrokes, LastAreLong, DeviceInv, DeviceInv',
         CursorInv, Loop, Drawing, Transfer
  PROVE  CursorInv'
<1> USE DEF panel, keys, wifi
<1>1. cnt \in Cnt /\ cnt' \in Cnt
  BY DEF DeviceInv, TypeOK
<1>2. CASE LoopStart \/ Available \/ NoPress \/ NoEvent
  <2>1. /\ UNCHANGED <<buffer, cnt>> /\ pc \notin {"text", "wait"}
        /\ pc' \notin {"text", "wait", "rwNum", "num"}
        /\ pc \notin {"rwNum", "text", "num"}
    BY <1>2 DEF LoopStart, Available, NoPress, NoEvent
  <2>2. UNCHANGED <<cursor, drawn, lit>>
    BY <2>1 DEF Drawing, Transfer
  <2> QED
    BY <2>1, <2>2 DEF CursorInv
<1>3. CASE CountReport
  <2> DEFINE v == Head(rx)
  <2>1. v \in Reports /\ Phantoms(v) = {}
    BY <1>3 DEF CountReport, DeviceInv, TypeOK, PlaceInv, OnlyStrokes
  <2>2. /\ pc = "frame" /\ cnt' = Tally(cnt, last, v) /\ buffer = Num(cnt)
    BY <1>3 DEF CountReport, CursorInv
  <2>3. CASE Incr(last, v) = 0
    <3>1. cnt' = cnt /\ buffer' = buffer /\ pc' = "rw"
      BY <1>1, <1>3, <2>1, <2>2, <2>3, TallyIdle DEF CountReport
    <3>2. UNCHANGED <<cursor, drawn, lit>>
      BY <2>2, <3>1 DEF Drawing, Transfer
    <3> QED
      BY <2>2, <3>1, <3>2 DEF CursorInv
  <2>4. CASE Incr(last, v) # 0
    <3>1. buffer' = Num(cnt') /\ pc' = "rwNum"
      BY <1>3, <2>4 DEF CountReport, DisplayNum
    <3>2. Draw(NumPage(cursor, cnt')) /\ lit' = lit
      BY <2>2, <3>1 DEF Drawing, Transfer
    <3>3. cnt' = MaxCnt => \E y \in 0..28 : cursor = At(0, y)
      <4> SUFFICES ASSUME cnt' = MaxCnt PROVE cursor = At(0, 25)
        OBVIOUS
      <4>1. cnt \in 0..MaxCnt - 1 /\ Foot(cnt) = 25
        BY <1>1, <2>1, <2>2, <2>4, FullComesFromNear
      <4> QED
        BY <2>2, <4>1 DEF CursorInv
    <3>4. /\ Seen(drawn')
          /\ \A m \in 0..MaxCnt - 1 : Num(cnt') = Num(m) => cursor' = At(0, Foot(m))
      BY <1>1, <3>2, <3>3, NumDrawn DEF Draw
    <3> QED
      BY <3>1, <3>2, <3>4 DEF CursorInv
  <2> QED
    BY <2>3, <2>4
<1>4. CASE RwShown \/ TextShown \/ ButtonDone \/ EventDone
  <2>1. /\ UNCHANGED <<buffer, cnt>>
        /\ pc' \notin {"rwNum", "text", "num"}
        /\ pc \in {"text", "wait"} <=> pc' \in {"text", "wait"}
        /\ pc \in {"rwNum", "text", "num"}
    BY <1>4 DEF RwShown, TextShown, ButtonDone, EventDone
  <2>2. UNCHANGED <<cursor, drawn>> /\ lit' = drawn
    BY <2>1 DEF Drawing, Transfer
  <2> QED
    BY <2>1, <2>2 DEF CursorInv
<1>5. CASE ShortPress \/ LongPress \/ MuchLongerPress \/ ClearEvent \/ SetEvent
  <2>1. /\ \E t \in Texts : buffer' = Text(t)
        /\ pc' = "text" /\ pc \in {"button", "event"}
    BY <1>5 DEF ShortPress, LongPress, MuchLongerPress, ClearEvent, SetEvent,
       ManualClear, DisplayText, Texts
  <2>2. PICK t \in Texts : buffer' = Text(t)
    BY <2>1
  <2>3. buffer'[2] = t
    BY <2>2, ImagesDiffer, Zenon
  <2>4. Draw(TextPage(cursor, t)) /\ lit' = lit
    BY <2>1, <2>3 DEF Drawing, Transfer
  <2>5. Seen(drawn') /\ cursor' = At(0, 27)
    BY <2>4, TextDrawn
  <2>6. \A n : buffer' # Num(n)
    BY <2>2, ImagesDiffer
  <2> QED
    BY <2>1, <2>4, <2>5, <2>6 DEF CursorInv
<1>6. CASE WaitOver
  <2>1. buffer' = Num(cnt) /\ cnt' = cnt /\ pc' = "num" /\ pc = "wait"
    BY <1>6 DEF WaitOver, DisplayNum
  <2>2. Draw(NumPage(cursor, cnt)) /\ lit' = lit
    BY <2>1 DEF Drawing, Transfer
  <2>3. cursor = At(0, 27) /\ 27 \in 0..28
    BY <2>1 DEF CursorInv
  <2>4. /\ Seen(drawn')
        /\ \A m \in 0..MaxCnt - 1 : Num(cnt) = Num(m) => cursor' = At(0, Foot(m))
    BY <1>1, <2>2, <2>3, NumDrawn DEF Draw
  <2> QED
    BY <2>1, <2>2, <2>4 DEF CursorInv
<1> QED
  BY <1>2, <1>3, <1>4, <1>5, <1>6 DEF Loop

\* setup() draws the count where the start page ends.
LEMMA SetupDrawn ==
  ASSUME LargeEnough, Width >= 127, NEW n \in Cnt
  PROVE  /\ Seen(SetupPage(n).chars)
         /\ \A m \in 0..MaxCnt - 1 :
              Num(n) = Num(m) => SetupPage(n).cursor = At(0, Foot(m))
<1> DEFINE c == StartPage.cursor
<1>1. c = At(0, 28) /\ 28 \in 0..28
  BY StartPageEnds
<1>2. SetupPage(n) = NumPage(c, n)
  BY DEF SetupPage
<1> HIDE DEF c
<1> QED
  BY <1>1, <1>2, NumDrawn

LEMMA CursorStep ==
  ASSUME LargeEnough, Width >= 127, OnlyStrokes, LastAreLong,
         DeviceInv, DeviceInv', CursorInv, [PanelNext]_panelVars
  PROVE  CursorInv'
<1>1. CASE Loop /\ Drawing /\ Transfer
  BY <1>1, LoopKeepsCursor
<1>2. CASE (System \/ \E v \in Reports : Arrive(v))
             /\ UNCHANGED <<cursor, drawn, lit>>
  <2>1. UNCHANGED <<pc, cnt, buffer>>
    BY <1>2 DEF System, WebClear, TickerSave, Arrive, panel, OnlyStrokes
  <2> QED
    BY <1>2, <2>1 DEF CursorInv
<1>3. CASE PowerCycle /\ Draw(SetupPage(cnt')) /\ lit' = drawn'
  <2>1. buffer' = Num(cnt') /\ pc' = "idle" /\ cnt' \in Cnt
    BY <1>3 DEF PowerCycle, DeviceInv, TypeOK
  <2>2. /\ Seen(drawn')
        /\ \A m \in 0..MaxCnt - 1 : Num(cnt') = Num(m) => cursor' = At(0, Foot(m))
    BY <1>3, <2>1, SetupDrawn DEF Draw
  <2> QED
    BY <1>3, <2>1, <2>2 DEF CursorInv
<1>4. CASE UNCHANGED panelVars
  BY <1>4 DEF panelVars, vars, panel, CursorInv
<1> QED
  BY <1>1, <1>2, <1>3, <1>4 DEF PanelNext

\* Whatever pages come one after the other, something can be read on the
\* panel: that of a full count, which does not set the cursor, begins where
\* the start page, a message or a count of at least 8 digits ends
\* (displayNum(), displayText(), startDisplay()).
THEOREM PanelNeverDark ==
  ASSUME LargeEnough, Width >= 127, OnlyStrokes, LastAreLong
  PROVE  PanelSpec => []PanelIsNeverDark
<1>1. ASSUME PanelInit PROVE CursorInv
  <2>1. /\ buffer = Num(cnt) /\ pc = "idle" /\ cnt \in Cnt
        /\ drawn = SetupPage(cnt).chars /\ lit = drawn
        /\ cursor = SetupPage(cnt).cursor
    BY <1>1 DEF PanelInit, Init, ReadCnt
  <2>2. /\ Seen(drawn)
        /\ \A m \in 0..MaxCnt - 1 : Num(cnt) = Num(m) => cursor = At(0, Foot(m))
    BY <2>1, SetupDrawn
  <2> QED
    BY <2>1, <2>2 DEF CursorInv
<1>2. DeviceInv /\ DeviceInv' /\ CursorInv /\ [PanelNext]_panelVars => CursorInv'
  BY CursorStep
<1>3. CursorInv => PanelIsNeverDark
  BY DEF CursorInv, Seen, PanelIsNeverDark
<1> QED
  BY <1>1, <1>2, <1>3, PanelDevice, PTL DEF PanelSpec

=============================================================================
