------------------------------- MODULE TtyProofs -------------------------------
(***************************************************************************)
(* Theorems about the text terminal, for a screen of any size and any      *)
(* sequence of calls.                                                      *)
(***************************************************************************)
EXTENDS Tty, SequenceLemmas

Row == [Column -> Cell]
Screen == [Index -> Cell]

\* The calls that keep to seven-bit characters out of Bytes.
AsciiCall == {c \in Call : c.op = "putc" => c.arg = Newline \/ (c.arg \in Bytes /\ c.arg < 128)}

-----------------------------------------------------------------------------
(***************************************************************************)
(* Where an entry of the screen lies in video memory.                      *)
(***************************************************************************)
Spot(r, k) == VGA_COLS * r + k

LEMMA Product ==
    ASSUME NEW a \in Nat, NEW b \in Nat, NEW c \in Nat, a <= b
    PROVE  /\ c * a \in Nat /\ c * b \in Nat /\ c * a <= c * b
           /\ c * (a + 1) = c * a + c
<1>1. c * b - c * a = c * (b - a) /\ b - a \in Nat
  OBVIOUS
<1>2. c * (b - a) >= 0
  BY <1>1
<1> QED
  BY <1>1, <1>2

LEMMA SpotProperties ==
    ASSUME NEW r \in 0..(VGA_ROWS - 1), NEW k \in 0..(VGA_COLS - 1)
    PROVE  /\ Spot(r, k) \in Index /\ Spot(r, k) \in Nat
           /\ Spot(r + 1, k) = Spot(r, k) + VGA_COLS
           /\ r + 1 < VGA_ROWS => Spot(r, k) < VGA_COLS * (VGA_ROWS - 1)
           /\ r + 1 = VGA_ROWS => Spot(r, k) >= VGA_COLS * (VGA_ROWS - 1)
           /\ VGA_COLS * (VGA_ROWS - 1) \in Nat /\ VGA_COLS * VGA_ROWS \in Nat
<1> DEFINE C == VGA_COLS
           R == VGA_ROWS
<1>1. C \in Nat /\ C # 0 /\ R \in Nat /\ R # 0 /\ r \in Nat /\ k \in Nat /\ r + 1 <= R
  BY ScreenAssumption
<1>2. C * r \in Nat /\ C * R \in Nat /\ C * (r + 1) = C * r + C
  BY <1>1, Product
<1>3. C * (r + 1) <= C * R
  BY <1>1, Product
<1>4. R - 1 \in Nat /\ C * (R - 1) \in Nat
  BY <1>1, Product
<1>5. r + 1 < R => C * (r + 1) <= C * (R - 1)
  BY <1>1, <1>4, Product
<1>6. r + 1 = R => r = R - 1
  BY <1>1
<1> HIDE DEF C, R
<1>7. k < C
  BY <1>1 DEF C
<1>8. C * r + k < C * R /\ C * r + k \in Nat
  BY <1>1, <1>2, <1>3, <1>7
<1>9. /\ C * (r + 1) + k = C * r + k + C
      /\ r + 1 < R => C * r + k < C * (R - 1)
      /\ r + 1 = R => C * r + k >= C * (R - 1)
  BY <1>1, <1>2, <1>4, <1>5, <1>6, <1>7
<1>10. C * r + k \in 0..(C * R - 1)
  BY <1>2, <1>8
<1> QED
  BY <1>2, <1>4, <1>8, <1>9, <1>10 DEF Spot, Index, C, R

LEMMA SpotsDiffer ==
    ASSUME NEW r \in 0..(VGA_ROWS - 1), NEW k \in 0..(VGA_COLS - 1),
           NEW s \in 0..(VGA_ROWS - 1), NEW l \in 0..(VGA_COLS - 1), Spot(r, k) = Spot(s, l)
    PROVE  r = s /\ k = l
<1> DEFINE C == VGA_COLS
<1>1. C \in Nat /\ C # 0 /\ r \in Nat /\ s \in Nat /\ k \in Nat /\ l \in Nat
  BY ScreenAssumption
<1>2. r < s => C * r + C <= C * s
  BY <1>1, Product
<1>3. s < r => C * s + C <= C * r
  BY <1>1, Product
<1>4. C * r \in Nat /\ C * s \in Nat
  BY <1>1, Product
<1> HIDE DEF C
<1>5. k < C /\ l < C /\ C * r + k = C * s + l
  BY ScreenAssumption DEF Spot, C
<1>6. r = s
  BY <1>1, <1>2, <1>3, <1>4, <1>5
<1> QED
  BY <1>1, <1>4, <1>5, <1>6

-----------------------------------------------------------------------------
(***************************************************************************)
(* The rows of the screen, and the paper they are the end of.              *)
(***************************************************************************)
PaperOf(ab, buf) == ab \o [r \in 1..VGA_ROWS |-> RowOf(buf, r - 1)]

LEMMA RowProperties ==
    ASSUME NEW buf \in Screen, NEW r \in 0..(VGA_ROWS - 1)
    PROVE  /\ RowOf(buf, r) \in Row
           /\ \A k \in Column : RowOf(buf, r)[k] = buf[Spot(r, k)]
<1>1. ASSUME NEW k \in Column PROVE buf[Spot(r, k)] \in Cell
  <2>1. Spot(r, k) \in Index
    BY SpotProperties DEF Column
  <2> QED
    BY <2>1 DEF Screen
<1>2. RowOf(buf, r) = [k \in Column |-> buf[Spot(r, k)]]
  BY DEF RowOf, Spot, Column
<1>3. RowOf(buf, r) \in [Column -> Cell]
  BY <1>1, <1>2
<1> QED
  BY <1>2, <1>3 DEF Row

LEMMA RowsEqual ==
    ASSUME NEW p \in Row, NEW q \in Row, \A k \in Column : p[k] = q[k]
    PROVE  p = q
  BY DEF Row

LEMMA PaperProperties ==
    ASSUME NEW ab \in Seq(Row), NEW buf \in Screen
    PROVE  /\ PaperOf(ab, buf) \in Seq(Row)
           /\ Len(PaperOf(ab, buf)) = Len(ab) + VGA_ROWS
           /\ \A j \in 1..Len(ab) : PaperOf(ab, buf)[j] = ab[j]
           /\ \A r \in 0..(VGA_ROWS - 1) : PaperOf(ab, buf)[Len(ab) + r + 1] = RowOf(buf, r)
<1> DEFINE shown == [r \in 1..VGA_ROWS |-> RowOf(buf, r - 1)]
<1>1. VGA_ROWS \in Nat /\ VGA_ROWS # 0 /\ Len(ab) \in Nat
  BY ScreenAssumption, LenProperties
<1>2. \A r \in 1..VGA_ROWS : r - 1 \in 0..(VGA_ROWS - 1) /\ RowOf(buf, r - 1) \in Row
  BY <1>1, RowProperties
<1>3. shown \in [1..VGA_ROWS -> Row] /\ \A r \in 1..VGA_ROWS : shown[r] = RowOf(buf, r - 1)
  BY <1>2
<1> HIDE DEF shown
<1>4. shown \in Seq(Row)
  BY <1>1, <1>3, SeqDef
<1>5. Len(shown) = VGA_ROWS
  BY <1>1, <1>3, <1>4, LenProperties
<1>6. /\ ab \o shown \in Seq(Row) /\ Len(ab \o shown) = Len(ab) + VGA_ROWS
      /\ \A j \in 1..(Len(ab) + VGA_ROWS) :
            (ab \o shown)[j] = IF j <= Len(ab) THEN ab[j] ELSE shown[j - Len(ab)]
  BY <1>4, <1>5, ConcatProperties
<1>7. \A j \in 1..Len(ab) : (ab \o shown)[j] = ab[j]
  BY <1>1, <1>6
<1>8. ASSUME NEW r \in 0..(VGA_ROWS - 1) PROVE (ab \o shown)[Len(ab) + r + 1] = RowOf(buf, r)
  <2>1. /\ Len(ab) + r + 1 \in 1..(Len(ab) + VGA_ROWS) /\ ~(Len(ab) + r + 1 <= Len(ab))
        /\ (Len(ab) + r + 1) - Len(ab) = r + 1 /\ r + 1 \in 1..VGA_ROWS /\ (r + 1) - 1 = r
    BY <1>1
  <2>2. (ab \o shown)[Len(ab) + r + 1] = shown[r + 1]
    BY <1>6, <2>1
  <2> QED
    BY <1>3, <2>1, <2>2
<1> QED
  BY <1>6, <1>7, <1>8 DEF PaperOf, shown

\* Two papers are the same when they agree above the screen and on it.
LEMMA PapersEqual ==
    ASSUME NEW ab \in Seq(Row), NEW buf \in Screen, NEW p \in Seq(Row),
           Len(p) = Len(ab) + VGA_ROWS, \A j \in 1..Len(ab) : p[j] = ab[j],
           \A r \in 0..(VGA_ROWS - 1) : p[Len(ab) + r + 1] = RowOf(buf, r)
    PROVE  p = PaperOf(ab, buf)
<1> DEFINE q == PaperOf(ab, buf)
<1>1. /\ q \in Seq(Row) /\ Len(q) = Len(p) /\ \A j \in 1..Len(ab) : q[j] = ab[j]
      /\ \A r \in 0..(VGA_ROWS - 1) : q[Len(ab) + r + 1] = RowOf(buf, r)
  BY PaperProperties
<1>2. Len(ab) \in Nat /\ VGA_ROWS \in Nat
  BY ScreenAssumption, LenProperties
<1> HIDE DEF q
<1>3. ASSUME NEW j \in 1..Len(p) PROVE p[j] = q[j]
  <2>1. CASE j <= Len(ab)
    BY <1>1, <1>2, <2>1
  <2>2. CASE j > Len(ab)
    <3> DEFINE r == j - Len(ab) - 1
    <3>1. r \in 0..(VGA_ROWS - 1) /\ Len(ab) + r + 1 = j
      BY <1>2, <2>2
    <3> HIDE DEF r
    <3> QED
      BY <1>1, <3>1
  <2> QED
    BY <1>2, <2>1, <2>2
<1> QED
  BY <1>1, <1>3, SeqEqual DEF q

-----------------------------------------------------------------------------
(***************************************************************************)
(* What typing, scrolling and clearing do to the paper.                    *)
(***************************************************************************)
BlankLine(c) == [k \in Column |-> 256 * c + Blank]

\* An attribute byte over a character byte fits a cell; the bound stays a name, as
\* the provers count a literal of this size in units.
LEMMA TwoBytesFit ==
    ASSUME NEW x \in 0..255, NEW y \in 0..255 PROVE 256 * x + y \in Cell
<1> DEFINE e == 256 * x + y
           top == 65535
<1>1. e \in Int /\ 0 <= e /\ e <= top
  OBVIOUS
<1>2. Cell = 0..top
  BY DEF Cell
<1>3. top \in Int
  OBVIOUS
<1> HIDE DEF top, e
<1>4. e \in Cell
  BY <1>1, <1>2, <1>3
<1> QED
  BY <1>4 DEF e

LEMMA EntryProperties ==
    ASSUME NEW c \in 0..255, NEW ch \in 0..255
    PROVE  Entry(c, ch) \in Cell /\ (ch < 128 => Entry(c, ch) = 256 * c + ch)
<1>1. Attribute(c, ch) \in 0..255 /\ (ch < 128 => Attribute(c, ch) = c)
  BY DEF Attribute
<1> DEFINE a == Attribute(c, ch)
<1>2. Entry(c, ch) = 256 * a + ch
  BY DEF Entry
<1> HIDE DEF a
<1>3. a \in 0..255 /\ (ch < 128 => a = c)
  BY <1>1 DEF a
<1> DEFINE e == 256 * a + ch
<1>4. e \in Cell
  BY <1>3, TwoBytesFit, Zenon
<1> HIDE DEF e
<1>5. Entry(c, ch) \in Cell
  <2>1. Entry(c, ch) = e
    BY <1>2 DEF e
  <2> QED
    BY <1>4, <2>1
<1>6. ch < 128 => Entry(c, ch) = 256 * c + ch
  BY <1>2, <1>3
<1> QED
  BY <1>5, <1>6

LEMMA BlankLineProperties ==
    ASSUME NEW c \in 0..255
    PROVE  /\ BlankLine(c) \in Row /\ \A k \in Column : BlankLine(c)[k] = Entry(c, Blank)
           /\ Entry(c, Blank) \in Cell
<1>1. Entry(c, Blank) = 256 * c + Blank /\ Entry(c, Blank) \in Cell
  <2>1. Blank \in 0..255 /\ Blank < 128
    BY DEF Blank
  <2> QED
    BY <2>1, EntryProperties, Zenon
<1>2. \A k \in Column : BlankLine(c)[k] = Entry(c, Blank)
  BY <1>1 DEF BlankLine
<1>3. BlankLine(c) \in Row
  BY <1>1 DEF BlankLine, Row
<1> QED
  BY <1>1, <1>2, <1>3

LEMMA TypedPaper ==
    ASSUME NEW ab \in Seq(Row), NEW buf \in Screen, NEW r \in 0..(VGA_ROWS - 1),
           NEW k \in Column, NEW e \in Cell
    PROVE  /\ [buf EXCEPT ![Spot(r, k)] = e] \in Screen
           /\ PaperOf(ab, [buf EXCEPT ![Spot(r, k)] = e])
              = [PaperOf(ab, buf) EXCEPT ![Len(ab) + r + 1] = [@ EXCEPT ![k] = e]]
<1> DEFINE typed == [buf EXCEPT ![Spot(r, k)] = e]
           old == PaperOf(ab, buf)
           n == Len(ab) + r + 1
           row == [old[n] EXCEPT ![k] = e]
<1>1. Spot(r, k) \in Index
  BY SpotProperties DEF Column
<1>2. /\ typed \in Screen /\ typed[Spot(r, k)] = e
      /\ \A i \in Index : i # Spot(r, k) => typed[i] = buf[i]
  BY <1>1 DEF Screen
<1>3. /\ old \in Seq(Row) /\ Len(old) = Len(ab) + VGA_ROWS /\ n \in 1..Len(old)
      /\ \A j \in 1..Len(ab) : old[j] = ab[j]
      /\ \A s \in 0..(VGA_ROWS - 1) : old[Len(ab) + s + 1] = RowOf(buf, s)
      /\ Len(ab) \in Nat
  BY PaperProperties, LenProperties, ScreenAssumption
<1>4. old[n] = RowOf(buf, r) /\ old[n] \in Row
  BY <1>3, RowProperties
<1>5. /\ row \in Row /\ row[k] = e /\ \A l \in Column : l # k => row[l] = RowOf(buf, r)[l]
  BY <1>4 DEF Row
<1> DEFINE new == [old EXCEPT ![n] = row]
<1>6. /\ new \in Seq(Row) /\ Len(new) = Len(old)
      /\ \A j \in 1..Len(old) : new[j] = IF j = n THEN row ELSE old[j]
  BY <1>3, <1>5, ExceptSeq
<1> HIDE DEF typed, row, new
<1>7. ASSUME NEW s \in 0..(VGA_ROWS - 1) PROVE new[Len(ab) + s + 1] = RowOf(typed, s)
  <2>1. Len(ab) + s + 1 \in 1..Len(old) /\ (s = r <=> Len(ab) + s + 1 = n)
    BY <1>3, ScreenAssumption
  <2>2. /\ RowOf(typed, s) \in Row /\ RowOf(buf, s) \in Row
        /\ \A l \in Column : RowOf(typed, s)[l] = typed[Spot(s, l)]
        /\ \A l \in Column : RowOf(buf, s)[l] = buf[Spot(s, l)]
    BY <1>2, RowProperties
  <2>3. \A l \in Column : Spot(s, l) \in Index
    BY SpotProperties DEF Column
  <2>4. CASE s = r
    <3>1. new[Len(ab) + s + 1] = row
      BY <1>6, <2>1, <2>4
    <3>2. ASSUME NEW l \in Column PROVE row[l] = RowOf(typed, s)[l]
      <4>1. CASE l = k
        BY <1>2, <1>5, <2>2, <2>4, <4>1
      <4>2. CASE l # k
        <5>1. Spot(s, l) # Spot(r, k)
          BY <4>2, SpotsDiffer DEF Column
        <5> QED
          BY <1>2, <1>5, <2>2, <2>3, <2>4, <4>2, <5>1
      <4> QED
        BY <4>1, <4>2
    <3> QED
      BY <1>5, <2>2, <3>1, <3>2, RowsEqual
  <2>5. CASE s # r
    <3>1. new[Len(ab) + s + 1] = RowOf(buf, s)
      BY <1>3, <1>6, <2>1, <2>5
    <3>2. ASSUME NEW l \in Column PROVE RowOf(buf, s)[l] = RowOf(typed, s)[l]
      <4>1. Spot(s, l) # Spot(r, k)
        BY <2>5, SpotsDiffer DEF Column
      <4> QED
        BY <1>2, <2>2, <2>3, <4>1
    <3> QED
      BY <2>2, <3>1, <3>2, RowsEqual
  <2> QED
    BY <2>4, <2>5
<1>8. \A j \in 1..Len(ab) : new[j] = ab[j]
  BY <1>3, <1>6, ScreenAssumption
<1>9. new = PaperOf(ab, typed)
  BY <1>2, <1>3, <1>6, <1>7, <1>8, PapersEqual
<1> QED
  BY <1>2, <1>9 DEF new, typed, row

LEMMA BlankPaper ==
    ASSUME NEW c \in 0..255, NEW buf, buf = [i \in Index |-> Entry(c, Blank)]
    PROVE  buf \in Screen /\ PaperOf(<<>>, buf) = [j \in 1..VGA_ROWS |-> BlankLine(c)]
<1>1. BlankLine(c) \in Row /\ Entry(c, Blank) \in Cell
  BY BlankLineProperties
<1>2. buf \in Screen
  BY <1>1 DEF Screen
<1> DEFINE p == [j \in 1..VGA_ROWS |-> BlankLine(c)]
<1>3. p \in [1..VGA_ROWS -> Row] /\ VGA_ROWS \in Nat /\ \A j \in 1..VGA_ROWS : p[j] = BlankLine(c)
  BY <1>1, ScreenAssumption
<1> HIDE DEF p
<1>4. p \in Seq(Row)
  BY <1>3, SeqDef
<1>5. Len(p) = VGA_ROWS
  BY <1>3, <1>4, LenProperties
<1>6. <<>> \in Seq(Row) /\ Len(<<>>) = 0
  BY EmptySeq
<1>7. ASSUME NEW r \in 0..(VGA_ROWS - 1) PROVE p[0 + r + 1] = RowOf(buf, r)
  <2>1. p[0 + r + 1] = BlankLine(c)
    BY <1>3
  <2>2. RowOf(buf, r) \in Row /\ \A k \in Column : RowOf(buf, r)[k] = buf[Spot(r, k)]
    BY <1>2, RowProperties
  <2>3. \A k \in Column : buf[Spot(r, k)] = Entry(c, Blank)
    BY SpotProperties DEF Column
  <2>4. \A k \in Column : BlankLine(c)[k] = Entry(c, Blank)
    BY BlankLineProperties
  <2>5. \A k \in Column : BlankLine(c)[k] = RowOf(buf, r)[k]
    BY <2>2, <2>3, <2>4
  <2>6. BlankLine(c) = RowOf(buf, r)
    BY <1>1, <2>2, <2>5, RowsEqual
  <2> QED
    BY <2>1, <2>6
<1> DEFINE ab == <<>>
<1>8. /\ ab \in Seq(Row) /\ Len(p) = Len(ab) + VGA_ROWS /\ \A j \in 1..Len(ab) : p[j] = ab[j]
      /\ \A r \in 0..(VGA_ROWS - 1) : p[Len(ab) + r + 1] = RowOf(buf, r)
  BY <1>5, <1>6, <1>7, ScreenAssumption
<1> HIDE DEF ab
<1>9. p = PaperOf(ab, buf)
  BY <1>2, <1>4, <1>8, PapersEqual
<1> QED
  BY <1>2, <1>9 DEF p, ab

LEMMA ScrolledProperties ==
    ASSUME NEW buf \in Screen, tty_color \in 0..255
    PROVE  /\ ScrolledUp(buf) \in Screen
           /\ \A r \in 0..(VGA_ROWS - 1) : \A k \in Column :
                 ScrolledUp(buf)[Spot(r, k)]
                 = IF r + 1 < VGA_ROWS THEN buf[Spot(r + 1, k)] ELSE Entry(tty_color, Blank)
<1> DEFINE C == VGA_COLS
           N == VGA_COLS * (VGA_ROWS - 1)
           T == VGA_COLS * VGA_ROWS
           blank == Entry(tty_color, Blank)
           S == ScrolledUp(buf)
<1>1. C \in Nat /\ VGA_ROWS \in Nat /\ VGA_ROWS # 0 /\ VGA_ROWS - 1 \in Nat
  BY ScreenAssumption
<1>2. N \in Nat /\ T \in Nat /\ T = N + C
  <2>1. VGA_ROWS = (VGA_ROWS - 1) + 1
    BY <1>1
  <2>2. N \in Nat /\ VGA_COLS * ((VGA_ROWS - 1) + 1) = N + VGA_COLS
    BY <1>1, Product
  <2> QED
    BY <1>1, <2>1, <2>2
<1>3. Index = 0..(T - 1) /\ blank \in Cell
  BY BlankLineProperties DEF Index
<1>4. S = [i \in Index |-> IF i >= N THEN blank
                           ELSE [a \in Index |-> IF 0 <= a /\ a < 0 + N THEN buf[a - 0 + C] ELSE buf[a]][i]]
  BY DEF ScrolledUp, Mem!Moved, Mem!Addr, Mem!Within, Index, get_blank
<1> HIDE DEF C, N, T, blank, S
<1>5. ASSUME NEW i \in Index
      PROVE  /\ i >= N => S[i] = blank
             /\ i < N => S[i] = buf[i + C] /\ i + C \in Index
  <2>1. i \in Nat /\ (i < N => i + C \in Index /\ i - 0 + C = i + C)
    BY <1>1, <1>2, <1>3 DEF C
  <2> QED
    BY <1>2, <1>4, <2>1
<1>6. ASSUME NEW i \in Index PROVE S[i] \in Cell
  <2>1. i >= N \/ i < N
    BY <1>2, <1>3
  <2> QED
    BY <1>3, <1>5, <2>1 DEF Screen
<1>7. S \in Screen
  BY <1>4, <1>6 DEF Screen
<1>8. ASSUME NEW r \in 0..(VGA_ROWS - 1), NEW k \in Column
      PROVE  S[Spot(r, k)] = IF r + 1 < VGA_ROWS THEN buf[Spot(r + 1, k)] ELSE blank
  <2>1. /\ Spot(r, k) \in Index /\ Spot(r + 1, k) = Spot(r, k) + C
        /\ r + 1 < VGA_ROWS => Spot(r, k) < N
        /\ r + 1 = VGA_ROWS => Spot(r, k) >= N
    BY SpotProperties DEF Column, C, N
  <2>2. r + 1 < VGA_ROWS \/ (r + 1 = VGA_ROWS /\ ~(r + 1 < VGA_ROWS))
    BY <1>1
  <2> QED
    BY <1>5, <2>1, <2>2
<1> QED
  BY <1>7, <1>8 DEF S, blank

LEMMA ScrolledPaper ==
    ASSUME NEW ab \in Seq(Row), NEW buf \in Screen, tty_color \in 0..255
    PROVE  /\ Append(ab, RowOf(buf, 0)) \in Seq(Row)
           /\ Len(Append(ab, RowOf(buf, 0))) = Len(ab) + 1
           /\ PaperOf(Append(ab, RowOf(buf, 0)), ScrolledUp(buf))
              = Append(PaperOf(ab, buf), BlankLine(tty_color))
<1> DEFINE more == Append(ab, RowOf(buf, 0))
           up == ScrolledUp(buf)
           old == PaperOf(ab, buf)
           line == BlankLine(tty_color)
           p == Append(old, line)
<1>1. VGA_ROWS \in Nat /\ VGA_ROWS # 0 /\ 0 \in 0..(VGA_ROWS - 1) /\ Len(ab) \in Nat
  BY ScreenAssumption, LenProperties
<1>2. /\ old \in Seq(Row) /\ Len(old) = Len(ab) + VGA_ROWS
      /\ \A j \in 1..Len(ab) : old[j] = ab[j]
      /\ \A r \in 0..(VGA_ROWS - 1) : old[Len(ab) + r + 1] = RowOf(buf, r)
  BY PaperProperties
<1>3. RowOf(buf, 0) \in Row
  BY <1>1, RowProperties
<1>4. /\ more \in Seq(Row) /\ Len(more) = Len(ab) + 1 /\ more[Len(ab) + 1] = RowOf(buf, 0)
      /\ \A j \in 1..Len(ab) : more[j] = ab[j]
  BY <1>3, AppendProperties
<1>5. /\ line \in Row /\ \A k \in Column : line[k] = Entry(tty_color, Blank)
  BY BlankLineProperties
<1>6. /\ p \in Seq(Row) /\ Len(p) = Len(old) + 1 /\ p[Len(old) + 1] = line
      /\ \A j \in 1..Len(old) : p[j] = old[j]
  BY <1>2, <1>5, AppendProperties
<1>7. /\ up \in Screen
      /\ \A r \in 0..(VGA_ROWS - 1) : \A k \in Column :
            up[Spot(r, k)] = IF r + 1 < VGA_ROWS THEN buf[Spot(r + 1, k)] ELSE Entry(tty_color, Blank)
  BY ScrolledProperties
<1> HIDE DEF more, up, old, line, p
<1>8. ASSUME NEW j \in 1..Len(more) PROVE p[j] = more[j]
  <2>1. j \in 1..Len(old) /\ (j \in 1..Len(ab) \/ (j = Len(ab) + 1 /\ Len(ab) + 0 + 1 = j))
    BY <1>1, <1>2, <1>4
  <2>2. p[j] = old[j]
    BY <1>6, <2>1
  <2>3. CASE j \in 1..Len(ab)
    BY <1>2, <1>4, <2>2, <2>3
  <2>4. CASE j = Len(ab) + 1 /\ Len(ab) + 0 + 1 = j
    BY <1>1, <1>2, <1>4, <2>2, <2>4
  <2> QED
    BY <2>1, <2>3, <2>4
<1>9. ASSUME NEW r \in 0..(VGA_ROWS - 1) PROVE p[Len(more) + r + 1] = RowOf(up, r)
  <2>1. RowOf(up, r) \in Row /\ \A k \in Column : RowOf(up, r)[k] = up[Spot(r, k)]
    BY <1>7, RowProperties
  <2>2. CASE r + 1 < VGA_ROWS
    <3>1. /\ r + 1 \in 0..(VGA_ROWS - 1) /\ Len(more) + r + 1 = Len(ab) + (r + 1) + 1
          /\ Len(more) + r + 1 \in 1..Len(old)
      BY <1>1, <1>2, <1>4, <2>2
    <3>2. p[Len(more) + r + 1] = RowOf(buf, r + 1)
      BY <1>2, <1>6, <3>1
    <3>3. RowOf(buf, r + 1) \in Row /\ \A k \in Column : RowOf(buf, r + 1)[k] = buf[Spot(r + 1, k)]
      BY <3>1, RowProperties
    <3>4. \A k \in Column : RowOf(buf, r + 1)[k] = RowOf(up, r)[k]
      BY <1>7, <2>1, <2>2, <3>3
    <3> QED
      BY <2>1, <3>2, <3>3, <3>4, RowsEqual
  <2>3. CASE ~(r + 1 < VGA_ROWS)
    <3>1. Len(more) + r + 1 = Len(old) + 1
      BY <1>1, <1>2, <1>4, <2>3
    <3>2. p[Len(more) + r + 1] = line
      BY <1>6, <3>1
    <3>3. \A k \in Column : line[k] = RowOf(up, r)[k]
      BY <1>5, <1>7, <2>1, <2>3
    <3> QED
      BY <1>5, <2>1, <3>2, <3>3, RowsEqual
  <2> QED
    BY <2>2, <2>3
<1>10. Len(p) = Len(more) + VGA_ROWS
  BY <1>1, <1>2, <1>4, <1>6
<1>11. p = PaperOf(more, up)
  BY <1>4, <1>6, <1>7, <1>8, <1>9, <1>10, PapersEqual
<1> QED
  BY <1>4, <1>11 DEF more, up, old, line, p

-----------------------------------------------------------------------------
(***************************************************************************)
(* The inductive invariant: TypeOK in the sets above.                      *)
(***************************************************************************)
Typed ==
    /\ vga_buffer \in Screen
    /\ vga_col \in Column /\ vga_row \in 0..(VGA_ROWS - 1)
    /\ tty_color \in 0..255
    /\ above \in Seq(Row)

Paper == PaperOf(above, vga_buffer)
Line == Len(above) + vga_row + 1

\* Wrapping and scrolling, seen on the paper: the cursor goes on to the next line
\* when this one is full, and paper is fed in when that line is off the screen.
LEMMA SettleOnPaper ==
    ASSUME Typed, NEW buf \in Screen, NEW col \in 0..VGA_COLS, NEW row \in 0..VGA_ROWS,
           row = VGA_ROWS => col = 0, tty_color' = tty_color, Settle(buf, col, row),
           NEW end, end = IF col >= VGA_COLS THEN row + 1 ELSE row
    PROVE  /\ Typed'
           /\ vga_col' = IF col >= VGA_COLS THEN 0 ELSE col
           /\ Line' = Len(above) + end + 1
           /\ Paper' = IF end < VGA_ROWS THEN PaperOf(above, buf)
                       ELSE Append(PaperOf(above, buf), BlankLine(tty_color))
<1>1. /\ VGA_ROWS \in Nat /\ VGA_ROWS # 0 /\ VGA_COLS \in Nat /\ VGA_COLS # 0
      /\ above \in Seq(Row) /\ Len(above) \in Nat /\ tty_color \in 0..255
  BY ScreenAssumption, LenProperties DEF Typed
<1>2. end \in 0..VGA_ROWS /\ (end = VGA_ROWS \/ end < VGA_ROWS)
  BY <1>1
<1>3. CASE end < VGA_ROWS
  <2>1. /\ vga_col' = (IF col >= VGA_COLS THEN 0 ELSE col) /\ vga_row' = end
        /\ vga_buffer' = buf /\ above' = above
    BY <1>1, <1>3 DEF Settle
  <2>2. vga_col' \in Column /\ vga_row' \in 0..(VGA_ROWS - 1)
    BY <1>1, <1>2, <1>3, <2>1 DEF Column
  <2>3. Typed'
    BY <1>1, <2>1, <2>2 DEF Typed
  <2>4. Line' = Len(above) + end + 1 /\ Paper' = PaperOf(above, buf)
    BY <2>1 DEF Line, Paper
  <2> QED
    BY <1>3, <2>1, <2>3, <2>4
<1>4. CASE end = VGA_ROWS
  <2>1. ~(end < VGA_ROWS) /\ end >= VGA_ROWS
    BY <1>1, <1>4
  <2>2. /\ vga_col' = 0 /\ vga_row' = end - 1
        /\ vga_buffer' = ScrolledUp(buf) /\ above' = Append(above, RowOf(buf, 0))
    BY <1>1, <2>1 DEF Settle
  <2>3. ScrolledUp(buf) \in Screen
    BY <1>1, ScrolledProperties
  <2>4. /\ Append(above, RowOf(buf, 0)) \in Seq(Row)
        /\ Len(Append(above, RowOf(buf, 0))) = Len(above) + 1
        /\ PaperOf(Append(above, RowOf(buf, 0)), ScrolledUp(buf))
           = Append(PaperOf(above, buf), BlankLine(tty_color))
    BY <1>1, ScrolledPaper
  <2>5. vga_col' \in Column /\ vga_row' \in 0..(VGA_ROWS - 1)
    BY <1>1, <1>4, <2>2 DEF Column
  <2>6. Typed'
    BY <1>1, <2>2, <2>3, <2>4, <2>5 DEF Typed
  <2>7. Line' = Len(above) + end + 1
    BY <1>1, <1>4, <2>2, <2>4 DEF Line
  <2>8. Paper' = Append(PaperOf(above, buf), BlankLine(tty_color))
    BY <2>2, <2>4 DEF Paper
  <2>9. vga_col' = IF col >= VGA_COLS THEN 0 ELSE col
    <3>1. CASE col >= VGA_COLS
      BY <2>2, <3>1
    <3>2. CASE ~(col >= VGA_COLS)
      BY <1>4, <2>2, <3>2
    <3> QED
      BY <3>1, <3>2
  <2> QED
    BY <2>1, <2>6, <2>7, <2>8, <2>9
<1> QED
  BY <1>2, <1>3, <1>4

\* What feeding does, in the words of TtySpec.
LEMMA ReachOnPaper ==
    ASSUME NEW ab \in Seq(Row), NEW buf \in Screen, NEW end \in Nat
    PROVE  Roll!Reach(Len(ab) + end + 1, PaperOf(ab, buf))
           = IF end < VGA_ROWS THEN PaperOf(ab, buf)
             ELSE Append(PaperOf(ab, buf), BlankLine(tty_color))
<1>1. Len(PaperOf(ab, buf)) = Len(ab) + VGA_ROWS /\ Len(ab) \in Nat /\ VGA_ROWS \in Nat
  BY PaperProperties, LenProperties, ScreenAssumption
<1>2. (Len(ab) + end + 1 <= Len(PaperOf(ab, buf))) <=> (end < VGA_ROWS)
  BY <1>1
<1>3. Roll!EmptyLine(tty_color) = BlankLine(tty_color)
  BY DEF Roll!EmptyLine, Roll!Entry, BlankLine, Column, Blank
<1> QED
  BY <1>2, <1>3 DEF Roll!Reach

-----------------------------------------------------------------------------
(***************************************************************************)
(* The calls, one lemma each: what it does to the types and to the paper.  *)
(***************************************************************************)
NextCall == todo # <<>> /\ Head(todo) \in Call

LEMMA ClearStep ==
    ASSUME Typed, tty_init
    PROVE  Typed' /\ Paper' = [j \in 1..VGA_ROWS |-> BlankLine(tty_color)] /\ Line' = 1
<1>1. /\ vga_col' = 0 /\ vga_row' = 0 /\ above' = <<>> /\ tty_color' = tty_color
      /\ vga_buffer' = [k \in Index |-> Entry(tty_color, Blank)] /\ tty_color \in 0..255
  BY DEF tty_init, get_blank, Typed
<1>2. /\ vga_buffer' \in Screen
      /\ PaperOf(<<>>, vga_buffer') = [j \in 1..VGA_ROWS |-> BlankLine(tty_color)]
  BY <1>1, BlankPaper
<1>3. <<>> \in Seq(Row) /\ Len(<<>>) = 0 /\ 0 \in Column /\ 0 \in 0..(VGA_ROWS - 1)
  BY EmptySeq, ScreenAssumption DEF Column
<1>4. Typed'
  BY <1>1, <1>2, <1>3 DEF Typed
<1> QED
  BY <1>1, <1>2, <1>3, <1>4 DEF Paper, Line

LEMMA NewlineStep ==
    ASSUME Typed, PutNewline
    PROVE  Typed' /\ Roll!Feed
<1>1. /\ vga_buffer \in Screen /\ vga_row \in 0..(VGA_ROWS - 1) /\ above \in Seq(Row)
      /\ Settle(vga_buffer, 0, vga_row + 1) /\ tty_color' = tty_color
  BY DEF Typed, PutNewline
<1>2. 0 \in 0..VGA_COLS /\ vga_row + 1 \in 0..VGA_ROWS /\ ~(0 >= VGA_COLS) /\ vga_row + 1 \in Nat
  BY <1>1, ScreenAssumption
<1> DEFINE end == vga_row + 1
<1>3. end = IF 0 >= VGA_COLS THEN (vga_row + 1) + 1 ELSE vga_row + 1
  BY <1>2
<1> HIDE DEF end
<1>4. /\ Typed' /\ vga_col' = (IF 0 >= VGA_COLS THEN 0 ELSE 0) /\ Line' = Len(above) + end + 1
      /\ Paper' = IF end < VGA_ROWS THEN Paper ELSE Append(Paper, BlankLine(tty_color))
  BY <1>1, <1>2, <1>3, SettleOnPaper DEF Paper
<1>5. Paper' = Roll!Reach(Len(above) + end + 1, Paper)
  BY <1>1, <1>2, <1>4, ReachOnPaper DEF end, Paper
<1>6. Len(above) + end + 1 = Line + 1
  BY <1>1, LenProperties DEF end, Line
<1>7. /\ Line' = Line + 1 /\ vga_col' = 0 /\ Paper' = Roll!Reach(Line + 1, Paper)
  BY <1>4, <1>5, <1>6
<1> QED
  BY <1>1, <1>4, <1>7 DEF Roll!Feed, Paper, PaperOf, Line, Shown

LEMMA CharacterStep ==
    ASSUME Typed, NextCall, PutCharacter
    PROVE  /\ Typed'
           /\ Head(todo).arg < 128 => Roll!Type(Head(todo).arg)
<1> DEFINE ch == Head(todo).arg
           e == Entry(tty_color, ch)
           spot == Spot(vga_row, vga_col)
           buf == [vga_buffer EXCEPT ![spot] = e]
           typed == [Paper EXCEPT ![Line] = [@ EXCEPT ![vga_col] = e]]
           end == IF vga_col + 1 >= VGA_COLS THEN vga_row + 1 ELSE vga_row
<1>1. ch \in 0..255
  BY DEF NextCall, Call
<1>2. /\ vga_buffer \in Screen /\ vga_row \in 0..(VGA_ROWS - 1) /\ vga_col \in Column
      /\ above \in Seq(Row) /\ tty_color \in 0..255 /\ Len(above) \in Nat
  BY LenProperties DEF Typed
<1>3. e \in Cell /\ (ch < 128 => e = 256 * tty_color + ch)
  BY <1>1, <1>2, EntryProperties
<1>4. Settle(buf, vga_col + 1, vga_row) /\ tty_color' = tty_color
  BY DEF PutCharacter, Spot
<1> HIDE DEF ch, e
<1>5. buf \in Screen /\ PaperOf(above, buf) = typed
  <2>1. /\ [vga_buffer EXCEPT ![Spot(vga_row, vga_col)] = e] \in Screen
        /\ PaperOf(above, [vga_buffer EXCEPT ![Spot(vga_row, vga_col)] = e])
           = [PaperOf(above, vga_buffer) EXCEPT ![Len(above) + vga_row + 1] = [@ EXCEPT ![vga_col] = e]]
    BY ONLY <1>2, <1>3, TypedPaper
  <2> QED
    BY <2>1 DEF Paper, Line
<1>6. /\ vga_col + 1 \in 0..VGA_COLS /\ vga_row \in 0..VGA_ROWS /\ vga_row # VGA_ROWS /\ end \in Nat
      /\ end = IF vga_col + 1 >= VGA_COLS THEN vga_row + 1 ELSE vga_row
  BY <1>2, ScreenAssumption DEF Column
<1> HIDE DEF buf, end, typed
<1>7. /\ Typed' /\ vga_col' = (IF vga_col + 1 >= VGA_COLS THEN 0 ELSE vga_col + 1)
      /\ Line' = Len(above) + end + 1
      /\ Paper' = IF end < VGA_ROWS THEN PaperOf(above, buf)
                  ELSE Append(PaperOf(above, buf), BlankLine(tty_color))
  BY <1>4, <1>5, <1>6, SettleOnPaper
<1>8. Paper' = Roll!Reach(Len(above) + end + 1, typed)
  BY <1>2, <1>5, <1>6, <1>7, ReachOnPaper
<1>9. VGA_COLS \in Nat /\ VGA_ROWS \in Nat
  BY ScreenAssumption
<1>10. ASSUME ch < 128 PROVE Roll!Type(ch)
  <2>1. Roll!Entry(tty_color, ch) = e
    BY <1>3, <1>10 DEF Roll!Entry
  <2>2. typed = [Paper EXCEPT ![Line] = [@ EXCEPT ![vga_col] = Roll!Entry(tty_color, ch)]]
    BY <2>1 DEF typed
  <2>3. CASE vga_col + 1 < VGA_COLS
    <3>1. ~(vga_col + 1 >= VGA_COLS) /\ end = vga_row /\ end < VGA_ROWS
      BY <1>2, <1>6, <1>9, <2>3 DEF Column
    <3>2. Paper' = typed /\ vga_col' = vga_col + 1 /\ Line' = Line
      BY <1>5, <1>7, <3>1 DEF Line
    <3> QED
      BY <1>4, <2>2, <2>3, <3>2 DEF Roll!Type, Paper, PaperOf, Line, Shown
  <2>4. CASE vga_col + 1 = VGA_COLS
    <3>1. vga_col + 1 >= VGA_COLS /\ end = vga_row + 1 /\ Len(above) + end + 1 = Line + 1
      BY <1>2, <1>6, <1>9, <2>4 DEF Line, Column
    <3>2. Paper' = Roll!Reach(Line + 1, typed) /\ vga_col' = 0 /\ Line' = Line + 1
      BY <1>7, <1>8, <3>1
    <3> QED
      BY <1>4, <2>2, <2>4, <3>2 DEF Roll!Type, Paper, PaperOf, Line, Shown
  <2> QED
    BY <1>2, <1>9, <2>3, <2>4 DEF Column
<1> QED
  BY <1>7, <1>10 DEF ch

LEMMA ColourStep ==
    ASSUME Typed, NextCall, tty_set_fg \/ tty_set_bg
    PROVE  /\ Typed'
           /\ tty_set_fg => Roll!SetForeground(Head(todo).arg)
           /\ tty_set_bg => Roll!SetBackground(Head(todo).arg)
<1>1. Head(todo).arg \in 0..255 /\ tty_color \in 0..255
  BY DEF NextCall, Call, Typed
<1>2. /\ vga_buffer' = vga_buffer /\ vga_col' = vga_col /\ vga_row' = vga_row /\ above' = above
      /\ tty_set_fg => tty_color' = 16 * (tty_color \div 16) + (Head(todo).arg % 16)
      /\ tty_set_bg => tty_color' = 16 * (Head(todo).arg % 16) + (tty_color % 16)
  BY DEF tty_set_fg, tty_set_bg
<1>3. /\ tty_color' \in 0..255
      /\ tty_set_fg => /\ tty_color' % 16 = Head(todo).arg % 16
                       /\ tty_color' \div 16 = tty_color \div 16
      /\ tty_set_bg => /\ tty_color' \div 16 = Head(todo).arg % 16
                       /\ tty_color' % 16 = tty_color % 16
  <2> DEFINE a == Head(todo).arg % 16
             high == tty_color \div 16
             low == tty_color % 16
  <2>1. a \in 0..15 /\ high \in 0..15 /\ low \in 0..15
    BY <1>1
  <2>2. /\ tty_set_fg => tty_color' = 16 * high + a
        /\ tty_set_bg => tty_color' = 16 * a + low
    BY <1>2
  <2> HIDE DEF a, high, low
  <2>3. /\ tty_color' \in 0..255
        /\ tty_set_fg => tty_color' % 16 = a /\ tty_color' \div 16 = high
        /\ tty_set_bg => tty_color' \div 16 = a /\ tty_color' % 16 = low
    BY <2>1, <2>2
  <2> QED
    BY <2>3 DEF a, high, low
<1>4. Typed'
  BY <1>2, <1>3 DEF Typed
<1> QED
  BY <1>2, <1>3, <1>4 DEF Roll!SetForeground, Roll!SetBackground, Roll!Colour, Shown

-----------------------------------------------------------------------------
(***************************************************************************)
(* The theorems.                                                           *)
(***************************************************************************)
LEMMA InitTyped ==
    ASSUME Init
    PROVE  Typed /\ Paper = [j \in 1..VGA_ROWS |-> BlankLine(15)] /\ Line = 1
<1>1. /\ vga_buffer = [k \in Index |-> Entry(15, Blank)] /\ vga_col = 0 /\ vga_row = 0
      /\ tty_color = 15 /\ above = <<>> /\ 15 \in 0..255
  BY DEF Init
<1>2. /\ vga_buffer \in Screen
      /\ PaperOf(<<>>, vga_buffer) = [j \in 1..VGA_ROWS |-> BlankLine(15)]
  BY <1>1, BlankPaper
<1>3. <<>> \in Seq(Row) /\ Len(<<>>) = 0 /\ 0 \in Column /\ 0 \in 0..(VGA_ROWS - 1)
  BY EmptySeq, ScreenAssumption DEF Column
<1> QED
  BY <1>1, <1>2, <1>3 DEF Typed, Paper, Line

LEMMA TypedStep ==
    ASSUME Typed, todo \in Seq(Call), Next
    PROVE  Typed'
<1>1. todo # <<>> => NextCall
  BY HeadTailProperties DEF NextCall
<1>2. CASE tty_init
  BY <1>2, ClearStep
<1>3. CASE PutNewline
  BY <1>3, NewlineStep
<1>4. CASE PutCharacter
  BY <1>1, <1>4, CharacterStep DEF PutCharacter, Calls
<1>5. CASE tty_set_fg \/ tty_set_bg
  BY <1>1, <1>5, ColourStep DEF tty_set_fg, tty_set_bg, Calls
<1> QED
  BY <1>2, <1>3, <1>4, <1>5 DEF Next, tty_putc

\* What is left to do are always calls of the kinds the program is made of.
LEMMA CallsStep ==
    ASSUME NEW S, todo \in Seq(S), Next
    PROVE  todo' \in Seq(S)
<1>1. todo # <<>> /\ todo' = Tail(todo)
  BY DEF Next, tty_init, tty_putc, PutNewline, PutCharacter, tty_set_fg, tty_set_bg, Calls
<1> QED
  BY <1>1, HeadTailProperties

IInv == Typed /\ todo \in Seq(Call)

LEMMA AlwaysTyped == Spec => []IInv
<1>1. Init => IInv
  BY InitTyped, ProgramAssumption DEF Init, IInv
<1>2. IInv /\ [Next]_vars => IInv'
  <2>1. IInv /\ UNCHANGED vars => IInv'
    BY DEF IInv, Typed, vars
  <2> QED
    BY <2>1, TypedStep, CallsStep DEF IInv
<1> QED
  BY <1>1, <1>2, PTL DEF Spec

\* The terminal is type-correct: between two calls the cursor is on the screen,
\* so tty_putc never writes outside the video memory, whatever the calls.
THEOREM TypeCorrect == Spec => []TypeOK
<1>1. IInv => TypeOK
  <2> SUFFICES ASSUME Typed PROVE TypeOK
    BY DEF IInv
  <2>1. \A k \in 1..Len(above) : above[k] \in Row
    BY ElementOfSeq DEF Typed
  <2> QED
    BY <2>1 DEF TypeOK, Typed, Screen, Row
<1> QED
  BY <1>1, AlwaysTyped, PTL

\* Every step of the terminal is one of the roll of paper.
LEMMA StepOnPaper ==
    ASSUME Typed, todo \in Seq(AsciiCall), Next
    PROVE  Roll!Next
<1>1. todo # <<>> => Head(todo) \in AsciiCall
  BY HeadTailProperties
<1>2. Head(todo) \in AsciiCall => Head(todo) \in Call
  BY DEF AsciiCall
<1>3. todo # <<>> /\ todo' = Tail(todo)
  BY DEF Next, tty_init, tty_putc, PutNewline, PutCharacter, tty_set_fg, tty_set_bg, Calls
<1>4. ASSUME Roll!Perform(Head(todo).op, Head(todo).arg) PROVE Roll!Next
  BY <1>3, <1>4 DEF Roll!Next
<1>5. CASE tty_init
  <2>1. Paper' = [j \in 1..VGA_ROWS |-> BlankLine(tty_color)] /\ Line' = 1
    BY <1>5, ClearStep
  <2>2. vga_col' = 0 /\ tty_color' = tty_color
    BY <1>5 DEF tty_init
  <2>3. Roll!EmptyLine(tty_color) = BlankLine(tty_color)
    BY DEF Roll!EmptyLine, Roll!Entry, BlankLine, Column, Blank
  <2>4. Roll!TearOff
    BY <2>1, <2>2, <2>3 DEF Roll!TearOff, Paper, PaperOf, Line, Shown
  <2>5. Head(todo).op = "init"
    BY <1>5 DEF tty_init, Calls
  <2> QED
    BY <1>4, <2>4, <2>5 DEF Roll!Perform
<1>6. CASE PutNewline
  <2>1. Head(todo).op = "putc" /\ Head(todo).arg = Newline
    BY <1>6 DEF PutNewline, Calls
  <2> QED
    BY <1>4, <1>6, <2>1, NewlineStep DEF Roll!Perform
<1>7. CASE PutCharacter
  <2>1. NextCall /\ Head(todo).op = "putc" /\ Head(todo).arg # Newline
    BY <1>1, <1>2, <1>7 DEF PutCharacter, Calls, NextCall
  <2>2. Head(todo).arg \in Bytes /\ Head(todo).arg < 128
    BY <1>1, <2>1 DEF AsciiCall, NextCall
  <2>3. Roll!Type(Head(todo).arg)
    BY <1>7, <2>1, <2>2, CharacterStep
  <2> QED
    BY <1>4, <2>1, <2>2, <2>3 DEF Roll!Perform
<1>8. CASE tty_set_fg \/ tty_set_bg
  <2>1. NextCall
    BY <1>1, <1>2, <1>8 DEF tty_set_fg, tty_set_bg, Calls, NextCall
  <2>2. (tty_set_fg => Head(todo).op = "fg") /\ (tty_set_bg => Head(todo).op = "bg")
    BY DEF tty_set_fg, tty_set_bg, Calls
  <2> QED
    BY <1>4, <1>8, <2>1, <2>2, ColourStep DEF Roll!Perform
<1> QED
  BY <1>5, <1>6, <1>7, <1>8 DEF Next, tty_putc

\* The terminal implements TtySpec for programs that write seven-bit characters:
\* every call has its effect, and wrapping and scrolling lose, double or move no
\* character of the program.
THEOREM Implements ==
    ASSUME Programs \subseteq Seq(AsciiCall)
    PROVE  Spec => RollSpec
<1>1. Init => Roll!Init
  <2> SUFFICES ASSUME Init PROVE Roll!Init
    OBVIOUS
  <2>1. Paper = [j \in 1..VGA_ROWS |-> BlankLine(15)] /\ Line = 1
    BY InitTyped
  <2>2. Roll!EmptyLine(15) = BlankLine(15)
    BY DEF Roll!EmptyLine, Roll!Entry, BlankLine, Column, Blank
  <2>3. vga_col = 0 /\ tty_color = 15 /\ todo \in Seq(Call)
    BY ProgramAssumption DEF Init
  <2>4. Roll!Call = Call
    BY DEF Roll!Call, Call
  <2> QED
    BY <2>1, <2>2, <2>3, <2>4 DEF Roll!Init, Paper, PaperOf, Line, Shown
<1> DEFINE Ascii == todo \in Seq(AsciiCall)
<1>2. Init => Ascii
  BY DEF Init
<1>3. Ascii /\ [Next]_vars => Ascii'
  <2>1. Ascii /\ UNCHANGED vars => Ascii'
    BY DEF vars
  <2> QED
    BY <2>1, CallsStep
<1>4. IInv /\ Ascii /\ [Next]_vars => [Roll!Next]_Roll!vars
  <2>1. UNCHANGED vars => UNCHANGED Roll!vars
    BY DEF vars, Roll!vars, Shown, RowOf
  <2> QED
    BY <2>1, StepOnPaper DEF IInv
<1> HIDE DEF Ascii
<1> QED
  BY <1>1, <1>2, <1>3, <1>4, AlwaysTyped, PTL DEF Spec, RollSpec, Roll!Spec

-----------------------------------------------------------------------------
(***************************************************************************)
(* Dark text on light backgrounds.                                         *)
(***************************************************************************)
\* The colour after a call, and the colours text may be written in.
Recoloured(c, call) ==
    CASE call.op = "fg" -> 16 * (c \div 16) + (call.arg % 16)
      [] call.op = "bg" -> 16 * (call.arg % 16) + (c % 16)
      [] OTHER -> c
Legible(c) == c \div 16 >= 8 => c % 16 = 0

\* A call that keeps to seven-bit characters, made in a legible colour if it writes.
Careful(c, call) ==
    /\ call.op = "putc" => call.arg < 128
    /\ call.op \in {"putc", "init"} => Legible(c)

\* A program is careful from colour c to colour d when it passes through colours in
\* which each of its calls is.
Trail(trail, p) ==
    \A k \in 1..Len(p) : trail[k] = Recoloured(trail[k - 1], p[k]) /\ Careful(trail[k - 1], p[k])
CarefulFromTo(p, c, d) ==
    \E trail \in [0..Len(p) -> 0..255] : trail[0] = c /\ trail[Len(p)] = d /\ Trail(trail, p)

LEMMA RecolouredType ==
    ASSUME NEW c \in 0..255, NEW call \in Call PROVE Recoloured(c, call) \in 0..255
<1> DEFINE a == call.arg % 16
           high == c \div 16
           low == c % 16
<1>1. call.arg \in 0..255
  BY DEF Call
<1>2. a \in 0..15 /\ high \in 0..15 /\ low \in 0..15
  BY <1>1
<1>3. Recoloured(c, call) \in {16 * high + a, 16 * a + low, c}
  BY DEF Recoloured
<1> HIDE DEF a, high, low
<1> QED
  BY <1>2, <1>3

\* The first call of a careful program, and what is left after it.
LEMMA CarefulHead ==
    ASSUME NEW p \in Seq(Call), p # <<>>, NEW c, NEW d, CarefulFromTo(p, c, d)
    PROVE  /\ c \in 0..255 /\ Careful(c, Head(p))
           /\ CarefulFromTo(Tail(p), Recoloured(c, Head(p)), d)
<1> DEFINE n == Len(p)
<1>1. PICK trail \in [0..n -> 0..255] : trail[0] = c /\ trail[n] = d /\ Trail(trail, p)
  BY DEF CarefulFromTo
<1>2. /\ n \in Nat /\ n # 0 /\ Head(p) = p[1] /\ Tail(p) \in Seq(Call) /\ Len(Tail(p)) = n - 1
      /\ \A k \in 1..(n - 1) : Tail(p)[k] = p[k + 1]
  BY EmptySeq, LenProperties, HeadTailProperties
<1> HIDE DEF n
<1>3. c \in 0..255
  <2>1. 0 \in 0..n
    BY <1>2
  <2> QED
    BY <1>1, <2>1
<1>4. \A k \in 1..n : trail[k] = Recoloured(trail[k - 1], p[k]) /\ Careful(trail[k - 1], p[k])
  BY <1>1 DEF Trail, n
<1>5. trail[1] = Recoloured(c, Head(p)) /\ Careful(c, Head(p))
  <2>1. 1 \in 1..n /\ 1 - 1 = 0
    BY <1>2
  <2> QED
    BY <1>1, <1>2, <1>4, <2>1
<1> DEFINE rest == [k \in 0..(n - 1) |-> trail[k + 1]]
<1>6. rest \in [0..(n - 1) -> 0..255] /\ \A k \in 0..(n - 1) : rest[k] = trail[k + 1]
  BY <1>1, <1>2
<1> HIDE DEF rest
<1>7. rest[0] = trail[1] /\ rest[n - 1] = d
  BY <1>1, <1>2, <1>6
<1>8. Trail(rest, Tail(p))
  <2> SUFFICES ASSUME NEW k \in 1..(n - 1)
               PROVE  /\ rest[k] = Recoloured(rest[k - 1], Tail(p)[k])
                      /\ Careful(rest[k - 1], Tail(p)[k])
    BY <1>2 DEF Trail
  <2>1. k + 1 \in 1..n /\ (k + 1) - 1 = k /\ k - 1 \in 0..(n - 1) /\ (k - 1) + 1 = k
    BY <1>2
  <2>2. rest[k] = trail[k + 1] /\ rest[k - 1] = trail[k] /\ Tail(p)[k] = p[k + 1]
    BY <1>2, <1>6, <2>1
  <2>3. trail[k + 1] = Recoloured(trail[k], p[k + 1]) /\ Careful(trail[k], p[k + 1])
    BY <1>4, <2>1
  <2> QED
    BY <2>2, <2>3
<1> QED
  BY <1>2, <1>3, <1>5, <1>6, <1>7, <1>8 DEF CarefulFromTo

\* Lines and papers whose cells are all legible.
DarkLine(line) == \A k \in Column : Legible(line[k] \div 256)
DarkPaper(p) == \A j \in 1..Len(p) : DarkLine(p[j])

LEMMA ColourOfEntry ==
    ASSUME NEW c \in 0..255, NEW ch \in 0..127 PROVE (256 * c + ch) \div 256 = c
  OBVIOUS

LEMMA BlankIsDark ==
    ASSUME NEW c \in 0..255, Legible(c) PROVE DarkLine(BlankLine(c)) /\ BlankLine(c) \in Row
<1>1. Blank \in 0..127
  BY DEF Blank
<1>2. \A k \in Column : BlankLine(c)[k] = 256 * c + Blank
  BY DEF BlankLine
<1>3. (256 * c + Blank) \div 256 = c
  BY <1>1, ColourOfEntry
<1>4. \A k \in Column : BlankLine(c)[k] \div 256 = c
  BY <1>2, <1>3
<1> QED
  BY <1>4, BlankLineProperties DEF DarkLine

LEMMA FreshIsDark ==
    ASSUME NEW c \in 0..255, Legible(c), NEW p, p = [j \in 1..VGA_ROWS |-> BlankLine(c)]
    PROVE  DarkPaper(p)
<1>1. VGA_ROWS \in Nat /\ DarkLine(BlankLine(c))
  BY ScreenAssumption, BlankIsDark
<1>2. Len(p) = VGA_ROWS /\ \A j \in 1..VGA_ROWS : p[j] = BlankLine(c)
  BY <1>1
<1> QED
  BY <1>1, <1>2 DEF DarkPaper

\* Feeding in a blank line, and typing a character.
LEMMA ReachIsDark ==
    ASSUME NEW p \in Seq(Row), DarkPaper(p), tty_color \in 0..255, Legible(tty_color), NEW l
    PROVE  DarkPaper(Roll!Reach(l, p))
<1> DEFINE blank == BlankLine(tty_color)
<1>1. DarkLine(blank) /\ blank \in Row
  BY BlankIsDark
<1>2. Roll!EmptyLine(tty_color) = blank
  BY DEF Roll!EmptyLine, Roll!Entry, BlankLine, Column, Blank
<1> HIDE DEF blank
<1>3. Roll!Reach(l, p) \in {p, Append(p, blank)}
  BY <1>2 DEF Roll!Reach
<1>4. DarkPaper(Append(p, blank))
  <2>1. /\ Len(p) \in Nat /\ Len(Append(p, blank)) = Len(p) + 1 /\ Append(p, blank)[Len(p) + 1] = blank
        /\ \A j \in 1..Len(p) : Append(p, blank)[j] = p[j]
    BY <1>1, AppendProperties, LenProperties
  <2>2. ASSUME NEW j \in 1..(Len(p) + 1) PROVE DarkLine(Append(p, blank)[j])
    <3>1. j = Len(p) + 1 \/ j \in 1..Len(p)
      BY <2>1
    <3> QED
      BY <1>1, <2>1, <3>1 DEF DarkPaper
  <2> QED
    BY <2>1, <2>2 DEF DarkPaper
<1> QED
  BY <1>3, <1>4

LEMMA TypedIsDark ==
    ASSUME NEW p \in Seq(Row), DarkPaper(p), tty_color \in 0..255, Legible(tty_color),
           NEW ch \in 0..127, NEW l, NEW column
    PROVE  DarkPaper([p EXCEPT ![l] = [@ EXCEPT ![column] = Roll!Entry(tty_color, ch)]])
<1> DEFINE e == Roll!Entry(tty_color, ch)
           q == [p EXCEPT ![l] = [@ EXCEPT ![column] = e]]
<1>1. Legible(e \div 256)
  <2>1. e \div 256 = tty_color
    BY ColourOfEntry DEF Roll!Entry
  <2> HIDE DEF e
  <2> QED
    BY <2>1
<1> HIDE DEF e
<1>2. Len(q) = Len(p) /\ DOMAIN p = 1..Len(p)
  BY LenProperties
<1>3. ASSUME NEW j \in 1..Len(p) PROVE DarkLine(q[j])
  <2> SUFFICES ASSUME NEW k \in Column PROVE Legible(q[j][k] \div 256)
    BY DEF DarkLine
  <2>1. Legible(p[j][k] \div 256) /\ p[j] \in Row
    BY ElementOfSeq DEF DarkPaper, DarkLine
  <2>2. q[j] = IF j = l THEN [p[j] EXCEPT ![column] = e] ELSE p[j]
    BY <1>2
  <2>3. DOMAIN p[j] = Column
    BY <2>1 DEF Row
  <2>4. q[j][k] = e \/ q[j][k] = p[j][k]
    BY <2>2, <2>3
  <2> QED
    BY <1>1, <2>1, <2>4
<1> HIDE DEF q
<1>4. DarkPaper(q)
  BY <1>2, <1>3 DEF DarkPaper
<1> QED
  BY <1>4 DEF q, e

LEMMA TypedOnRows ==
    ASSUME NEW p \in Seq(Row), NEW l, NEW column, NEW c \in 0..255, NEW ch \in 0..127
    PROVE  [p EXCEPT ![l] = [@ EXCEPT ![column] = Roll!Entry(c, ch)]] \in Seq(Row)
<1> DEFINE e == Roll!Entry(c, ch)
           q == [p EXCEPT ![l] = [@ EXCEPT ![column] = e]]
<1>1. e \in Cell
  <2>1. ch \in 0..255
    OBVIOUS
  <2>2. e = 256 * c + ch
    BY DEF Roll!Entry
  <2>3. 256 * c + ch \in Cell
    BY <2>1, TwoBytesFit
  <2> HIDE DEF e
  <2> QED
    BY <2>2, <2>3
<1> HIDE DEF e
<1>2. Len(p) \in Nat /\ p \in [1..Len(p) -> Row]
  BY LenProperties
<1>3. ASSUME NEW j \in 1..Len(p) PROVE [p[j] EXCEPT ![column] = e] \in Row
  <2>1. p[j] \in [Column -> Cell]
    BY <1>2 DEF Row
  <2> QED
    BY <1>1, <2>1 DEF Row
<1>4. q \in [1..Len(p) -> Row]
  BY <1>2, <1>3
<1>5. q \in Seq(Row)
  BY <1>2, <1>4, SeqDef
<1> QED
  BY <1>5 DEF q, e

CarefulRest == \E d : CarefulFromTo(todo, tty_color, d)
DarkInv == DarkPaper(Paper) /\ CarefulRest

LEMMA DarkStep ==
    ASSUME IInv, DarkInv, Next PROVE DarkInv'
<1>1. /\ Typed /\ todo \in Seq(Call) /\ tty_color \in 0..255 /\ Paper \in Seq(Row)
  BY PaperProperties DEF IInv, Typed, Paper
<1>2. todo # <<>> /\ todo' = Tail(todo) /\ Head(todo) \in Call
  BY <1>1, HeadTailProperties
     DEF Next, tty_init, tty_putc, PutNewline, PutCharacter, tty_set_fg, tty_set_bg, Calls
<1> DEFINE c == tty_color
           call == Head(todo)
<1>3. Careful(c, call) /\ \E d : CarefulFromTo(todo', Recoloured(c, call), d)
  BY <1>1, <1>2, CarefulHead DEF DarkInv, CarefulRest
<1>4. CASE tty_init
  <2>1. call.op = "init" /\ tty_color' = c
    BY <1>4 DEF tty_init, Calls
  <2>2. Legible(c) /\ Recoloured(c, call) = c
    BY <1>3, <2>1 DEF Careful, Recoloured
  <2>3. Paper' = [j \in 1..VGA_ROWS |-> BlankLine(tty_color)]
    BY <1>1, <1>4, ClearStep
  <2>4. DarkPaper(Paper')
    BY <1>1, <2>2, <2>3, FreshIsDark
  <2> QED
    BY <1>3, <2>1, <2>2, <2>4 DEF DarkInv, CarefulRest
<1>5. CASE tty_putc
  <2>1. call.op = "putc" /\ tty_color' = c
    BY <1>5 DEF tty_putc, PutNewline, PutCharacter, Calls
  <2>2. Legible(c) /\ call.arg < 128 /\ Recoloured(c, call) = c
    BY <1>3, <2>1 DEF Careful, Recoloured
  <2>3. call.arg \in 0..127
    <3> DEFINE arg == call.arg
    <3>1. arg \in 0..255 /\ arg < 128
      BY <1>2, <2>2 DEF Call
    <3> HIDE DEF arg
    <3>2. arg \in 0..127
      BY <3>1
    <3> QED
      BY <3>2 DEF arg
  <2>4. DarkPaper(Paper')
    <3>1. CASE PutNewline
      <4>1. Paper' = Roll!Reach(Line + 1, Paper)
        BY <1>1, <3>1, NewlineStep DEF Roll!Feed, Paper, PaperOf, Line, Shown
      <4> QED
        BY <1>1, <2>2, <4>1, ReachIsDark DEF DarkInv
    <3>2. CASE PutCharacter
      <4> DEFINE typed == [Paper EXCEPT ![Line] = [@ EXCEPT ![vga_col] = Roll!Entry(tty_color, call.arg)]]
      <4>1. Roll!Type(call.arg)
        BY <1>1, <1>2, <2>2, <3>2, CharacterStep DEF NextCall
      <4>2. Paper' = typed \/ Paper' = Roll!Reach(Line + 1, typed)
        BY <4>1 DEF Roll!Type, Paper, PaperOf, Line, Shown
      <4>3. DarkPaper(typed)
        BY <1>1, <2>2, <2>3, TypedIsDark DEF DarkInv
      <4>4. typed \in Seq(Row)
        BY <1>1, <2>3, TypedOnRows
      <4> HIDE DEF typed
      <4> QED
        BY <1>1, <2>2, <4>2, <4>3, <4>4, ReachIsDark
    <3> QED
      BY <1>5, <3>1, <3>2 DEF tty_putc
  <2> QED
    BY <1>3, <2>1, <2>2, <2>4 DEF DarkInv, CarefulRest
<1>6. CASE tty_set_fg \/ tty_set_bg
  <2>1. tty_color' = Recoloured(c, call)
    BY <1>6 DEF tty_set_fg, tty_set_bg, Calls, Recoloured
  <2>2. vga_buffer' = vga_buffer /\ above' = above
    BY <1>6 DEF tty_set_fg, tty_set_bg
  <2>3. Paper' = Paper
    BY <2>2 DEF Paper, PaperOf, RowOf
  <2> QED
    BY <1>3, <2>1, <2>3 DEF DarkInv, CarefulRest
<1> QED
  BY <1>4, <1>5, <1>6 DEF Next

\* Text on a light background is dark, on the screen and in the rows that have left
\* it, whatever the screen's size, for programs that write seven-bit characters, and
\* write and clear only in legible colours, the colour 15 they start in included.
THEOREM DarkTextOnLight ==
    ASSUME \A p \in Programs : \E d : CarefulFromTo(p, 15, d)
    PROVE  Spec => []LightBackgroundsDarkText
<1>1. Init => DarkInv
  <2> SUFFICES ASSUME Init PROVE DarkInv
    OBVIOUS
  <2>1. Paper = [j \in 1..VGA_ROWS |-> BlankLine(15)] /\ tty_color = 15 /\ todo \in Programs
    BY InitTyped DEF Init
  <2>2. Legible(15)
    BY DEF Legible
  <2>3. DarkPaper(Paper)
    BY <2>1, <2>2, FreshIsDark
  <2> QED
    BY <2>1, <2>3 DEF DarkInv, CarefulRest
<1>2. IInv /\ DarkInv /\ [Next]_vars => DarkInv'
  <2>1. DarkInv /\ UNCHANGED vars => DarkInv'
    BY DEF DarkInv, CarefulRest, Paper, PaperOf, RowOf, vars
  <2> QED
    BY <2>1, DarkStep
<1>3. IInv /\ DarkInv => LightBackgroundsDarkText
  <2> SUFFICES ASSUME IInv, DarkPaper(Paper), NEW r \in 1..(Len(above) + VGA_ROWS), NEW k \in Column
               PROVE  Legible((above \o Shown)[r][k] \div 256)
    BY DEF DarkInv, LightBackgroundsDarkText, Legible
  <2>1. Paper = above \o Shown
    BY DEF Paper, PaperOf, Shown
  <2>2. Len(Paper) = Len(above) + VGA_ROWS
    BY PaperProperties DEF IInv, Typed, Paper
  <2> QED
    BY <2>1, <2>2 DEF DarkPaper, DarkLine
<1> QED
  BY <1>1, <1>2, <1>3, AlwaysTyped, PTL DEF Spec

(***************************************************************************)
(* The colour table is such a program.                                     *)
(***************************************************************************)
\* Careful programs, one after the other.
LEMMA CarefulThenCareful ==
    ASSUME NEW p \in Seq(Call), NEW q \in Seq(Call), NEW c, NEW d, NEW e,
           CarefulFromTo(p, c, d), CarefulFromTo(q, d, e)
    PROVE  CarefulFromTo(p \o q, c, e)
<1> DEFINE m == Len(p)
           n == Len(q)
<1>1. PICK f \in [0..m -> 0..255] : f[0] = c /\ f[m] = d /\ Trail(f, p)
  BY DEF CarefulFromTo
<1>2. PICK g \in [0..n -> 0..255] : g[0] = d /\ g[n] = e /\ Trail(g, q)
  BY DEF CarefulFromTo
<1>3. /\ m \in Nat /\ n \in Nat /\ Len(p \o q) = m + n
      /\ \A k \in 1..(m + n) : (p \o q)[k] = IF k <= m THEN p[k] ELSE q[k - m]
  BY ConcatProperties, LenProperties
<1>4. \A k \in 1..m : f[k] = Recoloured(f[k - 1], p[k]) /\ Careful(f[k - 1], p[k])
  BY <1>1 DEF Trail
<1>5. \A k \in 1..n : g[k] = Recoloured(g[k - 1], q[k]) /\ Careful(g[k - 1], q[k])
  BY <1>2 DEF Trail
<1> HIDE DEF m, n
<1> DEFINE h == [k \in 0..(m + n) |-> IF k <= m THEN f[k] ELSE g[k - m]]
<1>6. \A k \in 0..(m + n) : h[k] = IF k <= m THEN f[k] ELSE g[k - m]
  OBVIOUS
<1>7. h \in [0..(m + n) -> 0..255]
  <2> SUFFICES ASSUME NEW k \in 0..(m + n) PROVE h[k] \in 0..255
    OBVIOUS
  <2> HIDE DEF h
  <2>1. CASE k <= m
    <3>1. k \in 0..m
      BY <1>3, <2>1
    <3>2. f[k] \in 0..255
      BY <3>1
    <3> QED
      BY <1>6, <2>1, <3>2
  <2>2. CASE ~(k <= m)
    <3>1. k - m \in 0..n
      BY <1>3, <2>2
    <3>2. g[k - m] \in 0..255
      BY <3>1
    <3> QED
      BY <1>6, <2>2, <3>2
  <2> QED
    BY <2>1, <2>2
<1> HIDE DEF h
<1>8. h[0] = c /\ h[m + n] = e
  <2>1. 0 \in 0..(m + n) /\ 0 <= m /\ m + n \in 0..(m + n) /\ (m + n) - m = n /\ (m + n <= m => n = 0 /\ m + n = m)
    BY <1>3
  <2> QED
    BY <1>1, <1>2, <1>6, <2>1
<1>9. Trail(h, p \o q)
  <2> SUFFICES ASSUME NEW k \in 1..(m + n)
               PROVE  h[k] = Recoloured(h[k - 1], (p \o q)[k]) /\ Careful(h[k - 1], (p \o q)[k])
    BY <1>3 DEF Trail
  <2>1. CASE k <= m
    <3>1. k \in 1..m /\ k \in 0..(m + n) /\ k - 1 \in 0..(m + n) /\ k - 1 <= m
      BY <1>3, <2>1
    <3>2. h[k] = f[k] /\ h[k - 1] = f[k - 1] /\ (p \o q)[k] = p[k]
      BY <1>3, <1>6, <2>1, <3>1
    <3> QED
      BY <1>4, <3>1, <3>2
  <2>2. CASE ~(k <= m)
    <3> DEFINE j == k - m
    <3>1. j \in 1..n /\ k \in 0..(m + n) /\ k - 1 \in 0..(m + n) /\ (k - 1) - m = j - 1
          /\ (k - 1 <= m => k - 1 = m /\ j - 1 = 0)
      BY <1>3, <2>2
    <3>2. h[k] = g[j] /\ (p \o q)[k] = q[j]
      BY <1>3, <1>6, <2>2, <3>1
    <3>3. h[k - 1] = g[j - 1]
      BY <1>1, <1>2, <1>6, <3>1
    <3> HIDE DEF j
    <3> QED
      BY <1>5, <3>1, <3>2, <3>3
  <2> QED
    BY <2>1, <2>2
<1> QED
  BY <1>3, <1>7, <1>8, <1>9 DEF CarefulFromTo

\* One call, and text.
LEMMA CarefulCall ==
    ASSUME NEW call \in Call, NEW c \in 0..255, Careful(c, call)
    PROVE  <<call>> \in Seq(Call) /\ CarefulFromTo(<<call>>, c, Recoloured(c, call))
<1> DEFINE d == Recoloured(c, call)
<1>1. d \in 0..255
  BY RecolouredType
<1> HIDE DEF d
<1> DEFINE trail == [k \in 0..1 |-> IF k = 0 THEN c ELSE d]
<1>2. trail \in [0..1 -> 0..255] /\ trail[0] = c /\ trail[1] = d
  BY <1>1
<1> HIDE DEF trail
<1>3. <<call>> \in Seq(Call) /\ Len(<<call>>) = 1 /\ <<call>>[1] = call
  OBVIOUS
<1>4. Trail(trail, <<call>>)
  <2> SUFFICES ASSUME NEW k \in 1..1
               PROVE  trail[k] = Recoloured(trail[k - 1], call) /\ Careful(trail[k - 1], call)
    BY <1>3 DEF Trail
  <2>1. k = 1 /\ k - 1 = 0
    OBVIOUS
  <2> QED
    BY <1>2, <2>1 DEF d
<1> QED
  BY <1>2, <1>3, <1>4 DEF CarefulFromTo, d

LEMMA CarefulText ==
    ASSUME NEW p \in Seq(Call), NEW c \in 0..255, Legible(c),
           \A k \in 1..Len(p) : p[k].op = "putc" /\ p[k].arg < 128
    PROVE  CarefulFromTo(p, c, c)
<1> DEFINE n == Len(p)
           trail == [k \in 0..n |-> c]
<1>1. n \in Nat
  BY LenProperties
<1>2. trail \in [0..n -> 0..255] /\ \A k \in 0..n : trail[k] = c
  OBVIOUS
<1> HIDE DEF trail
<1>3. trail[0] = c /\ trail[n] = c
  BY <1>1, <1>2
<1>4. Trail(trail, p)
  <2> SUFFICES ASSUME NEW k \in 1..n
               PROVE  trail[k] = Recoloured(trail[k - 1], p[k]) /\ Careful(trail[k - 1], p[k])
    BY DEF Trail
  <2>1. trail[k] = c /\ trail[k - 1] = c
    BY <1>1, <1>2
  <2>2. p[k].op = "putc" /\ p[k].arg < 128
    OBVIOUS
  <2>3. Recoloured(c, p[k]) = c /\ Careful(c, p[k])
    BY <2>2 DEF Recoloured, Careful
  <2> QED
    BY <2>1, <2>3
<1> QED
  BY <1>2, <1>3, <1>4 DEF CarefulFromTo, n

\* Careful programs laid end to end.
LEMMA CarefulSegments ==
    ASSUME NEW n \in Nat, NEW parts \in [1..n -> Seq(Call)], NEW colours,
           colours[0] \in 0..255,
           \A k \in 1..n : CarefulFromTo(parts[k], colours[k - 1], colours[k])
    PROVE  FlattenSeq(parts) \in Seq(Call) /\ CarefulFromTo(FlattenSeq(parts), colours[0], colours[n])
<1> DEFINE first(m) == SubSeq(parts, 1, m)
           Good(m) == CarefulFromTo(FlattenSeq(first(m)), colours[0], colours[m])
           S == {m \in Nat : m <= n => Good(m)}
<1>1. parts \in Seq(Seq(Call)) /\ Len(parts) = n
  BY SeqDef, LenProperties
<1>2. 0 \in S
  <2>1. first(0) = <<>>
    BY <1>1
  <2>2. <<>> \in Seq(Call) /\ CarefulFromTo(<<>>, colours[0], colours[0])
    <3> DEFINE trail == [k \in 0..0 |-> colours[0]]
    <3>1. trail \in [0..0 -> 0..255] /\ trail[0] = colours[0]
      OBVIOUS
    <3> HIDE DEF trail
    <3>2. Trail(trail, <<>>) /\ Len(<<>>) = 0
      BY DEF Trail
    <3> QED
      BY <3>1, <3>2 DEF CarefulFromTo
  <2> QED
    BY <2>1, <2>2, FlattenEmpty
<1>3. ASSUME NEW m \in Nat, m \in S PROVE m + 1 \in S
  <2> SUFFICES ASSUME m + 1 <= n PROVE Good(m + 1)
    OBVIOUS
  <2> DEFINE j == m + 1
  <2>1. m <= n /\ j \in 1..n /\ j - 1 = m
    OBVIOUS
  <2>2. Good(m) /\ CarefulFromTo(parts[j], colours[m], colours[j]) /\ parts[j] \in Seq(Call)
    BY <1>3, <2>1
  <2>3. first(m) \in Seq(Seq(Call)) /\ first(j) = Append(first(m), parts[j])
    <3> HIDE DEF j
    <3>0. ASSUME NEW b \in 0..n
          PROVE  first(b) \in Seq(Seq(Call)) /\ Len(first(b)) = b /\ \A i \in 1..b : first(b)[i] = parts[i]
      <4> DEFINE u == first(b)
      <4>1. /\ u = SubSeq(parts, 1, b) /\ b \in Nat /\ b <= n
            /\ \A i \in 1..b : i \in 1..n
        OBVIOUS
      <4>2. \A i \in 1..b : parts[i] \in Seq(Call)
        BY <4>1
      <4>3. Len(u) = b /\ \A i \in 1..b : u[i] = parts[i]
        BY <1>1, <4>1
      <4>4. u = [i \in 1..b |-> parts[i]]
        BY <4>1
      <4>5. u \in [1..b -> Seq(Call)]
        BY <4>2, <4>4
      <4> HIDE DEF u
      <4>6. u \in Seq(Seq(Call))
        BY <4>1, <4>5, SeqDef
      <4> QED
        BY <4>3, <4>6 DEF u
    <3>1. first(m) \in Seq(Seq(Call)) /\ Len(first(m)) = m /\ \A i \in 1..m : first(m)[i] = parts[i]
      <4>1. m \in 0..n
        BY <2>1
      <4> QED
        BY <3>0, <4>1
    <3>2. first(j) \in Seq(Seq(Call)) /\ Len(first(j)) = j /\ \A i \in 1..j : first(j)[i] = parts[i]
      <4>1. j \in 0..n
        BY <2>1
      <4> QED
        BY <3>0, <4>1
    <3> HIDE DEF first
    <3>3. Append(first(m), parts[j]) \in Seq(Seq(Call)) /\ Len(Append(first(m), parts[j])) = j
          /\ \A i \in 1..m : Append(first(m), parts[j])[i] = parts[i]
          /\ Append(first(m), parts[j])[j] = parts[j]
      <4> DEFINE u == first(m)
                 p == parts[j]
      <4>1. u \in Seq(Seq(Call)) /\ Len(u) = m /\ p \in Seq(Call) /\ \A i \in 1..m : u[i] = parts[i]
        BY <2>2, <3>1
      <4> HIDE DEF u, p
      <4>2. /\ Append(u, p) \in Seq(Seq(Call)) /\ Len(Append(u, p)) = m + 1
            /\ \A i \in 1..m : Append(u, p)[i] = u[i]
            /\ Append(u, p)[m + 1] = p
        BY <4>1, AppendProperties
      <4> QED
        BY <4>1, <4>2 DEF u, p, j
    <3>4. \A i \in 1..j : i \in 1..m \/ i = j
      BY <2>1
    <3> DEFINE u == first(j)
               w == Append(first(m), parts[j])
    <3>5. u \in Seq(Seq(Call)) /\ w \in Seq(Seq(Call)) /\ Len(u) = j /\ Len(w) = j
      BY <3>2, <3>3
    <3>6. \A i \in 1..j : u[i] = w[i]
      BY <3>1, <3>2, <3>3, <3>4
    <3> HIDE DEF u, w
    <3>7. u = w
      BY <3>5, <3>6, SeqEqual
    <3> QED
      BY <3>1, <3>7 DEF u, w
  <2> HIDE DEF first, j
  <2>4. FlattenSeq(first(j)) = FlattenSeq(first(m)) \o parts[j] /\ FlattenSeq(first(m)) \in Seq(Call)
    BY <2>2, <2>3, FlattenLast, FlattenType
  <2>5. CarefulFromTo(FlattenSeq(first(j)), colours[0], colours[j])
    BY <2>2, <2>4, CarefulThenCareful
  <2> QED
    BY <2>5 DEF j
<1> HIDE DEF Good
<1>4. Good(n)
  <2> HIDE DEF S
  <2>1. Nat \subseteq S
    BY <1>2, <1>3, NatSetInduction
  <2>2. n \in S /\ n <= n
    BY <2>1
  <2> QED
    BY <2>2 DEF S
<1>5. first(n) = parts
  BY <1>1
<1> QED
  BY <1>1, <1>4, <1>5, FlattenType DEF Good

\* Text that is written one character at a time, in any legible colour.
Text(p) == p \in Seq(Call) /\ \A k \in 1..Len(p) : p[k].op = "putc" /\ p[k].arg < 128

LEMMA TextIsCareful ==
    ASSUME NEW p, Text(p), NEW c \in 0..255, Legible(c) PROVE CarefulFromTo(p, c, c)
  BY CarefulText DEF Text

LEMMA PutsIsText ==
    ASSUME NEW string \in Seq(0..127) PROVE Text(tty_puts(string))
<1> DEFINE p == tty_puts(string)
           n == Len(string)
<1>1. n \in Nat /\ p = [k \in 1..n |-> Put(string[k])]
  BY LenProperties DEF tty_puts
<1>2. ASSUME NEW k \in 1..n PROVE Put(string[k]) \in Call /\ Put(string[k]).op = "putc" /\ Put(string[k]).arg < 128
  <2> DEFINE ch == string[k]
  <2>1. ch \in 0..127
    BY ElementOfSeq
  <2> HIDE DEF ch
  <2>2. ch \in 0..255 /\ ch < 128
    BY <2>1
  <2>3. Put(ch) \in Call /\ Put(ch).op = "putc" /\ Put(ch).arg < 128
    BY <2>2 DEF Put, Call
  <2> QED
    BY <2>3 DEF ch
<1> HIDE DEF p, n
<1>3. p \in [1..n -> Call] /\ \A k \in 1..n : p[k] = Put(string[k])
  BY <1>1, <1>2
<1>4. p \in Seq(Call) /\ Len(p) = n
  BY <1>1, <1>3, SeqDef, LenProperties
<1>5. Text(p)
  BY <1>2, <1>3, <1>4 DEF Text
<1> QED
  BY <1>5 DEF p

LEMMA TextThenText ==
    ASSUME NEW p, NEW q, Text(p), Text(q) PROVE Text(p \o q)
<1>1. /\ p \o q \in Seq(Call) /\ Len(p \o q) = Len(p) + Len(q) /\ Len(p) \in Nat /\ Len(q) \in Nat
      /\ \A k \in 1..(Len(p) + Len(q)) : (p \o q)[k] = IF k <= Len(p) THEN p[k] ELSE q[k - Len(p)]
  BY ConcatProperties, LenProperties DEF Text
<1>2. ASSUME NEW k \in 1..(Len(p) + Len(q))
      PROVE  (k <= Len(p) => k \in 1..Len(p)) /\ (~(k <= Len(p)) => k - Len(p) \in 1..Len(q))
  BY <1>1
<1> QED
  BY <1>1, <1>2 DEF Text

LEMMA NumberIsText ==
    ASSUME NEW k \in 0..15 PROVE Text(output_num(k))
<1>1. ASSUME NEW ch \in 0..127 PROVE Text(<<Put(ch)>>)
  <2>1. Put(ch) \in Call /\ Put(ch).op = "putc" /\ Put(ch).arg < 128
    BY DEF Put, Call
  <2> QED
    BY <2>1 DEF Text
<1>2. ASSUME NEW ch \in 0..127, NEW next \in 0..127 PROVE Text(<<Put(ch), Put(next)>>)
  <2>1. /\ Put(ch) \in Call /\ Put(ch).op = "putc" /\ Put(ch).arg < 128
        /\ Put(next) \in Call /\ Put(next).op = "putc" /\ Put(next).arg < 128
    BY DEF Put, Call
  <2> QED
    BY <2>1 DEF Text
<1>3. /\ Blank \in 0..127 /\ Zero \in 0..127 /\ Zero + 1 \in 0..127
      /\ (k < 10 => Zero + k \in 0..127) /\ (~(k < 10) => Zero + (k - 10) \in 0..127)
  BY DEF Blank, Zero
<1> DEFINE digits == IF k < 10 THEN <<Put(Zero), Put(Zero + k)>> ELSE <<Put(Zero + 1), Put(Zero + (k - 10))>>
<1>4. Text(digits) /\ Text(<<Put(Blank)>>)
  BY <1>1, <1>2, <1>3
<1>5. output_num(k) = (<<Put(Blank)>> \o digits) \o <<Put(Blank)>>
  BY DEF output_num
<1> HIDE DEF digits
<1> QED
  BY <1>4, <1>5, TextThenText

\* The two halves of a colour.
LEMMA Halves ==
    ASSUME NEW high \in 0..15, NEW low \in 0..15
    PROVE  /\ 16 * high + low \in 0..255
           /\ (16 * high + low) \div 16 = high /\ (16 * high + low) % 16 = low
  OBVIOUS

\* A change of foreground or background, which is always careful.
LEMMA Repainted ==
    ASSUME NEW high \in 0..15, NEW low \in 0..15, NEW v \in 0..15
    PROVE  /\ <<Fg(v)>> \in Seq(Call) /\ CarefulFromTo(<<Fg(v)>>, 16 * high + low, 16 * high + v)
           /\ <<Bg(v)>> \in Seq(Call) /\ CarefulFromTo(<<Bg(v)>>, 16 * high + low, 16 * v + low)
<1> DEFINE c == 16 * high + low
<1>1. c \in 0..255 /\ c \div 16 = high /\ c % 16 = low /\ v % 16 = v
  BY Halves
<1> HIDE DEF c
<1>2. Fg(v) \in Call /\ Bg(v) \in Call
  BY DEF Fg, Bg, Call
<1>3. Careful(c, Fg(v)) /\ Careful(c, Bg(v))
  BY DEF Careful, Fg, Bg
<1>4. Recoloured(c, Fg(v)) = 16 * high + v /\ Recoloured(c, Bg(v)) = 16 * v + low
  BY <1>1 DEF Recoloured, Fg, Bg
<1> QED
  BY <1>1, <1>2, <1>3, <1>4, CarefulCall DEF c

\* One foreground of the table, and one background.
LEMMA ForegroundIsCareful ==
    ASSUME NEW low \in 0..15, NEW v \in 0..15
    PROVE  /\ <<Fg(v)>> \o output_num(v) \in Seq(Call)
           /\ CarefulFromTo(<<Fg(v)>> \o output_num(v), low, v)
<1>1. 0 \in 0..15 /\ 16 * 0 + low = low /\ 16 * 0 + v = v /\ v \in 0..255
  OBVIOUS
<1>2. <<Fg(v)>> \in Seq(Call) /\ CarefulFromTo(<<Fg(v)>>, low, v)
  BY <1>1, Repainted
<1>3. Legible(v)
  BY DEF Legible
<1>4. output_num(v) \in Seq(Call) /\ CarefulFromTo(output_num(v), v, v)
  BY <1>1, <1>3, NumberIsText, TextIsCareful DEF Text
<1> QED
  BY <1>2, <1>4, CarefulThenCareful, ConcatProperties

LEMMA BackgroundIsCareful ==
    ASSUME NEW high \in 0..15, NEW low \in 0..15, NEW v \in 0..15, v >= 8 => low = 0
    PROVE  /\ <<Bg(v)>> \o output_num(v) \in Seq(Call)
           /\ CarefulFromTo(<<Bg(v)>> \o output_num(v), 16 * high + low, 16 * v + low)
<1> DEFINE c == 16 * high + low
           d == 16 * v + low
<1>1. d \in 0..255 /\ d \div 16 = v /\ d % 16 = low
  BY Halves
<1>2. <<Bg(v)>> \in Seq(Call) /\ CarefulFromTo(<<Bg(v)>>, c, d)
  BY Repainted
<1> HIDE DEF c, d
<1>3. Legible(d)
  BY <1>1 DEF Legible
<1>4. output_num(v) \in Seq(Call) /\ CarefulFromTo(output_num(v), d, d)
  BY <1>1, <1>3, NumberIsText, TextIsCareful DEF Text
<1>5. /\ <<Bg(v)>> \o output_num(v) \in Seq(Call)
      /\ CarefulFromTo(<<Bg(v)>> \o output_num(v), c, d)
  BY <1>2, <1>4, CarefulThenCareful, ConcatProperties
<1> QED
  BY <1>5 DEF c, d

\* The foregrounds are in turn in front of black, and the light backgrounds behind it.
LEMMA ForegroundsAreCareful ==
    LET p == FlattenSeq([k \in 1..16 |-> <<Fg(k - 1)>> \o output_num(k - 1)])
    IN  p \in Seq(Call) /\ CarefulFromTo(p, 15, 15)
<1> DEFINE parts == [k \in 1..16 |-> <<Fg(k - 1)>> \o output_num(k - 1)]
           colours == [k \in 0..16 |-> IF k = 0 THEN 15 ELSE k - 1]
<1>1. \A k \in 0..16 : colours[k] = IF k = 0 THEN 15 ELSE k - 1
  OBVIOUS
<1>2. colours[0] = 15 /\ colours[16] = 15 /\ 15 \in 0..255 /\ 16 \in Nat
  BY <1>1
<1>3. ASSUME NEW k \in 1..16
      PROVE  /\ parts[k] = <<Fg(k - 1)>> \o output_num(k - 1)
             /\ colours[k] = k - 1 /\ colours[k - 1] \in 0..15 /\ k - 1 \in 0..15
  <2> HIDE DEF colours
  <2>1. k - 1 \in 0..15 /\ k \in 0..16 /\ k # 0 /\ k - 1 \in 0..16
        /\ (k - 1 # 0 => (k - 1) - 1 \in 0..15) /\ 15 \in 0..15
    OBVIOUS
  <2>2. colours[k] = k - 1 /\ colours[k - 1] = IF k - 1 = 0 THEN 15 ELSE (k - 1) - 1
    BY <1>1, <2>1
  <2>3. parts[k] = <<Fg(k - 1)>> \o output_num(k - 1)
    OBVIOUS
  <2> HIDE DEF parts
  <2> QED
    BY <2>1, <2>2, <2>3
<1> HIDE DEF colours
<1>4. ASSUME NEW k \in 1..16
      PROVE  parts[k] \in Seq(Call) /\ CarefulFromTo(parts[k], colours[k - 1], colours[k])
  <2> DEFINE v == k - 1
             low == colours[k - 1]
  <2>1. parts[k] = <<Fg(v)>> \o output_num(v) /\ colours[k] = v /\ low \in 0..15 /\ v \in 0..15
    BY <1>3
  <2> HIDE DEF v, low
  <2>2. /\ <<Fg(v)>> \o output_num(v) \in Seq(Call)
        /\ CarefulFromTo(<<Fg(v)>> \o output_num(v), low, v)
    BY <2>1, ForegroundIsCareful
  <2> QED
    BY <2>1, <2>2 DEF v, low
<1>5. parts \in [1..16 -> Seq(Call)]
  <2>1. \A k \in 1..16 : <<Fg(k - 1)>> \o output_num(k - 1) \in Seq(Call)
    BY <1>4
  <2> QED
    BY <2>1
<1>6. FlattenSeq(parts) \in Seq(Call) /\ CarefulFromTo(FlattenSeq(parts), 15, 15)
  <2> DEFINE n == 16
  <2>1. /\ n \in Nat /\ parts \in [1..n -> Seq(Call)] /\ colours[0] \in 0..255
        /\ \A k \in 1..n : CarefulFromTo(parts[k], colours[k - 1], colours[k])
    BY <1>2, <1>4, <1>5
  <2> HIDE DEF parts, n
  <2>2. FlattenSeq(parts) \in Seq(Call) /\ CarefulFromTo(FlattenSeq(parts), colours[0], colours[n])
    BY <2>1, CarefulSegments
  <2> QED
    BY <1>2, <2>2 DEF n
<1> QED
  BY <1>6

LEMMA BackgroundsAreCareful ==
    LET p == FlattenSeq([k \in 1..16 |-> (IF k > 8 THEN <<Fg(0)>> ELSE <<>>)
                                          \o <<Bg(k - 1)>> \o output_num(k - 1)])
    IN  p \in Seq(Call) /\ CarefulFromTo(p, 15, 240)
<1> DEFINE parts == [k \in 1..16 |-> (IF k > 8 THEN <<Fg(0)>> ELSE <<>>)
                                      \o <<Bg(k - 1)>> \o output_num(k - 1)]
           low(k) == IF k > 8 THEN 0 ELSE 15
           high(k) == IF k = 0 THEN 0 ELSE k - 1
           colours == [k \in 0..16 |-> 16 * high(k) + low(k)]
<1>1. \A k \in 0..16 : colours[k] = 16 * high(k) + low(k)
  OBVIOUS
<1>2. colours[0] = 15 /\ colours[16] = 240 /\ 15 \in 0..255 /\ 16 \in Nat
  BY <1>1
<1> HIDE DEF colours
<1>3. ASSUME NEW k \in 1..16
      PROVE  parts[k] \in Seq(Call) /\ CarefulFromTo(parts[k], colours[k - 1], colours[k])
  <2> DEFINE v == k - 1
             part == <<Bg(v)>> \o output_num(v)
             before == IF k > 8 THEN <<Fg(0)>> ELSE <<>>
             c == 16 * high(v) + low(v)
             d == 16 * high(v) + low(k)
             e == 16 * v + low(k)
  <2>1. v \in 0..15 /\ high(v) \in 0..15 /\ low(v) \in 0..15 /\ low(k) \in 0..15 /\ 0 \in 0..15
        /\ (v >= 8 => low(k) = 0) /\ (k > 8 => low(k) = 0) /\ (~(k > 8) => low(k) = low(v))
    OBVIOUS
  <2>2. colours[k - 1] = c /\ colours[k] = e
    <3>1. k - 1 \in 0..16 /\ k \in 0..16 /\ high(k) = v
      OBVIOUS
    <3> QED
      BY <1>1, <3>1
  <2>3. parts[k] = (before \o <<Bg(v)>>) \o output_num(v)
    OBVIOUS
  <2> HIDE DEF low, high, parts
  <2>4. part \in Seq(Call) /\ CarefulFromTo(part, d, e)
    <3> HIDE DEF v
    <3> QED
      BY <2>1, BackgroundIsCareful
  <2>5. before \in Seq(Call) /\ CarefulFromTo(before, c, d)
    <3>1. CASE k > 8
      <4>1. d = 16 * high(v) + 0 /\ before = <<Fg(0)>>
        BY <2>1, <3>1
      <4> HIDE DEF v, before
      <4> QED
        BY <2>1, <4>1, Repainted
    <3>2. CASE ~(k > 8)
      <4>1. before = <<>> /\ c = d
        BY <2>1, <3>2
      <4>2. c \in 0..255 /\ Text(<<>>)
        BY <2>1, Halves DEF Text
      <4>3. <<>> \in Seq(Call)
        OBVIOUS
      <4>4. CarefulFromTo(<<>>, c, c)
        <5> DEFINE trail == [i \in 0..0 |-> c]
        <5>1. trail \in [0..0 -> 0..255] /\ trail[0] = c
          BY <4>2
        <5> HIDE DEF trail
        <5>2. Trail(trail, <<>>) /\ Len(<<>>) = 0
          BY DEF Trail
        <5> QED
          BY <5>1, <5>2 DEF CarefulFromTo
      <4> QED
        BY <4>1, <4>3, <4>4
    <3> QED
      BY <3>1, <3>2
  <2>6. parts[k] = before \o part
    <3>1. <<Bg(v)>> \in Seq(Call) /\ output_num(v) \in Seq(Call)
      BY <2>1, Repainted, NumberIsText DEF Text
    <3> HIDE DEF before, v
    <3> QED
      BY <2>3, <2>5, <3>1, ConcatAssociative
  <2> HIDE DEF before, part, c, d, e
  <2>7. before \o part \in Seq(Call) /\ CarefulFromTo(before \o part, c, e)
    BY <2>4, <2>5, CarefulThenCareful, ConcatProperties
  <2> QED
    BY <2>2, <2>6, <2>7
<1>4. parts \in [1..16 -> Seq(Call)]
  <2> DEFINE value(k) == (IF k > 8 THEN <<Fg(0)>> ELSE <<>>) \o <<Bg(k - 1)>> \o output_num(k - 1)
  <2>1. \A k \in 1..16 : parts[k] = value(k)
    OBVIOUS
  <2>2. \A k \in 1..16 : value(k) \in Seq(Call)
    BY <1>3, <2>1
  <2>3. parts = [k \in 1..16 |-> value(k)]
    OBVIOUS
  <2> HIDE DEF value, parts
  <2> QED
    BY <2>2, <2>3
<1>5. FlattenSeq(parts) \in Seq(Call) /\ CarefulFromTo(FlattenSeq(parts), 15, 240)
  <2> HIDE DEF parts, low, high
  <2>1. colours[0] \in 0..255 /\ \A k \in 1..16 : CarefulFromTo(parts[k], colours[k - 1], colours[k])
    BY <1>2, <1>3
  <2>2. FlattenSeq(parts) \in Seq(Call) /\ CarefulFromTo(FlattenSeq(parts), colours[0], colours[16])
    <3> DEFINE n == 16
    <3>1. /\ n \in Nat /\ parts \in [1..n -> Seq(Call)]
          /\ \A k \in 1..n : CarefulFromTo(parts[k], colours[k - 1], colours[k])
      BY <1>4, <2>1
    <3> HIDE DEF n
    <3>2. FlattenSeq(parts) \in Seq(Call) /\ CarefulFromTo(FlattenSeq(parts), colours[0], colours[n])
      BY <2>1, <3>1, CarefulSegments
    <3> QED
      BY <3>2 DEF n
  <2> QED
    BY <1>2, <2>2
<1> QED
  BY <1>5

LEMMA LineEndsAreCareful ==
    /\ <<Fg(15), Put(Newline)>> \in Seq(Call)
    /\ CarefulFromTo(<<Fg(15), Put(Newline)>>, 15, 15)
    /\ CarefulFromTo(<<Fg(15), Put(Newline)>>, 0, 15)
<1>1. /\ 15 \in 0..15 /\ 0 \in 0..15 /\ 16 * 0 + 15 = 15 /\ 16 * 0 + 0 = 0 /\ 15 \in 0..255
      /\ Newline \in 0..127 /\ Legible(15)
  BY DEF Newline, Legible
<1>2. <<Fg(15)>> \in Seq(Call) /\ CarefulFromTo(<<Fg(15)>>, 15, 15) /\ CarefulFromTo(<<Fg(15)>>, 0, 15)
  <2> DEFINE white == 15
             black == 0
             dim == 16 * black + black
             bright == 16 * black + white
  <2>1. white \in 0..15 /\ black \in 0..15 /\ dim = 0 /\ bright = 15
    OBVIOUS
  <2> HIDE DEF white, black
  <2>2. <<Fg(white)>> \in Seq(Call) /\ CarefulFromTo(<<Fg(white)>>, bright, bright)
    BY <2>1, Repainted
  <2>3. CarefulFromTo(<<Fg(white)>>, dim, bright)
    BY <2>1, Repainted
  <2> HIDE DEF dim, bright
  <2> QED
    BY <2>1, <2>2, <2>3 DEF white
<1>3. <<Put(Newline)>> \in Seq(Call) /\ CarefulFromTo(<<Put(Newline)>>, 15, 15)
  <2>1. Put(Newline) \in Call /\ Put(Newline).op = "putc" /\ Put(Newline).arg < 128
    BY <1>1 DEF Put, Call
  <2>2. Text(<<Put(Newline)>>)
    BY <2>1 DEF Text
  <2> QED
    BY <1>1, <2>2, TextIsCareful DEF Text
<1>4. <<Fg(15), Put(Newline)>> = <<Fg(15)>> \o <<Put(Newline)>>
  OBVIOUS
<1> QED
  BY <1>2, <1>3, <1>4, CarefulThenCareful, ConcatProperties

\* tty_print_colormap is careful, whatever the text before the table: the default
\* colours of tty.c:131 to 139 are restored before the ends of the lines.
THEOREM ColormapIsCareful ==
    ASSUME NEW title \in Seq(0..127)
    PROVE  tty_print_colormap(title) \in Seq(Call) /\ CarefulFromTo(tty_print_colormap(title), 15, 15)
<1> DEFINE a == tty_puts(title)
           b == FlattenSeq([k \in 1..16 |-> <<Fg(k - 1)>> \o output_num(k - 1)])
           ends == <<Fg(15), Put(Newline)>>
           f == FlattenSeq([k \in 1..16 |-> (IF k > 8 THEN <<Fg(0)>> ELSE <<>>)
                                             \o <<Bg(k - 1)>> \o output_num(k - 1)])
           g == <<Bg(0), Fg(15), Put(Newline)>>
           light == 240
<1>1. tty_print_colormap(title) = (((a \o b) \o ends) \o f) \o g
  BY DEF tty_print_colormap
<1>2. a \in Seq(Call) /\ CarefulFromTo(a, 15, 15)
  <2>1. Legible(15) /\ 15 \in 0..255
    BY DEF Legible
  <2> QED
    BY <2>1, PutsIsText, TextIsCareful DEF Text
<1>3. b \in Seq(Call) /\ CarefulFromTo(b, 15, 15)
  BY ForegroundsAreCareful
<1>4. ends \in Seq(Call) /\ CarefulFromTo(ends, 15, 15) /\ CarefulFromTo(ends, 0, 15)
  BY LineEndsAreCareful
<1>5. f \in Seq(Call) /\ CarefulFromTo(f, 15, light)
  BY BackgroundsAreCareful
<1>6. g \in Seq(Call) /\ CarefulFromTo(g, light, 15)
  <2>1. 15 \in 0..15 /\ 0 \in 0..15 /\ 16 * 15 + 0 = 240 /\ 16 * 0 + 0 = 0
    OBVIOUS
  <2>2. <<Bg(0)>> \in Seq(Call) /\ CarefulFromTo(<<Bg(0)>>, light, 0)
    <3> DEFINE white == 15
               black == 0
               before == 16 * white + black
               after == 16 * black + black
    <3>1. white \in 0..15 /\ black \in 0..15 /\ before = light /\ after = 0
      OBVIOUS
    <3> HIDE DEF white, black
    <3>2. <<Bg(black)>> \in Seq(Call) /\ CarefulFromTo(<<Bg(black)>>, before, after)
      BY <3>1, Repainted
    <3> HIDE DEF before, after, light
    <3> QED
      BY <3>1, <3>2 DEF black
  <2>3. g = <<Bg(0)>> \o ends
    OBVIOUS
  <2> HIDE DEF g, ends, light
  <2> QED
    BY <1>4, <2>2, <2>3, CarefulThenCareful, ConcatProperties
<1> HIDE DEF a, b, ends, f, g, light
<1>7. a \o b \in Seq(Call) /\ CarefulFromTo(a \o b, 15, 15)
  BY <1>2, <1>3, CarefulThenCareful, ConcatProperties
<1>8. (a \o b) \o ends \in Seq(Call) /\ CarefulFromTo((a \o b) \o ends, 15, 15)
  BY <1>4, <1>7, CarefulThenCareful, ConcatProperties
<1>9. ((a \o b) \o ends) \o f \in Seq(Call) /\ CarefulFromTo(((a \o b) \o ends) \o f, 15, light)
  BY <1>5, <1>8, CarefulThenCareful, ConcatProperties
<1> QED
  BY <1>1, <1>6, <1>9, CarefulThenCareful, ConcatProperties

\* So the colour table shows no light text on a light background on any screen,
\* however often it wraps and scrolls while it is printed.
THEOREM ColormapIsDark ==
    ASSUME \A p \in Programs : \E title \in Seq(0..127) : p = tty_print_colormap(title)
    PROVE  Spec => []LightBackgroundsDarkText
<1>1. \A p \in Programs : \E d : CarefulFromTo(p, 15, d)
  BY ColormapIsCareful
<1> QED
  BY <1>1, DarkTextOnLight
=============================================================================
