------------------------------- MODULE TtySpec -------------------------------
(***************************************************************************)
(* What a text terminal promises: it types on an endless roll of paper,    *)
(* of which the screen shows the end.  Text goes into the current line,    *)
(* from left to right, a full line or a newline starts the next one, and   *)
(* a line that has been left is never touched again.  It does what it is   *)
(* called for, each call once and in order: every character is typed, and  *)
(* no other, in the colours asked for before it.                           *)
(***************************************************************************)
EXTENDS Integers, Sequences

CONSTANTS
    Cols,    \* characters to a line
    Rows,    \* lines the screen shows
    Bytes,   \* the characters typed
    Newline  \* the character that ends a line

VARIABLES
    calls,   \* the calls still to come
    paper,   \* the lines, each a function from columns to entries
    line,    \* the current line
    column,  \* where the next character goes
    colour   \* background and foreground for what is typed next

vars == <<calls, paper, line, column, colour>>

Colour == 0..255
Call == [op : {"putc", "fg", "bg", "init"}, arg : 0..255]

\* BBBBFFFF CCCCCCCC
Entry(col, ch) == 256 * col + ch
EmptyLine(col) == [k \in 0..(Cols - 1) |-> Entry(col, 32)]

\* Paper is fed in as it is needed, in the colour of the moment.
Reach(l, p) == IF l <= Len(p) THEN p ELSE Append(p, EmptyLine(colour))

Init ==
    /\ calls \in Seq(Call)
    /\ paper = [k \in 1..Rows |-> EmptyLine(15)]
    /\ line = 1 /\ column = 0
    /\ colour = 15

Feed ==
    /\ line' = line + 1 /\ column' = 0
    /\ paper' = Reach(line + 1, paper)
    /\ UNCHANGED colour

Type(ch) ==
    LET typed == [paper EXCEPT ![line] = [@ EXCEPT ![column] = Entry(colour, ch)]]
    IN  /\ UNCHANGED colour
        /\ \/ /\ column + 1 < Cols
              /\ column' = column + 1
              /\ paper' = typed /\ UNCHANGED line
           \/ /\ column + 1 = Cols
              /\ column' = 0 /\ line' = line + 1
              /\ paper' = Reach(line + 1, typed)

\* A colour is named by its low four bits, and leaves the other one alone.
SetForeground(c) ==
    /\ colour' \in Colour /\ colour' % 16 = c % 16 /\ colour' \div 16 = colour \div 16
    /\ UNCHANGED <<paper, line, column>>
SetBackground(c) ==
    /\ colour' \in Colour /\ colour' \div 16 = c % 16 /\ colour' % 16 = colour % 16
    /\ UNCHANGED <<paper, line, column>>

TearOff ==
    /\ paper' = [k \in 1..Rows |-> EmptyLine(colour)]
    /\ line' = 1 /\ column' = 0
    /\ UNCHANGED colour

Perform(op, arg) ==
    \/ op = "putc" /\ arg = Newline /\ Feed
    \/ op = "putc" /\ arg \in Bytes \ {Newline} /\ Type(arg)
    \/ op = "fg" /\ SetForeground(arg)
    \/ op = "bg" /\ SetBackground(arg)
    \/ op = "init" /\ TearOff

Next == calls # <<>> /\ calls' = Tail(calls) /\ Perform(Head(calls).op, Head(calls).arg)

Spec == Init /\ [][Next]_vars
=============================================================================
