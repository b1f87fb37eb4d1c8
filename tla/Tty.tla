--------------------------------- MODULE Tty ---------------------------------
(***************************************************************************)
(* The VGA text terminal, kernel/src/io/tty/tty.c.  A program is the       *)
(* sequence of calls its users make; tty_puts and the two tables are the   *)
(* calls they unfold into.  Nothing interrupts a call (the kernel never    *)
(* executes sti), so each primitive is one step.                           *)
(***************************************************************************)
EXTENDS Integers, Sequences, SequencesExt

CONSTANTS
    VGA_COLS,   \* 80
    VGA_ROWS,   \* 25
    Bytes,      \* the characters programs write
    Programs    \* the sequences of calls made on the terminal

ASSUME ScreenAssumption ==
    VGA_COLS \in Nat \ {0} /\ VGA_ROWS \in Nat \ {0} /\ Bytes \subseteq 0..255

VARIABLES
    todo,        \* the calls still to come
    vga_buffer,  \* the screen's entries, row by row
    vga_col,
    vga_row,
    tty_color,
    above        \* the rows that have left the screen at the top (a history variable)

vars == <<todo, vga_buffer, vga_col, vga_row, tty_color, above>>

\* The primitives programs are made of.
Call == [op : {"putc", "fg", "bg", "init"}, arg : 0..255]
Put(ch) == [op |-> "putc", arg |-> ch]
Fg(v) == [op |-> "fg", arg |-> v]
Bg(v) == [op |-> "bg", arg |-> v]
Clear == [op |-> "init", arg |-> 0]

ASSUME ProgramAssumption == Programs \subseteq Seq(Call)

Index == 0..(VGA_COLS * VGA_ROWS - 1)
Column == 0..(VGA_COLS - 1)
Cell == 0..65535
Newline == 10
Blank == 32
Zero == 48

\* A char at or above 0x80 is negative, and its sign covers the attribute byte
\* when it is widened for the `or'.
Attribute(color, ch) == IF ch >= 128 THEN 255 ELSE color
Entry(color, ch) == 256 * Attribute(color, ch) + ch
get_blank == Entry(tty_color, Blank)

Mem == INSTANCE MemSpec WITH Size <- VGA_COLS * VGA_ROWS, Value <- Cell, mem <- vga_buffer

-----------------------------------------------------------------------------
\* Mutant: the bottom row keeps its old text.
ScrolledUpUncleared(buf) == Mem!Moved(buf, 0, VGA_COLS, VGA_COLS * (VGA_ROWS - 1))

\* memmove, one row up, and a blank bottom row.
ScrolledUp(buf) ==
    LET moved == Mem!Moved(buf, 0, VGA_COLS, VGA_COLS * (VGA_ROWS - 1))
    IN  [k \in Index |-> IF k >= VGA_COLS * (VGA_ROWS - 1) THEN get_blank ELSE moved[k]]

RowOf(buf, r) == [k \in Column |-> buf[VGA_COLS * r + k]]

\* Mutant: the cursor stays below the last row after a scroll.
SettleLow(buf, col, row) ==
    LET wrapped == IF col >= VGA_COLS THEN row + 1 ELSE row
        left == IF col >= VGA_COLS THEN 0 ELSE col
    IN  IF wrapped >= VGA_ROWS
        THEN /\ vga_col' = 0 /\ vga_row' = wrapped
             /\ vga_buffer' = ScrolledUp(buf)
             /\ above' = Append(above, RowOf(buf, 0))
        ELSE /\ vga_col' = left /\ vga_row' = wrapped
             /\ vga_buffer' = buf
             /\ UNCHANGED above

\* The two tests at the end of tty_putc: wrap, then scroll.
Settle(buf, col, row) ==
    LET wrapped == IF col >= VGA_COLS THEN row + 1 ELSE row
        left == IF col >= VGA_COLS THEN 0 ELSE col
    IN  IF wrapped >= VGA_ROWS
        THEN /\ vga_col' = 0 /\ vga_row' = wrapped - 1
             /\ vga_buffer' = ScrolledUp(buf)
             /\ above' = Append(above, RowOf(buf, 0))
        ELSE /\ vga_col' = left /\ vga_row' = wrapped
             /\ vga_buffer' = buf
             /\ UNCHANGED above

Calls(op) == todo # <<>> /\ Head(todo).op = op /\ todo' = Tail(todo)

tty_init ==
    /\ Calls("init")
    /\ vga_col' = 0 /\ vga_row' = 0
    /\ vga_buffer' = [k \in Index |-> get_blank]
    /\ above' = <<>>
    /\ UNCHANGED tty_color

PutNewline ==
    /\ Calls("putc") /\ Head(todo).arg = Newline
    /\ Settle(vga_buffer, 0, vga_row + 1)
    /\ UNCHANGED tty_color

PutCharacter ==
    /\ Calls("putc") /\ Head(todo).arg # Newline
    /\ Settle([vga_buffer EXCEPT ![VGA_COLS * vga_row + vga_col] = Entry(tty_color, Head(todo).arg)],
              vga_col + 1, vga_row)
    /\ UNCHANGED tty_color

tty_set_fg ==
    /\ Calls("fg")
    /\ tty_color' = 16 * (tty_color \div 16) + (Head(todo).arg % 16)
    /\ UNCHANGED <<vga_buffer, vga_col, vga_row, above>>

tty_set_bg ==
    /\ Calls("bg")
    /\ tty_color' = 16 * (Head(todo).arg % 16) + (tty_color % 16)
    /\ UNCHANGED <<vga_buffer, vga_col, vga_row, above>>

Init ==
    /\ todo \in Programs
    /\ vga_buffer = [k \in Index |-> Entry(15, Blank)]
    /\ vga_col = 0 /\ vga_row = 0
    /\ tty_color = 15
    /\ above = <<>>

tty_putc == PutNewline \/ PutCharacter

Next == tty_init \/ tty_putc \/ tty_set_fg \/ tty_set_bg

Spec == Init /\ [][Next]_vars

-----------------------------------------------------------------------------
(***************************************************************************)
(* The calls that unfold into others.                                      *)
(***************************************************************************)
tty_puts(string) == [k \in 1..Len(string) |-> Put(string[k])]

output_num(k) ==
    <<Put(Blank)>>
    \o (IF k < 10 THEN <<Put(Zero), Put(Zero + k)>> ELSE <<Put(Zero + 1), Put(Zero + (k - 10))>>)
    \o <<Put(Blank)>>

\* Mutant: the text turns black one background late.
tty_print_colormap_late(title) ==
    tty_puts(title)
    \o FlattenSeq([k \in 1..16 |-> <<Fg(k - 1)>> \o output_num(k - 1)])
    \o <<Fg(15), Put(Newline)>>
    \o FlattenSeq([k \in 1..16 |-> (IF k > 9 THEN <<Fg(0)>> ELSE <<>>)
                                   \o <<Bg(k - 1)>> \o output_num(k - 1)])
    \o <<Bg(0), Fg(15), Put(Newline)>>

\* The foregrounds, then the backgrounds, the lighter half with black text.
tty_print_colormap(title) ==
    tty_puts(title)
    \o FlattenSeq([k \in 1..16 |-> <<Fg(k - 1)>> \o output_num(k - 1)])
    \o <<Fg(15), Put(Newline)>>
    \o FlattenSeq([k \in 1..16 |-> (IF k > 8 THEN <<Fg(0)>> ELSE <<>>)
                                   \o <<Bg(k - 1)>> \o output_num(k - 1)])
    \o <<Bg(0), Fg(15), Put(Newline)>>

\* Calls 2c and 2c + 1 are the separator before character c and c itself.
tty_ascii_printable_table ==
    [k \in 1..512 |-> LET ch == k \div 2 IN
        IF k % 2 = 0 THEN Put(IF ch % 32 = 0 THEN Newline ELSE Blank)
                     ELSE Put(IF ch \in {0, 32} THEN Blank ELSE ch)]

-----------------------------------------------------------------------------
(***************************************************************************)
(* Properties.                                                             *)
(***************************************************************************)
\* Type invariant: between two calls the cursor is on the screen, so the next
\* write stays inside the video memory.
TypeOK ==
    /\ vga_buffer \in [Index -> Cell]
    /\ vga_col \in Column /\ vga_row \in 0..(VGA_ROWS - 1)
    /\ tty_color \in 0..255
    /\ \A k \in 1..Len(above) : above[k] \in [Column -> Cell]

\* The terminal implements TtySpec, the screen being the last rows of the paper:
\* every call has its effect, once and in order, and no character of the program is
\* dropped, replaced, doubled or put elsewhere by wrapping and scrolling.
Shown == [r \in 1..VGA_ROWS |-> RowOf(vga_buffer, r - 1)]
Roll == INSTANCE TtySpec WITH Cols <- VGA_COLS, Rows <- VGA_ROWS, calls <- todo,
            paper <- above \o Shown, line <- Len(above) + vga_row + 1,
            column <- vga_col, colour <- tty_color
RollSpec == Roll!Spec

\* The comment at tty.c:131: text on a light background is black, in the tables
\* and in the rows that scroll in while they are printed, for programs that set
\* no light background themselves (tty_print_colormap, tty_scroll_up).
LightBackgroundsDarkText ==
    \A r \in 1..(Len(above) + VGA_ROWS) : \A k \in Column :
        LET attribute == (above \o Shown)[r][k] \div 256
        IN  attribute \div 16 >= 8 => attribute % 16 = 0

\* The comment at tty.c:27: an entry is BBBBFFFF CCCCCCCC, so what tty_putc writes
\* carries the colour that was set, whatever the character.
EntriesCarryColour ==
    [][todo # <<>> /\ Head(todo).op = "putc" /\ Head(todo).arg # Newline
         => (above \o Shown)'[Len(above) + vga_row + 1][vga_col] \div 256 = tty_color]_vars
=============================================================================
