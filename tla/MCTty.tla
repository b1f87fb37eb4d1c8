-------------------------------- MODULE MCTty --------------------------------
(***************************************************************************)
(* A screen of three rows of two columns: a program of seven calls wraps   *)
(* and scrolls in every order, and a scroll moves more than one row.        *)
(***************************************************************************)
EXTENDS Tty

MCBytes == 32..127
Letter == 97

Small == {Put(Letter), Put(Newline), Fg(2), Bg(4 + 16), Clear}
MaxCalls == 7

\* Colours, digits and tables on the small screen, and a fuller program.
MCPrograms == SeqOf(Small, MaxCalls)
              \cup {tty_print_colormap(<<45, Newline>>), <<Put(Letter)>> \o tty_print_colormap(<<45>>)}

AsciiTableOnly == {tty_ascii_printable_table}
=============================================================================
