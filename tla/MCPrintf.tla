------------------------------- MODULE MCPrintf -------------------------------
(***************************************************************************)
(* int, long long and the array are scaled down by four: as in the code    *)
(* the array holds the binary digits of an int, not those of a long long.  *)
(***************************************************************************)
EXTENDS Printf

MCCharacter == {NUL, " ", "%", "#", "*", "+", "-", ".", "q", "y", "X", "p"}
               \cup {LowerDigits[d] : d \in 1..16} \cup {UpperDigits[d] : d \in 1..16}
               \cup IntegerSpecs \cup {"h", "l", "j", "t", "z", "s"}

Number(f, w, p, l, s, v) == Directive(f, w, p, l, s, Num(v))
Plain(spec, arg) == Directive(<<>>, NotGiven, NotGiven, <<>>, spec, arg)

\* Flags in every order, once or twice, with widths and precisions shorter and
\* longer than the number, and longer than the array.
Orders == SeqOf({"0", "-", "+", " ", "#"}, 2)
Widths == {NotGiven, Given(2), Given(4), Given(6), Given(10), Starred(3), Starred(-3)}
Precisions == {NotGiven, Given(0), Given(1), Given(4), Starred(2), Starred(-1)}
Fields == {Number(f, w, p, <<>>, s, v) :
             f \in Orders, w \in Widths, p \in Precisions, s \in {"d", "x", "b"}, v \in {0, 5, -6}}
          \cup {Number(f, w, p, <<>>, s, v) :
             f \in SeqOf({"0", "#"}, 2), w \in Widths, p \in Precisions, s \in {"o", "X"}, v \in {0, -6}}

\* Every length and every value at the end of a range.
Lengths == {<<>>, <<"h">>, <<"h", "h">>, <<"l">>, <<"l", "l">>, <<"t">>, <<"j">>, <<"z">>}
Edges == {0, 7, -8, 31, -32, 127, -128, -1, 32767, -32768, 200}
Ranges == {Number(<<>>, NotGiven, NotGiven, l, s, v) : l \in Lengths, s \in IntegerSpecs, v \in Edges}

Texts == {Directive(f, w, p, <<>>, "s", Str(a)) :
            f \in {<<>>, <<"-">>, <<"0">>}, w \in Widths, p \in Precisions,
            a \in {<<>>, <<"y">>, <<"y", "e", "s">>}}
         \cup {Directive(f, w, NotGiven, <<>>, "c", Str(<<c>>)) :
            f \in {<<>>, <<"-">>}, w \in Widths, c \in {"y", NUL}}
Others == {Plain("p", Num(v)) : v \in {0, 10, 255}} \cup {Plain("%", Num(0)), Plain("q", Num(0))}

\* Formats of several items, of which a buffer holds all, a part or nothing.
Mixed == {<<Text("a"), Plain("d", Num(-12)), Text("b"), Plain("s", Str(<<"y", "e">>))>>,
          <<Plain("%", Num(0)), Number(<<"0">>, Given(4), NotGiven, <<"l">>, "x", 171), Plain("c", Str(<<"c">>))>>,
          <<>>}

\* Formats that end too early: after the flag, the width, the precision, the length.
Short == {CutShort(Number(f, w, p, l, "d", 1)) :
            f \in {<<>>, <<"0">>}, w \in {NotGiven, Given(12), Starred(2)},
            p \in {NotGiven, Given(3)}, l \in {<<>>, <<"l">>, <<"h">>}}

MCCalls ==
    {Call("printf", FALSE, 0, <<item>>) : item \in Fields \cup Ranges \cup Texts \cup Others \cup Short}
    \cup {Call("snprintf", n, c, items) : n \in BOOLEAN, c \in 0..11, items \in Mixed}
    \cup {Call(api, FALSE, 0, items) : api \in {"printf", "sprintf", "fctprintf"}, items \in Mixed}
=============================================================================
