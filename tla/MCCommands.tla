----------------------------- MODULE MCCommands -----------------------------
(* One-character operations and buffers of seven bytes: arguments that fit, *)
(* fill and exceed each buffer.  All strings of up to three characters, and *)
(* longer ones with every mix of blanks and tabs around their words.        *)
EXTENDS Commands

MCWords == [FETCH |-> <<"F">>, CACHE |-> <<"C">>, UPDATE |-> <<"U">>]

MCChars == {"F", "C", "U", "x", Space, Tab}

x(n) == [i \in 1 .. n |-> "x"]
MCCaches ==
  <<"x">> :> <<x(5), x(2), <<"x">>, <<Space>>, <<Space, "x", Tab>>>> @@
  <<"x", "x">> :> <<x(1), x(4), x(1)>> @@
  <<"U">> :> <<<<"x">>, <<"C">>>>

Short == UNION {[1 .. n -> MCChars \ {"F"}] : n \in 0 .. 3}
Long ==
  {<<o, Space>> \o x(n) : o \in {"F", "C", "U"}, n \in 2 .. 4} \union
  {<<a, "C", b, "x", c, "x">> : a, b, c \in {Space, Tab}} \union
  {<<Space, a, "C", Space, b, "x">> : a, b \in {Space, Tab}} \union
  {x(4) \o <<Space, "x">>, <<"F", Space, "x">>, <<"C", "C", Space, "x">>}
MCLines == Short \union Long

\* Nothing but junk, and junk with a NUL in it.
MCJunk == {[i \in 0 .. BufferSize - 1 |-> IF i = n THEN Nul ELSE "x"] :
             n \in {2, BufferSize}}

\* In the proportions of the code: a key that is too long is also too long for
\* the message about it.
MCText == [url |-> {1, 2}, key |-> {2, 3},
           refused |-> 3, undefined |-> 2, unknown |-> 3]
=============================================================================
