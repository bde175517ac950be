-------------------------- MODULE MCTextConversion --------------------------
(* Texts and types for TLC: radix 4, a word of 4 bits, types of one word and *)
(* of more.                                                                   *)
EXTENDS IntegerText

AnyChar == 0 .. 8          \* 8: a character that belongs to no number
Upto(S, n) == UNION {[1 .. k -> S] : k \in 0 .. n}

Whole == {t \in Upto(0 .. 4, 3) : Len(SelectSeq(t, LAMBDA c : c = 4)) <= 1}

\* Around the limits 7, 8 (13, 20) and 31, 32 (133, 200), and ties behind them.
Bounds ==
  {<<1, 3>>, <<2, 0>>, <<1, 3, 3>>, <<2, 0, 0>>, <<2, 0, 1>>,
   <<1, 3, 2, 2>>, <<1, 3, 3, 2>>, <<1, 3, 3, 1, 3>>, <<2, 0, 0, 2>>, <<2, 0, 0, 0, 1>>,
   <<0, 0, 1, 2, 2, 1>>}
Pointed(s) ==
  {SubSeq(s, 1, k) \o <<4>> \o SubSeq(s, k + 1, Len(s)) : k \in 0 .. Len(s)}

Exponents ==
  {<<>>, <<7, 1>>, <<7, 6, 2>>, <<7, 5, 1>>, <<7, 5, 2>>,
   <<7, 3, 3>>, <<7, 5, 3, 3>>, <<7, 5, 3, 0>>}

MCTexts ==
  Upto(AnyChar, 2)
    \union {<<c>> \o m : c \in 4 .. 8, m \in Upto({1, 4, 5, 7}, 2)}
    \union {m \o x : m \in Whole, x \in Exponents}
    \union {<<sign>> \o m \o x :
              sign \in {5, 6}, m \in UNION {Pointed(s) : s \in Bounds},
              x \in {<<>>, <<7, 1>>, <<7, 5, 1>>}}

\* Integers at the limits of the types of 8 and 10 bits and chunks beyond,
\* with zeros before them, a character behind or in between, and a sign.
Limits == {127, 128, 129, 255, 256, 511, 512, 513, 1023, 1024, 8191, 8192}
Numbers == {Zeros(k) \o WordDigits(m) : k \in 0 .. 1, m \in Limits \union {0, 5}}
Placed(t) ==
  {SubSeq(t, 1, k) \o <<c>> \o SubSeq(t, k + 1, Len(t)) : k \in 0 .. Len(t), c \in {5, 8}}
MCIntegerTexts ==
  Upto(AnyChar, 2)
    \union {sign \o t : sign \in {<<>>, <<5>>, <<6>>, <<6, 5>>},
                       t \in Numbers \union UNION {Placed(n) : n \in Numbers}}

MCIntegerTypes == {[bits |-> 8, decimals |-> 0], [bits |-> 10, decimals |-> 0]}
MCTypes == {[bits |-> 4, decimals |-> 1], [bits |-> 6, decimals |-> 2]}

\* One digit more than the widest type has, as the code's table.
MCDigitTable == (4 :> 2) @@ (6 :> 4)
=============================================================================
