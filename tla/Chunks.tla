------------------------------- MODULE Chunks -------------------------------
(***************************************************************************)
(* The contents of a byte stream: its chunks are numbered from 1 in the    *)
(* order in which they were put in.                                        *)
(***************************************************************************)
EXTENDS Integers, Sequences

UpTo(n) == [i \in 1 .. n |-> i]

\* The chunks after m, up to n.
Block(m, n) == [i \in 1 .. n - m |-> m + i]

\* The pieces, end to end, are the chunks after m up to n: none is missing, none
\* comes twice or too early.  cut[i] is the last chunk of the first i pieces.
EndToEnd(pieces, m, n) ==
  \E cut \in [0 .. Len(pieces) -> 0 .. n] :
    /\ cut[0] = m /\ cut[Len(pieces)] = n
    /\ \A i \in 1 .. Len(pieces) :
         cut[i - 1] <= cut[i] /\ pieces[i] = Block(cut[i - 1], cut[i])

=============================================================================
