---------------------------- MODULE ChunkLemmas ----------------------------
(***************************************************************************)
(* Lemmas about sequences of chunks: taking them apart, putting them       *)
(* together, and recognizing a stream from which nothing is missing.       *)
(***************************************************************************)
EXTENDS Chunks, SequenceTheorems, TLAPS

LEMMA ConcatNat ==
  ASSUME NEW s \in Seq(Nat), NEW t \in Seq(Nat)
  PROVE  /\ s \o t \in Seq(Nat) /\ Len(s) \in Nat /\ Len(t) \in Nat
         /\ Len(s \o t) = Len(s) + Len(t)
         /\ \A i \in 1 .. Len(s) : (s \o t)[i] = s[i]
         /\ \A i \in 1 .. Len(t) : (s \o t)[Len(s) + i] = t[i]
<1>1. /\ s \o t \in Seq(Nat) /\ Len(s \o t) = Len(s) + Len(t)
      /\ Len(s) \in Nat /\ Len(t) \in Nat
      /\ \A i \in 1 .. Len(s) + Len(t) :
           (s \o t)[i] = IF i <= Len(s) THEN s[i] ELSE t[i - Len(s)]
  BY ConcatProperties
<1>2. ASSUME NEW i \in 1 .. Len(t) PROVE (s \o t)[Len(s) + i] = t[i]
  <2>1. /\ Len(s) + i \in 1 .. Len(s) + Len(t)
        /\ ~(Len(s) + i <= Len(s)) /\ (Len(s) + i) - Len(s) = i
    BY <1>1, <1>2
  <2> QED BY <1>1, <2>1
<1>3. ASSUME NEW i \in 1 .. Len(s) PROVE (s \o t)[i] = s[i]
  <2>1. i \in 1 .. Len(s) + Len(t) /\ i <= Len(s)
    BY <1>1, <1>3
  <2> QED BY <1>1, <2>1
<1> QED BY <1>1, <1>2, <1>3

LEMMA RegroupSeq ==
  ASSUME NEW s \in Seq(Nat), NEW t \in Seq(Nat), NEW u \in Seq(Nat)
  PROVE  (s \o t) \o u = s \o (t \o u)
<1> DEFINE l == (s \o t) \o u
           r == s \o (t \o u)
<1>1. /\ s \o t \in Seq(Nat) /\ t \o u \in Seq(Nat)
      /\ Len(s) \in Nat /\ Len(t) \in Nat /\ Len(u) \in Nat
      /\ Len(s \o t) = Len(s) + Len(t) /\ Len(t \o u) = Len(t) + Len(u)
  BY ConcatNat
<1>2. /\ l \in Seq(Nat) /\ Len(l) = (Len(s) + Len(t)) + Len(u)
      /\ r \in Seq(Nat) /\ Len(r) = Len(s) + (Len(t) + Len(u))
  BY <1>1, ConcatNat
<1>3. ASSUME NEW i \in 1 .. Len(l) PROVE l[i] = r[i]
  <2>1. CASE i <= Len(s)
    <3>1. i \in 1 .. Len(s) /\ i \in 1 .. Len(s \o t)
      BY <1>1, <1>2, <2>1
    <3>2. l[i] = (s \o t)[i] /\ (s \o t)[i] = s[i]
      BY <1>1, <3>1, ConcatNat
    <3>3. r[i] = s[i]
      BY <1>1, <3>1, ConcatNat
    <3> QED BY <3>2, <3>3
  <2>2. CASE Len(s) < i /\ i <= Len(s) + Len(t)
    <3> DEFINE j == i - Len(s)
    <3>1. /\ j \in 1 .. Len(t) /\ j \in 1 .. Len(t \o u) /\ i \in 1 .. Len(s \o t)
          /\ i = Len(s) + j
      BY <1>1, <1>2, <2>2
    <3> HIDE DEF j
    <3>2. l[i] = (s \o t)[i] /\ (s \o t)[Len(s) + j] = t[j]
      BY <1>1, <3>1, ConcatNat
    <3>3. r[Len(s) + j] = (t \o u)[j] /\ (t \o u)[j] = t[j]
      BY <1>1, <3>1, ConcatNat
    <3> QED BY <3>1, <3>2, <3>3
  <2>3. CASE Len(s) + Len(t) < i
    <3> DEFINE j == i - (Len(s) + Len(t))
    <3>1. /\ j \in 1 .. Len(u) /\ Len(t) + j \in 1 .. Len(t \o u)
          /\ i = Len(s \o t) + j /\ i = Len(s) + (Len(t) + j)
      BY <1>1, <1>2, <2>3
    <3> HIDE DEF j
    <3>2. l[Len(s \o t) + j] = u[j]
      BY <1>1, <3>1, ConcatNat
    <3>3. r[Len(s) + (Len(t) + j)] = (t \o u)[Len(t) + j]
      BY <1>1, <3>1, ConcatNat
    <3>4. (t \o u)[Len(t) + j] = u[j]
      BY <3>1, ConcatNat
    <3> QED BY <3>1, <3>2, <3>3, <3>4
  <2> QED BY <1>1, <1>2, <2>1, <2>2, <2>3
<1>4. Len(l) = Len(r)
  BY <1>1, <1>2
<1> HIDE DEF l, r
<1>5. l = r
  BY <1>2, <1>3, <1>4, SeqEqual
<1> QED BY <1>5 DEF l, r

LEMMA AppendNat ==
  ASSUME NEW q \in Seq(Nat), NEW e \in Nat
  PROVE  /\ Append(q, e) \in Seq(Nat) /\ Len(Append(q, e)) = Len(q) + 1
         /\ \A i \in 1 .. Len(q) : Append(q, e)[i] = q[i]
         /\ Append(q, e)[Len(q) + 1] = e
<1>2. Append(q, e) \in Seq(Nat) /\ Len(Append(q, e)) = Len(q) + 1
  BY AppendProperties
<1>3. \A i \in 1 .. Len(q) : Append(q, e)[i] = q[i]
  BY AppendProperties
<1>4. Append(q, e)[Len(q) + 1] = e
  BY AppendProperties
<1> QED BY <1>2, <1>3, <1>4

LEMMA AppendRegroup ==
  ASSUME NEW s \in Seq(Nat), NEW b \in Seq(Nat), NEW e \in Nat
  PROVE  s \o Append(b, e) = Append(s \o b, e)
<1>1. /\ Append(b, e) \in Seq(Nat) /\ Len(Append(b, e)) = Len(b) + 1
      /\ \A i \in 1 .. Len(b) : Append(b, e)[i] = b[i]
      /\ Append(b, e)[Len(b) + 1] = e
  BY AppendNat
<1>2. s \o b \in Seq(Nat) /\ Len(s) \in Nat /\ Len(b) \in Nat /\ Len(s \o b) = Len(s) + Len(b)
  BY ConcatNat
<1> DEFINE l == s \o Append(b, e)
           r == Append(s \o b, e)
<1>3. /\ r \in Seq(Nat) /\ Len(r) = Len(s) + Len(b) + 1
      /\ \A i \in 1 .. Len(s) + Len(b) : r[i] = (s \o b)[i]
      /\ r[Len(s) + Len(b) + 1] = e
  BY <1>2, AppendNat
<1>4. l \in Seq(Nat) /\ Len(l) = Len(s) + (Len(b) + 1)
  BY <1>1, ConcatNat
<1>5. ASSUME NEW i \in 1 .. Len(l) PROVE l[i] = r[i]
  <2>1. CASE i <= Len(s)
    <3>1. i \in 1 .. Len(s) /\ i \in 1 .. Len(s) + Len(b)
      BY <1>2, <1>4, <2>1
    <3>2. l[i] = s[i] /\ (s \o b)[i] = s[i]
      BY <1>1, <3>1, ConcatNat
    <3> QED BY <1>3, <3>1, <3>2
  <2>2. CASE Len(s) < i
    <3> DEFINE j == i - Len(s)
    <3>1. j \in 1 .. Len(b) + 1 /\ i = Len(s) + j
      BY <1>2, <1>4, <2>2
    <3> HIDE DEF j
    <3>2. l[Len(s) + j] = Append(b, e)[j]
      BY <1>1, <3>1, ConcatNat
    <3>3. CASE j \in 1 .. Len(b)
      <4>1. Len(s) + j \in 1 .. Len(s) + Len(b) /\ (s \o b)[Len(s) + j] = b[j]
        BY <1>2, <3>3, ConcatNat
      <4> QED BY <1>1, <1>3, <3>1, <3>2, <3>3, <4>1
    <3>4. CASE j = Len(b) + 1
      <4>1. i = Len(s) + Len(b) + 1
        BY <1>2, <3>1, <3>4
      <4> QED BY <1>1, <1>3, <3>1, <3>2, <3>4, <4>1
    <3>5. j \in 1 .. Len(b) \/ j = Len(b) + 1
      BY <1>2, <3>1
    <3> QED BY <3>3, <3>4, <3>5
  <2> QED BY <1>2, <2>1, <2>2
<1>6. Len(l) = Len(r)
  BY <1>2, <1>3, <1>4
<1> HIDE DEF l, r
<1>7. l = r
  BY <1>3, <1>4, <1>5, <1>6, SeqEqual
<1> QED BY <1>7 DEF l, r

LEMMA SplitSeq ==
  ASSUME NEW s \in Seq(Nat), NEW n \in 0 .. Len(s)
  PROVE  SubSeq(s, 1, n) \o SubSeq(s, n + 1, Len(s)) = s
<1>1. /\ Len(s) \in Nat /\ 1 \in 1 .. Len(s) + 1
      /\ n \in 1 - 1 .. Len(s) /\ Len(s) \in n .. Len(s)
  OBVIOUS
<1>2. SubSeq(s, 1, n) \o SubSeq(s, n + 1, Len(s)) = SubSeq(s, 1, Len(s))
  BY <1>1, ConcatAdjacentSubSeq
<1> QED BY <1>2, SubSeqFull

-----------------------------------------------------------------------------
LEMMA UpToIsSeq ==
  ASSUME NEW n \in Nat
  PROVE  UpTo(n) \in Seq(Nat) /\ Len(UpTo(n)) = n
BY DEF UpTo

LEMMA PrefixOfUpTo ==
  ASSUME NEW s \in Seq(Nat), NEW t \in Seq(Nat), NEW n \in Nat, s \o t = UpTo(n)
  PROVE  s = UpTo(Len(s)) /\ n = Len(s \o t)
<1>0. Len(s) \in Nat /\ Len(t) \in Nat
  OBVIOUS
<1>1. /\ Len(s \o t) = Len(s) + Len(t) /\ Len(s \o t) = n
      /\ \A i \in 1 .. Len(s) + Len(t) : (s \o t)[i] =
            IF i <= Len(s) THEN s[i] ELSE t[i - Len(s)]
  BY ConcatProperties, UpToIsSeq
<1>2. ASSUME NEW i \in 1 .. Len(s) PROVE s[i] = i
  <2>1. i \in 1 .. Len(s) + Len(t) /\ i \in 1 .. n /\ i <= Len(s)
    BY <1>0, <1>1, <1>2
  <2>2. (s \o t)[i] = s[i] /\ UpTo(n)[i] = i
    BY <1>1, <2>1 DEF UpTo
  <2> QED BY <2>2
<1>3. /\ UpTo(Len(s)) \in Seq(Nat) /\ Len(UpTo(Len(s))) = Len(s)
      /\ \A i \in 1 .. Len(s) : UpTo(Len(s))[i] = i
  BY UpToIsSeq DEF UpTo
<1>4. s = UpTo(Len(s))
  BY <1>2, <1>3, SeqEqual
<1>5. n = Len(s \o t)
  BY UpToIsSeq
<1> QED BY <1>4, <1>5

LEMMA NextOfUpTo ==
  ASSUME NEW n \in Nat
  PROVE  Append(UpTo(n), n + 1) = UpTo(n + 1)
<1>1. /\ Append(UpTo(n), n + 1) \in Seq(Nat) /\ Len(Append(UpTo(n), n + 1)) = n + 1
      /\ \A i \in 1 .. n + 1 : Append(UpTo(n), n + 1)[i] = i
  BY UpToIsSeq DEF UpTo
<1>2. /\ UpTo(n + 1) \in Seq(Nat) /\ Len(UpTo(n + 1)) = n + 1
      /\ \A i \in 1 .. n + 1 : UpTo(n + 1)[i] = i
  BY UpToIsSeq DEF UpTo
<1> QED BY <1>1, <1>2, SeqEqual

-----------------------------------------------------------------------------
\* A block of chunks is a sequence of them; those up to n are the block after 0.
LEMMA BlockIsSeq ==
  ASSUME NEW m \in Nat, NEW n \in Nat, m <= n
  PROVE  /\ Block(m, n) \in Seq(Nat) /\ Len(Block(m, n)) = n - m
         /\ \A i \in 1 .. n - m : Block(m, n)[i] = m + i
         /\ Block(0, n) = UpTo(n)
<1>1. n - m \in Nat /\ \A i \in 1 .. n - m : m + i \in Nat
  OBVIOUS
<1>2. Block(m, n) \in Seq(Nat) /\ Len(Block(m, n)) = n - m
      /\ \A i \in 1 .. n - m : Block(m, n)[i] = m + i
  BY <1>1 DEF Block
<1>3. n - 0 = n /\ \A i \in 1 .. n : 0 + i = i
  OBVIOUS
<1>4. Block(0, n) = UpTo(n)
  BY <1>3 DEF Block, UpTo
<1> QED BY <1>2, <1>4

\* Two blocks that meet make one.
LEMMA BlocksMeet ==
  ASSUME NEW k \in Nat, NEW n \in Nat, k <= n
  PROVE  UpTo(k) \o Block(k, n) = UpTo(n)
<1>1. /\ UpTo(k) \in Seq(Nat) /\ Len(UpTo(k)) = k
      /\ UpTo(n) \in Seq(Nat) /\ Len(UpTo(n)) = n
  BY UpToIsSeq
<1>2. /\ Block(k, n) \in Seq(Nat) /\ Len(Block(k, n)) = n - k
      /\ \A i \in 1 .. n - k : Block(k, n)[i] = k + i
  BY BlockIsSeq
<1> DEFINE u == UpTo(k)
           b == Block(k, n)
           l == u \o b
<1>0. u \in Seq(Nat) /\ b \in Seq(Nat) /\ Len(u) = k /\ Len(b) = n - k
  BY <1>1, <1>2
<1> HIDE DEF u, b
<1>3. l \in Seq(Nat) /\ Len(l) = n
  <2>1. l \in Seq(Nat) /\ Len(l) = Len(u) + Len(b)
    BY <1>0, ConcatNat
  <2> QED BY <1>0, <2>1
<1>4. ASSUME NEW i \in 1 .. Len(l) PROVE l[i] = UpTo(n)[i]
  <2>0. UpTo(n)[i] = i
    BY <1>3, <1>4 DEF UpTo
  <2>1. CASE i <= k
    <3>1. i \in 1 .. k
      BY <2>1, <1>3, <1>4
    <3>2. l[i] = u[i]
      BY <1>0, <3>1, ConcatNat
    <3>3. u[i] = i
      BY <3>1 DEF UpTo, u
    <3> QED BY <2>0, <3>2, <3>3
  <2>2. CASE k < i
    <3> DEFINE j == i - k
    <3>1. j \in 1 .. n - k /\ i = k + j
      BY <2>2, <1>3, <1>4
    <3> HIDE DEF j
    <3>2. l[Len(u) + j] = b[j]
      BY <1>0, <3>1, ConcatNat
    <3>3. b[j] = k + j
      BY <1>2, <3>1 DEF b
    <3> QED BY <1>0, <2>0, <3>1, <3>2, <3>3
  <2>3. i <= k \/ k < i
    BY <1>3, <1>4
  <2> QED BY <2>1, <2>2, <2>3
<1> HIDE DEF l
<1>5. l = UpTo(n)
  BY <1>1, <1>3, <1>4, SeqEqual
<1> QED BY <1>5 DEF l, u, b

\* What makes the chunks up to k those up to n is the block between.
LEMMA BlockBetween ==
  ASSUME NEW k \in Nat, NEW h \in Seq(Nat), NEW n \in Nat, UpTo(k) \o h = UpTo(n)
  PROVE  k <= n /\ n = k + Len(h) /\ h = Block(k, n)
<1>1. UpTo(k) \in Seq(Nat) /\ Len(UpTo(k)) = k /\ Len(UpTo(n)) = n /\ Len(h) \in Nat
  BY UpToIsSeq
<1>2. n = k + Len(h) /\ \A i \in 1 .. Len(h) : UpTo(n)[k + i] = h[i]
  <2> DEFINE u == UpTo(k)
             l == u \o h
  <2>1. u \in Seq(Nat) /\ Len(u) = k /\ l = UpTo(n)
    BY <1>1
  <2> HIDE DEF u
  <2>2. Len(l) = Len(u) + Len(h) /\ \A i \in 1 .. Len(h) : l[Len(u) + i] = h[i]
    BY <2>1, ConcatNat
  <2> HIDE DEF l
  <2>3. Len(l) = n
    BY <1>1, <2>1
  <2> QED BY <2>1, <2>2, <2>3
<1>3. k <= n /\ n - k = Len(h) /\ \A i \in 1 .. Len(h) : k + i \in 1 .. n
  BY <1>1, <1>2
<1>4. \A i \in 1 .. Len(h) : h[i] = k + i
  BY <1>2, <1>3 DEF UpTo
<1>5. /\ Block(k, n) \in Seq(Nat) /\ Len(Block(k, n)) = n - k
      /\ \A i \in 1 .. n - k : Block(k, n)[i] = k + i
  BY <1>3, BlockIsSeq
<1>6. h = Block(k, n)
  BY <1>3, <1>4, <1>5, SeqEqual
<1> QED BY <1>2, <1>3, <1>6

-----------------------------------------------------------------------------
(* Pieces end to end.  What the pieces are is given by their number and by *)
(* each of them, so that the lemmas serve any channel they travel in.      *)

LEMMA EndToEndNone ==
  ASSUME NEW s, Len(s) = 0, NEW m \in Nat
  PROVE  EndToEnd(s, m, m)
<1> DEFINE cut == [i \in 0 .. 0 |-> m]
<1>1. cut \in [0 .. Len(s) -> 0 .. m] /\ cut[0] = m /\ cut[Len(s)] = m
  OBVIOUS
<1>2. \A i \in 1 .. Len(s) : FALSE
  OBVIOUS
<1> QED BY <1>1, <1>2 DEF EndToEnd

LEMMA EndToEndBounds ==
  ASSUME NEW s, Len(s) \in Nat, NEW m \in Nat, NEW n \in Nat, EndToEnd(s, m, n)
  PROVE  m <= n /\ (Len(s) = 0 => m = n)
<1>1. PICK cut \in [0 .. Len(s) -> 0 .. n] : cut[0] = m /\ cut[Len(s)] = n
  BY DEF EndToEnd
<1>2. 0 \in 0 .. Len(s) /\ cut[0] \in 0 .. n
  OBVIOUS
<1> QED BY <1>1, <1>2

\* Another piece at the end.
LEMMA EndToEndMore ==
  ASSUME NEW s, NEW t, Len(s) \in Nat, Len(t) = Len(s) + 1,
         \A i \in 1 .. Len(s) : t[i] = s[i],
         NEW m \in Nat, NEW n \in Nat, NEW k \in Nat, n <= k,
         EndToEnd(s, m, n), t[Len(s) + 1] = Block(n, k)
  PROVE  EndToEnd(t, m, k)
<1>1. PICK old \in [0 .. Len(s) -> 0 .. n] :
        /\ old[0] = m /\ old[Len(s)] = n
        /\ \A i \in 1 .. Len(s) : old[i - 1] <= old[i] /\ s[i] = Block(old[i - 1], old[i])
  BY DEF EndToEnd
<1> DEFINE L == Len(s)
           cut == [i \in 0 .. L + 1 |-> IF i <= L THEN old[i] ELSE k]
<1>2. L \in Nat /\ Len(t) = L + 1 /\ m <= n
  BY EndToEndBounds
<1> HIDE DEF L
<1>3. \A i \in 0 .. L : i \in 0 .. L + 1 /\ i <= L
  BY <1>2
<1>4. L + 1 \in 0 .. L + 1 /\ ~(L + 1 <= L) /\ 0 \in 0 .. L /\ L \in 0 .. L
  BY <1>2
<1>5. cut[L + 1] = k /\ \A i \in 0 .. L : cut[i] = old[i] /\ old[i] \in 0 .. n
  BY <1>3, <1>4, <1>1 DEF L
<1>6. \A i \in 0 .. L + 1 : i \in 0 .. L \/ i = L + 1
  BY <1>2
<1>7. cut \in [0 .. L + 1 -> 0 .. k]
  <2>1. ASSUME NEW i \in 0 .. L + 1 PROVE cut[i] \in 0 .. k
    <3>1. CASE i = L + 1
      BY <1>2, <1>5, <3>1
    <3>2. CASE i \in 0 .. L
      <4>1. cut[i] \in 0 .. n
        BY <1>5, <3>2
      <4> HIDE DEF cut
      <4> QED BY <4>1
    <3> QED BY <1>6, <2>1, <3>1, <3>2
  <2> QED BY <2>1
<1> HIDE DEF cut
<1>8. ASSUME NEW i \in 1 .. L + 1 PROVE cut[i - 1] <= cut[i] /\ t[i] = Block(cut[i - 1], cut[i])
  <2>1. CASE i = L + 1
    <3>1. i - 1 = L /\ cut[i - 1] = n /\ cut[i] = k
      BY <1>1, <1>2, <1>4, <1>5, <2>1 DEF L
    <3> QED BY <2>1, <3>1 DEF L
  <2>2. CASE i # L + 1
    <3>1. i \in 1 .. L /\ i \in 0 .. L /\ i - 1 \in 0 .. L
      BY <1>2, <1>8, <2>2
    <3> QED BY <1>1, <1>5, <3>1 DEF L
  <2> QED BY <2>1, <2>2
<1>9. cut[0] = m /\ cut[Len(t)] = k
  BY <1>1, <1>2, <1>4, <1>5
<1> QED BY <1>2, <1>7, <1>8, <1>9 DEF EndToEnd

\* The first piece taken off.
LEMMA EndToEndRest ==
  ASSUME NEW s, NEW t, Len(s) \in Nat \ {0}, Len(t) = Len(s) - 1,
         \A i \in 1 .. Len(s) - 1 : t[i] = s[i + 1],
         NEW m \in Nat, NEW n \in Nat, EndToEnd(s, m, n)
  PROVE  \E k \in m .. n : s[1] = Block(m, k) /\ EndToEnd(t, k, n)
<1>1. PICK old \in [0 .. Len(s) -> 0 .. n] :
        /\ old[0] = m /\ old[Len(s)] = n
        /\ \A i \in 1 .. Len(s) : old[i - 1] <= old[i] /\ s[i] = Block(old[i - 1], old[i])
  BY DEF EndToEnd
<1> DEFINE L == Len(t)
           k == old[1]
           cut == [i \in 0 .. L |-> old[i + 1]]
<1>2. L \in Nat /\ Len(s) = L + 1
  OBVIOUS
<1> HIDE DEF L
<1>3. 1 \in 1 .. Len(s) /\ 1 - 1 = 0 /\ 1 \in 0 .. Len(s)
  BY <1>2
<1>4. k \in m .. n /\ s[1] = Block(m, k)
  <2>1. old[0] <= old[1] /\ s[1] = Block(old[0], old[1]) /\ old[1] \in 0 .. n /\ old[0] = m
    BY <1>1, <1>3
  <2> HIDE DEF L
  <2> QED BY <2>1
<1>5. \A i \in 0 .. L : i + 1 \in 0 .. Len(s) /\ cut[i] = old[i + 1]
  BY <1>2
<1>6. \A i \in 1 .. L : i + 1 \in 1 .. Len(s) /\ (i + 1) - 1 = (i - 1) + 1 /\ i - 1 \in 0 .. L
                        /\ i \in 0 .. L /\ i \in 1 .. Len(s) - 1
  BY <1>2
<1>7. ASSUME NEW i \in 1 .. L PROVE cut[i - 1] <= cut[i] /\ t[i] = Block(cut[i - 1], cut[i])
  <2>1. cut[i - 1] = old[(i + 1) - 1] /\ cut[i] = old[i + 1] /\ t[i] = s[i + 1]
    BY <1>5, <1>6, <1>7
  <2>2. old[(i + 1) - 1] <= old[i + 1] /\ s[i + 1] = Block(old[(i + 1) - 1], old[i + 1])
    BY <1>1, <1>6, <1>7
  <2> HIDE DEF cut
  <2> QED BY <2>1, <2>2
<1>8. \A i \in 0 .. L : cut[i] \in 0 .. n
  BY <1>1, <1>5
<1>9. cut \in [0 .. L -> 0 .. n]
  BY <1>8
<1>10. cut[0] = k /\ cut[L] = n
  <2>1. 0 \in 0 .. L /\ L \in 0 .. L /\ 0 + 1 = 1
    BY <1>2
  <2> QED BY <1>1, <1>2, <1>5, <2>1
<1> HIDE DEF cut, k
<1>11. EndToEnd(t, k, n)
  BY <1>7, <1>9, <1>10 DEF EndToEnd, L
<1> QED BY <1>4, <1>11

\* Two lists of pieces that meet.
LEMMA EndToEndJoin ==
  ASSUME NEW s \in Seq(Seq(Nat)), NEW t \in Seq(Seq(Nat)),
         NEW m \in Nat, NEW k \in Nat, NEW n \in Nat,
         EndToEnd(s, m, k), EndToEnd(t, k, n)
  PROVE  s \o t \in Seq(Seq(Nat)) /\ EndToEnd(s \o t, m, n)
<1> DEFINE A == Len(s)
           B == Len(t)
           u == s \o t
<1>1. /\ A \in Nat /\ B \in Nat /\ u \in Seq(Seq(Nat)) /\ Len(u) = A + B
      /\ \A i \in 1 .. A + B : u[i] = IF i <= A THEN s[i] ELSE t[i - A]
  BY ConcatProperties
<1>2. PICK one \in [0 .. Len(s) -> 0 .. k] :
        /\ one[0] = m /\ one[Len(s)] = k
        /\ \A i \in 1 .. Len(s) : one[i - 1] <= one[i] /\ s[i] = Block(one[i - 1], one[i])
  BY DEF EndToEnd
<1>3. PICK two \in [0 .. Len(t) -> 0 .. n] :
        /\ two[0] = k /\ two[Len(t)] = n
        /\ \A i \in 1 .. Len(t) : two[i - 1] <= two[i] /\ t[i] = Block(two[i - 1], two[i])
  BY DEF EndToEnd
<1>4. m <= k /\ k <= n
  BY <1>1, EndToEndBounds
<1> DEFINE cut == [i \in 0 .. A + B |-> IF i <= A THEN one[i] ELSE two[i - A]]
<1> HIDE DEF A, B, u
<1>5. \A i \in 0 .. A : i \in 0 .. A + B /\ i <= A /\ cut[i] = one[i] /\ one[i] \in 0 .. k
  <2>1. \A i \in 0 .. A : i \in 0 .. A + B /\ i <= A
    BY <1>1
  <2>2. \A i \in 0 .. A : one[i] \in 0 .. k
    BY <1>2 DEF A
  <2> QED BY <2>1, <2>2
<1>6. \A j \in 0 .. B : A + j \in 0 .. A + B /\ cut[A + j] = two[j] /\ two[j] \in 0 .. n
  <2>1. ASSUME NEW j \in 0 .. B PROVE A + j \in 0 .. A + B /\ (A + j) - A = j
    BY <1>1, <2>1
  <2>2. \A j \in 0 .. B : two[j] \in 0 .. n
    BY <1>3 DEF B
  <2>3. ASSUME NEW j \in 0 .. B, j # 0 PROVE ~(A + j <= A)
    BY <1>1, <2>3
  <2>4. A + 0 = A /\ A \in 0 .. A
    BY <1>1
  <2>5. cut[A + 0] = two[0]
    <3>1. cut[A] = one[A] /\ one[A] = k
      BY <1>2, <1>5, <2>4 DEF A
    <3> HIDE DEF cut
    <3> QED BY <1>3, <2>4, <3>1
  <2>6. ASSUME NEW j \in 0 .. B, j # 0 PROVE cut[A + j] = two[j]
    BY <2>1, <2>3, <2>6
  <2> HIDE DEF cut
  <2> QED BY <2>1, <2>2, <2>5, <2>6
<1>7. \A i \in 0 .. A + B : i \in 0 .. A \/ \E j \in 0 .. B : i = A + j
  <2> SUFFICES ASSUME NEW i \in 0 .. A + B, i \notin 0 .. A PROVE \E j \in 0 .. B : i = A + j
    OBVIOUS
  <2>1. i - A \in 0 .. B /\ i = A + (i - A)
    BY <1>1
  <2> QED BY <2>1
<1>8. cut \in [0 .. A + B -> 0 .. n]
  <2>1. ASSUME NEW i \in 0 .. A + B PROVE cut[i] \in 0 .. n
    <3> HIDE DEF cut
    <3>1. CASE i \in 0 .. A
      <4>1. cut[i] \in 0 .. k
        BY <1>5, <3>1
      <4> QED BY <1>4, <4>1
    <3>2. CASE \E j \in 0 .. B : i = A + j
      BY <1>6, <3>2
    <3> QED BY <1>7, <3>1, <3>2
  <2> QED BY <2>1
<1> HIDE DEF cut
<1>9. ASSUME NEW i \in 1 .. A + B PROVE cut[i - 1] <= cut[i] /\ u[i] = Block(cut[i - 1], cut[i])
  <2>1. CASE i <= A
    <3>1. i \in 1 .. A /\ i \in 0 .. A /\ i - 1 \in 0 .. A
      BY <1>1, <1>9, <2>1
    <3>2. u[i] = s[i] /\ cut[i] = one[i] /\ cut[i - 1] = one[i - 1]
      BY <1>1, <1>5, <1>9, <2>1, <3>1
    <3> QED BY <1>2, <3>1, <3>2 DEF A
  <2>2. CASE A < i
    <3> DEFINE j == i - A
    <3>1. j \in 1 .. B /\ j \in 0 .. B /\ j - 1 \in 0 .. B /\ i = A + j /\ i - 1 = A + (j - 1)
          /\ ~(i <= A)
      BY <1>1, <1>9, <2>2
    <3>2. u[i] = t[j]
      BY <1>1, <1>9, <3>1
    <3> HIDE DEF j
    <3>3. cut[A + j] = two[j] /\ cut[A + (j - 1)] = two[j - 1]
      BY <1>6, <3>1
    <3>4. two[j - 1] <= two[j] /\ t[j] = Block(two[j - 1], two[j])
      BY <1>3, <3>1 DEF B
    <3> QED BY <3>1, <3>2, <3>3, <3>4
  <2>3. i <= A \/ A < i
    BY <1>1, <1>9
  <2> QED BY <2>1, <2>2, <2>3
<1>10. cut[0] = m /\ cut[A + B] = n
  <2>1. 0 \in 0 .. A /\ B \in 0 .. B
    BY <1>1
  <2>2. cut[0] = one[0]
    BY <1>5, <2>1
  <2>3. cut[A + B] = two[B]
    BY <1>6, <2>1
  <2> QED BY <1>2, <1>3, <2>2, <2>3 DEF B
<1>11. EndToEnd(u, m, n)
  BY <1>1, <1>8, <1>9, <1>10 DEF EndToEnd
<1> QED BY <1>1, <1>11 DEF u

\* One piece.
LEMMA EndToEndOne ==
  ASSUME NEW p \in Seq(Nat), NEW m \in Nat, NEW n \in Nat, m <= n, p = Block(m, n)
  PROVE  <<p>> \in Seq(Seq(Nat)) /\ EndToEnd(<<p>>, m, n)
<1>1. <<p>> \in Seq(Seq(Nat)) /\ Len(<<p>>) = 1 /\ <<p>>[1] = p
  OBVIOUS
<1>2. EndToEnd(<<>>, m, m) /\ Len(<<>>) = 0
  BY EndToEndNone
<1>3. Len(<<p>>) = Len(<<>>) + 1 /\ \A i \in 1 .. Len(<<>>) : <<p>>[i] = <<>>[i]
  BY <1>1, <1>2
<1>4. 0 \in Nat /\ <<p>>[0 + 1] = Block(m, n)
  BY <1>1
<1> DEFINE s == <<>>
           t == <<p>>
<1>5. /\ EndToEnd(s, m, m) /\ Len(s) = 0 /\ Len(s) \in Nat
      /\ Len(t) = Len(s) + 1 /\ t[Len(s) + 1] = Block(m, n)
      /\ \A i \in 1 .. Len(s) : t[i] = s[i]
  BY <1>1, <1>2, <1>3, <1>4
<1> HIDE DEF s, t
<1>6. EndToEnd(t, m, n)
  BY <1>5, EndToEndMore
<1> QED BY <1>1, <1>6 DEF t

=============================================================================
