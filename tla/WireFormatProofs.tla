-------------------------- MODULE WireFormatProofs --------------------------
(***************************************************************************)
(* Proofs about WireFormat: the encoding of lengths, for every length the  *)
(* five byte form can hold; and that the reader cuts the stream where the  *)
(* writer did, for any words, however they are buffered and delivered and  *)
(* wherever the connection breaks.                                         *)
(***************************************************************************)
EXTENDS WireFormat, SequenceTheorems, FiniteSetTheorems, WellFoundedInduction, TLAPS

\* Lengths above this do not fit into five bytes.
Limit == 4294967296

\* What a length of 32 bits is made of: four bytes.
LEMMA Digits ==
    ASSUME NEW l \in Nat, l < Limit
    PROVE  /\ l = Shr8(l) * 256 + Low(l)
           /\ Shr8(l) = Shr16(l) * 256 + Low(Shr8(l))
           /\ Shr16(l) = Shr24(l) * 256 + Low(Shr16(l))
           /\ Shr24(l) = Low(Shr24(l))
           /\ Low(l) \in Byte /\ Low(Shr8(l)) \in Byte /\ Low(Shr16(l)) \in Byte
           /\ Low(Shr24(l)) \in Byte
           /\ l < 128 => l = Low(l) /\ l \in 0..127
           /\ l < 16384 => Shr8(l) \in 0..63
           /\ l < 2097152 => Shr16(l) \in 0..31
           /\ l < 268435456 => Shr24(l) \in 0..15
BY SMT DEF Low, Byte, Shr8, Shr16, Shr24, Limit

\* Which form encodeLength chooses.
LEMMA Forms ==
    ASSUME NEW l \in Nat
    PROVE  /\ l < 128 => EncodeLength(l) = <<Low(l)>>
           /\ l >= 128 /\ l < 16384 => EncodeLength(l) = <<Shr8(l) + 128, Low(l)>>
           /\ l >= 16384 /\ l < 2097152 =>
                  EncodeLength(l) = <<Shr16(l) + 192, Low(Shr8(l)), Low(l)>>
           /\ l >= 2097152 /\ l < 268435456 =>
                  EncodeLength(l) = <<Shr24(l) + 224, Low(Shr16(l)),
                                      Low(Shr8(l)), Low(l)>>
           /\ l >= 268435456 =>
                  EncodeLength(l) = <<240, Low(Shr24(l)), Low(Shr16(l)),
                                      Low(Shr8(l)), Low(l)>>
BY SMT DEF EncodeLength

\* That readLength takes these bytes, no more, and puts the length together.
Read(bs, l) ==
    /\ bs \in Seq(Byte)
    /\ Len(bs) = 1 + Follow(bs[1])
    /\ DecodeLength(bs) = l

\* The form of one byte.
LEMMA FormOne ==
    ASSUME NEW l \in Nat, l < 128
    PROVE  Read(EncodeLength(l), l)
<1>1. l \in Byte /\ Follow(l) = 0 /\ Kept(l) = l
  BY SMT DEF Follow, Kept, Byte
<1>2. EncodeLength(l) = <<l>>
  BY Digits, Forms, SMT DEF Limit
<1>3. DecodeLength(<<l>>) = l
  BY <1>1, SMT DEF DecodeLength, Byte
<1>4. <<l>> \in Seq(Byte) /\ Len(<<l>>) = 1 /\ <<l>>[1] = l
  BY <1>1
<1> QED
  BY <1>1, <1>2, <1>3, <1>4 DEF Read

\* The form of two bytes.
LEMMA FormTwo ==
    ASSUME NEW l \in Nat, l >= 128, l < 16384
    PROVE  Read(EncodeLength(l), l)
<1>1. PICK k \in 0..63, c \in Byte :
          k = Shr8(l) /\ c = Low(l)
  BY Digits, SMT DEF Limit
<1> DEFINE bs == <<k + 128, c>>
<1>2. EncodeLength(l) = bs
  BY <1>1, Forms, SMT
<1>3. k + 128 \in Byte /\ Follow(k + 128) = 1 /\ Kept(k + 128) = k
  BY SMT DEF Follow, Kept, Byte
<1>4. DecodeLength(bs) = k * 256 + c
  BY <1>3, SMT DEF DecodeLength, Byte
<1>5. l = k * 256 + c
  BY <1>1, Digits, SMT DEF Limit
<1>6. bs \in Seq(Byte) /\ Len(bs) = 2 /\ bs[1] = k + 128
  BY <1>3
<1> QED
  BY <1>2, <1>3, <1>4, <1>5, <1>6 DEF Read

\* The form of three bytes.
LEMMA FormThree ==
    ASSUME NEW l \in Nat, l >= 16384, l < 2097152
    PROVE  Read(EncodeLength(l), l)
<1>1. PICK k \in 0..31, c \in Byte, d \in Byte :
          k = Shr16(l) /\ c = Low(Shr8(l)) /\ d = Low(l)
  BY Digits, SMT DEF Limit
<1> DEFINE bs == <<k + 192, c, d>>
<1>2. EncodeLength(l) = bs
  BY <1>1, Forms, SMT
<1>3. k + 192 \in Byte /\ Follow(k + 192) = 2 /\ Kept(k + 192) = k
  BY SMT DEF Follow, Kept, Byte
<1>4. DecodeLength(bs) = (k * 256 + c) * 256 + d
  BY <1>3, SMT DEF DecodeLength, Byte
<1>5. l = (k * 256 + c) * 256 + d
  BY <1>1, Digits, SMT DEF Limit
<1>6. bs \in Seq(Byte) /\ Len(bs) = 3 /\ bs[1] = k + 192
  BY <1>3
<1> QED
  BY <1>2, <1>3, <1>4, <1>5, <1>6 DEF Read

\* The form of four bytes.
LEMMA FormFour ==
    ASSUME NEW l \in Nat, l >= 2097152, l < 268435456
    PROVE  Read(EncodeLength(l), l)
<1>1. PICK k \in 0..15, c \in Byte, d \in Byte, e \in Byte :
          k = Shr24(l) /\ c = Low(Shr16(l)) /\ d = Low(Shr8(l)) /\ e = Low(l)
  BY Digits, SMT DEF Limit
<1> DEFINE bs == <<k + 224, c, d, e>>
<1>2. EncodeLength(l) = bs
  BY <1>1, Forms, SMT
<1>3. k + 224 \in Byte /\ Follow(k + 224) = 3 /\ Kept(k + 224) = k
  BY SMT DEF Follow, Kept, Byte
<1>4. DecodeLength(bs) = ((k * 256 + c) * 256 + d) * 256 + e
  BY <1>3, SMT DEF DecodeLength, Byte
<1>5. l = ((k * 256 + c) * 256 + d) * 256 + e
  BY <1>1, Digits, SMT DEF Limit
<1>6. bs \in Seq(Byte) /\ Len(bs) = 4 /\ bs[1] = k + 224
  BY <1>3
<1> QED
  BY <1>2, <1>3, <1>4, <1>5, <1>6 DEF Read

\* The form of five bytes.
LEMMA FormFive ==
    ASSUME NEW l \in Nat, l >= 268435456, l < Limit
    PROVE  Read(EncodeLength(l), l)
<1>1. PICK c \in Byte, d \in Byte, e \in Byte, f \in Byte :
          c = Low(Shr24(l)) /\ d = Low(Shr16(l)) /\ e = Low(Shr8(l)) /\ f = Low(l)
  BY Digits, SMT
<1> DEFINE bs == <<240, c, d, e, f>>
<1>2. EncodeLength(l) = bs
  BY <1>1, Forms, SMT
<1>3. 240 \in Byte /\ Follow(240) = 4 /\ Kept(240) = 0
  BY SMT DEF Follow, Kept, Byte
<1>4. DecodeLength(bs) = ((c * 256 + d) * 256 + e) * 256 + f
  BY <1>3, SMT DEF DecodeLength, Byte
<1>5. l = ((c * 256 + d) * 256 + e) * 256 + f
  BY <1>1, Digits, SMT
<1>6. bs \in Seq(Byte) /\ Len(bs) = 5 /\ bs[1] = 240
  BY <1>3
<1> QED
  BY <1>2, <1>3, <1>4, <1>5, <1>6 DEF Read

\* readLength reads as many bytes as encodeLength wrote, and returns the length it wrote.
THEOREM LengthRoundTrip ==
    ASSUME NEW l \in Nat, l < Limit
    PROVE  /\ EncodeLength(l) \in Seq(Byte)
           /\ Len(EncodeLength(l)) = 1 + Follow(EncodeLength(l)[1])
           /\ DecodeLength(EncodeLength(l)) = l
<1>1. Read(EncodeLength(l), l)
  BY FormOne, FormTwo, FormThree, FormFour, FormFive, SMT
<1> QED
  BY <1>1 DEF Read

----------------------------------------------------------------------------
\* What is on its way, and what sentences are made of.
Item == Byte \cup {256 + w : w \in Numbers}
Values == {Words[w].read : w \in DOMAIN Words} \cup {""}
Texts == {Words[w].text : w \in DOMAIN Words} \cup {""}
Keys == {Words[w].key : w \in DOMAIN Words}
Sentences == [word : Texts, tag : Values, map : SUBSET (Keys \X Values)]

Typed ==
    /\ written \in Seq(Numbers) /\ Len(written) <= MaxWords
    /\ buffered \in Seq(Item) /\ net \in Seq(Item) /\ arrived \in Seq(Item)
    /\ link \in {"up", "down"} /\ werr \in BOOLEAN
    /\ pending \in {LengthOf(w) : w \in Numbers} \cup {-1}
    /\ read \in Seq(Numbers)
    /\ returned \in Seq([ok : BOOLEAN, sen : Sentences]) /\ Len(returned) <= Len(read)
    /\ sen \in Sentences /\ \A p, q \in sen.map : p[1] = q[1] => p = q

\* s is in the stream after position p.
Held(T, p, s) == \A k \in 1..Len(s) : T[p + k] = s[k]

\* The stream T since the connection began holds the first n words of W, one after the other:
\* word i ends at position c[i].
Cut(W, T, c, n) ==
    /\ n \in 0..Len(W) /\ c \in [0..n -> Nat] /\ c[0] = 0
    /\ \A i \in 0..n : c[i] <= c[n]
    /\ \A i \in 1..n : /\ c[i] = c[i - 1] + Len(Encoded(W[i]))
                      /\ Held(T, c[i - 1], Encoded(W[i]))

\* How far the reader is into the next word.
Prefix == IF pending = -1 THEN 0 ELSE Len(EncodeLength(pending))

\* r items have been read: the words read so far, and the length of the next one once it is
\* known.  What arrived follows, and while the connection is up all that was written.
Reader(T, c, n, r) ==
    /\ Len(read) <= n /\ r = c[Len(read)] + Prefix
    /\ pending # -1 => Len(read) < n /\ pending = LengthOf(written[Len(read) + 1])
    /\ r + Len(arrived) <= c[n] /\ Held(T, r, arrived)
    /\ link = "up" => /\ n = Len(written)
                      /\ c[n] = r + Len(arrived) + Len(net) + Len(buffered)
                      /\ Held(T, r + Len(arrived), net)
                      /\ Held(T, r + Len(arrived) + Len(net), buffered)
StreamInv ==
    /\ \E T, c, n, r : Cut(written, T, c, n) /\ Reader(T, c, n, r)
    /\ link = "down" => net = <<>>
    /\ werr => link = "down"
    /\ \A i \in 1..Len(read) : read[i] = written[i]

\* The lengths of words are those the encoding is for, and only the empty word has none.
LEMMA Lengths ==
    ASSUME NEW w \in Numbers
    PROVE  /\ LengthOf(w) \in Nat /\ LengthOf(w) < Limit
           /\ LengthOf(w) = 0 <=> w = 0
           /\ w # 0 => w \in DOMAIN Words
<1>1. Words \in Seq({Words[v] : v \in DOMAIN Words})
  BY WordsAssumption
<1>2. Len(Words) \in Nat /\ DOMAIN Words = 1..Len(Words)
  BY <1>1, LenProperties
<1>3. w \in 0..Len(Words)
  BY DEF Numbers
<1>4. w # 0 => w \in DOMAIN Words
  BY <1>2, <1>3, SMT
<1>5. CASE w = 0
  BY <1>5, <1>4, SMT DEF LengthOf, Limit
<1>6. CASE w # 0
  <2>1. Words[w].len \in Nat \ {0} /\ Words[w].len \div 65536 < 65536
    BY <1>4, <1>6, WordsAssumption
  <2>2. LengthOf(w) = Words[w].len
    BY <1>6 DEF LengthOf
  <2>3. LengthOf(w) < Limit
    BY <2>1, <2>2, SMT DEF Limit
  <2> QED
    BY <1>4, <1>6, <2>1, <2>2, <2>3
<1> QED
  BY <1>5, <1>6

\* The empty word has a number.
LEMMA EmptyWord == 0 \in Numbers
<1>1. Words \in Seq({Words[v] : v \in DOMAIN Words})
  BY WordsAssumption
<1>2. Len(Words) \in Nat
  BY <1>1, LenProperties
<1> QED
  BY <1>2, SMT DEF Numbers

\* A word on the wire: the bytes of its length, then its body.
LEMMA OnWire ==
    ASSUME NEW w \in Numbers, NEW e, e = EncodeLength(LengthOf(w))
    PROVE  /\ e \in Seq(Byte) /\ Encoded(w) \in Seq(Item) /\ Body(w) \in Seq(Item)
           /\ Len(e) \in Nat /\ Len(e) >= 1 /\ Len(e) = 1 + Follow(e[1])
           /\ DecodeLength(e) = LengthOf(w)
           /\ Len(Encoded(w)) = Len(e) + Len(Body(w))
           /\ \A k \in 1..Len(e) : Encoded(w)[k] = e[k]
           /\ w = 0 => Len(Encoded(w)) = Len(e)
           /\ w # 0 => Len(Encoded(w)) = Len(e) + 1 /\ Encoded(w)[Len(e) + 1] = 256 + w
<1>1. /\ e \in Seq(Byte) /\ Len(e) = 1 + Follow(e[1])
      /\ DecodeLength(e) = LengthOf(w)
  BY Lengths, LengthRoundTrip
<1>2. e \in Seq(Item)
  BY <1>1 DEF Item
<1>3. LengthOf(w) \in Nat => Len(e) >= 1
  BY SMT DEF EncodeLength
<1>4. Len(e) \in Nat /\ Len(e) >= 1
  BY <1>1, <1>3, Lengths, LenProperties
<1>5. /\ Body(w) \in Seq(Item)
      /\ w = 0 => Len(Body(w)) = 0
      /\ w # 0 => Len(Body(w)) = 1 /\ Body(w)[1] = 256 + w
  <2>1. CASE w = 0
    <3>1. Body(w) = <<>>
      BY <2>1 DEF Body
    <3> QED
      BY <2>1, <3>1, EmptySeq
  <2>2. CASE w # 0
    <3>1. Body(w) = <<256 + w>> /\ 256 + w \in Item
      BY <2>2 DEF Body, Item
    <3>2. <<256 + w>> \in Seq(Item) /\ Len(<<256 + w>>) = 1 /\ <<256 + w>>[1] = 256 + w
      BY <3>1, SMT
    <3> QED
      BY <2>2, <3>1, <3>2
  <2> QED
    BY <2>1, <2>2
<1>6. Encoded(w) = e \o Body(w)
  BY DEF Encoded
<1>7. /\ Encoded(w) \in Seq(Item) /\ Len(Encoded(w)) = Len(e) + Len(Body(w))
      /\ \A k \in 1..(Len(e) + Len(Body(w))) :
             Encoded(w)[k] = IF k <= Len(e) THEN e[k] ELSE Body(w)[k - Len(e)]
  BY <1>2, <1>5, <1>6, ConcatProperties
<1> QED
  BY <1>1, <1>4, <1>5, <1>7, SMT

\* Every word has at least one byte on the wire, the empty one too.
LEMMA EncodedSize ==
    ASSUME NEW w \in Numbers
    PROVE  Encoded(w) \in Seq(Item) /\ Len(Encoded(w)) \in Nat /\ Len(Encoded(w)) >= 1
<1>1. /\ Encoded(w) \in Seq(Item) /\ Len(EncodeLength(LengthOf(w))) \in Nat
      /\ Len(EncodeLength(LengthOf(w))) >= 1
      /\ Len(Encoded(w)) = Len(EncodeLength(LengthOf(w))) + Len(Body(w))
      /\ Body(w) \in Seq(Item)
  BY OnWire
<1>2. Len(Encoded(w)) \in Nat /\ Len(Body(w)) \in Nat
  BY <1>1, LenProperties
<1>3. Len(Encoded(w)) >= 1
  BY <1>1, <1>2, SMT
<1> QED
  BY <1>1, <1>2, <1>3

\* What is in the stream in two parts is there as a whole.
LEMMA HeldConcat ==
    ASSUME NEW T, NEW p \in Nat, NEW a \in Seq(Item), NEW b \in Seq(Item),
           Held(T, p, a), Held(T, p + Len(a), b)
    PROVE  Held(T, p, a \o b) /\ Len(a \o b) = Len(a) + Len(b) /\ a \o b \in Seq(Item)
<1>1. /\ a \o b \in Seq(Item) /\ Len(a \o b) = Len(a) + Len(b)
      /\ \A k \in 1..(Len(a) + Len(b)) : (a \o b)[k] = IF k <= Len(a) THEN a[k] ELSE b[k - Len(a)]
  BY ConcatProperties
<1>2. Len(a) \in Nat /\ Len(b) \in Nat
  BY LenProperties
<1>3. ASSUME NEW k \in 1..(Len(a) + Len(b)) PROVE T[p + k] = (a \o b)[k]
  <2>1. CASE k <= Len(a)
    <3>1. k \in 1..Len(a) /\ (a \o b)[k] = a[k]
      BY <1>1, <1>2, <2>1, SMT
    <3> QED
      BY <3>1 DEF Held
  <2>2. CASE ~(k <= Len(a))
    <3>1. k - Len(a) \in 1..Len(b) /\ p + k = (p + Len(a)) + (k - Len(a))
      BY <1>2, <2>2, SMT
    <3>2. (a \o b)[k] = b[k - Len(a)]
      BY <1>1, <2>2
    <3>3. T[(p + Len(a)) + (k - Len(a))] = b[k - Len(a)]
      BY <3>1 DEF Held
    <3> QED
      BY <3>1, <3>2, <3>3
  <2> QED
    BY <2>1, <2>2
<1> QED
  BY <1>1, <1>3 DEF Held

\* And what is there as a whole, in two parts.
LEMMA HeldSplit ==
    ASSUME NEW T, NEW p \in Nat, NEW a \in Seq(Item), NEW k \in 0..Len(a), Held(T, p, a)
    PROVE  LET f == SubSeq(a, 1, k)
               g == SubSeq(a, k + 1, Len(a))
           IN /\ f \in Seq(Item) /\ Len(f) = k /\ Held(T, p, f)
              /\ g \in Seq(Item) /\ Len(g) = Len(a) - k /\ Held(T, p + k, g)
<1> DEFINE f == SubSeq(a, 1, k)
           g == SubSeq(a, k + 1, Len(a))
<1>1. Len(a) \in Nat /\ k \in Nat /\ k <= Len(a)
  BY LenProperties, SMT
<1>2. /\ f \in Seq(Item) /\ Len(f) = k /\ \A j \in 1..k : f[j] = a[j]
  BY <1>1, SMT
<1>3. /\ g \in Seq(Item) /\ Len(g) = Len(a) - k /\ \A j \in 1..(Len(a) - k) : g[j] = a[k + j]
  BY <1>1, SMT
<1> HIDE DEF f, g
<1>4. Held(T, p, f)
  <2>1. SUFFICES ASSUME NEW j \in 1..k PROVE T[p + j] = f[j]
    BY <1>2 DEF Held
  <2>2. j \in 1..Len(a)
    BY <1>1, SMT
  <2> QED
    BY <1>2, <2>2 DEF Held
<1>5. Held(T, p + k, g)
  <2>1. SUFFICES ASSUME NEW j \in 1..(Len(a) - k) PROVE T[p + k + j] = g[j]
    BY <1>3 DEF Held
  <2>2. k + j \in 1..Len(a) /\ p + k + j = p + (k + j)
    BY <1>1, SMT
  <2> QED
    BY <1>3, <2>2 DEF Held
<1> QED
  BY <1>2, <1>3, <1>4, <1>5 DEF f, g

\* Nothing changes in the stream by what follows it.
LEMMA HeldStill ==
    ASSUME NEW T, NEW U, NEW m \in Nat, \A x \in 1..m : U[x] = T[x],
           NEW p \in Nat, NEW s \in Seq(Item), p + Len(s) <= m, Held(T, p, s)
    PROVE  Held(U, p, s)
<1>1. SUFFICES ASSUME NEW k \in 1..Len(s) PROVE U[p + k] = s[k]
  BY DEF Held
<1>2. Len(s) \in Nat
  BY LenProperties
<1>3. p + k \in 1..m
  BY <1>2, SMT
<1>4. T[p + k] = s[k]
  BY DEF Held
<1> QED
  BY <1>3, <1>4

\* A word that is written after the connection broke leaves the stream as it is.
LEMMA CutStays ==
    ASSUME NEW W \in Seq(Numbers), NEW T, NEW c, NEW n, Cut(W, T, c, n), NEW w \in Numbers
    PROVE  Cut(Append(W, w), T, c, n)
<1> DEFINE V == Append(W, w)
<1>1. V \in Seq(Numbers) /\ Len(V) = Len(W) + 1 /\ \A i \in 1..Len(W) : V[i] = W[i]
  BY AppendProperties
<1> HIDE DEF V
<1>2. Len(W) \in Nat /\ n \in 0..Len(W)
  BY LenProperties DEF Cut
<1>3. n \in 0..Len(V) /\ \A i \in 1..n : i \in 1..Len(W)
  BY <1>1, <1>2, SMT
<1>4. \A i \in 1..n : V[i] = W[i]
  BY <1>1, <1>3
<1>5. Cut(V, T, c, n)
  BY <1>3, <1>4 DEF Cut
<1> QED
  BY <1>5 DEF V

\* The stream U has w at its end where T stopped.
Grown(W, T, c, n, w) ==
    \E U, d : /\ Cut(Append(W, w), U, d, n + 1)
              /\ \A x \in 1..c[n] : U[x] = T[x]
              /\ \A i \in 0..n : d[i] = c[i]
              /\ d[n + 1] = c[n] + Len(Encoded(w))
              /\ Held(U, c[n], Encoded(w))

\* While the connection is up a word that is written is put at the end of the stream.
LEMMA CutGrows ==
    ASSUME NEW W \in Seq(Numbers), NEW T, NEW c, NEW n, Cut(W, T, c, n), n = Len(W),
           NEW w \in Numbers
    PROVE  Grown(W, T, c, n, w)
<1> DEFINE V == Append(W, w)
           e == Encoded(w)
           m == c[n]
           U == [x \in Nat |-> IF x <= m THEN T[x] ELSE e[x - m]]
           d == [i \in 0..(n + 1) |-> IF i = n + 1 THEN m + Len(e) ELSE c[i]]
<1>1. V \in Seq(Numbers) /\ Len(V) = n + 1 /\ (\A i \in 1..n : V[i] = W[i]) /\ V[n + 1] = w
  BY AppendProperties
<1>2. e \in Seq(Item)
  BY OnWire
<1>3. /\ n \in Nat /\ c \in [0..n -> Nat] /\ c[0] = 0
      /\ \A i \in 0..n : c[i] <= m
      /\ \A i \in 1..n : c[i] = c[i - 1] + Len(Encoded(W[i])) /\ Held(T, c[i - 1], Encoded(W[i]))
  BY LenProperties DEF Cut
<1>4. m \in Nat /\ Len(e) \in Nat
  <2>1. n \in 0..n
    BY <1>3, SMT
  <2> QED
    BY <1>2, <1>3, <2>1, LenProperties
<1> HIDE DEF V, e, m
<1>5. \A x \in 1..m : U[x] = T[x]
  <2>1. \A x \in 1..m : x \in Nat /\ x <= m
    BY <1>4, SMT
  <2> QED
    BY <2>1
<1>6. Held(U, m, e)
  <2>1. SUFFICES ASSUME NEW k \in 1..Len(e) PROVE U[m + k] = e[k]
    BY DEF Held
  <2>2. m + k \in Nat /\ ~(m + k <= m) /\ (m + k) - m = k
    BY <1>4, SMT
  <2> QED
    BY <2>2
<1> HIDE DEF U
<1>7. \A i \in 0..n : d[i] = c[i] /\ i \in 0..(n + 1) /\ c[i] \in Nat
  <2>1. \A i \in 0..n : i \in 0..(n + 1) /\ i # n + 1
    BY <1>3, SMT
  <2> QED
    BY <1>3, <2>1
<1>8. n + 1 \in 0..(n + 1) /\ d[n + 1] = m + Len(e) /\ d[n + 1] \in Nat
  <2>1. n + 1 \in 0..(n + 1) /\ m + Len(e) \in Nat
    BY <1>3, <1>4, SMT
  <2> QED
    BY <2>1
<1>9. d \in [0..(n + 1) -> Nat]
  <2>1. \A i \in 0..(n + 1) : i \in 0..n \/ i = n + 1
    BY <1>3, SMT
  <2>2. \A i \in 0..(n + 1) : d[i] \in Nat
    BY <1>7, <1>8, <2>1
  <2> QED
    BY <2>2
<1> HIDE DEF d
<1>10. \A i \in 0..(n + 1) : d[i] <= d[n + 1]
  <2>1. TAKE i \in 0..(n + 1)
  <2>2. CASE i = n + 1
    BY <1>8, <2>2, SMT
  <2>3. CASE i # n + 1
    <3>1. i \in 0..n
      BY <1>3, <2>3, SMT
    <3>2. d[i] = c[i] /\ c[i] <= m /\ c[i] \in Nat
      BY <3>1, <1>7, <1>3
    <3> QED
      BY <3>2, <1>8, <1>4, SMT
  <2> QED
    BY <2>2, <2>3
<1>11. ASSUME NEW i \in 1..(n + 1)
       PROVE  d[i] = d[i - 1] + Len(Encoded(V[i])) /\ Held(U, d[i - 1], Encoded(V[i]))
  <2>1. CASE i = n + 1
    <3>1. i - 1 = n /\ n \in 0..n
      BY <1>3, <2>1, SMT
    <3>2. d[i - 1] = m
      BY <1>7, <3>1 DEF m
    <3>3. Encoded(V[i]) = e
      BY <1>1, <2>1 DEF e
    <3> QED
      BY <1>6, <1>8, <2>1, <3>2, <3>3
  <2>2. CASE i # n + 1
    <3>1. i \in 1..n /\ i \in 0..n /\ i - 1 \in 0..n
      BY <1>3, <2>2, SMT
    <3>2. /\ d[i] = c[i] /\ d[i - 1] = c[i - 1] /\ V[i] = W[i]
          /\ c[i] \in Nat /\ c[i - 1] \in Nat /\ c[i] <= m
      BY <1>1, <1>3, <1>7, <3>1
    <3>3. c[i] = c[i - 1] + Len(Encoded(W[i])) /\ Held(T, c[i - 1], Encoded(W[i]))
      BY <1>3, <3>1
    <3>4. W[i] \in Numbers
      BY <3>1, ElementOfSeq
    <3>5. Encoded(W[i]) \in Seq(Item)
      BY <3>4, OnWire
    <3>6. c[i - 1] + Len(Encoded(W[i])) <= m
      BY <3>2, <3>3
    <3>7. Held(U, c[i - 1], Encoded(W[i]))
      <4> DEFINE p == c[i - 1]
                 s == Encoded(W[i])
      <4>1. p \in Nat /\ s \in Seq(Item) /\ p + Len(s) <= m /\ Held(T, p, s)
        BY <3>2, <3>3, <3>5, <3>6
      <4> HIDE DEF p, s
      <4>2. Held(U, p, s)
        BY <1>4, <1>5, <4>1, HeldStill
      <4> QED
        BY <4>2 DEF p, s
    <3> QED
      BY <3>2, <3>3, <3>7
  <2> QED
    BY <2>1, <2>2
<1>12. d[0] = 0 /\ n + 1 \in 0..Len(V)
  <2>1. 0 \in 0..n /\ n + 1 \in 0..(n + 1)
    BY <1>3, SMT
  <2> QED
    BY <1>1, <1>3, <1>7, <2>1
<1>13. Cut(V, U, d, n + 1)
  BY <1>9, <1>10, <1>11, <1>12 DEF Cut
<1>14. d[n + 1] = c[n] + Len(Encoded(w)) /\ Held(U, c[n], Encoded(w))
  BY <1>6, <1>8 DEF m, e
<1>15. \A x \in 1..c[n] : U[x] = T[x]
  BY <1>5 DEF m
<1> QED
  BY <1>7, <1>13, <1>14, <1>15 DEF V, Grown

\* The reader is where it was and sees what it saw when a word is written.
ReaderStays == UNCHANGED <<arrived, link, pending, read>>

\* Writing to a broken connection.
LEMMA WriteDown ==
    ASSUME Typed, StreamInv, NEW w \in Numbers, written' = Append(written, w),
           ReaderStays, link = "down", net' = net
    PROVE  StreamInv'
<1>1. PICK T, c, n, r : Cut(written, T, c, n) /\ Reader(T, c, n, r)
  BY DEF StreamInv
<1>2. written \in Seq(Numbers) /\ read \in Seq(Numbers)
  BY DEF Typed
<1>3. Cut(written', T, c, n)
  BY <1>1, <1>2, CutStays
<1>4. /\ Len(written) \in Nat /\ Len(read) \in Nat /\ n \in 0..Len(written) /\ Len(read) <= n
      /\ \A i \in 1..Len(written) : written'[i] = written[i]
  BY <1>1, <1>2, LenProperties, AppendProperties DEF Cut, Reader
<1>5. \A i \in 1..Len(read) : i \in 1..Len(written)
  BY <1>4, SMT
<1>6. pending # -1 => Len(read) + 1 \in 1..Len(written)
  BY <1>1, <1>4, SMT DEF Reader
<1>7. /\ arrived' = arrived /\ link' = link /\ link' # "up"
      /\ pending' = pending /\ read' = read /\ Prefix' = Prefix
  BY DEF ReaderStays, Prefix
<1>8. Reader(T, c, n, r)'
  BY <1>1, <1>4, <1>6, <1>7 DEF Reader
<1>9. \A i \in 1..Len(read') : read'[i] = written'[i]
  BY <1>4, <1>5, <1>7 DEF StreamInv
<1> QED
  BY <1>3, <1>7, <1>8, <1>9 DEF StreamInv

\* Positions in the stream: r items read, a arrived, x on their way, y buffered.
LEMMA Ends ==
    ASSUME NEW r \in Nat, NEW a \in Nat, NEW x \in Nat, NEW y \in Nat
    PROVE  /\ r + a \in Nat /\ r + a + x \in Nat /\ r + a + x + y \in Nat
           /\ r + a + x <= r + a + x + y /\ r + a <= r + a + x + y
BY SMT

\* They move on when e items are added.
LEMMA EndsMove ==
    ASSUME NEW r \in Nat, NEW a \in Nat, NEW x \in Nat, NEW y \in Nat, NEW e \in Nat,
           NEW u \in Nat, NEW v \in Nat, u + v = x + y + e
    PROVE  (r + a + x + y) + e = r + a + u + v /\ r + a <= r + a + u + v
BY SMT

\* What is on its way and buffered, and then w, is what is on its way and buffered after the step.
Follows(w) ==
    /\ Len(net') \in Nat /\ Len(buffered') \in Nat
    /\ Len(net') + Len(buffered') = Len(net) + Len(buffered) + Len(Encoded(w))
    /\ \A T : \A p \in Nat :
           /\ Held(T, p, net) /\ Held(T, p + Len(net), buffered)
           /\ Held(T, p + Len(net) + Len(buffered), Encoded(w))
           => Held(T, p, net') /\ Held(T, p + Len(net'), buffered')

\* Where the reader is: the numbers that Cut and Reader speak of.
LEMMA Where ==
    ASSUME Typed, NEW T, NEW c, NEW n, NEW r, Cut(written, T, c, n), Reader(T, c, n, r)
    PROVE  /\ n \in Nat /\ Len(read) \in 0..n /\ Len(read) \in Nat /\ r \in Nat
           /\ c[n] \in Nat /\ c[Len(read)] \in Nat /\ Prefix \in Nat
           /\ Len(arrived) \in Nat /\ Len(net) \in Nat /\ Len(buffered) \in Nat
           /\ Len(written) \in Nat /\ n <= Len(written)
<1>1. /\ Len(read) \in Nat /\ Len(arrived) \in Nat /\ Len(net) \in Nat
      /\ Len(buffered) \in Nat /\ Len(written) \in Nat
  BY LenProperties DEF Typed
<1>2. n \in 0..Len(written) /\ Len(read) <= n /\ c \in [0..n -> Nat]
  BY DEF Cut, Reader
<1>3. n \in Nat /\ Len(read) \in 0..n /\ n \in 0..n /\ n <= Len(written)
  BY <1>1, <1>2, SMT
<1>4. c[n] \in Nat /\ c[Len(read)] \in Nat
  BY <1>2, <1>3
<1>5. Prefix \in Nat
  <2>1. CASE pending = -1
    BY <2>1 DEF Prefix
  <2>2. CASE pending # -1
    <3>1. PICK v \in Numbers : pending = LengthOf(v)
      BY <2>2 DEF Typed
    <3>2. Len(EncodeLength(LengthOf(v))) \in Nat
      BY OnWire
    <3> QED
      BY <2>2, <3>1, <3>2 DEF Prefix
  <2> QED
    BY <2>1, <2>2
<1>6. r = c[Len(read)] + Prefix
  BY DEF Reader
<1>7. r \in Nat
  BY <1>4, <1>5, <1>6, SMT
<1> QED
  BY <1>1, <1>3, <1>4, <1>5, <1>7

\* Writing while the connection is up: the word follows what is on its way and buffered.
LEMMA WriteUp ==
    ASSUME Typed, StreamInv, NEW w \in Numbers, written' = Append(written, w),
           ReaderStays, link = "up", werr' = FALSE, Follows(w)
    PROVE  StreamInv'
<1>1. PICK T, c, n, r : Cut(written, T, c, n) /\ Reader(T, c, n, r)
  BY DEF StreamInv
<1>2. /\ written \in Seq(Numbers) /\ read \in Seq(Numbers)
      /\ buffered \in Seq(Item) /\ net \in Seq(Item) /\ arrived \in Seq(Item)
  BY DEF Typed
<1>3. n = Len(written) /\ Len(read) <= n
  BY <1>1 DEF Reader
<1>4a. Grown(written, T, c, n, w)
  BY <1>1, <1>2, <1>3, CutGrows
<1>4. PICK U, d : /\ Cut(Append(written, w), U, d, n + 1)
                  /\ \A x \in 1..c[n] : U[x] = T[x]
                  /\ \A i \in 0..n : d[i] = c[i]
                  /\ d[n + 1] = c[n] + Len(Encoded(w))
                  /\ Held(U, c[n], Encoded(w))
  BY <1>4a DEF Grown
<1>5. /\ n \in Nat /\ Len(read) \in Nat /\ Len(net) \in Nat /\ Len(buffered) \in Nat
      /\ Len(arrived) \in Nat /\ \A i \in 1..n : written'[i] = written[i]
  BY <1>2, <1>3, LenProperties, AppendProperties
<1>6. Len(read) \in 0..n /\ n \in 0..n
  BY <1>3, <1>5, SMT
<1>7. c[n] \in Nat /\ c[Len(read)] \in Nat /\ d[Len(read)] = c[Len(read)]
  BY <1>1, <1>4, <1>6 DEF Cut
<1>8. Prefix \in Nat /\ r \in Nat
  BY <1>1, Where
<1>9. /\ r = c[Len(read)] + Prefix
      /\ r + Len(arrived) <= c[n] /\ c[n] = r + Len(arrived) + Len(net) + Len(buffered)
  BY <1>1 DEF Reader
<1>9a. /\ pending # -1 => (Len(read) < n /\ pending = LengthOf(written[Len(read) + 1]))
       /\ Held(T, r, arrived) /\ Held(T, r + Len(arrived), net)
       /\ Held(T, r + Len(arrived) + Len(net), buffered)
  BY <1>1 DEF Reader
<1> DEFINE p == r + Len(arrived)
<1>10. /\ p \in Nat /\ p + Len(net) \in Nat
       /\ p + Len(net) <= c[n] /\ p + Len(net) + Len(buffered) = c[n]
  <2>1. Len(arrived) \in Nat /\ Len(net) \in Nat /\ Len(buffered) \in Nat
    BY <1>5
  <2>2. /\ r + Len(arrived) \in Nat /\ r + Len(arrived) + Len(net) \in Nat
        /\ r + Len(arrived) + Len(net) <= r + Len(arrived) + Len(net) + Len(buffered)
    BY <1>8, <2>1, Ends
  <2>3. c[n] = r + Len(arrived) + Len(net) + Len(buffered)
    BY <1>9
  <2> QED
    BY <2>2, <2>3, Zenon
<1>11. Held(T, p, net) /\ Held(T, p + Len(net), buffered)
  BY <1>9a
<1> HIDE DEF p
<1>12. Held(U, r, arrived)
  BY <1>2, <1>4, <1>7, <1>9, <1>8, <1>9a, HeldStill
<1>13. Held(U, p, net)
  BY <1>2, <1>4, <1>7, <1>10, <1>11, HeldStill
<1>14. Held(U, p + Len(net), buffered)
  <2>1. p + Len(net) + Len(buffered) <= c[n]
    BY <1>7, <1>10, SMT
  <2> QED
    BY <1>2, <1>4, <1>7, <1>10, <1>11, <2>1, HeldStill
<1>15. Held(U, p, net') /\ Held(U, p + Len(net'), buffered')
  BY <1>4, <1>10, <1>13, <1>14 DEF Follows
<1>16. /\ d[n + 1] = r + Len(arrived) + Len(net') + Len(buffered')
       /\ r + Len(arrived) <= d[n + 1] /\ Len(read) <= n + 1
       /\ Len(read) < n => (Len(read) < n + 1 /\ Len(read) + 1 \in 1..n)
  <2>1. Len(Encoded(w)) \in Nat
    BY OnWire, LenProperties
  <2>2. /\ Len(net') \in Nat /\ Len(buffered') \in Nat
        /\ Len(net') + Len(buffered') = Len(net) + Len(buffered) + Len(Encoded(w))
    BY DEF Follows
  <2>3. d[n + 1] = c[n] + Len(Encoded(w))
    BY <1>4
  <2>4. /\ c[n] + Len(Encoded(w)) = r + Len(arrived) + Len(net') + Len(buffered')
        /\ r + Len(arrived) <= r + Len(arrived) + Len(net') + Len(buffered')
    <3>1. Len(arrived) \in Nat /\ Len(net) \in Nat /\ Len(buffered) \in Nat
      BY <1>5
    <3>2. /\ (r + Len(arrived) + Len(net) + Len(buffered)) + Len(Encoded(w))
                 = r + Len(arrived) + Len(net') + Len(buffered')
          /\ r + Len(arrived) <= r + Len(arrived) + Len(net') + Len(buffered')
      BY <1>8, <2>1, <2>2, <3>1, EndsMove
    <3>3. c[n] = r + Len(arrived) + Len(net) + Len(buffered)
      BY <1>9
    <3> QED
      BY <3>2, <3>3, Zenon
  <2>5. /\ Len(read) <= n + 1
        /\ Len(read) < n => (Len(read) < n + 1 /\ Len(read) + 1 \in 1..n)
    BY <1>3, <1>5, SMT
  <2> QED
    BY <2>3, <2>4, <2>5
<1>17. /\ arrived' = arrived /\ link' = link /\ pending' = pending /\ read' = read
       /\ Prefix' = Prefix /\ Len(written') = n + 1 /\ Cut(written', U, d, n + 1)
  BY <1>2, <1>3, <1>4, AppendProperties DEF ReaderStays, Prefix
<1>18. Reader(U, d, n + 1, r)'
  BY <1>5, <1>7, <1>9, <1>9a, <1>12, <1>15, <1>16, <1>17 DEF Reader, p
<1>19. \A i \in 1..Len(read') : read'[i] = written'[i]
  <2>1. \A i \in 1..Len(read) : i \in 1..n
    BY <1>3, <1>5, SMT
  <2> QED
    BY <1>5, <1>17, <2>1 DEF StreamInv
<1> QED
  BY <1>17, <1>18, <1>19 DEF StreamInv

\* WriteWord keeps the stream: the word stays in the buffer, or the buffer is pushed out, up to
\* the last item or all of it.
LEMMA WriteWordStream ==
    ASSUME Typed, StreamInv, NEW w \in Numbers, WriteWord(w)
    PROVE  StreamInv'
<1> DEFINE all == buffered \o Encoded(w)
           m == Len(all)
<1>1. /\ buffered \in Seq(Item) /\ net \in Seq(Item) /\ Encoded(w) \in Seq(Item)
      /\ Len(buffered) \in Nat /\ Len(net) \in Nat /\ Len(Encoded(w)) \in Nat
      /\ Len(Encoded(w)) >= 1
  BY EncodedSize, LenProperties DEF Typed
<1>2. all \in Seq(Item) /\ m = Len(buffered) + Len(Encoded(w))
  BY <1>1, ConcatProperties
<1>3. written' = Append(written, w) /\ ReaderStays
  BY DEF WriteWord, ReaderStays
<1>4. link \in {"up", "down"} /\ (werr => link = "down")
  BY DEF Typed, StreamInv
<1>5. CASE link = "down"
  <2>1. net' = net
    BY <1>5 DEF WriteWord
  <2> QED
    BY <1>3, <1>5, <2>1, WriteDown
<1>6. CASE link = "up"
  <2>1. ~werr
    BY <1>4, <1>6
  <2>2. ASSUME NEW T, NEW p \in Nat, Held(T, p + Len(net), buffered),
               Held(T, p + Len(net) + Len(buffered), Encoded(w))
        PROVE  Held(T, p + Len(net), all)
    <3>1. p + Len(net) \in Nat
      BY <1>1, SMT
    <3> QED
      BY <1>1, <2>2, <3>1, HeldConcat
  <2>3. CASE buffered' = all /\ net' = net /\ werr' = werr
    <3>1. Len(net') + Len(buffered') = Len(net) + Len(buffered) + Len(Encoded(w))
      BY <1>1, <1>2, <2>3, SMT
    <3>2. Len(net') \in Nat /\ Len(buffered') \in Nat
      BY <1>1, <1>2, <2>3, LenProperties
    <3>3. Follows(w)
      BY <2>2, <2>3, <3>1, <3>2 DEF Follows
    <3> QED
      BY <1>3, <1>6, <2>1, <2>3, <3>3, WriteUp DEF Typed
  <2>4. ASSUME NEW k \in {m - 1, m}, buffered' = SubSeq(all, k + 1, m),
               net' = net \o SubSeq(all, 1, k), werr' = FALSE
        PROVE  StreamInv'
    <3> DEFINE f == SubSeq(all, 1, k)
               g == SubSeq(all, k + 1, m)
    <3>1. m \in Nat /\ m >= 1
      BY <1>1, <1>2, SMT
    <3>2. k \in 0..m
      BY <3>1, SMT
    <3> HIDE DEF all
    <3>3. ASSUME NEW T, NEW p \in Nat, Held(T, p, all)
          PROVE  Held(T, p, f) /\ Held(T, p + k, g)
      BY <1>2, <3>2, <3>3, HeldSplit
    <3>4. /\ f \in Seq(Item) /\ Len(f) = k
          /\ g \in Seq(Item) /\ Len(g) = m - k
      BY <1>2, <3>1, <3>2, SMT
    <3> HIDE DEF f, g, m
    <3>5. /\ net \o f \in Seq(Item) /\ Len(net \o f) = Len(net) + k
          /\ net' = net \o f /\ buffered' = g
      BY <1>1, <2>4, <3>4, ConcatProperties DEF f, g
    <3>6. Len(net') \in Nat /\ Len(buffered') \in Nat
      BY <3>4, <3>5, LenProperties
    <3>7. Len(net') + Len(buffered') = Len(net) + Len(buffered) + Len(Encoded(w))
      <4>1. \A a, b, e, x \in Nat : \A y \in Int : (a + y) + (b + e - y) = a + b + e
        BY SMT
      <4>2. Len(net') = Len(net) + k /\ Len(buffered') = Len(buffered) + Len(Encoded(w)) - k /\ k \in Int
        BY <1>2, <3>2, <3>4, <3>5
      <4> QED
        BY <1>1, <4>1, <4>2
    <3>8. ASSUME NEW T, NEW p \in Nat, Held(T, p, net), Held(T, p + Len(net), buffered),
                 Held(T, p + Len(net) + Len(buffered), Encoded(w))
          PROVE  Held(T, p, net') /\ Held(T, p + Len(net'), buffered')
      <4>1. Held(T, p + Len(net), all) /\ p + Len(net) \in Nat
        BY <1>1, <2>2, <3>8, SMT
      <4>2. Held(T, p + Len(net), f) /\ Held(T, p + Len(net) + k, g)
        BY <3>3, <4>1
      <4>3. Held(T, p, net \o f)
        BY <1>1, <3>4, <3>8, <4>2, HeldConcat
      <4>4. p + (Len(net) + k) = p + Len(net) + k
        BY <1>1, <3>1, <3>2, SMT
      <4> QED
        BY <3>5, <4>2, <4>3, <4>4
    <3>9. Follows(w)
      BY <3>6, <3>7, <3>8 DEF Follows
    <3> QED
      BY <1>3, <1>6, <2>4, <3>9, WriteUp
  <2>5. \/ buffered' = all /\ net' = net /\ werr' = werr
        \/ \E k \in {m - 1, m} : /\ buffered' = SubSeq(all, k + 1, m)
                                 /\ net' = net \o SubSeq(all, 1, k) /\ werr' = FALSE
    BY <1>6, <2>1 DEF WriteWord
  <2> QED
    BY <2>3, <2>4, <2>5
<1> QED
  BY <1>4, <1>5, <1>6

\* EndSentence keeps the stream: the flush sends all there is.
LEMMA EndSentenceStream ==
    ASSUME Typed, StreamInv, EndSentence
    PROVE  StreamInv'
<1>1. 0 \in Numbers
  BY EmptyWord
<1>2. /\ buffered \in Seq(Item) /\ net \in Seq(Item) /\ Encoded(0) \in Seq(Item)
      /\ Len(buffered) \in Nat /\ Len(net) \in Nat /\ Len(Encoded(0)) \in Nat
  BY <1>1, OnWire, LenProperties DEF Typed
<1>3. written' = Append(written, 0) /\ ReaderStays
  BY DEF EndSentence, ReaderStays
<1>4. link \in {"up", "down"} /\ (werr => link = "down") /\ werr \in BOOLEAN
  BY DEF Typed, StreamInv
<1>5. CASE link = "down"
  <2>1. net' = net
    BY <1>5 DEF EndSentence
  <2> QED
    BY <1>1, <1>3, <1>5, <2>1, WriteDown
<1>6. CASE link = "up"
  <2>1. net' = (net \o buffered) \o Encoded(0) /\ werr' = FALSE /\ buffered' = <<>>
    BY <1>4, <1>6 DEF EndSentence, Flushed
  <2> DEFINE a == net \o buffered
             b == a \o Encoded(0)
  <2>2. a \in Seq(Item) /\ Len(a) = Len(net) + Len(buffered)
    BY <1>2, ConcatProperties
  <2>3. Len(a) \in Nat
    BY <2>2, LenProperties
  <2>4. b \in Seq(Item) /\ Len(b) = Len(net) + Len(buffered) + Len(Encoded(0))
    <3> DEFINE e == Encoded(0)
    <3>1. e \in Seq(Item) /\ b = a \o e
      BY <1>2
    <3> HIDE DEF a, b, e
    <3>2. b \in Seq(Item) /\ Len(b) = Len(a) + Len(e)
      BY <2>2, <3>1, ConcatProperties
    <3> QED
      BY <2>2, <3>2 DEF e
  <2>5. Len(b) \in Nat /\ Len(<<>>) = 0
    BY <2>4, LenProperties
  <2>6. ASSUME NEW T, NEW p \in Nat, Held(T, p, net), Held(T, p + Len(net), buffered),
               Held(T, p + Len(net) + Len(buffered), Encoded(0))
        PROVE  Held(T, p, b) /\ Held(T, p + Len(b), <<>>)
    <3>1. Held(T, p, a)
      BY <1>2, <2>6, HeldConcat
    <3> HIDE DEF a
    <3>2. p + Len(net) + Len(buffered) = p + Len(a)
      BY <1>2, <2>2, SMT
    <3>3. Held(T, p, b)
      BY <1>2, <2>2, <2>6, <3>1, <3>2, HeldConcat
    <3>4. Held(T, p + Len(b), <<>>)
      BY SMT DEF Held
    <3> QED
      BY <3>3, <3>4
  <2>7. net' = b /\ buffered' = <<>>
    BY <2>1
  <2> HIDE DEF b
  <2>8. Len(net') \in Nat /\ Len(buffered') \in Nat
    BY <2>5, <2>7
  <2>9. Len(net') + Len(buffered') = Len(net) + Len(buffered) + Len(Encoded(0))
    BY <1>2, <2>4, <2>5, <2>7, SMT
  <2>10. Follows(0)
    BY <2>6, <2>7, <2>8, <2>9 DEF Follows
  <2> QED
    BY <1>1, <1>3, <1>6, <2>1, <2>10, WriteUp
<1> QED
  BY <1>4, <1>5, <1>6

\* The item that is delivered moves on in the stream.
LEMMA HeldMove ==
    ASSUME NEW T, NEW p \in Nat, NEW a \in Seq(Item), NEW b \in Seq(Item), b # <<>>,
           Held(T, p, a), Held(T, p + Len(a), b)
    PROVE  /\ Append(a, Head(b)) \in Seq(Item) /\ Len(Append(a, Head(b))) = Len(a) + 1
           /\ Tail(b) \in Seq(Item) /\ Len(Tail(b)) = Len(b) - 1 /\ Len(b) >= 1
           /\ Held(T, p, Append(a, Head(b))) /\ Held(T, p + (Len(a) + 1), Tail(b))
<1>1. Len(a) \in Nat /\ Len(b) \in Nat /\ Len(b) >= 1
  BY LenProperties, EmptySeq, SMT
<1>2. 1 \in 1..Len(b)
  BY <1>1, SMT
<1>3. Head(b) = b[1] /\ b[1] \in Item
  BY <1>2, HeadTailProperties, ElementOfSeq
<1>4. /\ Tail(b) \in Seq(Item) /\ Len(Tail(b)) = Len(b) - 1
      /\ \A i \in 1..Len(Tail(b)) : Tail(b)[i] = b[i + 1]
  BY HeadTailProperties
<1>5. /\ Append(a, Head(b)) \in Seq(Item) /\ Len(Append(a, Head(b))) = Len(a) + 1
      /\ \A i \in 1..Len(a) : Append(a, Head(b))[i] = a[i]
      /\ Append(a, Head(b))[Len(a) + 1] = Head(b)
  BY <1>3, AppendProperties
<1>6. Held(T, p, Append(a, Head(b)))
  <2>1. SUFFICES ASSUME NEW k \in 1..(Len(a) + 1) PROVE T[p + k] = Append(a, Head(b))[k]
    BY <1>5 DEF Held
  <2>2. CASE k = Len(a) + 1
    <3>1. p + k = p + Len(a) + 1
      BY <1>1, <2>2, SMT
    <3>2. T[p + Len(a) + 1] = b[1]
      BY <1>2 DEF Held
    <3> QED
      BY <1>3, <1>5, <2>2, <3>1, <3>2
  <2>3. CASE k # Len(a) + 1
    <3>1. k \in 1..Len(a)
      BY <1>1, <2>3, SMT
    <3>2. T[p + k] = a[k]
      BY <3>1 DEF Held
    <3> QED
      BY <1>5, <3>1, <3>2
  <2> QED
    BY <2>2, <2>3
<1>7. Held(T, p + (Len(a) + 1), Tail(b))
  <2>1. SUFFICES ASSUME NEW k \in 1..Len(Tail(b)) PROVE T[p + (Len(a) + 1) + k] = Tail(b)[k]
    BY DEF Held
  <2>2. k + 1 \in 1..Len(b) /\ p + (Len(a) + 1) + k = p + Len(a) + (k + 1)
    BY <1>1, <1>4, SMT
  <2>3. T[p + Len(a) + (k + 1)] = b[k + 1]
    BY <2>2 DEF Held
  <2> QED
    BY <1>4, <2>2, <2>3
<1> QED
  BY <1>1, <1>4, <1>5, <1>6, <1>7

\* Deliver keeps the stream.
LEMMA DeliverStream ==
    ASSUME Typed, StreamInv, Deliver
    PROVE  StreamInv'
<1>1. PICK T, c, n, r : Cut(written, T, c, n) /\ Reader(T, c, n, r)
  BY DEF StreamInv
<1>2. arrived \in Seq(Item) /\ net \in Seq(Item) /\ net # <<>> /\ link = "up"
  BY DEF Typed, StreamInv, Deliver
<1>3. /\ r \in Nat /\ Len(arrived) \in Nat /\ Len(net) \in Nat /\ Len(buffered) \in Nat
  BY <1>1, Where
<1>4. /\ Held(T, r, arrived) /\ Held(T, r + Len(arrived), net)
      /\ Held(T, r + Len(arrived) + Len(net), buffered)
      /\ c[n] = r + Len(arrived) + Len(net) + Len(buffered)
  BY <1>1, <1>2 DEF Reader
<1>5. /\ arrived' = Append(arrived, Head(net)) /\ net' = Tail(net) /\ buffered' = buffered
      /\ written' = written /\ link' = link /\ pending' = pending /\ read' = read
      /\ werr' = werr /\ Prefix' = Prefix
  BY DEF Deliver, writer, Prefix
<1>6. /\ Len(arrived') = Len(arrived) + 1 /\ Len(net') = Len(net) - 1 /\ Len(net) >= 1
      /\ Held(T, r, arrived') /\ Held(T, r + (Len(arrived) + 1), net')
  BY <1>2, <1>3, <1>4, <1>5, HeldMove
<1>7. /\ r + (Len(arrived) + 1) + (Len(net) - 1) = r + Len(arrived) + Len(net)
      /\ r + (Len(arrived) + 1) <= r + Len(arrived) + Len(net) + Len(buffered)
  BY <1>3, <1>6, SMT
<1>8. /\ Held(T, r + Len(arrived') + Len(net'), buffered')
      /\ c[n] = r + Len(arrived') + Len(net') + Len(buffered')
      /\ r + Len(arrived') <= c[n]
  BY <1>4, <1>5, <1>6, <1>7
<1>9. Reader(T, c, n, r)'
  BY <1>1, <1>2, <1>5, <1>6, <1>8 DEF Reader
<1>10. Cut(written', T, c, n)
  BY <1>1, <1>5
<1> QED
  BY <1>2, <1>5, <1>9, <1>10 DEF StreamInv

\* Break keeps the stream: what was on its way is lost.
LEMMA BreakStream ==
    ASSUME Typed, StreamInv, Break
    PROVE  StreamInv'
<1>1. PICK T, c, n, r : Cut(written, T, c, n) /\ Reader(T, c, n, r)
  BY DEF StreamInv
<1>2. /\ arrived' = arrived /\ written' = written /\ link' = "down" /\ pending' = pending
      /\ read' = read /\ net' = <<>> /\ Prefix' = Prefix
  BY DEF Break, writer, Prefix
<1>3. Reader(T, c, n, r)' /\ Cut(written', T, c, n)
  BY <1>1, <1>2 DEF Reader
<1> QED
  BY <1>2, <1>3 DEF StreamInv

\* The word that is next: it is in the stream where the reader is.
LEMMA NextWord ==
    ASSUME Typed, NEW T, NEW c, NEW n, NEW r, Cut(written, T, c, n), Reader(T, c, n, r),
           Len(read) < n
    PROVE  LET w == written[Len(read) + 1]
           IN /\ w \in Numbers /\ Len(read) + 1 \in 0..n
              /\ c[Len(read) + 1] = c[Len(read)] + Len(Encoded(w))
              /\ Held(T, c[Len(read)], Encoded(w))
<1>1. n \in Nat /\ Len(read) \in Nat /\ Len(written) \in Nat /\ n <= Len(written)
  BY Where
<1> DEFINE i == Len(read) + 1
<1>2. i \in 1..n /\ i \in 0..n /\ i \in 1..Len(written) /\ i - 1 = Len(read)
  BY <1>1, SMT
<1>3. written[i] \in Numbers
  BY <1>2, ElementOfSeq DEF Typed
<1>4. c[i] = c[i - 1] + Len(Encoded(written[i])) /\ Held(T, c[i - 1], Encoded(written[i]))
  BY <1>2 DEF Cut
<1> QED
  BY <1>2, <1>3, <1>4

\* readLength takes exactly the bytes of the next word's length.
LEMMA ReadLengthStream ==
    ASSUME Typed, StreamInv, ReadLength
    PROVE  StreamInv' /\ pending' \in {LengthOf(w) : w \in Numbers} /\ arrived' \in Seq(Item)
<1>1. PICK T, c, n, r : Cut(written, T, c, n) /\ Reader(T, c, n, r)
  BY DEF StreamInv
<1>2. /\ n \in Nat /\ Len(read) \in Nat /\ r \in Nat /\ c[Len(read)] \in Nat /\ c[n] \in Nat
      /\ Len(arrived) \in Nat /\ Len(net) \in Nat /\ Len(buffered) \in Nat
  BY <1>1, Where
<1>3. /\ pending = -1 /\ arrived # <<>> /\ arrived \in Seq(Item)
      /\ Len(read) <= n /\ r = c[Len(read)] + Prefix
      /\ r + Len(arrived) <= c[n] /\ Held(T, r, arrived)
  BY <1>1 DEF Typed, ReadLength, Reader
<1>4. Prefix = 0 /\ Len(arrived) >= 1 /\ 1 \in 1..Len(arrived)
  BY <1>2, <1>3, EmptySeq, SMT DEF Prefix
<1>5. r = c[Len(read)]
  BY <1>2, <1>3, <1>4, SMT
<1>6. Len(read) < n
  <2>1. Len(read) = n => r = c[n]
    BY <1>5
  <2>2. r # c[n]
    BY <1>2, <1>3, <1>4, SMT
  <2> QED
    BY <1>2, <1>3, <2>1, <2>2, SMT
<1> DEFINE w == written[Len(read) + 1]
           l == LengthOf(w)
           e == EncodeLength(l)
           m == 1 + Follow(arrived[1])
<1>7. w \in Numbers /\ Held(T, r, Encoded(w))
  BY <1>1, <1>5, <1>6, NextWord
<1> HIDE DEF w
<1>8. /\ e \in Seq(Byte) /\ Len(e) \in Nat /\ Len(e) >= 1 /\ Len(e) = 1 + Follow(e[1])
      /\ DecodeLength(e) = l /\ Len(Encoded(w)) = Len(e) + Len(Body(w))
      /\ Body(w) \in Seq(Item)
      /\ \A k \in 1..Len(e) : Encoded(w)[k] = e[k]
  BY <1>7, OnWire
<1>9. l \in Nat
  BY <1>7, Lengths
<1> HIDE DEF l, e
<1>10. \A k \in 1..Len(e) : k \in 1..Len(Encoded(w))
  <2>1. Len(Body(w)) \in Nat
    BY <1>8, LenProperties
  <2> QED
    BY <1>8, <2>1, SMT
<1>11. \A k \in 1..Len(e) : T[r + k] = e[k]
  BY <1>7, <1>8, <1>10 DEF Held
<1>12. \A k \in 1..Len(arrived) : T[r + k] = arrived[k]
  BY <1>3 DEF Held
<1>13. m = Len(e)
  <2>1. 1 \in 1..Len(e)
    BY <1>8, SMT
  <2>2. arrived[1] = e[1]
    BY <1>4, <1>11, <1>12, <2>1
  <2> QED
    BY <1>8, <2>2
<1>14. /\ Len(arrived) >= m /\ pending' = DecodeLength(SubSeq(arrived, 1, m))
       /\ arrived' = SubSeq(arrived, m + 1, Len(arrived))
       /\ written' = written /\ buffered' = buffered /\ werr' = werr
       /\ net' = net /\ link' = link /\ read' = read
  BY DEF ReadLength, writer
<1> HIDE DEF m
<1>15. m \in 0..Len(arrived)
  BY <1>2, <1>8, <1>13, <1>14, SMT
<1> DEFINE f == SubSeq(arrived, 1, m)
<1>16. /\ f \in Seq(Item) /\ Len(f) = m /\ Held(T, r, f)
       /\ arrived' \in Seq(Item) /\ Len(arrived') = Len(arrived) - m
       /\ Held(T, r + m, arrived')
  <2> DEFINE g == SubSeq(arrived, m + 1, Len(arrived))
  <2>1. Held(T, r, f) /\ Held(T, r + m, g)
    BY <1>2, <1>3, <1>15, HeldSplit
  <2>2. /\ f \in Seq(Item) /\ Len(f) = m
        /\ g \in Seq(Item) /\ Len(g) = Len(arrived) - m
    BY <1>2, <1>3, <1>15, SMT
  <2> QED
    BY <1>14, <2>1, <2>2, Zenon
<1> HIDE DEF f
<1>17. f = e
  <2>1. f \in Seq(Item) /\ e \in Seq(Item) /\ Len(f) = Len(e)
    BY <1>8, <1>13, <1>16 DEF Item
  <2>2. \A k \in 1..Len(f) : f[k] = e[k]
    BY <1>11, <2>1, <1>16 DEF Held
  <2> QED
    BY <2>1, <2>2, SeqEqual
<1>18. pending' = l
  BY <1>8, <1>14, <1>17 DEF f
<1>19. pending' # -1 /\ Prefix' = m
  <2>1. l # -1
    BY <1>9, SMT
  <2>2. Prefix' = Len(EncodeLength(l))
    BY <1>18, <2>1 DEF Prefix
  <2> QED
    BY <1>13, <1>18, <2>1, <2>2 DEF e
<1>20. /\ r + m = c[Len(read)] + Prefix' /\ (r + m) + Len(arrived') = r + Len(arrived)
  <2>1. m \in Nat
    BY <1>2, <1>15, SMT
  <2>2. (r + m) + (Len(arrived) - m) = r + Len(arrived)
    BY <1>2, <2>1, SMT
  <2> QED
    BY <1>5, <1>16, <1>19, <2>2
<1>21. link = "up" => /\ n = Len(written)
                      /\ c[n] = r + Len(arrived) + Len(net) + Len(buffered)
                      /\ Held(T, r + Len(arrived), net)
                      /\ Held(T, r + Len(arrived) + Len(net), buffered)
  BY <1>1 DEF Reader
<1>22. PICK q : q = r + m
  OBVIOUS
<1>22a. /\ q = c[Len(read)] + Prefix' /\ q + Len(arrived') = r + Len(arrived)
        /\ Held(T, q, arrived') /\ pending' = LengthOf(written[Len(read) + 1])
  BY <1>16, <1>18, <1>20, <1>22, Zenon DEF w, l
<1>22b. Reader(T, c, n, q)'
  BY <1>3, <1>6, <1>14, <1>21, <1>22a DEF Reader
<1>23. Cut(written', T, c, n)
  BY <1>1, <1>14
<1>24. pending' \in {LengthOf(v) : v \in Numbers}
  BY <1>7, <1>18 DEF l
<1> QED
  BY <1>14, <1>16, <1>22b, <1>23, <1>24 DEF StreamInv

\* readWord takes the next word, whole.  It is the word that ReadSentence is given.
LEMMA ReadWordStream ==
    ASSUME Typed, StreamInv, ReadWord
    PROVE  /\ StreamInv' /\ arrived' \in Seq(Item)
           /\ \E w \in Numbers : read' = Append(read, w) /\ Takes(w)
<1>1. PICK T, c, n, r : Cut(written, T, c, n) /\ Reader(T, c, n, r)
  BY DEF StreamInv
<1>2. /\ n \in Nat /\ Len(read) \in Nat /\ r \in Nat /\ c[Len(read)] \in Nat /\ c[n] \in Nat
      /\ Len(arrived) \in Nat /\ Len(net) \in Nat /\ Len(buffered) \in Nat
      /\ Len(written) \in Nat /\ n <= Len(written)
  BY <1>1, Where
<1> DEFINE w == written[Len(read) + 1]
           l == LengthOf(w)
           e == EncodeLength(l)
<1>3. /\ pending # -1 /\ Len(read) < n /\ pending = l /\ Len(read) <= n
      /\ r = c[Len(read)] + Prefix
      /\ r + Len(arrived) <= c[n] /\ Held(T, r, arrived) /\ arrived \in Seq(Item)
  BY <1>1 DEF Typed, ReadWord, Reader
<1>4. /\ w \in Numbers /\ Len(read) + 1 \in 0..n /\ Held(T, c[Len(read)], Encoded(w))
      /\ c[Len(read) + 1] = c[Len(read)] + Len(Encoded(w))
  BY <1>1, <1>3, NextWord
<1>5. Prefix = Len(e)
  BY <1>3 DEF Prefix
<1> HIDE DEF w
<1>6. /\ Len(e) \in Nat
      /\ w = 0 => Len(Encoded(w)) = Len(e)
      /\ w # 0 => Len(Encoded(w)) = Len(e) + 1 /\ Encoded(w)[Len(e) + 1] = 256 + w
  BY <1>4, OnWire
<1>7. (l = 0 <=> w = 0) /\ (w # 0 => w \in DOMAIN Words) /\ w \in Nat
  BY <1>4, Lengths, SMT DEF Numbers
<1> HIDE DEF l, e
<1>8. /\ written' = written /\ buffered' = buffered /\ werr' = werr /\ net' = net
      /\ link' = link /\ pending' = -1 /\ Prefix' = 0
  BY DEF ReadWord, writer, Prefix
<1>9. link = "up" => /\ n = Len(written)
                     /\ c[n] = r + Len(arrived) + Len(net) + Len(buffered)
                     /\ Held(T, r + Len(arrived), net)
                     /\ Held(T, r + Len(arrived) + Len(net), buffered)
  BY <1>1 DEF Reader
<1>10. ASSUME read' = Append(read, w), NEW q \in Nat, q = c[Len(read) + 1],
              q + Len(arrived') = r + Len(arrived), Held(T, q, arrived')
       PROVE  StreamInv'
  <2>1. /\ read \in Seq(Numbers) /\ Len(read') = Len(read) + 1
        /\ \A i \in 1..Len(read) : read'[i] = read[i]
        /\ read'[Len(read) + 1] = w
    BY <1>4, <1>10, AppendProperties DEF Typed
  <2>2. q = q + 0 /\ Len(read) + 1 <= n
    BY <1>2, <1>3, SMT
  <2>3. Reader(T, c, n, q)'
    BY <1>3, <1>8, <1>9, <1>10, <2>1, <2>2 DEF Reader
  <2>4. \A i \in 1..Len(read') : read'[i] = written'[i]
    <3>1. \A i \in 1..(Len(read) + 1) : i \in 1..Len(read) \/ i = Len(read) + 1
      BY <1>2, SMT
    <3>2. \A i \in 1..Len(read) : read[i] = written[i]
      BY DEF StreamInv
    <3> QED
      BY <1>8, <2>1, <3>1, <3>2 DEF w
  <2>5. Cut(written', T, c, n)
    BY <1>1, <1>8
  <2> QED
    BY <1>8, <2>3, <2>4, <2>5 DEF StreamInv
<1>11. CASE w = 0
  <2>1. pending = 0 /\ r = c[Len(read) + 1]
    BY <1>3, <1>4, <1>5, <1>6, <1>7, <1>11
  <2>2. read' = Append(read, w) /\ arrived' = arrived /\ Takes(w)
    <3>1. 0 # NoWord
      BY SMT DEF NoWord
    <3>2. pending = 0 => (read' = Append(read, 0) /\ arrived' = arrived /\ Takes(0))
      BY <3>1 DEF ReadWord
    <3> QED
      BY <1>11, <2>1, <3>2
  <2> QED
    BY <1>2, <1>3, <1>4, <1>10, <2>1, <2>2
<1>12. CASE w # 0
  <2>1. pending # 0 /\ arrived # <<>>
    BY <1>3, <1>7, <1>12 DEF ReadWord
  <2>2. 1 \in 1..Len(arrived) /\ Len(arrived) >= 1
    BY <1>2, <1>3, <2>1, EmptySeq, SMT
  <2>3. arrived[1] = 256 + w
    <3>1. Len(e) + 1 \in 1..Len(Encoded(w))
      BY <1>6, <1>12, SMT
    <3>2. T[c[Len(read)] + (Len(e) + 1)] = 256 + w
      BY <1>4, <1>6, <1>12, <3>1 DEF Held
    <3>3. T[r + 1] = arrived[1]
      BY <1>3, <2>2 DEF Held
    <3>4. r + 1 = c[Len(read)] + (Len(e) + 1)
      <4>1. \A a, b \in Nat : (a + b) + 1 = a + (b + 1)
        BY SMT
      <4>2. r = c[Len(read)] + Len(e)
        BY <1>3, <1>5
      <4> QED
        BY <1>2, <1>6, <4>1, <4>2, Zenon
    <3> QED
      BY <3>2, <3>3, <3>4
  <2>4. WordHere = w
    <3>1. LengthOf(w) = pending
      BY <1>3 DEF l
    <3>2. arrived[1] \in {256 + u : u \in {v \in DOMAIN Words : LengthOf(v) = pending}}
      BY <1>7, <1>12, <2>3, <3>1
    <3>3. arrived[1] - 256 = w
      BY <1>7, <2>3, SMT
    <3> QED
      BY <3>2, <3>3 DEF WordHere
  <2>5. w # NoWord
    BY <1>7, SMT DEF NoWord
  <2>6. read' = Append(read, w) /\ arrived' = Tail(arrived) /\ Takes(w)
    <3>1. pending # 0 => /\ read' = Append(read, WordHere) /\ arrived' = Tail(arrived)
                         /\ (WordHere # NoWord => Takes(WordHere))
      BY DEF ReadWord
    <3> QED
      BY <2>1, <2>4, <2>5, <3>1
  <2>7. /\ arrived' \in Seq(Item) /\ Len(arrived') = Len(arrived) - 1
        /\ \A i \in 1..Len(arrived') : arrived'[i] = arrived[i + 1]
    BY <1>3, <2>1, <2>6, HeadTailProperties
  <2>8. PICK q \in Nat : q = r + 1
    BY <1>2, SMT
  <2>9. q = c[Len(read) + 1]
    <3>1. \A a, b \in Nat : (a + b) + 1 = a + (b + 1)
      BY SMT
    <3>2. q = (c[Len(read)] + Len(e)) + 1
      BY <1>3, <1>5, <2>8, Zenon
    <3>3. c[Len(read) + 1] = c[Len(read)] + (Len(e) + 1)
      BY <1>4, <1>6, <1>12, Zenon
    <3> QED
      BY <1>2, <1>6, <3>1, <3>2, <3>3, Zenon
  <2>10. q + Len(arrived') = r + Len(arrived)
    <3>1. \A a, b \in Nat : (a + 1) + (b - 1) = a + b
      BY SMT
    <3> QED
      BY <1>2, <2>7, <2>8, <3>1
  <2>11. Held(T, q, arrived')
    <3>1. SUFFICES ASSUME NEW k \in 1..Len(arrived') PROVE T[q + k] = arrived'[k]
      BY DEF Held
    <3>2. k + 1 \in 1..Len(arrived) /\ q + k = r + (k + 1)
      BY <1>2, <2>2, <2>7, <2>8, SMT
    <3>3. T[r + (k + 1)] = arrived[k + 1]
      BY <1>3, <3>2 DEF Held
    <3> QED
      BY <2>7, <3>2, <3>3
  <2>12. StreamInv'
    BY <1>10, <2>6, <2>9, <2>10, <2>11
  <2> QED
    BY <1>4, <2>6, <2>7, <2>12
<1> QED
  BY <1>11, <1>12

----------------------------------------------------------------------------
\* A key has one value in a sentence.
OneValue(map) == \A p, q \in map : p[1] = q[1] => p = q

\* A pair replaces an earlier one of its key.
LEMMA PairReplaces ==
    ASSUME NEW map \in SUBSET (Keys \X Values), OneValue(map), NEW key \in Keys, NEW value \in Values,
           NEW new, new = {p \in map : p[1] # key} \cup {<<key, value>>}
    PROVE  new \in SUBSET (Keys \X Values) /\ OneValue(new)
<1>1. <<key, value>> \in Keys \X Values /\ <<key, value>>[1] = key
  BY SMT
<1>2. new \in SUBSET (Keys \X Values)
  BY <1>1
<1>3. ASSUME NEW p \in new, NEW q \in new, p[1] = q[1] PROVE p = q
  <2>1. (p \in map /\ p[1] # key) \/ p = <<key, value>>
    OBVIOUS
  <2>2. (q \in map /\ q[1] # key) \/ q = <<key, value>>
    OBVIOUS
  <2> QED
    BY <1>1, <1>3, <2>1, <2>2 DEF OneValue
<1> QED
  BY <1>2, <1>3 DEF OneValue

\* What ReadSentence holds and returns are sentences.
LEMMA TakesTyped ==
    ASSUME Typed, NEW w \in Numbers, Takes(w)
    PROVE  /\ sen' \in Sentences /\ OneValue(sen'.map)
           /\ returned' \in Seq([ok : BOOLEAN, sen : Sentences])
           /\ Len(returned') <= Len(returned) + 1
<1> DEFINE Result == [ok : BOOLEAN, sen : Sentences]
<1>1. sen \in Sentences /\ OneValue(sen.map) /\ returned \in Seq(Result)
  BY DEF Typed, OneValue
<1>2. NewSentence \in Sentences /\ OneValue(NewSentence.map)
  BY DEF NewSentence, Sentences, Values, Texts, OneValue
<1>3. Len(returned) \in Nat
  BY <1>1, LenProperties
<1>4. ASSUME NEW x \in Result, Returns(x)
      PROVE  /\ sen' \in Sentences /\ OneValue(sen'.map)
             /\ returned' \in Seq(Result) /\ Len(returned') <= Len(returned) + 1
  <2>1. returned' \in Seq(Result) /\ Len(returned') = Len(returned) + 1
    BY <1>1, <1>4, AppendProperties DEF Returns
  <2>2. Len(returned') <= Len(returned) + 1
    BY <1>3, <2>1, SMT
  <2> QED
    BY <1>2, <1>4, <2>1, <2>2 DEF Returns, FreshSentence
<1>5. CASE w = 0 /\ Returns([ok |-> TRUE, sen |-> sen])
  <2>1. [ok |-> TRUE, sen |-> sen] \in Result
    BY <1>1
  <2> QED
    BY <1>4, <1>5, <2>1
<1>6. CASE w # 0 /\ Returns([ok |-> FALSE, sen |-> NewSentence])
  <2>1. [ok |-> FALSE, sen |-> NewSentence] \in Result
    BY <1>2
  <2> QED
    BY <1>4, <1>6, <2>1
<1>7. ASSUME w # 0 PROVE Words[w].read \in Values /\ Words[w].text \in Texts /\ Words[w].key \in Keys
  BY <1>7, Lengths DEF Values, Texts, Keys
<1>8. ASSUME returned' = returned
      PROVE  returned' \in Seq(Result) /\ Len(returned') <= Len(returned) + 1
  BY <1>1, <1>3, <1>8, SMT
<1>9. CASE w # 0 /\ sen' = [sen EXCEPT !.word = Words[w].text] /\ returned' = returned
  <2>1. sen' \in Sentences /\ sen'.map = sen.map
    BY <1>1, <1>7, <1>9 DEF Sentences
  <2> QED
    BY <1>1, <1>8, <1>9, <2>1
<1>10. CASE w # 0 /\ sen' = [sen EXCEPT !.tag = Words[w].read] /\ returned' = returned
  <2>1. sen' \in Sentences /\ sen'.map = sen.map
    BY <1>1, <1>7, <1>10 DEF Sentences
  <2> QED
    BY <1>1, <1>8, <1>10, <2>1
<1>11. CASE /\ w # 0 /\ returned' = returned
            /\ sen' = [sen EXCEPT !.map = {p \in @ : p[1] # Words[w].key}
                                              \cup {<<Words[w].key, Words[w].read>>}]
  <2> DEFINE new == {p \in sen.map : p[1] # Words[w].key} \cup {<<Words[w].key, Words[w].read>>}
  <2>1. sen' = [sen EXCEPT !.map = new]
    BY <1>11
  <2>2. sen.map \in SUBSET (Keys \X Values)
    BY <1>1 DEF Sentences
  <2>3. new \in SUBSET (Keys \X Values) /\ OneValue(new)
    BY <1>1, <1>7, <1>11, <2>2, PairReplaces
  <2> HIDE DEF new
  <2>4. sen' \in Sentences /\ sen'.map = new
    BY <1>1, <2>1, <2>3 DEF Sentences
  <2> QED
    BY <1>8, <1>11, <2>3, <2>4
<1> QED
  BY <1>5, <1>6, <1>9, <1>10, <1>11 DEF Takes

\* A word that is written.
LEMMA WrittenTyped ==
    ASSUME Typed, NEW w \in Numbers, written' = Append(written, w), Len(written) < MaxWords
    PROVE  written' \in Seq(Numbers) /\ Len(written') <= MaxWords
<1>1. written \in Seq(Numbers)
  BY DEF Typed
<1>2. written' \in Seq(Numbers) /\ Len(written') = Len(written) + 1 /\ Len(written) \in Nat
  BY <1>1, AppendProperties, LenProperties
<1> QED
  BY <1>2, MaxWordsAssumption, SMT

\* WriteWord keeps the types.
LEMMA WriteWordTyped ==
    ASSUME Typed, NEW w \in Numbers, WriteWord(w)
    PROVE  Typed'
<1> DEFINE all == buffered \o Encoded(w)
           m == Len(all)
<1>1. /\ buffered \in Seq(Item) /\ net \in Seq(Item) /\ Encoded(w) \in Seq(Item)
      /\ Len(buffered) \in Nat /\ Len(Encoded(w)) \in Nat /\ Len(Encoded(w)) >= 1
  BY EncodedSize, LenProperties DEF Typed
<1>2. all \in Seq(Item) /\ m = Len(buffered) + Len(Encoded(w))
  BY <1>1, ConcatProperties
<1>3. m \in Nat /\ m >= 1
  BY <1>1, <1>2, SMT
<1> HIDE DEF all
<1>4. \A k \in {m - 1, m} : SubSeq(all, k + 1, m) \in Seq(Item) /\ SubSeq(all, 1, k) \in Seq(Item)
  <2>1. \A k \in {m - 1, m} : k \in Int /\ k + 1 >= 1 /\ k <= m
    BY <1>3, SMT
  <2>2. \A k \in {m - 1, m} : \A i \in (k + 1)..m : all[i] \in Item
    BY <1>2, <1>3, <2>1, SMT
  <2>3. \A k \in {m - 1, m} : \A i \in 1..k : all[i] \in Item
    BY <1>2, <1>3, <2>1, SMT
  <2> QED
    BY <1>2, <1>3, <2>1, <2>2, <2>3, SMT
<1> HIDE DEF m
<1>5. \A k \in {m - 1, m} : net \o SubSeq(all, 1, k) \in Seq(Item)
  BY <1>1, <1>4, ConcatProperties
<1>6. buffered' \in Seq(Item) /\ net' \in Seq(Item) /\ werr' \in BOOLEAN
  BY <1>1, <1>2, <1>4, <1>5, Zenon DEF WriteWord, Typed, all, m
<1>7. written' \in Seq(Numbers) /\ Len(written') <= MaxWords
  BY WrittenTyped DEF WriteWord
<1> QED
  BY <1>6, <1>7 DEF Typed, WriteWord

\* EndSentence keeps the types.
LEMMA EndSentenceTyped ==
    ASSUME Typed, EndSentence
    PROVE  Typed'
<1>1. 0 \in Numbers
  BY EmptyWord
<1>2. buffered \in Seq(Item) /\ net \in Seq(Item) /\ Encoded(0) \in Seq(Item)
  BY <1>1, OnWire DEF Typed
<1>3. Flushed \in Seq(Item)
  <2>1. net \o buffered \in Seq(Item)
    BY <1>2, ConcatProperties
  <2> QED
    BY <1>2, <2>1, ConcatProperties DEF Flushed
<1>4. written' \in Seq(Numbers) /\ Len(written') <= MaxWords
  BY <1>1, WrittenTyped DEF EndSentence
<1>5. buffered' \in Seq(Item) /\ net' \in Seq(Item) /\ werr' \in BOOLEAN
  BY <1>2, <1>3, EmptySeq DEF EndSentence, Typed
<1> QED
  BY <1>4, <1>5 DEF Typed, EndSentence

\* Deliver and Break keep the types.
LEMMA NetworkTyped ==
    ASSUME Typed, Deliver \/ Break
    PROVE  Typed'
<1>1. CASE Deliver
  <2>1. arrived \in Seq(Item) /\ net \in Seq(Item) /\ net # <<>>
    BY <1>1 DEF Typed, Deliver
  <2>2. Head(net) \in Item /\ Tail(net) \in Seq(Item)
    BY <2>1, HeadTailProperties
  <2>3. Append(arrived, Head(net)) \in Seq(Item)
    BY <2>1, <2>2, AppendProperties
  <2> QED
    BY <1>1, <2>2, <2>3 DEF Typed, Deliver, writer
<1>2. CASE Break
  BY <1>2, EmptySeq DEF Typed, Break, writer
<1> QED
  BY <1>1, <1>2

\* A word that is read keeps the types.
LEMMA ReadWordTyped ==
    ASSUME Typed, StreamInv, ReadWord
    PROVE  Typed'
<1>1. PICK w \in Numbers : read' = Append(read, w) /\ Takes(w)
  BY ReadWordStream
<1>2. arrived' \in Seq(Item)
  BY ReadWordStream
<1>3. /\ sen' \in Sentences /\ OneValue(sen'.map)
      /\ returned' \in Seq([ok : BOOLEAN, sen : Sentences])
      /\ Len(returned') <= Len(returned) + 1
  BY <1>1, TakesTyped
<1>4. read \in Seq(Numbers) /\ returned \in Seq([ok : BOOLEAN, sen : Sentences])
  BY DEF Typed
<1>5. read' \in Seq(Numbers) /\ Len(read') = Len(read) + 1
  BY <1>1, <1>4, AppendProperties
<1>6. Len(read) \in Nat /\ Len(returned) \in Nat /\ Len(returned') \in Nat
  BY <1>3, <1>4, LenProperties
<1>7. Len(returned) <= Len(read)
  BY DEF Typed
<1>8. Len(returned') <= Len(read')
  BY <1>3, <1>5, <1>6, <1>7, SMT
<1>9. /\ written' = written /\ buffered' = buffered /\ net' = net /\ link' = link
      /\ werr' = werr /\ pending' = -1
  BY DEF ReadWord, writer
<1> QED
  BY <1>2, <1>3, <1>5, <1>8, <1>9 DEF Typed, OneValue

\* The inductive invariant.
WireInv == Typed /\ StreamInv

\* It holds of a new connection: the stream is empty.
LEMMA WireInit == Init => WireInv
<1> SUFFICES ASSUME Init PROVE WireInv
  OBVIOUS
<1>1. Typed
  <2>1. NewSentence \in Sentences /\ NewSentence.map = {}
    BY DEF NewSentence, Sentences, Values, Texts
  <2>2. Len(<<>>) = 0 /\ 0 <= MaxWords /\ 0 <= 0
    BY MaxWordsAssumption, SMT
  <2> QED
    BY <2>1, <2>2, EmptySeq DEF Init, Typed
<1>2. StreamInv
  <2> DEFINE c == [i \in 0..0 |-> 0]
  <2>1. /\ Len(<<>>) = 0 /\ 0 \in 0..0 /\ c \in [0..0 -> Nat] /\ c[0] = 0
        /\ \A i \in 0..0 : c[i] <= c[0]
        /\ 1..0 = {} /\ 0 <= 0 /\ 0 + 0 = 0
    BY SMT
  <2> HIDE DEF c
  <2>2. Cut(written, c, c, 0)
    BY <2>1 DEF Init, Cut
  <2>3. Prefix = 0
    BY DEF Init, Prefix
  <2>4. Reader(c, c, 0, 0)
    BY <2>1, <2>3 DEF Init, Reader, Held
  <2> QED
    BY <2>1, <2>2, <2>4 DEF Init, StreamInv
<1> QED
  BY <1>1, <1>2 DEF WireInv

\* And every step keeps it.
LEMMA WireNext == WireInv /\ [Next]_vars => WireInv'
<1> SUFFICES ASSUME Typed, StreamInv, [Next]_vars PROVE Typed' /\ StreamInv'
  BY DEF WireInv
<1>1. CASE EndSentence
  BY <1>1, EndSentenceTyped, EndSentenceStream
<1>2. CASE \E w \in Numbers : WriteWord(w)
  BY <1>2, WriteWordTyped, WriteWordStream
<1>3. CASE Deliver
  BY <1>3, NetworkTyped, DeliverStream
<1>4. CASE Break
  BY <1>4, NetworkTyped, BreakStream
<1>5. CASE ReadLength
  <2>1. StreamInv' /\ pending' \in {LengthOf(w) : w \in Numbers} /\ arrived' \in Seq(Item)
    BY <1>5, ReadLengthStream
  <2>2. Typed'
    BY <1>5, <2>1 DEF Typed, ReadLength, writer
  <2> QED
    BY <2>1, <2>2
<1>6. CASE ReadWord
  BY <1>6, ReadWordTyped, ReadWordStream
<1>7. CASE UNCHANGED vars
  <2>1. Typed'
    BY <1>7 DEF Typed, vars
  <2>2. PICK T, c, n, r : Cut(written, T, c, n) /\ Reader(T, c, n, r)
    BY DEF StreamInv
  <2>3. Cut(written', T, c, n) /\ Reader(T, c, n, r)'
    BY <1>7, <2>2 DEF Reader, Prefix, vars
  <2>4. StreamInv'
    BY <1>7, <2>3 DEF StreamInv, vars
  <2> QED
    BY <2>1, <2>4
<1> QED
  BY <1>1, <1>2, <1>3, <1>4, <1>5, <1>6, <1>7 DEF Next

\* The state keeps its type: items are bytes and words of the table, a length that is pending
\* is the length of a word, and a sentence has one value for each key.
THEOREM TypeCorrect == Spec => []TypeOK
<1>1. WireInv => TypeOK
  <2>1. ASSUME NEW s \in Seq(Item) PROVE Items(s)
    <3>1. \A i \in DOMAIN s : s[i] \in Item
      BY ElementOfSeq, LenProperties
    <3> QED
      BY <3>1 DEF Items, Item
  <2> QED
    BY <2>1 DEF WireInv, Typed, TypeOK
<1> QED
  BY <1>1, WireInit, WireNext, PTL DEF Spec

\* The reader returns the words that were written, in order, cut where the writer cut them,
\* wherever the connection breaks: for every table of words of at most 32 bit length, however
\* the words are buffered, flushed, cut into packets and lost.
THEOREM WordsStayIntact == Spec => []WordsIntact
<1>1. WireInv => WordsIntact
  <2> SUFFICES ASSUME Typed, StreamInv PROVE WordsIntact
    BY DEF WireInv
  <2>1. PICK T, c, n, r : Cut(written, T, c, n) /\ Reader(T, c, n, r)
    BY DEF StreamInv
  <2>2. Len(read) \in 0..n /\ n \in Nat /\ Len(written) \in Nat /\ n <= Len(written)
    BY <2>1, Where
  <2>3. Len(read) <= Len(written)
    BY <2>2, SMT
  <2>4. DOMAIN read = 1..Len(read)
    BY LenProperties DEF Typed
  <2> QED
    BY <2>3, <2>4 DEF WordsIntact, StreamInv
<1> QED
  BY <1>1, WireInit, WireNext, PTL DEF Spec

----------------------------------------------------------------------------
\* Sentences.  s is what a sequence of words R has between the positions b and e: it begins
\* after the end of a sentence, or at first, and has no end in it.
Between(s, R, b, e) ==
    /\ b \in 0..(e - 1) /\ (b = 0 \/ R[b] = 0)
    /\ s \in Seq(DOMAIN Words) /\ Len(s) = e - 1 - b
    /\ \A i \in 1..Len(s) : s[i] = R[b + i]

\* Ends of sentences among the first k words of R; successes among the first k results Q.
EndsIn(R, k) == {i \in 1..k : R[i] = 0}
OkIn(Q, k) == {j \in 1..k : Q[j].ok}

PairsOf(s) == {PairOf(s[i]) : i \in OfKind(s, "pair")}

\* What SentencesApart says of success k and the words of its sentence.
Fits(Q, k, s) ==
    /\ ~Rejects(s) => Q[k].sen = Meant(s) /\ (k > 1 => Q[k - 1].ok)
    /\ Rejects(s) => k > 1 /\ ~Q[k - 1].ok /\ Q[k].sen.map \subseteq PairsOf(s)

\* The same of the sentence under construction, S, and the words of it that have been read.
Building(Q, S, s) ==
    /\ ~Rejects(s) => S = Meant(s) /\ (Len(Q) > 0 => Q[Len(Q)].ok)
    /\ Rejects(s) => Len(Q) > 0 /\ ~Q[Len(Q)].ok /\ S.map \subseteq PairsOf(s)

\* Success k returned the sentence that ends at e, and as many ends come before as successes.
Matches(R, Q, k) ==
    \E e \in EndsIn(R, Len(R)) : \E b, s :
        /\ Between(s, R, b, e) /\ Fits(Q, k, s)
        /\ Cardinality(EndsIn(R, e)) = Cardinality(OkIn(Q, k))
Apart(R, Q, S) ==
    /\ Cardinality(EndsIn(R, Len(R))) = Cardinality(OkIn(Q, Len(Q)))
    /\ \A k \in OkIn(Q, Len(Q)) : Matches(R, Q, k)
    /\ \E b, s : Between(s, R, b, Len(R) + 1) /\ Building(Q, S, s)

Result == [ok : BOOLEAN, sen : Sentences]

\* What comes after leaves the first elements of a sequence alone.
Extends(X, Y) == Len(X) <= Len(Y) /\ \A i \in 1..Len(X) : Y[i] = X[i]

\* Counting ends and successes.
LEMMA Finite ==
    ASSUME NEW R, NEW k \in Nat
    PROVE  /\ IsFiniteSet(EndsIn(R, k)) /\ Cardinality(EndsIn(R, k)) \in Nat
           /\ IsFiniteSet(OkIn(R, k)) /\ Cardinality(OkIn(R, k)) \in Nat
<1>1. IsFiniteSet(1..k)
  BY FS_Interval
<1>2. EndsIn(R, k) \in SUBSET (1..k) /\ OkIn(R, k) \in SUBSET (1..k)
  BY DEF EndsIn, OkIn
<1>3. IsFiniteSet(EndsIn(R, k)) /\ IsFiniteSet(OkIn(R, k))
  BY <1>1, <1>2, FS_Subset
<1> QED
  BY <1>3, FS_CardinalityType

\* A sequence that is extended has the same among its first elements.
LEMMA SameCounts ==
    ASSUME NEW X, NEW Y, Len(X) \in Nat, Extends(X, Y), NEW k \in 0..Len(X)
    PROVE  EndsIn(Y, k) = EndsIn(X, k) /\ OkIn(Y, k) = OkIn(X, k)
<1>1. \A i \in 1..k : Y[i] = X[i]
  BY DEF Extends
<1> QED
  BY <1>1 DEF EndsIn, OkIn

\* Y is X with one more element.
Longer(X, x, Y) ==
    /\ Extends(X, Y) /\ Len(X) \in Nat /\ Len(Y) = Len(X) + 1 /\ Y[Len(X) + 1] = x
    /\ \A i : i \in 1..Len(Y) <=> i \in 1..Len(X) \/ i = Len(Y)
    /\ Len(Y) \notin EndsIn(X, Len(X)) /\ Len(Y) \notin OkIn(X, Len(X))
    /\ EndsIn(Y, Len(X)) = EndsIn(X, Len(X)) /\ OkIn(Y, Len(X)) = OkIn(X, Len(X))

\* Appending one element changes Len, EndsIn and OkIn by that element alone.
LEMMA OneMore ==
    ASSUME NEW A, NEW X \in Seq(A), NEW x \in A, NEW Y, Y = Append(X, x)
    PROVE  Longer(X, x, Y)
<1> DEFINE n == Len(X)
<1>1. n \in Nat /\ Len(Y) = n + 1 /\ Y \in Seq(A) /\ Y[n + 1] = x /\ \A i \in 1..n : Y[i] = X[i]
  BY AppendProperties, LenProperties
<1>2. Extends(X, Y)
  BY <1>1 DEF Extends
<1>3. EndsIn(Y, n) = EndsIn(X, n) /\ OkIn(Y, n) = OkIn(X, n)
  BY <1>1, <1>2, SameCounts
<1>4. n + 1 \notin EndsIn(X, n) /\ n + 1 \notin OkIn(X, n)
  BY <1>1 DEF EndsIn, OkIn
<1>5. \A i : i \in 1..(n + 1) <=> i \in 1..n \/ i = n + 1
  BY <1>1
<1> QED
  BY <1>1, <1>2, <1>3, <1>4, <1>5 DEF Longer

\* One more word is counted if it is an end,
LEMMA OneMoreWord ==
    ASSUME NEW R \in Seq(Numbers), NEW w \in Numbers, NEW P, P = Append(R, w)
    PROVE  /\ Extends(R, P) /\ Len(R) \in Nat /\ Len(P) = Len(R) + 1 /\ P[Len(R) + 1] = w
           /\ w = 0 => /\ Cardinality(EndsIn(P, Len(P))) = Cardinality(EndsIn(R, Len(R))) + 1
                       /\ Len(P) \in EndsIn(P, Len(P))
           /\ w # 0 => Cardinality(EndsIn(P, Len(P))) = Cardinality(EndsIn(R, Len(R)))
<1>1. /\ Extends(R, P) /\ Len(R) \in Nat /\ Len(P) = Len(R) + 1 /\ P[Len(R) + 1] = w
      /\ \A i : i \in 1..Len(P) <=> i \in 1..Len(R) \/ i = Len(P)
      /\ Len(P) \notin EndsIn(R, Len(R)) /\ EndsIn(P, Len(R)) = EndsIn(R, Len(R))
  <2>1. Longer(R, w, P)
    BY OneMore
  <2> QED
    BY <2>1 DEF Longer
<1>2. CASE w = 0
  <2>1. EndsIn(P, Len(P)) = EndsIn(R, Len(R)) \cup {Len(P)}
    BY <1>1, <1>2 DEF EndsIn
  <2> QED
    BY <1>1, <1>2, <2>1, Finite, FS_AddElement
<1>3. CASE w # 0
  <2>1. EndsIn(P, Len(P)) = EndsIn(R, Len(R))
    BY <1>1, <1>3 DEF EndsIn
  <2> QED
    BY <1>1, <1>3, <2>1
<1> QED
  BY <1>2, <1>3

\* and one more result if it is a success.
LEMMA OneMoreResult ==
    ASSUME NEW Q \in Seq(Result), NEW x \in Result, NEW V, V = Append(Q, x)
    PROVE  /\ Extends(Q, V) /\ Len(Q) \in Nat /\ Len(V) = Len(Q) + 1 /\ V[Len(V)] = x
           /\ x.ok => /\ Cardinality(OkIn(V, Len(V))) = Cardinality(OkIn(Q, Len(Q))) + 1
                      /\ OkIn(V, Len(V)) = OkIn(Q, Len(Q)) \cup {Len(V)}
           /\ ~x.ok => OkIn(V, Len(V)) = OkIn(Q, Len(Q))
<1>1. /\ Extends(Q, V) /\ Len(Q) \in Nat /\ Len(V) = Len(Q) + 1 /\ V[Len(Q) + 1] = x
      /\ \A i : i \in 1..Len(V) <=> i \in 1..Len(Q) \/ i = Len(V)
      /\ Len(V) \notin OkIn(Q, Len(Q)) /\ OkIn(V, Len(Q)) = OkIn(Q, Len(Q))
  <2>1. Longer(Q, x, V)
    BY OneMore
  <2> QED
    BY <2>1 DEF Longer
<1>2. CASE x.ok
  <2>1. OkIn(V, Len(V)) = OkIn(Q, Len(Q)) \cup {Len(V)}
    BY <1>1, <1>2 DEF OkIn
  <2> QED
    BY <1>1, <1>2, <2>1, Finite, FS_AddElement
<1>3. CASE ~x.ok
  <2>1. OkIn(V, Len(V)) = OkIn(Q, Len(Q))
    BY <1>1, <1>3 DEF OkIn
  <2> QED
    BY <1>1, <1>3, <2>1
<1> QED
  BY <1>2, <1>3

\* Numbers are well ordered by this.
Below == {p \in Nat \X Nat : p[1] < p[2]}

\* The order on the naturals is well founded.
LEMMA BelowWellFounded == IsWellFoundedOn(Below, Nat)
BY NatLessThanWellFounded, Zenon DEF OpToRel, Below

\* A set of positions has a last one.
LEMMA LastIn ==
    ASSUME NEW n \in Nat, NEW I \in SUBSET (1..n), I # {}
    PROVE  Last(I) \in I /\ \A j \in I : j <= Last(I)
<1> DEFINE X == {m \in Nat : \E i \in I : m = n - i}
<1>1. X \subseteq Nat /\ X # {}
  <2>1. PICK i : i \in I
    OBVIOUS
  <2>2. n - i \in X
    BY <2>1
  <2> QED
    BY <2>2
<1>2. PICK m \in X : \A y \in X : <<y, m>> \notin Below
  BY <1>1, BelowWellFounded, WFMin, Zenon
<1>3. PICK i \in I : m = n - i
  OBVIOUS
<1>4. ASSUME NEW j \in I PROVE j <= i
  <2>1. n - j \in X
    OBVIOUS
  <2>2. <<n - j, m>> \notin Below
    BY <1>2, <2>1
  <2>3. ~(n - j < m)
    BY <1>1, <2>1, <2>2 DEF Below
  <2> QED
    BY <1>3, <2>3
<1> QED
  BY <1>4 DEF Last

\* A word that is added to the words of a sentence: the first is its word, and any other adds
\* a position of its own kind.
AddedTo(s, w, t) ==
    /\ t \in Seq(DOMAIN Words) /\ Len(t) = Len(s) + 1 /\ Len(s) \in Nat
    /\ t[Len(s) + 1] = w /\ \A i \in 1..Len(s) : t[i] = s[i]
    /\ Len(s) = 0 => \A kind : OfKind(t, kind) = {} /\ OfKind(s, kind) = {}
    /\ Len(s) > 0 =>
           /\ \A kind : Words[w].kind # kind => OfKind(t, kind) = OfKind(s, kind)
           /\ OfKind(t, Words[w].kind) = OfKind(s, Words[w].kind) \cup {Len(s) + 1}

\* A word appended to a sentence adds its position to those of its kind and to no other.
LEMMA Added ==
    ASSUME NEW s \in Seq(DOMAIN Words), NEW w \in DOMAIN Words, NEW t, t = Append(s, w)
    PROVE  AddedTo(s, w, t)
<1>1. /\ t \in Seq(DOMAIN Words) /\ Len(t) = Len(s) + 1 /\ Len(s) \in Nat
      /\ t[Len(s) + 1] = w /\ \A i \in 1..Len(s) : t[i] = s[i]
  BY AppendProperties, LenProperties
<1>2. ASSUME Len(s) = 0, NEW kind PROVE OfKind(t, kind) = {} /\ OfKind(s, kind) = {}
  <2>1. 2..Len(t) = {} /\ 2..Len(s) = {}
    BY <1>1, <1>2
  <2> QED
    BY <2>1 DEF OfKind
<1>3. ASSUME Len(s) > 0, NEW kind
      PROVE  OfKind(t, kind) =
                 OfKind(s, kind) \cup (IF Words[w].kind = kind THEN {Len(s) + 1} ELSE {})
  <2>1. \A i : i \in 2..Len(t) <=> i \in 2..Len(s) \/ i = Len(s) + 1
    BY <1>1, <1>3
  <2>2. \A i \in 2..Len(s) : t[i] = s[i]
    BY <1>1
  <2> DEFINE extra == IF Words[w].kind = kind THEN {Len(s) + 1} ELSE {}
  <2>3. ASSUME NEW i PROVE i \in OfKind(t, kind) <=> i \in OfKind(s, kind) \/ i \in extra
    <3>1. i \in OfKind(t, kind) <=> i \in 2..Len(t) /\ Words[t[i]].kind = kind
      BY DEF OfKind
    <3>2. i \in OfKind(s, kind) <=> i \in 2..Len(s) /\ Words[s[i]].kind = kind
      BY DEF OfKind
    <3>3. i \in extra <=> i = Len(s) + 1 /\ Words[w].kind = kind
      OBVIOUS
    <3>4. Len(s) + 1 \notin 2..Len(s)
      BY <1>1
    <3> HIDE DEF extra
    <3> QED
      BY <1>1, <2>1, <2>2, <3>1, <3>2, <3>3, <3>4
  <2> HIDE DEF extra
  <2>4. OfKind(t, kind) = OfKind(s, kind) \cup extra
    BY <2>3
  <2> QED
    BY <2>4 DEF extra
<1>4. ASSUME Len(s) > 0
      PROVE  /\ \A kind : Words[w].kind # kind => OfKind(t, kind) = OfKind(s, kind)
             /\ OfKind(t, Words[w].kind) = OfKind(s, Words[w].kind) \cup {Len(s) + 1}
  <2>1. ASSUME NEW kind, Words[w].kind # kind PROVE OfKind(t, kind) = OfKind(s, kind)
    BY <1>3, <1>4, <2>1
  <2>2. OfKind(t, Words[w].kind) = OfKind(s, Words[w].kind) \cup {Len(s) + 1}
    BY <1>3, <1>4
  <2> QED
    BY <2>1, <2>2
<1> QED
  BY <1>1, <1>2, <1>4 DEF AddedTo

\* A sentence has a word to reject if one of its words is.
LEMMA RejectsAdded ==
    ASSUME NEW s \in Seq(DOMAIN Words), NEW w \in DOMAIN Words, NEW t, t = Append(s, w)
    PROVE  /\ Len(s) = 0 => ~Rejects(t) /\ ~Rejects(s)
           /\ Len(s) > 0 => (Rejects(t) <=> Rejects(s) \/ Words[w].kind = "plain")
           /\ PairsOf(s) \subseteq PairsOf(t)
           /\ Len(s) > 0 /\ Words[w].kind = "pair" => PairOf(w) \in PairsOf(t)
<1>1. /\ Len(s) \in Nat /\ t[Len(s) + 1] = w /\ \A i \in 1..Len(s) : t[i] = s[i]
      /\ Len(s) = 0 => \A kind : OfKind(t, kind) = {} /\ OfKind(s, kind) = {}
      /\ Len(s) > 0 =>
           /\ \A kind : Words[w].kind # kind => OfKind(t, kind) = OfKind(s, kind)
           /\ OfKind(t, Words[w].kind) = OfKind(s, Words[w].kind) \cup {Len(s) + 1}
  <2>1. AddedTo(s, w, t)
    BY Added
  <2> QED
    BY <2>1 DEF AddedTo
<1>2. Rejects(s) <=> OfKind(s, "plain") # {}
  BY DEF Rejects, OfKind
<1>3. Rejects(t) <=> OfKind(t, "plain") # {}
  BY DEF Rejects, OfKind
<1>4. OfKind(s, "pair") \subseteq 1..Len(s)
  BY <1>1 DEF OfKind
<1>5. OfKind(s, "pair") \subseteq OfKind(t, "pair")
  BY <1>1
<1>6. PairsOf(s) \subseteq PairsOf(t)
  BY <1>1, <1>4, <1>5 DEF PairsOf
<1>7. ASSUME Len(s) > 0, Words[w].kind = "pair" PROVE PairOf(w) \in PairsOf(t)
  BY <1>1, <1>7 DEF PairsOf
<1> QED
  BY <1>1, <1>2, <1>3, <1>6, <1>7

\* What a sentence means once a word is added: the first names it, a tag replaces the tag, a
\* pair the one of its key.
LEMMA MeantFirst ==
    ASSUME NEW s \in Seq(DOMAIN Words), Len(s) = 0, NEW w \in DOMAIN Words, NEW t, t = Append(s, w)
    PROVE  /\ Meant(s) = NewSentence
           /\ Meant(t) = [word |-> Words[w].text, tag |-> "", map |-> {}]
<1>1. AddedTo(s, w, t)
  BY Added
<1>2. /\ OfKind(t, "tag") = {} /\ OfKind(t, "pair") = {}
      /\ OfKind(s, "tag") = {} /\ OfKind(s, "pair") = {}
      /\ t[1] = w /\ Len(t) = 1 /\ t \in Seq(DOMAIN Words)
  BY <1>1 DEF AddedTo
<1>3. s = <<>> /\ t # <<>>
  BY <1>2, EmptySeq
<1>4. LastOfKey(t, {}) = {} /\ LastOfKey(s, {}) = {}
  BY DEF LastOfKey
<1>5. Meant(s) = NewSentence
  BY <1>2, <1>3, <1>4 DEF Meant, NewSentence
<1>6. Meant(t) = [word |-> Words[w].text, tag |-> "", map |-> {}]
  <2>1. {PairOf(t[i]) : i \in LastOfKey(t, OfKind(t, "pair"))} = {}
    BY <1>2, <1>4
  <2> QED
    BY <1>2, <1>3, <2>1 DEF Meant
<1> QED
  BY <1>5, <1>6

\* A tag replaces the tag, as ReadSentence does.
LEMMA MeantTag ==
    ASSUME NEW s \in Seq(DOMAIN Words), Len(s) > 0, NEW w \in DOMAIN Words, NEW t, t = Append(s, w),
           Words[w].kind = "tag"
    PROVE  Meant(t) = [Meant(s) EXCEPT !.tag = Words[w].read]
<1>1. AddedTo(s, w, t)
  BY Added
<1> DEFINE n == Len(s)
<1>2. /\ OfKind(t, "tag") = OfKind(s, "tag") \cup {n + 1} /\ OfKind(t, "pair") = OfKind(s, "pair")
      /\ t[1] = s[1] /\ t[n + 1] = w /\ n \in Nat /\ Len(t) = n + 1
      /\ \A i \in 1..n : t[i] = s[i]
  BY <1>1 DEF AddedTo
<1>3. s # <<>> /\ t # <<>>
  BY <1>2
<1>4. OfKind(s, "tag") \subseteq 1..n /\ OfKind(s, "pair") \subseteq 1..n
  BY <1>2 DEF OfKind
<1>5. Last(OfKind(t, "tag")) = n + 1
  <2>1. n + 1 \in OfKind(t, "tag") /\ \A j \in OfKind(t, "tag") : j <= n + 1
    BY <1>2, <1>4
  <2>2. \A i \in OfKind(t, "tag") : (\A j \in OfKind(t, "tag") : j <= i) => i = n + 1
    BY <1>2, <1>4
  <2> QED
    BY <2>1, <2>2 DEF Last
<1>6. LastOfKey(t, OfKind(t, "pair")) = LastOfKey(s, OfKind(s, "pair"))
  BY <1>2, <1>4 DEF LastOfKey
<1>7. {PairOf(t[i]) : i \in LastOfKey(t, OfKind(t, "pair"))}
          = {PairOf(s[i]) : i \in LastOfKey(s, OfKind(s, "pair"))}
  <2>1. LastOfKey(s, OfKind(s, "pair")) \subseteq 1..n
    BY <1>4 DEF LastOfKey
  <2> QED
    BY <1>2, <1>6, <2>1
<1>8. Meant(t) = [word |-> Words[t[1]].text, tag |-> Words[w].read,
                  map |-> {PairOf(s[i]) : i \in LastOfKey(s, OfKind(s, "pair"))}]
  BY <1>2, <1>3, <1>5, <1>7 DEF Meant
<1>9. /\ Meant(s) = [word |-> Meant(s).word, tag |-> Meant(s).tag, map |-> Meant(s).map]
      /\ Meant(s).word = Words[t[1]].text
      /\ Meant(s).map = {PairOf(s[i]) : i \in LastOfKey(s, OfKind(s, "pair"))}
  BY <1>2, <1>3 DEF Meant
<1> DEFINE x == Words[w].read
           m == {PairOf(s[i]) : i \in LastOfKey(s, OfKind(s, "pair"))}
           a == Words[t[1]].text
<1>10. Meant(t) = [word |-> a, tag |-> x, map |-> m]
  BY <1>8
<1>11. Meant(s) = [word |-> a, tag |-> Meant(s).tag, map |-> m]
  BY <1>9
<1> HIDE DEF x, m, a
<1>12. Meant(t) = [Meant(s) EXCEPT !.tag = x]
  BY <1>10, <1>11
<1> QED
  BY <1>12 DEF x

\* A pair takes the place of an earlier one with its key.
LEMMA MeantPair ==
    ASSUME NEW s \in Seq(DOMAIN Words), Len(s) > 0, NEW w \in DOMAIN Words, NEW t, t = Append(s, w),
           Words[w].kind = "pair"
    PROVE  Meant(t) = [Meant(s) EXCEPT !.map = {p \in @ : p[1] # Words[w].key} \cup {PairOf(w)}]
<1>1. AddedTo(s, w, t)
  BY Added
<1> DEFINE n == Len(s)
           I == OfKind(s, "pair")
           J == OfKind(t, "pair")
           old == {PairOf(s[i]) : i \in LastOfKey(s, I)}
           new == {PairOf(t[i]) : i \in LastOfKey(t, J)}
<1>2. /\ OfKind(t, "tag") = OfKind(s, "tag") /\ J = I \cup {n + 1}
      /\ t[1] = s[1] /\ t[n + 1] = w /\ n \in Nat /\ Len(t) = n + 1
      /\ \A i \in 1..n : t[i] = s[i]
  BY <1>1 DEF AddedTo
<1>3. s # <<>> /\ t # <<>>
  BY <1>2
<1>4. OfKind(s, "tag") \subseteq 1..n /\ I \subseteq 1..n
  BY <1>2 DEF OfKind
<1>5. OfKind(s, "tag") # {} => t[Last(OfKind(s, "tag"))] = s[Last(OfKind(s, "tag"))]
  BY <1>2, <1>4, LastIn
<1>6. \A i : i \in LastOfKey(t, J) <=>
               i = n + 1 \/ (i \in LastOfKey(s, I) /\ Words[s[i]].key # Words[w].key)
  <2> HIDE DEF I, J
  <2>1. \A i \in I : i <= n /\ i \in Nat /\ t[i] = s[i] /\ i # n + 1
    BY <1>2, <1>4
  <2>2. n + 1 \in LastOfKey(t, J)
    BY <1>2, <2>1 DEF LastOfKey
  <2>3. ASSUME NEW i \in LastOfKey(t, J), i # n + 1
        PROVE  i \in LastOfKey(s, I) /\ Words[s[i]].key # Words[w].key
    <3>1. i \in I /\ \A j \in J : Words[t[j]].key = Words[t[i]].key => j <= i
      BY <1>2, <2>3 DEF LastOfKey
    <3>2. \A j \in I : Words[s[j]].key = Words[s[i]].key => j <= i
      BY <1>2, <2>1, <3>1
    <3>3. ~(n + 1 <= i)
      BY <1>2, <2>1, <3>1
    <3>4. Words[s[i]].key # Words[w].key
      BY <1>2, <2>1, <3>1, <3>3
    <3> QED
      BY <3>1, <3>2, <3>4 DEF LastOfKey
  <2>4. ASSUME NEW i \in LastOfKey(s, I), Words[s[i]].key # Words[w].key
        PROVE  i \in LastOfKey(t, J)
    <3>1. i \in I /\ \A j \in I : Words[s[j]].key = Words[s[i]].key => j <= i
      BY DEF LastOfKey
    <3>2. \A j \in J : Words[t[j]].key = Words[t[i]].key => j <= i
      BY <1>2, <2>1, <2>4, <3>1
    <3> QED
      BY <1>2, <3>1, <3>2 DEF LastOfKey
  <2> QED
    BY <2>2, <2>3, <2>4
<1>7. LastOfKey(s, I) \subseteq 1..n
  BY <1>4 DEF LastOfKey
<1>8. \A v : PairOf(v)[1] = Words[v].key
  BY DEF PairOf
<1>9. new = {p \in old : p[1] # Words[w].key} \cup {PairOf(w)}
  <2> HIDE DEF I, J
  <2>1. ASSUME NEW p \in new PROVE (p \in old /\ p[1] # Words[w].key) \/ p = PairOf(w)
    <3>1. PICK i \in LastOfKey(t, J) : p = PairOf(t[i])
      OBVIOUS
    <3>2. CASE i = n + 1
      BY <1>2, <3>1, <3>2
    <3>3. CASE i # n + 1
      <4>1. i \in LastOfKey(s, I) /\ Words[s[i]].key # Words[w].key
        BY <1>6, <3>3
      <4>2. p = PairOf(s[i]) /\ p[1] = Words[s[i]].key
        BY <1>2, <1>7, <1>8, <3>1, <4>1
      <4> QED
        BY <4>1, <4>2
    <3> QED
      BY <3>2, <3>3
  <2>2. ASSUME NEW p \in old, p[1] # Words[w].key PROVE p \in new
    <3>1. PICK i \in LastOfKey(s, I) : p = PairOf(s[i])
      OBVIOUS
    <3> QED
      BY <1>2, <1>6, <1>7, <1>8, <2>2, <3>1
  <2>3. PairOf(w) \in new
    BY <1>2, <1>6
  <2> QED
    BY <2>1, <2>2, <2>3
<1>10. Meant(s).map = old /\ Meant(t).map = new
  BY DEF Meant
<1>11. Meant(t).word = Meant(s).word /\ Meant(t).tag = Meant(s).tag
  BY <1>2, <1>3, <1>5 DEF Meant
<1>12. /\ Meant(t) = [word |-> Meant(t).word, tag |-> Meant(t).tag, map |-> Meant(t).map]
       /\ Meant(s) = [word |-> Meant(s).word, tag |-> Meant(s).tag, map |-> Meant(s).map]
  BY DEF Meant
<1> HIDE DEF old, new
<1> QED
  BY <1>9, <1>10, <1>11, <1>12

\* A sentence without a word yet.
Blank(S) == S.word = ""

\* It has none while nothing has been read of it: the text of a word is not empty.
LEMMA BlankMeant ==
    ASSUME NEW s \in Seq(DOMAIN Words)
    PROVE  Len(s) \in Nat /\ (Blank(Meant(s)) <=> Len(s) = 0) /\ (s = <<>> <=> Len(s) = 0)
<1>1. Len(s) \in Nat /\ (s = <<>> <=> Len(s) = 0)
  BY LenProperties, EmptySeq
<1>2. Meant(s).word = IF s = <<>> THEN "" ELSE Words[s[1]].text
  BY DEF Meant
<1>3. ASSUME s # <<>> PROVE Words[s[1]].text # ""
  <2>1. 1 \in 1..Len(s)
    BY <1>1, <1>3
  <2>2. s[1] \in DOMAIN Words
    BY <2>1, ElementOfSeq
  <2> QED
    BY <2>2, TextsAssumption
<1>4. Blank(Meant(s)) <=> s = <<>>
  BY <1>2, <1>3 DEF Blank
<1> QED
  BY <1>1, <1>4

\* What a word that is not rejected makes of the sentence.
Taken(S, w, N) ==
    \/ Blank(S) /\ N = [S EXCEPT !.word = Words[w].text]
    \/ ~Blank(S) /\ Words[w].kind = "tag" /\ N = [S EXCEPT !.tag = Words[w].read]
    \/ /\ ~Blank(S) /\ Words[w].kind = "pair"
       /\ N = [S EXCEPT !.map = {p \in @ : p[1] # Words[w].key} \cup {PairOf(w)}]

\* It stays what was read of the sentence.
LEMMA BuildingOn ==
    ASSUME NEW s \in Seq(DOMAIN Words), NEW w \in DOMAIN Words, NEW t, t = Append(s, w),
           NEW Q, NEW S \in Sentences, Building(Q, S, s), NEW N, Taken(S, w, N)
    PROVE  Building(Q, N, t)
<1>1. /\ Len(s) \in Nat
      /\ Len(s) = 0 => ~Rejects(t) /\ ~Rejects(s)
      /\ Len(s) > 0 => (Rejects(t) <=> Rejects(s) \/ Words[w].kind = "plain")
      /\ PairsOf(s) \subseteq PairsOf(t)
      /\ Len(s) > 0 /\ Words[w].kind = "pair" => PairOf(w) \in PairsOf(t)
  BY RejectsAdded, LenProperties
<1>2. CASE Rejects(s)
  <2>1. Len(s) > 0 /\ Rejects(t) /\ Len(Q) > 0 /\ ~Q[Len(Q)].ok /\ S.map \subseteq PairsOf(s)
    BY <1>1, <1>2 DEF Building
  <2>2. CASE N.map = S.map
    BY <1>1, <2>1, <2>2 DEF Building
  <2>3. CASE /\ Words[w].kind = "pair"
             /\ N.map = {p \in S.map : p[1] # Words[w].key} \cup {PairOf(w)}
    <3>1. N.map \subseteq PairsOf(t)
      BY <1>1, <2>1, <2>3
    <3> QED
      BY <2>1, <3>1 DEF Building
  <2>4. \A x : [S EXCEPT !.word = x].map = S.map /\ [S EXCEPT !.tag = x].map = S.map
                 /\ [S EXCEPT !.map = x].map = x
    BY DEF Sentences
  <2> QED
    BY <2>2, <2>3, <2>4 DEF Taken
<1>3. CASE ~Rejects(s)
  <2>1. S = Meant(s) /\ (Len(Q) > 0 => Q[Len(Q)].ok)
    BY <1>3 DEF Building
  <2>2. Blank(S) <=> Len(s) = 0
    BY <2>1, BlankMeant
  <2>4. CASE Blank(S) /\ N = [S EXCEPT !.word = Words[w].text]
    <3>1. Len(s) = 0
      BY <2>2, <2>4
    <3>2. S = NewSentence /\ ~Rejects(t) /\ Meant(t) = [word |-> Words[w].text, tag |-> "", map |-> {}]
      BY <1>1, <2>1, <3>1, MeantFirst
    <3>3. \A x : [S EXCEPT !.word = x] = [word |-> x, tag |-> S.tag, map |-> S.map]
      BY DEF Sentences
    <3>4. N = Meant(t)
      <4>1. S.tag = "" /\ S.map = {}
        BY <3>2 DEF NewSentence
      <4> QED
        BY <2>4, <3>2, <3>3, <4>1, Zenon
    <3> QED
      BY <2>1, <3>2, <3>4 DEF Building
  <2>5. CASE ~Blank(S) /\ Words[w].kind = "tag" /\ N = [S EXCEPT !.tag = Words[w].read]
    <3>1. Len(s) > 0 /\ ~Rejects(t)
      BY <1>1, <1>3, <2>2, <2>5
    <3>2. N = Meant(t)
      BY <2>1, <2>5, <3>1, MeantTag
    <3> QED
      BY <2>1, <3>1, <3>2 DEF Building
  <2>6. CASE /\ ~Blank(S) /\ Words[w].kind = "pair"
             /\ N = [S EXCEPT !.map = {p \in @ : p[1] # Words[w].key} \cup {PairOf(w)}]
    <3>1. Len(s) > 0 /\ ~Rejects(t)
      BY <1>1, <1>3, <2>2, <2>6
    <3>2. N = Meant(t)
      BY <2>1, <2>6, <3>1, MeantPair
    <3> QED
      BY <2>1, <3>1, <3>2 DEF Building
  <2> QED
    BY <2>4, <2>5, <2>6 DEF Taken
<1> QED
  BY <1>2, <1>3

\* A word that is rejected: the sentence has it, and the call that met it failed.
LEMMA BuildingFails ==
    ASSUME NEW s \in Seq(DOMAIN Words), NEW w \in DOMAIN Words, NEW t, t = Append(s, w),
           NEW Q, NEW S, Building(Q, S, s), ~Blank(S), Words[w].kind = "plain",
           NEW P, Len(P) \in Nat, Len(P) > 0, ~P[Len(P)].ok
    PROVE  Building(P, NewSentence, t)
<1>1. Len(s) > 0
  <2>1. Rejects(s) => Len(s) > 0
    BY RejectsAdded, BlankMeant
  <2>2. ~Rejects(s) => Len(s) > 0
    BY BlankMeant DEF Building
  <2> QED
    BY <2>1, <2>2
<1>2. Rejects(t)
  BY <1>1, RejectsAdded
<1> QED
  BY <1>2 DEF Building, NewSentence

----------------------------------------------------------------------------
\* What comes between two positions is the same in a longer sequence.
LEMMA BetweenStays ==
    ASSUME NEW R, NEW P, Len(R) \in Nat, Extends(R, P), NEW e \in 1..(Len(R) + 1), NEW b, NEW s,
           Between(s, R, b, e)
    PROVE  Between(s, P, b, e)
<1>1. /\ b \in 0..(e - 1) /\ (b = 0 \/ R[b] = 0)
      /\ s \in Seq(DOMAIN Words) /\ Len(s) = e - 1 - b
      /\ \A i \in 1..Len(s) : s[i] = R[b + i]
  BY DEF Between
<1>2. \A i \in 1..Len(R) : P[i] = R[i]
  BY DEF Extends
<1>3. b = 0 \/ P[b] = 0
  BY <1>1, <1>2
<1>4. ASSUME NEW i \in 1..Len(s) PROVE s[i] = P[b + i]
  <2>1. b + i \in 1..Len(R)
    BY <1>1
  <2> QED
    BY <1>1, <1>2, <2>1
<1> QED
  BY <1>1, <1>3, <1>4 DEF Between

\* A success keeps its sentence.
LEMMA StillMatches ==
    ASSUME NEW R, NEW P, Len(R) \in Nat, Len(P) \in Nat, Extends(R, P),
           NEW Q, NEW V, Len(Q) \in Nat, Extends(Q, V), NEW k \in 1..Len(Q), Matches(R, Q, k)
    PROVE  Matches(P, V, k)
<1>0. PICK e \in EndsIn(R, Len(R)) : \E b, s :
          /\ Between(s, R, b, e) /\ Fits(Q, k, s)
          /\ Cardinality(EndsIn(R, e)) = Cardinality(OkIn(Q, k))
  BY DEF Matches
<1>1. PICK b, s :
          /\ Between(s, R, b, e) /\ Fits(Q, k, s)
          /\ Cardinality(EndsIn(R, e)) = Cardinality(OkIn(Q, k))
  BY <1>0
<1>2. e \in 1..Len(R) /\ R[e] = 0
  BY DEF EndsIn
<1>3. e \in EndsIn(P, Len(P))
  BY <1>2 DEF EndsIn, Extends
<1>4. Between(s, P, b, e)
  BY <1>1, <1>2, BetweenStays
<1>5. V[k] = Q[k] /\ (k > 1 => V[k - 1] = Q[k - 1])
  <2>1. k > 1 => k - 1 \in 1..Len(Q)
    OBVIOUS
  <2>2. \A i \in 1..Len(Q) : V[i] = Q[i]
    BY DEF Extends
  <2> QED
    BY <2>1, <2>2
<1>6. Fits(V, k, s)
  BY <1>1, <1>5 DEF Fits
<1>7. EndsIn(P, e) = EndsIn(R, e) /\ OkIn(V, k) = OkIn(Q, k)
  BY <1>2, SameCounts
<1> QED
  BY <1>1, <1>3, <1>4, <1>6, <1>7 DEF Matches

\* A word that is read belongs to the sentence that is being read.
LEMMA BetweenGrows ==
    ASSUME NEW R \in Seq(Numbers), NEW w \in DOMAIN Words, w # 0, w \in Numbers,
           NEW b, NEW s, Between(s, R, b, Len(R) + 1), NEW P, P = Append(R, w)
    PROVE  Between(Append(s, w), P, b, Len(P) + 1)
<1> DEFINE t == Append(s, w)
<1>1. /\ b \in 0..Len(R) /\ (b = 0 \/ R[b] = 0) /\ Len(R) \in Nat
      /\ s \in Seq(DOMAIN Words) /\ Len(s) = Len(R) - b
      /\ \A i \in 1..Len(s) : s[i] = R[b + i]
  BY LenProperties DEF Between
<1>2. Len(P) = Len(R) + 1 /\ P[Len(R) + 1] = w /\ \A i \in 1..Len(R) : P[i] = R[i]
  BY AppendProperties
<1>3. /\ t \in Seq(DOMAIN Words) /\ Len(t) = Len(s) + 1 /\ t[Len(s) + 1] = w
      /\ Len(s) \in Nat /\ \A i \in 1..Len(s) : t[i] = s[i]
  <2>1. AddedTo(s, w, t)
    BY <1>1, Added
  <2> QED
    BY <2>1 DEF AddedTo
<1> HIDE DEF t
<1>4. b \in 0..(Len(P) + 1 - 1) /\ (b = 0 \/ P[b] = 0) /\ Len(t) = Len(P) + 1 - 1 - b
  BY <1>1, <1>2, <1>3
<1>5. ASSUME NEW i \in 1..Len(t) PROVE t[i] = P[b + i]
  <2>1. CASE i = Len(s) + 1
    BY <1>1, <1>2, <1>3, <2>1
  <2>2. CASE i # Len(s) + 1
    <3>1. i \in 1..Len(s) /\ b + i \in 1..Len(R)
      <4>1. /\ Len(s) \in Nat /\ Len(R) \in Nat /\ b \in Nat /\ Len(s) = Len(R) - b
            /\ i \in 1..(Len(s) + 1)
        BY <1>1, <1>3
      <4> QED
        BY <2>2, <4>1
    <3> QED
      BY <1>1, <1>2, <1>3, <3>1
  <2> QED
    BY <2>1, <2>2
<1>6. Between(t, P, b, Len(P) + 1)
  <2> DEFINE e == Len(P) + 1
  <2>1. b \in 0..(e - 1) /\ (b = 0 \/ P[b] = 0) /\ Len(t) = e - 1 - b
    BY <1>4
  <2> HIDE DEF e
  <2>2. Between(t, P, b, e)
    BY <1>3, <1>5, <2>1 DEF Between
  <2> QED
    BY <2>2 DEF e
<1> QED
  BY <1>6 DEF t

\* A word read and taken, a word rejected, and the end of a sentence keep sentences apart.
LEMMA ApartTaken ==
    ASSUME NEW R \in Seq(Numbers), NEW Q \in Seq(Result), NEW S \in Sentences, Apart(R, Q, S),
           NEW w \in DOMAIN Words, w # 0, w \in Numbers, NEW N, Taken(S, w, N)
    PROVE  Apart(Append(R, w), Q, N)
<1> DEFINE P == Append(R, w)
<1>1. /\ Extends(R, P) /\ Len(R) \in Nat /\ Len(P) \in Nat
      /\ Cardinality(EndsIn(P, Len(P))) = Cardinality(EndsIn(R, Len(R)))
  <2>1. /\ Extends(R, P) /\ Len(R) \in Nat /\ Len(P) = Len(R) + 1
        /\ Cardinality(EndsIn(P, Len(P))) = Cardinality(EndsIn(R, Len(R)))
    BY OneMoreWord
  <2> QED
    BY <2>1
<1>2. Len(Q) \in Nat /\ Extends(Q, Q)
  BY LenProperties DEF Extends
<1>3. PICK b, s : Between(s, R, b, Len(R) + 1) /\ Building(Q, S, s)
  BY DEF Apart
<1>4. Between(Append(s, w), P, b, Len(P) + 1)
  BY <1>3, BetweenGrows
<1>5. s \in Seq(DOMAIN Words)
  BY <1>3 DEF Between
<1>6. Building(Q, N, Append(s, w))
  BY <1>3, <1>5, BuildingOn
<1>7. ASSUME NEW k \in OkIn(Q, Len(Q)) PROVE Matches(P, Q, k)
  <2>1. k \in 1..Len(Q) /\ Matches(R, Q, k)
    BY DEF OkIn, Apart
  <2> HIDE DEF P
  <2> QED
    BY <1>1, <1>2, <2>1, StillMatches
<1> HIDE DEF P
<1>8. Cardinality(EndsIn(P, Len(P))) = Cardinality(OkIn(Q, Len(Q)))
  BY <1>1 DEF Apart
<1>9. Apart(P, Q, N)
  BY <1>4, <1>6, <1>7, <1>8 DEF Apart
<1> QED
  BY <1>9 DEF P

\* A rejected word in it: the error is returned, and the sentence goes on with nothing read.
LEMMA ApartFails ==
    ASSUME NEW R \in Seq(Numbers), NEW Q \in Seq(Result), NEW S \in Sentences, Apart(R, Q, S),
           NEW w \in DOMAIN Words, w # 0, w \in Numbers, ~Blank(S), Words[w].kind = "plain",
           NEW x \in Result, ~x.ok
    PROVE  Apart(Append(R, w), Append(Q, x), NewSentence)
<1> DEFINE P == Append(R, w)
           V == Append(Q, x)
<1>1. /\ Extends(R, P) /\ Len(R) \in Nat /\ Len(P) \in Nat
      /\ Cardinality(EndsIn(P, Len(P))) = Cardinality(EndsIn(R, Len(R)))
  <2>1. /\ Extends(R, P) /\ Len(R) \in Nat /\ Len(P) = Len(R) + 1
        /\ Cardinality(EndsIn(P, Len(P))) = Cardinality(EndsIn(R, Len(R)))
    BY OneMoreWord
  <2> QED
    BY <2>1
<1>2. /\ Len(Q) \in Nat /\ Extends(Q, V) /\ Len(V) = Len(Q) + 1 /\ V[Len(V)] = x
      /\ Cardinality(OkIn(V, Len(V))) = Cardinality(OkIn(Q, Len(Q)))
      /\ OkIn(V, Len(V)) = OkIn(Q, Len(Q))
  BY OneMoreResult
<1>3. PICK b, s : Between(s, R, b, Len(R) + 1) /\ Building(Q, S, s)
  BY DEF Apart
<1>4. Between(Append(s, w), P, b, Len(P) + 1)
  BY <1>3, BetweenGrows
<1>5. s \in Seq(DOMAIN Words)
  BY <1>3 DEF Between
<1> HIDE DEF P, V
<1>6. Building(V, NewSentence, Append(s, w))
  <2>1. Len(V) \in Nat /\ Len(V) > 0 /\ ~V[Len(V)].ok
    BY <1>2
  <2> QED
    BY <1>3, <1>5, <2>1, BuildingFails
<1>7. ASSUME NEW k \in OkIn(V, Len(V)) PROVE Matches(P, V, k)
  <2>1. k \in 1..Len(Q) /\ Matches(R, Q, k)
    BY <1>2 DEF OkIn, Apart
  <2> QED
    BY <1>1, <1>2, <2>1, StillMatches
<1>8. Cardinality(EndsIn(P, Len(P))) = Cardinality(OkIn(V, Len(V)))
  BY <1>1, <1>2 DEF Apart
<1>9. Apart(P, V, NewSentence)
  BY <1>4, <1>6, <1>7, <1>8 DEF Apart
<1> QED
  BY <1>9 DEF P, V

\* The end of a sentence: what was read of it is returned.
LEMMA ApartEnds ==
    ASSUME NEW R \in Seq(Numbers), NEW Q \in Seq(Result), NEW S \in Sentences, Apart(R, Q, S),
           NEW x \in Result, x.ok, x.sen = S
    PROVE  Apart(Append(R, 0), Append(Q, x), NewSentence)
<1> DEFINE P == Append(R, 0)
           V == Append(Q, x)
<1>1. /\ Extends(R, P) /\ Len(R) \in Nat /\ Len(P) = Len(R) + 1 /\ P[Len(P)] = 0
      /\ Cardinality(EndsIn(P, Len(P))) = Cardinality(EndsIn(R, Len(R))) + 1
      /\ Len(P) \in EndsIn(P, Len(P))
  BY OneMoreWord, EmptyWord
<1>2. /\ Len(Q) \in Nat /\ Extends(Q, V) /\ Len(V) = Len(Q) + 1 /\ V[Len(V)] = x
      /\ Cardinality(OkIn(V, Len(V))) = Cardinality(OkIn(Q, Len(Q))) + 1
      /\ OkIn(V, Len(V)) = OkIn(Q, Len(Q)) \cup {Len(V)}
  BY OneMoreResult
<1>3. PICK b, s : Between(s, R, b, Len(R) + 1) /\ Building(Q, S, s)
  BY DEF Apart
<1> HIDE DEF P, V
<1>4. Cardinality(EndsIn(P, Len(P))) = Cardinality(OkIn(V, Len(V)))
  BY <1>1, <1>2 DEF Apart
<1>5. Between(s, P, b, Len(P))
  BY <1>1, <1>3, BetweenStays
<1>6. Fits(V, Len(V), s)
  <2>1. Len(V) > 1 => V[Len(V) - 1] = Q[Len(Q)] /\ Len(Q) > 0
    BY <1>2 DEF Extends
  <2>2. Len(Q) > 0 => Len(V) > 1
    BY <1>2
  <2> QED
    BY <1>2, <1>3, <2>1, <2>2 DEF Fits, Building
<1>7. Matches(P, V, Len(V))
  BY <1>1, <1>4, <1>5, <1>6 DEF Matches
<1>8. ASSUME NEW k \in OkIn(V, Len(V)) PROVE Matches(P, V, k)
  <2>1. CASE k = Len(V)
    BY <1>7, <2>1
  <2>2. CASE k # Len(V)
    <3>1. k \in OkIn(Q, Len(Q))
      BY <1>2, <2>2
    <3>2. k \in 1..Len(Q) /\ Matches(R, Q, k)
      BY <3>1 DEF OkIn, Apart
    <3>3. Len(P) \in Nat
      BY <1>1
    <3> QED
      BY <1>1, <1>2, <3>2, <3>3, StillMatches
  <2> QED
    BY <2>1, <2>2
<1>9. Between(<<>>, P, Len(P), Len(P) + 1) /\ Building(V, NewSentence, <<>>)
  <2>1. <<>> \in Seq(DOMAIN Words) /\ Len(<<>>) = 0
    BY EmptySeq
  <2>2. /\ Len(P) \in 0..(Len(P) + 1 - 1) /\ 0 = Len(P) + 1 - 1 - Len(P)
        /\ 1..0 = {} /\ 2..0 = {}
    BY <1>1
  <2>3. Between(<<>>, P, Len(P), Len(P) + 1)
    BY <1>1, <2>1, <2>2 DEF Between
  <2>4. ~Rejects(<<>>)
    BY <2>1, <2>2 DEF Rejects
  <2>5. Meant(<<>>) = NewSentence
    <3>1. OfKind(<<>>, "tag") = {} /\ OfKind(<<>>, "pair") = {}
      BY <2>1, <2>2 DEF OfKind
    <3>2. LastOfKey(<<>>, {}) = {}
      BY DEF LastOfKey
    <3> QED
      BY <3>1, <3>2 DEF Meant, NewSentence
  <2> QED
    BY <1>2, <2>3, <2>4, <2>5 DEF Building
<1>10. Apart(P, V, NewSentence)
  BY <1>4, <1>8, <1>9 DEF Apart
<1> QED
  BY <1>10 DEF P, V

\* Every step of the protocol keeps sentences apart.
LEMMA ApartInit == Init => Apart(read, returned, sen)
<1> SUFFICES ASSUME Init PROVE Apart(read, returned, sen)
  OBVIOUS
<1>1. read = <<>> /\ returned = <<>> /\ sen = NewSentence
  BY DEF Init
<1>2. Len(<<>>) = 0 /\ <<>> \in Seq(DOMAIN Words) /\ 1..0 = {} /\ 2..0 = {}
  BY EmptySeq
<1>3. EndsIn(<<>>, 0) = {} /\ OkIn(<<>>, 0) = {}
  BY <1>2 DEF EndsIn, OkIn
<1>4. Between(<<>>, <<>>, 0, 1)
  BY <1>2 DEF Between
<1>5. Building(<<>>, NewSentence, <<>>)
  <2>1. ~Rejects(<<>>) /\ OfKind(<<>>, "tag") = {} /\ OfKind(<<>>, "pair") = {}
    BY <1>2 DEF Rejects, OfKind
  <2>2. LastOfKey(<<>>, {}) = {}
    BY DEF LastOfKey
  <2>3. Meant(<<>>) = NewSentence
    BY <2>1, <2>2 DEF Meant, NewSentence
  <2> QED
    BY <1>2, <2>1, <2>3 DEF Building
<1>6. Between(<<>>, <<>>, 0, Len(<<>>) + 1)
  BY <1>2, <1>4
<1>7. EndsIn(<<>>, Len(<<>>)) = {} /\ OkIn(<<>>, Len(<<>>)) = {}
  BY <1>2, <1>3
<1>8. Apart(<<>>, <<>>, NewSentence)
  <2>1. Cardinality(EndsIn(<<>>, Len(<<>>))) = Cardinality(OkIn(<<>>, Len(<<>>)))
    BY <1>7
  <2>2. \A k \in OkIn(<<>>, Len(<<>>)) : Matches(<<>>, <<>>, k)
    BY <1>7
  <2>3. \E b, s : Between(s, <<>>, b, Len(<<>>) + 1) /\ Building(<<>>, NewSentence, s)
    BY <1>5, <1>6
  <2> QED
    BY <2>1, <2>2, <2>3 DEF Apart
<1> QED
  BY <1>1, <1>8

\* Each way ReadSentence takes a word is one of these.
LEMMA ApartTakes ==
    ASSUME Typed, Apart(read, returned, sen), NEW w \in Numbers,
           read' = Append(read, w), Takes(w)
    PROVE  Apart(read', returned', sen')
<1>1. read \in Seq(Numbers) /\ returned \in Seq(Result) /\ sen \in Sentences
  BY DEF Typed, Result
<1>2. w # 0 => w \in DOMAIN Words
  BY Lengths
<1>3. NewSentence \in Sentences
  BY DEF NewSentence, Sentences, Values, Texts
<1>4. CASE w = 0 /\ Returns([ok |-> TRUE, sen |-> sen])
  <2> DEFINE x == [ok |-> TRUE, sen |-> sen]
  <2>1. x \in Result /\ x.ok /\ x.sen = sen
    BY <1>1 DEF Result
  <2> HIDE DEF x
  <2>2. Apart(Append(read, 0), Append(returned, x), NewSentence)
    BY <1>1, <2>1, ApartEnds
  <2>3. read' = Append(read, 0) /\ returned' = Append(returned, x) /\ sen' = NewSentence
    BY <1>4 DEF Returns, FreshSentence, x
  <2> QED
    BY <2>2, <2>3
<1>5. CASE w # 0 /\ returned' = returned /\ Taken(sen, w, sen')
  BY <1>1, <1>2, <1>5, ApartTaken
<1>6. CASE /\ w # 0 /\ ~Blank(sen) /\ Words[w].kind = "plain"
           /\ Returns([ok |-> FALSE, sen |-> NewSentence])
  <2> DEFINE x == [ok |-> FALSE, sen |-> NewSentence]
  <2>1. x \in Result /\ ~x.ok
    BY <1>3 DEF Result
  <2> HIDE DEF x
  <2>2. Apart(Append(read, w), Append(returned, x), NewSentence)
    BY <1>1, <1>2, <1>6, <2>1, ApartFails
  <2>3. returned' = Append(returned, x) /\ sen' = NewSentence
    BY <1>6 DEF Returns, FreshSentence, x
  <2> QED
    BY <2>2, <2>3
<1> QED
  BY <1>4, <1>5, <1>6 DEF Takes, Taken, Blank, PairOf

\* The other actions leave what was read and returned alone.
LEMMA ApartNext ==
    ASSUME WireInv, Apart(read, returned, sen), [Next]_vars
    PROVE  Apart(read', returned', sen')
<1>1. CASE ReadWord
  <2>1. Typed /\ StreamInv
    BY DEF WireInv
  <2>2. PICK w \in Numbers : read' = Append(read, w) /\ Takes(w)
    BY <1>1, <2>1, ReadWordStream
  <2> QED
    BY <2>1, <2>2, ApartTakes
<1>2. CASE UNCHANGED <<read, returned, sen>>
  BY <1>2
<1>3. ReadWord \/ UNCHANGED <<read, returned, sen>>
  <2>1. EndSentence => UNCHANGED <<read, returned, sen>>
    BY DEF EndSentence
  <2>2. \A w \in Numbers : WriteWord(w) => UNCHANGED <<read, returned, sen>>
    BY DEF WriteWord
  <2>3. Deliver \/ Break \/ ReadLength \/ UNCHANGED vars => UNCHANGED <<read, returned, sen>>
    BY DEF Deliver, Break, ReadLength, vars
  <2> QED
    BY <2>1, <2>2, <2>3 DEF Next
<1> QED
  BY <1>1, <1>2, <1>3

\* The n-th sentence that was ended is what stands before the n-th end.
LEMMA NthEnded ==
    ASSUME written \in Seq(Numbers), NEW e \in Ended, NEW b, NEW s, Between(s, written, b, e)
    PROVE  Nth(Cardinality(EndsIn(written, e))) = s
<1> DEFINE n == Cardinality(EndsIn(written, e))
<1>1. /\ Len(written) \in Nat /\ DOMAIN written = 1..Len(written)
      /\ e \in 1..Len(written) /\ written[e] = 0
  BY LenProperties DEF Ended
<1>2. ASSUME NEW i \in Ended
      PROVE  i \in 1..Len(written) /\ written[i] = 0 /\ {j \in Ended : j <= i} = EndsIn(written, i)
  <2>1. i \in 1..Len(written) /\ written[i] = 0
    BY <1>1 DEF Ended
  <2>2. \A j : j \in Ended /\ j <= i <=> j \in EndsIn(written, i)
    BY <1>1, <2>1 DEF Ended, EndsIn
  <2> QED
    BY <2>1, <2>2
<1>3. ASSUME NEW i \in Ended, NEW j \in Ended, i < j
      PROVE  Cardinality(EndsIn(written, i)) # Cardinality(EndsIn(written, j))
  <2>1. i \in 1..Len(written) /\ j \in 1..Len(written) /\ written[j] = 0
    BY <1>2
  <2>2. EndsIn(written, i) \subseteq EndsIn(written, j)
    BY <1>1, <1>3, <2>1 DEF EndsIn
  <2>3. j \in EndsIn(written, j) /\ j \notin EndsIn(written, i)
    BY <1>1, <1>3, <2>1 DEF EndsIn
  <2>4. IsFiniteSet(EndsIn(written, j))
    BY <1>1, <2>1, Finite
  <2> QED
    BY <2>2, <2>3, <2>4, FS_Subset
<1>4. (CHOOSE i \in Ended : Cardinality({j \in Ended : j <= i}) = n) = e
  <2>1. ASSUME NEW i \in Ended
        PROVE  Cardinality({j \in Ended : j <= i}) = n <=> i = e
    <3>1. {j \in Ended : j <= i} = EndsIn(written, i) /\ i \in 1..Len(written)
      BY <1>2
    <3>2. i = e \/ i < e \/ e < i
      BY <1>1, <3>1
    <3>3. i = e \/ Cardinality(EndsIn(written, i)) # n
      BY <1>3, <3>2
    <3> QED
      BY <3>1, <3>3
  <2> HIDE DEF n
  <2> QED
    BY <2>1
<1>5. /\ b \in 0..(e - 1) /\ (b = 0 \/ written[b] = 0)
      /\ s \in Seq(DOMAIN Words) /\ Len(s) = e - 1 - b
      /\ \A i \in 1..Len(s) : s[i] = written[b + i]
  BY DEF Between
<1>6. ASSUME NEW i \in (b + 1)..(e - 1) PROVE written[i] # 0
  <2>1. i - b \in 1..Len(s) /\ b + (i - b) = i
    BY <1>1, <1>5
  <2>2. s[i - b] \in DOMAIN Words
    BY <1>5, <2>1, ElementOfSeq
  <2>3. 0 \notin DOMAIN Words
    BY WordsAssumption, LenProperties
  <2> QED
    BY <1>5, <2>1, <2>2, <2>3
<1> DEFINE Begins(a) == /\ a = 0 \/ written[a] = 0
                        /\ \A i \in (a + 1)..(e - 1) : written[i] # 0
<1>7. (CHOOSE a \in 0..(e - 1) : Begins(a)) = b
  <2>1. Begins(b)
    BY <1>5, <1>6
  <2>2. ASSUME NEW a \in 0..(e - 1), Begins(a), a # b PROVE FALSE
    <3>1. a \in Int /\ b \in Int /\ e \in Int
      BY <1>1, <1>5
    <3>2. CASE a < b
      <4>1. b \in (a + 1)..(e - 1) /\ b # 0
        BY <1>5, <3>1, <3>2, <2>2
      <4> QED
        BY <1>5, <2>2, <4>1
    <3>3. CASE b < a
      <4>1. a \in (b + 1)..(e - 1) /\ a # 0
        BY <1>5, <3>1, <3>3, <2>2
      <4> QED
        BY <1>6, <2>2, <4>1
    <3> QED
      BY <2>2, <3>1, <3>2, <3>3
  <2> HIDE DEF Begins
  <2> QED
    BY <1>5, <2>1, <2>2
<1>8. SubSeq(written, b + 1, e - 1) = s
  <2> DEFINE t == SubSeq(written, b + 1, e - 1)
  <2>1. /\ t \in Seq(Numbers) /\ Len(t) = e - 1 - b
        /\ \A i \in 1..(e - 1 - b) : t[i] = written[b + i]
    <3>1. b + 1 \in 1..(Len(written) + 1) /\ e - 1 \in b..Len(written)
      BY <1>1, <1>5
    <3>2. /\ t \in Seq(Numbers)
          /\ Len(t) = IF b + 1 <= e - 1 THEN (e - 1) - (b + 1) + 1 ELSE 0
          /\ \A i \in 1..((e - 1) - (b + 1) + 1) : t[i] = written[(b + 1) + i - 1]
      BY <1>1, <1>5, <3>1, SubSeqProperties
    <3>3. e - 1 - b \in Nat /\ Len(t) = e - 1 - b
      BY <1>1, <1>5, <3>2
    <3>4. ASSUME NEW i \in 1..(e - 1 - b) PROVE t[i] = written[b + i]
      <4>1. i \in 1..((e - 1) - (b + 1) + 1) /\ (b + 1) + i - 1 = b + i
        BY <1>1, <1>5
      <4> QED
        BY <3>2, <4>1
    <3> QED
      BY <3>2, <3>3, <3>4
  <2> HIDE DEF t
  <2>2. \A i \in 1..Len(t) : t[i] = s[i]
    BY <1>5, <2>1
  <2>3. t = s
    BY <1>5, <2>1, <2>2, SeqEqual
  <2> QED
    BY <2>3 DEF t
<1> HIDE DEF n
<1>9. Nth(n) = SubSeq(written, b + 1, e - 1)
  BY <1>4, <1>7 DEF Nth
<1> QED
  BY <1>8, <1>9 DEF n

\* ReadSentence never mixes two sentences, whatever the words are and however many of them it
\* rejects: the n-th sentence it returns without an error is made of the words between the
\* (n - 1)-th and the n-th end that the writer wrote.
THEOREM SentencesStayApart == Spec => []SentencesApart
<1>1. ASSUME WireInv, Apart(read, returned, sen) PROVE SentencesApart
  <2>1. /\ written \in Seq(Numbers) /\ read \in Seq(Numbers) /\ returned \in Seq(Result)
    BY <1>1 DEF WireInv, Typed, Result
  <2>2. /\ Len(written) \in Nat /\ DOMAIN written = 1..Len(written) /\ Len(read) \in Nat
        /\ Len(returned) \in Nat /\ DOMAIN returned = 1..Len(returned)
    BY <2>1, LenProperties
  <2>3. Extends(read, written)
    <3>1. PICK T, c, n, r : Cut(written, T, c, n) /\ Reader(T, c, n, r)
      BY <1>1 DEF WireInv, StreamInv
    <3>2. Len(read) \in 0..n /\ n \in Nat /\ n <= Len(written)
      BY <1>1, <3>1, Where DEF WireInv
    <3> QED
      BY <1>1, <2>2, <3>2 DEF WireInv, StreamInv, Extends
  <2>4. Successes = OkIn(returned, Len(returned))
    BY <2>2 DEF Successes, OkIn
  <2> SUFFICES ASSUME NEW k \in Successes
               PROVE  LET s == Nth(Cardinality({j \in Successes : j <= k}))
                      IN /\ ~Rejects(s) => /\ returned[k].sen = Meant(s)
                                           /\ k > 1 => returned[k - 1].ok
                         /\ Rejects(s) =>
                              /\ k > 1 /\ ~returned[k - 1].ok
                              /\ returned[k].sen.map \subseteq
                                     {PairOf(s[i]) : i \in OfKind(s, "pair")}
    BY DEF SentencesApart
  <2>5. k \in 1..Len(returned) /\ Matches(read, returned, k)
    BY <1>1, <2>4 DEF Apart, OkIn
  <2>6. {j \in Successes : j <= k} = OkIn(returned, k)
    <3>1. \A j : j \in Successes /\ j <= k <=> j \in OkIn(returned, k)
      BY <2>2, <2>4, <2>5 DEF OkIn
    <3> QED
      BY <3>1
  <2>11. PICK e \in EndsIn(read, Len(read)) : \E b, s :
             /\ Between(s, read, b, e) /\ Fits(returned, k, s)
             /\ Cardinality(EndsIn(read, e)) = Cardinality(OkIn(returned, k))
    BY <2>5 DEF Matches
  <2>7. PICK b, s :
            /\ Between(s, read, b, e) /\ Fits(returned, k, s)
            /\ Cardinality(EndsIn(read, e)) = Cardinality(OkIn(returned, k))
    BY <2>11
  <2>8. e \in 1..Len(read) /\ e \in 1..Len(written) /\ written[e] = 0
    BY <2>2, <2>3, <2>7 DEF EndsIn, Extends
  <2>9. e \in Ended /\ Between(s, written, b, e) /\ EndsIn(written, e) = EndsIn(read, e)
    BY <2>2, <2>3, <2>7, <2>8, BetweenStays, SameCounts DEF Ended
  <2>10. Nth(Cardinality({j \in Successes : j <= k})) = s
    BY <2>1, <2>6, <2>7, <2>9, NthEnded
  <2> QED
    BY <2>7, <2>10 DEF Fits, PairsOf
<1>2. Init => WireInv /\ Apart(read, returned, sen)
  BY WireInit, ApartInit
<1>3. (WireInv /\ Apart(read, returned, sen)) /\ [Next]_vars
         => (WireInv /\ Apart(read, returned, sen))'
  BY WireNext, ApartNext
<1> QED
  BY <1>1, <1>2, <1>3, PTL DEF Spec

=============================================================================
