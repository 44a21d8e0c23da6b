----------------------------- MODULE WireFormat -----------------------------
(***************************************************************************)
(* Words and sentences on the wire (routeros/proto/writer.go, reader.go).  *)
(* The writer puts a length of one to five bytes before each word, buffers,*)
(* and flushes at the end of a sentence, an empty word.  The reader takes  *)
(* as many bytes as the first one asks for, then the word, and puts words  *)
(* together to sentences.  The bytes of a word are one item here, its      *)
(* number plus 256.                                                        *)
(***************************************************************************)
EXTENDS Integers, Sequences, FiniteSets

CONSTANTS
    Words,     \* the words that are written; word number 0 is the empty word
    MaxWords   \* bound of the model: words written

\* A word is .tag=value, =key=value or something else, "plain".  Lengths fit into 32 bits; the
\* code writes no longer ones.  "text" is what Windows-1250 makes of its bytes, one character
\* of each, and "read" the value in it: what WriteWord was given only if that is ASCII.
ASSUME WordsAssumption ==
    /\ Words \in Seq({Words[w] : w \in DOMAIN Words})
    /\ \A w \in DOMAIN Words :
           /\ Words[w].len \in Nat \ {0} /\ Words[w].len \div 65536 < 65536
           /\ Words[w].kind \in {"plain", "tag", "pair"}
ASSUME TextsAssumption == \A w \in DOMAIN Words : Words[w].text # ""
ASSUME MaxWordsAssumption == MaxWords \in Nat

VARIABLES
    written,   \* history: the words written
    buffered,  \* items in the bufio.Writer
    net,       \* items sent and not received
    arrived,   \* items in the bufio.Reader
    link,      \* "up" or "down"
    werr,      \* writer.err is set
    pending,   \* the length readWord has read, -1 before
    read,      \* history: the words read
    sen,       \* the sentence ReadSentence puts together
    returned   \* what its calls returned

writer == <<written, buffered, werr>>
vars == <<written, buffered, net, arrived, link, werr, pending, read, sen, returned>>

Byte == 0..255
Numbers == 0..Len(Words)
LengthOf(w) == IF w = 0 THEN 0 ELSE Words[w].len
Body(w) == IF w = 0 THEN <<>> ELSE <<256 + w>>

----------------------------------------------------------------------------
\* encodeLength.  x | 0x80 on a byte below 0x80 adds 0x80, likewise for the others.
Shr8(l) == l \div 256
Shr16(l) == l \div 65536
Shr24(l) == l \div 16777216
Low(l) == l % 256
EncodeOffByOne(l) ==                        \* mutant: <= in place of <
    CASE l <= 128                    -> <<Low(l)>>
      [] l > 128 /\ l < 16384        -> <<Shr8(l) + 128, Low(l)>>
      [] l >= 16384 /\ l < 2097152   -> <<Shr16(l) + 192, Low(Shr8(l)), Low(l)>>
      [] l >= 2097152 /\ l < 268435456 ->
             <<Shr24(l) + 224, Low(Shr16(l)), Low(Shr8(l)), Low(l)>>
      [] OTHER -> <<240, Low(Shr24(l)), Low(Shr16(l)), Low(Shr8(l)), Low(l)>>
EncodeLength(l) ==
    CASE l < 128                     -> <<Low(l)>>
      [] l >= 128 /\ l < 16384       -> <<Shr8(l) + 128, Low(l)>>
      [] l >= 16384 /\ l < 2097152   -> <<Shr16(l) + 192, Low(Shr8(l)), Low(l)>>
      [] l >= 2097152 /\ l < 268435456 ->
             <<Shr24(l) + 224, Low(Shr16(l)), Low(Shr8(l)), Low(l)>>
      [] OTHER -> <<240, Low(Shr24(l)), Low(Shr16(l)), Low(Shr8(l)), Low(l)>>

\* readLength: how many bytes follow the first one.  From 248 on no case applies.
Follow(b) ==
    CASE b < 128           -> 0
      [] b \in 128..191    -> 1
      [] b \in 192..223    -> 2
      [] b \in 224..239    -> 3
      [] b \in 240..247    -> 4
      [] b > 247           -> 0

\* The bits of the first byte that belong to the length, and the whole length.
KeptTop(b) ==                               \* mutant: only the top bit is masked out
    CASE b < 128 -> b [] b \in 128..239 -> b % 128 [] OTHER -> 0
Kept(b) ==
    CASE b \in 128..191    -> b % 64
      [] b \in 192..223    -> b % 32
      [] b \in 224..239    -> b % 16
      [] b \in 240..247    -> 0
      [] OTHER             -> b

DecodeLength(bs) ==
    LET k == Kept(bs[1]) IN
    CASE Len(bs) = 1 -> k
      [] Len(bs) = 2 -> k * 256 + bs[2]
      [] Len(bs) = 3 -> (k * 256 + bs[2]) * 256 + bs[3]
      [] Len(bs) = 4 -> ((k * 256 + bs[2]) * 256 + bs[3]) * 256 + bs[4]
      [] Len(bs) = 5 -> (((k * 256 + bs[2]) * 256 + bs[3]) * 256 + bs[4]) * 256 + bs[5]

----------------------------------------------------------------------------
\* Sentences: a word, a tag and a map as the set of its pairs.
NewSentence == [word |-> "", tag |-> "", map |-> {}]
NewSentenceKept == sen                      \* mutant: the last sentence is used again
FreshSentence == NewSentence

Items(s) == \A i \in DOMAIN s : s[i] \in Byte \cup {256 + w : w \in Numbers}

TypeOK ==
    /\ written \in Seq(Numbers) /\ Len(written) <= MaxWords
    /\ Items(buffered) /\ Items(net) /\ Items(arrived)
    /\ link \in {"up", "down"} /\ werr \in BOOLEAN
    /\ pending \in {LengthOf(w) : w \in Numbers} \cup {-1}
    /\ read \in Seq(Numbers)
    /\ Len(returned) <= Len(read)
    /\ \A p, q \in sen.map : p[1] = q[1] => p = q

Init ==
    /\ written = <<>> /\ buffered = <<>> /\ net = <<>> /\ arrived = <<>>
    /\ link = "up" /\ werr = FALSE
    /\ pending = -1 /\ read = <<>> /\ sen = NewSentence /\ returned = <<>>

----------------------------------------------------------------------------
\* WriteWord: after an error nothing is written any more.  A word longer than the buffer
\* pushes out what is before it and all but its own end, or all of it.
Encoded(w) == EncodeLength(LengthOf(w)) \o Body(w)
BufferSize == 4096

WriteWord(w) ==
    /\ Len(written) < MaxWords /\ w # 0
    /\ written' = Append(written, w)
    /\ LET all == buffered \o Encoded(w)
           n == Len(all)
       IN \/ werr /\ UNCHANGED <<buffered, net, werr>>
          \/ /\ ~werr /\ LengthOf(w) <= BufferSize
             /\ buffered' = all
             /\ UNCHANGED <<net, werr>>
          \/ /\ ~werr /\ LengthOf(w) > BufferSize
             /\ \E k \in {n - 1, n} :
                    /\ buffered' = SubSeq(all, k + 1, n)
                    /\ net' = IF link = "up" THEN net \o SubSeq(all, 1, k) ELSE net
             /\ werr' \in IF link = "up" THEN {FALSE} ELSE BOOLEAN
    /\ UNCHANGED <<arrived, link, pending, read, sen, returned>>

\* EndSentence: an empty word and a flush.  On a broken connection the flush fails, or the
\* bytes are lost without the writer noticing.
FlushedNever == net                         \* mutant: no flush
Flushed == net \o buffered \o Encoded(0)

EndSentence ==
    /\ Len(written) < MaxWords
    /\ written' = Append(written, 0)
    /\ buffered' = <<>>
    /\ \/ link = "up" /\ ~werr /\ net' = Flushed /\ UNCHANGED werr
       \/ link = "down" /\ ~werr /\ UNCHANGED <<net, werr>>
       \/ (link = "down" \/ werr) /\ werr' = TRUE /\ UNCHANGED net
    /\ UNCHANGED <<arrived, link, pending, read, sen, returned>>

\* The network delivers in order and may break off anywhere.
Deliver ==
    /\ net # <<>>
    /\ arrived' = Append(arrived, Head(net))
    /\ net' = Tail(net)
    /\ UNCHANGED <<writer, link, pending, read, sen, returned>>

Break ==
    /\ link = "up"
    /\ link' = "down"
    /\ net' = <<>>
    /\ UNCHANGED <<writer, arrived, pending, read, sen, returned>>

\* readWord: the length once all its bytes are there, then the word.
ReadLength ==
    /\ pending = -1 /\ arrived # <<>>
    /\ LET n == 1 + Follow(arrived[1]) IN
       /\ Len(arrived) >= n
       /\ pending' = DecodeLength(SubSeq(arrived, 1, n))
       /\ arrived' = SubSeq(arrived, n + 1, Len(arrived))
    /\ UNCHANGED <<writer, net, link, read, sen, returned>>

\* ReadSentence takes a word: the empty one ends the sentence, the first one names it, a pair
\* replaces an earlier one of its key, and any other is an error: the next call begins with
\* the words after it.
Returns(result) == returned' = Append(returned, result) /\ sen' = FreshSentence
Takes(w) ==
    \/ w = 0 /\ Returns([ok |-> TRUE, sen |-> sen])
    \/ /\ w # 0 /\ sen.word = ""
       /\ sen' = [sen EXCEPT !.word = Words[w].text] /\ UNCHANGED returned
    \/ /\ w # 0 /\ sen.word # "" /\ Words[w].kind = "tag"
       /\ sen' = [sen EXCEPT !.tag = Words[w].read] /\ UNCHANGED returned
    \/ /\ w # 0 /\ sen.word # "" /\ Words[w].kind = "pair"
       /\ sen' = [sen EXCEPT !.map = {p \in @ : p[1] # Words[w].key}
                                         \cup {<<Words[w].key, Words[w].read>>}]
       /\ UNCHANGED returned
    \/ /\ w # 0 /\ sen.word # "" /\ Words[w].kind = "plain"
       /\ Returns([ok |-> FALSE, sen |-> NewSentence])

\* The word that so many bytes are.  Were the length not its own, they would be no word.
NoWord == -1
WordHere ==
    IF arrived[1] \in {256 + w : w \in {v \in DOMAIN Words : LengthOf(v) = pending}}
    THEN arrived[1] - 256 ELSE NoWord

ReadWord ==
    /\ pending # -1
    /\ pending = 0 \/ arrived # <<>>
    /\ LET w == IF pending = 0 THEN 0 ELSE WordHere IN
       /\ read' = Append(read, w)
       /\ IF w = NoWord THEN UNCHANGED <<sen, returned>> ELSE Takes(w)
    /\ arrived' = IF pending = 0 THEN arrived ELSE Tail(arrived)
    /\ pending' = -1
    /\ UNCHANGED <<writer, net, link>>

Next ==
    \/ EndSentence \/ \E w \in Numbers : WriteWord(w)
    \/ Deliver \/ Break
    \/ ReadLength \/ ReadWord

Spec == Init /\ [][Next]_vars

\* The reader reads what is there, and a connection that stays up delivers.
FairSpec == Spec /\ WF_vars(Deliver) /\ WF_vars(ReadLength \/ ReadWord)

----------------------------------------------------------------------------
\* The reader returns the words that were written, in order, cut where the writer cut
\* them, wherever the connection breaks.
WordsIntact ==
    Len(read) <= Len(written) /\ \A i \in DOMAIN read : read[i] = written[i]

\* Every sentence that was ended is read to its end unless the connection breaks.
Ended == {i \in DOMAIN written : written[i] = 0}
SentencesArrive == <>[](link = "down" \/ \A i \in Ended : Len(read) >= i)

\* ReadSentence never mixes two sentences, not even after a word it rejects: its n-th success
\* is the n-th sentence that was ended, with its own word, its last tag and the last value of
\* each key, if it has no word to reject; else it is made of words of that sentence alone, and
\* errors come before it.
Nth(n) ==
    LET end == CHOOSE i \in Ended : Cardinality({j \in Ended : j <= i}) = n
        begin == CHOOSE b \in 0..(end - 1) : /\ b = 0 \/ written[b] = 0
                                             /\ \A i \in (b + 1)..(end - 1) : written[i] # 0
    IN SubSeq(written, begin + 1, end - 1)
Rejects(s) == \E i \in 2..Len(s) : Words[s[i]].kind = "plain"
PairOf(w) == <<Words[w].key, Words[w].read>>
Last(S) == CHOOSE i \in S : \A j \in S : j <= i
LastOfKey(s, I) == {i \in I : \A j \in I : Words[s[j]].key = Words[s[i]].key => j <= i}
OfKind(s, kind) == {i \in 2..Len(s) : Words[s[i]].kind = kind}
Meant(s) ==
    [word |-> IF s = <<>> THEN "" ELSE Words[s[1]].text,
     tag |-> IF OfKind(s, "tag") = {} THEN "" ELSE Words[s[Last(OfKind(s, "tag"))]].read,
     map |-> {PairOf(s[i]) : i \in LastOfKey(s, OfKind(s, "pair"))}]
Successes == {k \in DOMAIN returned : returned[k].ok}
SentencesApart ==
    \A k \in Successes :
        LET s == Nth(Cardinality({j \in Successes : j <= k})) IN
           /\ ~Rejects(s) => /\ returned[k].sen = Meant(s)
                             /\ k > 1 => returned[k - 1].ok
           /\ Rejects(s) =>
                  /\ k > 1 /\ ~returned[k - 1].ok
                  /\ returned[k].sen.map \subseteq {PairOf(s[i]) : i \in OfKind(s, "pair")}

=============================================================================
