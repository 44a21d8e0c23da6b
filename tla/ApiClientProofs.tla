-------------------------- MODULE ApiClientProofs --------------------------
(***************************************************************************)
(* Proofs about ApiClient: types for any reply words; and, for a device    *)
(* that knows only the documented ones, that the client stays in step with *)
(* it and keeps the promise of RequestReply, for any number of commands    *)
(* and any length of their replies.                                        *)
(***************************************************************************)
EXTENDS ApiClient, SequenceTheorems, TLAPS

\* The types that do not depend on how long a reply is.
Typed ==
    /\ pc \in {"idle", "read", "unsent"}
    /\ stage \in {"new", "challenge", "in", "failed", "closed"}
    /\ asked \in 0..MaxCommands
    /\ werr \in BOOLEAN /\ lastErr \in BOOLEAN
    /\ re \in Seq(Commands)
    /\ result.ok \in BOOLEAN /\ result.re \in Seq(Commands)
    /\ link \in {"up", "down"}
    /\ toDevice \in Seq(Commands) /\ fromDevice \in Seq(Sentences)
    /\ replying \in 0..MaxCommands /\ said \in 0..MaxSentences
    /\ sent \in Nat /\ refused \in BOOLEAN /\ authed \in BOOLEAN

----------------------------------------------------------------------------
\* A new client is well formed.
LEMMA InitTyped == Init => Typed
<1> SUFFICES ASSUME Init PROVE Typed
  OBVIOUS
<1>1. <<>> \in Seq(Commands) /\ <<>> \in Seq(Sentences)
  OBVIOUS
<1>2. 0 \in 0..MaxCommands /\ 0 \in 0..MaxSentences /\ 0 \in Nat
  BY BoundsAssumption
<1>3. Failure.ok \in BOOLEAN /\ Failure.re = <<>>
  BY DEF Failure
<1> QED
  BY <1>1, <1>2, <1>3, Zenon DEF Init, Typed

\* Run returns with rows of commands to any stage.
LEMMA ReturnTyped ==
    ASSUME Typed, NEW ok \in BOOLEAN, NEW rows \in Seq(Commands), NEW word,
           Return(ok, rows, word)
    PROVE  /\ pc' = "idle" /\ result'.ok \in BOOLEAN /\ result'.re \in Seq(Commands)
           /\ stage' \in {"new", "challenge", "in", "failed", "closed"}
BY DEF Return, AfterLogin, Typed

\* What readReply does with a sentence.
LEMMA ReadsTyped ==
    ASSUME Typed, NEW word \in Words, Reads(word)
    PROVE  /\ fromDevice' \in Seq(Sentences) /\ re' \in Seq(Commands) /\ lastErr' \in BOOLEAN
           /\ UNCHANGED <<asked, werr, link, toDevice, replying, said, sent, refused, authed>>
<1>1. fromDevice \in Seq(Sentences) /\ fromDevice # <<>> /\ re \in Seq(Commands)
  BY DEF Typed, Reads
<1>2. Head(fromDevice) \in Sentences /\ Tail(fromDevice) \in Seq(Sentences)
  BY <1>1
<1>3. Head(fromDevice).cmd \in Commands
  BY <1>2 DEF Sentences
<1>4. re' \in Seq(Commands)
  BY <1>1, <1>3 DEF Reads
<1> QED
  BY <1>2, <1>4 DEF Reads, Remembered, seen, device, Typed

\* The device says something about the command it answers.
LEMMA SaysTyped ==
    ASSUME Typed, NEW word \in Words, Says(word)
    PROVE  fromDevice' \in Seq(Sentences)
<1>1. replying \in Commands
  BY DEF Typed, Says, Commands
<1>2. [word |-> word, cmd |-> replying] \in Sentences
  BY <1>1 DEF Sentences
<1> QED
  BY <1>2 DEF Says, Typed

\* Every step keeps the types.
LEMMA StepTyped == Typed /\ [Next]_vars => Typed'
<1> SUFFICES ASSUME Typed, [Next]_vars PROVE Typed'
  OBVIOUS
<1> USE BoundsAssumption DEF client, reading, seen, device
<1> <<>> \in Seq(Commands) /\ <<>> \in Seq(Sentences)
  OBVIOUS
<1>1. CASE Send \/ WriteFails
  <2>1. Begins
    BY <1>1 DEF Send, WriteFails
  <2>2. asked < MaxCommands /\ asked' = asked + 1 /\ asked \in Nat
    BY <2>1 DEF Begins, Typed
  <2>3. asked' \in 0..MaxCommands /\ asked + 1 \in Commands /\ 0 \in Nat
    BY <2>2 DEF Commands
  <2>4. toDevice \in Seq(Commands) /\ Append(toDevice, asked + 1) \in Seq(Commands)
    BY <2>3, AppendProperties, Zenon DEF Typed
  <2>5. toDevice' \in Seq(Commands)
    BY <1>1, <2>4, Zenon DEF Send, WriteFails
  <2> QED
    BY <1>1, <2>1, <2>3, <2>5, Zenon DEF Send, WriteFails, Begins, NewReply, Typed
<1>2. CASE ReturnUnsent \/ ReadFails
  <2>1. Return(FALSE, <<>>, "")
    BY <1>2, Zenon DEF ReturnUnsent, ReadFails
  <2>2. /\ pc' = "idle" /\ result'.ok \in BOOLEAN /\ result'.re \in Seq(Commands)
        /\ stage' \in {"new", "challenge", "in", "failed", "closed"}
    BY <2>1, ReturnTyped, Zenon
  <2> QED
    BY <1>2, <2>2 DEF ReturnUnsent, ReadFails, Typed
<1>3. ASSUME NEW word \in Words, ReadMore(word) PROVE Typed'
  <2>1. Reads(word)
    BY <1>3 DEF ReadMore
  <2> QED
    BY <1>3, <2>1, ReadsTyped DEF ReadMore, Typed
<1>4. ASSUME NEW word \in Words, ReadLast(word) PROVE Typed'
  <2>1. Reads(word)
    BY <1>4 DEF ReadLast
  <2>2. PICK ok \in BOOLEAN, rows \in Seq(Commands) : Return(ok, rows, word)
    <3>1. Return(~Remembered(word), IF ~Remembered(word) THEN re ELSE <<>>, word)
      BY <1>4 DEF ReadLast
    <3>2. (~Remembered(word)) \in BOOLEAN
      BY Zenon DEF Remembered
    <3>3. (IF ~Remembered(word) THEN re ELSE <<>>) \in Seq(Commands)
      BY DEF Typed
    <3> QED
      BY <3>1, <3>2, <3>3, Zenon
  <2>3. /\ pc' = "idle" /\ result'.ok \in BOOLEAN /\ result'.re \in Seq(Commands)
        /\ stage' \in {"new", "challenge", "in", "failed", "closed"}
    BY <2>2, ReturnTyped
  <2> QED
    BY <2>1, <2>3, ReadsTyped DEF Typed
<1>5. CASE Close
  BY <1>5 DEF Close, Typed
<1>6. CASE NewClient
  <2>1. 0 \in 0..MaxCommands /\ 0 \in 0..MaxSentences /\ 0 \in Nat
    OBVIOUS
  <2>2. Failure.ok \in BOOLEAN /\ Failure.re = <<>>
    BY DEF Failure
  <2> QED
    BY <1>6, <2>1, <2>2, Zenon DEF NewClient, Typed
<1>7. CASE Take
  <2>1. Head(toDevice) \in Commands /\ Tail(toDevice) \in Seq(Commands)
    BY <1>7 DEF Take, Typed
  <2> QED
    BY <1>7, <2>1 DEF Take, Typed, Commands
<1>8. CASE SaysFatal
  <2>1. fromDevice' \in Seq(Sentences)
    BY <1>8, SaysTyped DEF SaysFatal, Words
  <2> QED
    BY <1>8, <2>1 DEF SaysFatal, Says, Typed
<1>9. CASE Break
  <2>1. PICK n \in 0..Len(fromDevice) : fromDevice' = SubSeq(fromDevice, 1, n)
    BY <1>9 DEF Break
  <2>2. fromDevice' \in Seq(Sentences)
    BY <2>1 DEF Typed
  <2> QED
    BY <1>9, <2>2 DEF Break, Typed
<1>10. ASSUME NEW word \in Words, SaysMore(word) PROVE Typed'
  <2>1. fromDevice' \in Seq(Sentences)
    BY <1>10, SaysTyped DEF SaysMore
  <2> QED
    BY <1>10, <2>1 DEF SaysMore, Says, Typed
<1>11. ASSUME NEW word \in Words, SaysLast(word) PROVE Typed'
  <2>1. fromDevice' \in Seq(Sentences)
    BY <1>11, SaysTyped DEF SaysLast
  <2> QED
    BY <1>11, <2>1 DEF SaysLast, Says, Typed
<1>12. CASE UNCHANGED vars
  BY <1>12 DEF vars, Typed
<1> QED
  BY <1>1, <1>2, <1>3, <1>4, <1>5, <1>6, <1>7, <1>8, <1>9, <1>10, <1>11, <1>12
     DEF Next, Step, Environment

\* Hence they hold in every state.
LEMMA AlwaysTyped == Spec => []Typed
BY InitTyped, StepTyped, PTL DEF Spec

----------------------------------------------------------------------------
\* Where the client and its caller are: how many commands a login has run, and that a write
\* fails only on a connection that is gone.
ClientInv ==
    /\ werr \/ pc = "unsent" \/ stage = "closed" => link = "down"
    /\ stage \in {"failed", "closed"} => pc = "idle"
    /\ stage = "new" => asked = IF pc = "idle" THEN 0 ELSE 1
    /\ stage = "challenge" => asked = IF pc = "idle" THEN 1 ELSE 2
    /\ pc # "idle" => asked # 0

\* The end of the reply is among the sentences not read yet.
Complete == fromDevice # <<>> /\ fromDevice[Len(fromDevice)].word \in Ends

\* Who has the command asked last: nobody any more, the network, the device, or it is answered.
Turn ==
    \/ pc = "idle" /\ toDevice = <<>> /\ replying = 0
    \/ /\ pc = "read" /\ toDevice = <<asked>> /\ replying = 0 /\ fromDevice = <<>>
       /\ re = <<>> /\ sent = 0 /\ ~refused /\ ~lastErr
    \/ pc = "read" /\ toDevice = <<>> /\ replying = asked /\ ~Complete
    \/ pc = "read" /\ toDevice = <<>> /\ replying = 0 /\ Complete

\* All that is on its way answers that command, and ends with the reply.
StreamInv ==
    /\ pc # "read" => fromDevice = <<>>
    /\ \A i \in 1..Len(fromDevice) :
           /\ fromDevice[i].cmd = asked
           /\ fromDevice[i].word \in Ends => i = Len(fromDevice)
           /\ fromDevice[i].word = "!ret" => asked = 1
    /\ link = "up" => Turn

\* Rows added up sentence by sentence, from those read to at most those the device sent.
One(sentence) == IF sentence.word = "!re" THEN 1 ELSE 0
Tally(c, from, start, total) ==
    /\ c \in [0..Len(from) -> Nat]
    /\ c[0] = start
    /\ \A i \in 1..Len(from) : c[i] = c[i - 1] + One(from[i])
    /\ \A i \in 0..Len(from) : c[i] <= total

\* Nothing the device said is lost unless the connection breaks before the end of the reply.
ReplyInv ==
    /\ \A i \in 1..Len(re) : re[i] = asked
    /\ Len(re) <= sent /\ sent <= said
    /\ pc = "read" => \E c : /\ Tally(c, fromDevice, Len(re), sent)
                             /\ link = "up" \/ Complete => c[Len(fromDevice)] = sent
    /\ pc = "read" /\ (link = "up" \/ Complete) =>
           (refused <=> lastErr \/ \E i \in 1..Len(fromDevice) : fromDevice[i].word = "!trap")

\* A login the device did not refuse was accepted when it said !done.
LoginInv ==
    /\ stage = "in" => authed
    /\ Complete /\ fromDevice[Len(fromDevice)].word = "!done" /\ ~refused => authed

Sync == ClientInv /\ StreamInv /\ ReplyInv /\ LoginInv

----------------------------------------------------------------------------
\* The tally when a sentence is read, is sent, or when the last ones are lost.
LEMMA TallyTail ==
    ASSUME NEW from \in Seq(Sentences), from # <<>>, NEW c, NEW start, NEW total \in Nat,
           Tally(c, from, start, total)
    PROVE  /\ c[1] = start + One(from[1]) /\ c[1] <= total
           /\ \E d : /\ Tally(d, Tail(from), c[1], total)
                     /\ d[Len(Tail(from))] = c[Len(from)]
<1> DEFINE n == Len(from)
<1> DEFINE d == [i \in 0..(n - 1) |-> c[i + 1]]
<1>1. n \in Nat \ {0} /\ Len(Tail(from)) = n - 1 /\ \A i \in 1..(n - 1) : Tail(from)[i] = from[i + 1]
  BY HeadTailProperties, EmptySeq, LenProperties
<1>2. /\ c \in [0..n -> Nat] /\ c[0] = start
      /\ \A i \in 1..n : c[i] = c[i - 1] + One(from[i])
      /\ \A i \in 0..n : c[i] <= total
  BY DEF Tally
<1>3. c[1] = start + One(from[1]) /\ c[1] <= total
  BY <1>1, <1>2
<1>4. d \in [0..(n - 1) -> Nat] /\ d[0] = c[1] /\ d[n - 1] = c[n]
  BY <1>1, <1>2
<1>5. \A i \in 1..(n - 1) : d[i] = d[i - 1] + One(Tail(from)[i])
  BY <1>1, <1>2
<1>6. \A i \in 0..(n - 1) : d[i] <= total
  BY <1>1, <1>2
<1>7. Tally(d, Tail(from), c[1], total)
  BY <1>1, <1>4, <1>5, <1>6 DEF Tally
<1> QED
  BY <1>1, <1>3, <1>4, <1>7

\* A sentence more counts one row more, or none.
LEMMA TallyAppend ==
    ASSUME NEW from \in Seq(Sentences), NEW s \in Sentences, NEW c, NEW start,
           NEW total \in Nat, NEW new \in Nat, new = total + One(s),
           Tally(c, from, start, total), c[Len(from)] = total
    PROVE  \E d : Tally(d, Append(from, s), start, new) /\ d[Len(Append(from, s))] = new
<1> DEFINE n == Len(from)
<1> DEFINE d == [i \in 0..(n + 1) |-> IF i = n + 1 THEN new ELSE c[i]]
<1>1. /\ n \in Nat /\ Len(Append(from, s)) = n + 1
      /\ \A i \in 1..n : Append(from, s)[i] = from[i]
      /\ Append(from, s)[n + 1] = s
  BY AppendProperties, LenProperties
<1>2. /\ c \in [0..n -> Nat] /\ c[0] = start
      /\ \A i \in 1..n : c[i] = c[i - 1] + One(from[i])
      /\ \A i \in 0..n : c[i] <= total
  BY DEF Tally
<1>3. total <= new
  BY DEF One
<1>4. d \in [0..(n + 1) -> Nat] /\ d[0] = start /\ d[n + 1] = new
  BY <1>1, <1>2
<1>5. \A i \in 1..(n + 1) : d[i] = d[i - 1] + One(Append(from, s)[i])
  <2> SUFFICES ASSUME NEW i \in 1..(n + 1) PROVE d[i] = d[i - 1] + One(Append(from, s)[i])
    OBVIOUS
  <2>1. CASE i = n + 1
    BY <1>1, <2>1
  <2>2. CASE i # n + 1
    BY <1>1, <1>2, <2>2
  <2> QED
    BY <2>1, <2>2
<1>6. \A i \in 0..(n + 1) : d[i] <= new
  <2> SUFFICES ASSUME NEW i \in 0..(n + 1) PROVE d[i] <= new
    OBVIOUS
  <2>1. CASE i = n + 1
    BY <1>1, <2>1
  <2>2. CASE i # n + 1
    <3>1. i \in 0..n /\ d[i] = c[i] /\ c[i] \in Nat /\ c[i] <= total
      BY <1>1, <1>2, <2>2
    <3> QED
      BY <1>3, <3>1
  <2> QED
    BY <2>1, <2>2
<1>7. Tally(d, Append(from, s), start, new)
  BY <1>1, <1>4, <1>5, <1>6 DEF Tally
<1> QED
  BY <1>1, <1>4, <1>7

\* The first sentences have the tally they had.
LEMMA TallyPrefix ==
    ASSUME NEW from \in Seq(Sentences), NEW n \in 0..Len(from), NEW c, NEW start, NEW total,
           Tally(c, from, start, total)
    PROVE  \E d : /\ Tally(d, SubSeq(from, 1, n), start, total)
                  /\ n = Len(from) => d[n] = c[Len(from)]
<1> DEFINE d == [i \in 0..n |-> c[i]]
<1>1. /\ Len(from) \in Nat /\ n \in Nat /\ Len(SubSeq(from, 1, n)) = n
      /\ \A i \in 1..n : SubSeq(from, 1, n)[i] = from[i]
  OBVIOUS
<1>2. /\ c \in [0..Len(from) -> Nat] /\ c[0] = start
      /\ \A i \in 1..Len(from) : c[i] = c[i - 1] + One(from[i])
      /\ \A i \in 0..Len(from) : c[i] <= total
  BY DEF Tally
<1>3. d \in [0..n -> Nat] /\ d[0] = start /\ d[n] = c[n]
  BY <1>1, <1>2
<1>4. \A i \in 1..n : d[i] = d[i - 1] + One(SubSeq(from, 1, n)[i])
  BY <1>1, <1>2
<1>5. \A i \in 0..n : d[i] <= total
  BY <1>1, <1>2
<1>6. Tally(d, SubSeq(from, 1, n), start, total)
  BY <1>1, <1>3, <1>4, <1>5 DEF Tally
<1> QED
  BY <1>3, <1>6

----------------------------------------------------------------------------
\* With the documented words only.
LEMMA Documented ==
    ASSUME Foreign = {}
    PROVE  /\ Ends = {"!done", "!ret", "!fatal"} /\ Errors = {"!trap", "!fatal"}
           /\ Words = {"!re", "!trap", "!empty", "!done", "!ret", "!fatal"}
BY DEF Ends, Errors, Words

\* A new command: the line is quiet, and it is the only one the device will see.
LEMMA BeginsSync ==
    ASSUME Foreign = {}, Typed, Sync, Send \/ WriteFails
    PROVE  Sync'
<1> USE DEF Sync
<1>1. /\ Begins /\ pc = "idle" /\ asked \in Nat /\ asked' = asked + 1
      /\ fromDevice = <<>> /\ fromDevice' = <<>> /\ Len(fromDevice') = 0
      /\ re' = <<>> /\ Len(re') = 0 /\ sent' = 0 /\ said' = said /\ said \in Nat
      /\ ~refused' /\ ~lastErr' /\ stage' = stage /\ link' = link /\ authed' = authed
      /\ replying' = replying /\ stage \in {"new", "challenge", "in"}
  BY BoundsAssumption DEF Send, WriteFails, Begins, NewReply, StreamInv, Typed
<1>2. ~Complete'
  BY <1>1 DEF Complete
<1>3. ClientInv'
  BY <1>1 DEF Send, WriteFails, ClientInv, Typed
<1>4. StreamInv'
  <2>1. link' = "up" => Turn'
    <3> SUFFICES ASSUME link' = "up" PROVE Turn'
      OBVIOUS
    <3>1. Send /\ toDevice = <<>> /\ replying = 0
      BY <1>1 DEF WriteFails, ClientInv, StreamInv, Turn
    <3>2. toDevice' = <<asked'>> /\ pc' = "read"
      BY <1>1, <3>1 DEF Send
    <3> QED
      BY <1>1, <3>1, <3>2 DEF Turn
  <2> QED
    BY <1>1, <2>1 DEF StreamInv
<1>5. ReplyInv'
  <2> DEFINE c == [i \in 0..0 |-> 0]
  <2>1. Tally(c, <<>>, 0, 0) /\ c[0] = 0
    BY DEF Tally
  <2>2. \E d : Tally(d, fromDevice', Len(re'), sent') /\ d[Len(fromDevice')] = sent'
    BY <1>1, <2>1
  <2> QED
    BY <1>1, <1>2, <2>2 DEF ReplyInv
<1>6. LoginInv'
  BY <1>1, <1>2 DEF LoginInv
<1> QED
  BY <1>3, <1>4, <1>5, <1>6

\* Run gives up on a connection that is gone.
LEMMA GivesUpSync ==
    ASSUME Foreign = {}, Typed, Sync, ReturnUnsent \/ ReadFails
    PROVE  Sync'
<1> USE DEF Sync
<1>1. /\ UNCHANGED <<asked, werr, re, lastErr, sent, refused, fromDevice, link, toDevice,
                     replying, said, authed>>
      /\ link = "down" /\ fromDevice = <<>> /\ pc # "idle"
      /\ Return(FALSE, <<>>, "")
  BY DEF ReturnUnsent, ReadFails, reading, seen, device, StreamInv, ClientInv
<1>2. pc' = "idle" /\ stage' \in {"in", "failed"} /\ (stage' = "in" => stage = "in")
  BY <1>1 DEF Return, AfterLogin
<1>3. ~Complete'
  BY <1>1 DEF Complete
<1>4. ClientInv'
  BY <1>1, <1>2 DEF ClientInv
<1>5. StreamInv'
  BY <1>1, <1>2 DEF StreamInv
<1>6. ReplyInv'
  BY <1>1, <1>2 DEF ReplyInv
<1>7. LoginInv'
  BY <1>1, <1>2, <1>3 DEF LoginInv
<1> QED
  BY <1>4, <1>5, <1>6, <1>7

\* Close, NewClient and what changes nothing.
LEMMA CloseSync ==
    ASSUME Foreign = {}, Typed, Sync, Close
    PROVE  Sync'
<1> USE DEF Sync
<1>1. /\ UNCHANGED <<pc, asked, werr, re, lastErr, sent, refused, fromDevice, toDevice,
                     replying, said, authed>>
      /\ link' = "down" /\ stage' = "closed" /\ pc = "idle" /\ fromDevice = <<>>
  BY DEF Close, reading, seen, StreamInv
<1>2. ~Complete'
  BY <1>1 DEF Complete
<1>3. ClientInv' /\ StreamInv' /\ LoginInv'
  BY <1>1, <1>2 DEF ClientInv, StreamInv, LoginInv
<1>4. ReplyInv'
  BY <1>1 DEF ReplyInv
<1> QED
  BY <1>3, <1>4

\* At first the line is quiet.
LEMMA InitSync == Init => Sync
<1> SUFFICES ASSUME Init PROVE Sync
  OBVIOUS
<1>1. Len(fromDevice) = 0 /\ Len(re) = 0 /\ fromDevice = <<>> /\ pc = "idle" /\ sent = 0 /\ said = 0
  BY DEF Init
<1>2. ~Complete
  BY <1>1 DEF Complete
<1>3. ClientInv /\ StreamInv /\ LoginInv
  BY <1>1, <1>2 DEF Init, ClientInv, StreamInv, Turn, LoginInv
<1>4. ReplyInv
  BY <1>1 DEF ReplyInv
<1> QED
  BY <1>3, <1>4 DEF Sync

\* So it is after NewClient, whatever happened on the connection before.
LEMMA NewClientSync ==
    ASSUME NewClient
    PROVE  Sync'
<1>1. /\ Len(fromDevice') = 0 /\ Len(re') = 0 /\ fromDevice' = <<>> /\ pc' = "idle"
      /\ sent' = 0 /\ said' = 0
  BY DEF NewClient
<1>2. ~Complete'
  BY <1>1 DEF Complete
<1>3. ClientInv' /\ StreamInv' /\ LoginInv'
  BY <1>1, <1>2 DEF NewClient, ClientInv, StreamInv, Turn, LoginInv
<1>4. ReplyInv'
  BY <1>1 DEF ReplyInv
<1> QED
  BY <1>3, <1>4 DEF Sync

\* readReply takes a sentence that does not end the reply.
LEMMA ReadMoreSync ==
    ASSUME Foreign = {}, Typed, Sync, NEW word \in Words, ReadMore(word)
    PROVE  Sync'
<1> USE DEF Sync
<1> DEFINE n == Len(fromDevice)
<1>1. /\ pc = "read" /\ pc' = "read" /\ fromDevice # <<>> /\ fromDevice' = Tail(fromDevice)
      /\ fromDevice[1].word = word /\ word \notin Ends
      /\ fromDevice \in Seq(Sentences) /\ re \in Seq(Commands) /\ sent \in Nat /\ said \in Nat
      /\ UNCHANGED <<stage, asked, werr, sent, refused, link, toDevice, replying, said, authed>>
  BY BoundsAssumption DEF ReadMore, Reads, Typed, seen, device
<1>2. /\ n \in Nat \ {0} /\ Len(fromDevice') = n - 1
      /\ \A i \in 1..(n - 1) : fromDevice'[i] = fromDevice[i + 1]
  BY <1>1, HeadTailProperties, EmptySeq, LenProperties
<1>3. fromDevice[1] \in Sentences /\ fromDevice[1].cmd = asked /\ asked \in Commands
  <2>1. 1 \in 1..n
    BY <1>2
  <2>2. fromDevice[1] \in Sentences
    BY <1>1, <2>1, ElementOfSeq, Zenon
  <2>3. fromDevice[1].cmd = asked
    BY <2>1, Zenon DEF StreamInv
  <2> QED
    BY <2>2, <2>3 DEF Sentences
<1>4. /\ Complete' <=> Complete
      /\ Complete' => fromDevice'[Len(fromDevice')] = fromDevice[n]
  <2>1. CASE n = 1
    <3>1. fromDevice' = <<>> /\ ~Complete
      BY <1>1, <1>2, <2>1 DEF Complete
    <3> QED
      BY <3>1 DEF Complete
  <2>2. CASE n # 1
    <3>1. n - 1 \in 1..(n - 1) /\ fromDevice' # <<>> /\ Len(fromDevice') = n - 1
      BY <1>2, <2>2
    <3>2. fromDevice'[n - 1] = fromDevice[n]
      BY <1>2, <3>1
    <3> QED
      BY <1>1, <3>1, <3>2, Zenon DEF Complete
  <2> QED
    BY <2>1, <2>2
<1>5. StreamInv'
  <2>1. \A i \in 1..Len(fromDevice') :
           /\ fromDevice'[i].cmd = asked'
           /\ fromDevice'[i].word \in Ends => i = Len(fromDevice')
           /\ fromDevice'[i].word = "!ret" => asked' = 1
    <3> SUFFICES ASSUME NEW i \in 1..Len(fromDevice')
                 PROVE  /\ fromDevice'[i].cmd = asked'
                        /\ fromDevice'[i].word \in Ends => i = Len(fromDevice')
                        /\ fromDevice'[i].word = "!ret" => asked' = 1
      OBVIOUS
    <3>1. i + 1 \in 1..n /\ fromDevice'[i] = fromDevice[i + 1] /\ i \in Nat
      BY <1>2
    <3>2. /\ fromDevice[i + 1].cmd = asked
          /\ fromDevice[i + 1].word \in Ends => i + 1 = n
          /\ fromDevice[i + 1].word = "!ret" => asked = 1
      BY <3>1, Zenon DEF StreamInv
    <3>3. i + 1 = n => i = Len(fromDevice')
      BY <1>2, <3>1
    <3>4. asked' = asked
      BY <1>1
    <3> QED
      BY <3>1, <3>2, <3>3, <3>4, Zenon
  <2>2. link' = "up" => Turn'
    BY <1>1, <1>4 DEF StreamInv, Turn
  <2> QED
    BY <1>1, <2>1, <2>2 DEF StreamInv
<1>6. /\ re' = IF word = "!re" THEN Append(re, asked) ELSE re
      /\ lastErr' <=> lastErr \/ word = "!trap"
  <2>1. word \in Errors <=> word = "!trap"
    BY <1>1, Documented
  <2>2. Head(fromDevice).cmd = asked
    BY <1>1, <1>3
  <2> QED
    BY <2>1, <2>2, Zenon DEF ReadMore, Reads, Remembered
<1>7. Len(re') = Len(re) + One(fromDevice[1]) /\ \A i \in 1..Len(re') : re'[i] = asked'
  BY <1>1, <1>3, <1>6 DEF One, ReplyInv
<1>8. PICK c : /\ Tally(c, fromDevice, Len(re), sent)
               /\ link = "up" \/ Complete => c[n] = sent
  BY <1>1 DEF ReplyInv
<1>9. /\ c[1] = Len(re') /\ c[1] <= sent
      /\ \E d : Tally(d, Tail(fromDevice), c[1], sent) /\ d[Len(Tail(fromDevice))] = c[n]
  BY <1>1, <1>7, <1>8, TallyTail
<1>10. \E d : /\ Tally(d, fromDevice', Len(re'), sent')
              /\ link' = "up" \/ Complete' => d[Len(fromDevice')] = sent'
  BY <1>1, <1>4, <1>8, <1>9
<1>11. (\E i \in 1..n : fromDevice[i].word = "!trap") <=>
           word = "!trap" \/ \E i \in 1..Len(fromDevice') : fromDevice'[i].word = "!trap"
  <2>1. ASSUME NEW i \in 1..n, fromDevice[i].word = "!trap"
        PROVE  word = "!trap" \/ \E j \in 1..Len(fromDevice') : fromDevice'[j].word = "!trap"
    <3>1. CASE i = 1
      BY <1>1, <2>1, <3>1
    <3>2. CASE i # 1
      <4>1. i - 1 \in 1..Len(fromDevice') /\ fromDevice'[i - 1] = fromDevice[i]
        BY <1>2, <3>2
      <4> QED
        BY <2>1, <4>1
    <3> QED
      BY <3>1, <3>2
  <2>2. ASSUME NEW j \in 1..Len(fromDevice'), fromDevice'[j].word = "!trap"
        PROVE  \E i \in 1..n : fromDevice[i].word = "!trap"
    <3>1. j + 1 \in 1..n /\ fromDevice'[j] = fromDevice[j + 1]
      BY <1>2
    <3> QED
      BY <2>2, <3>1
  <2>3. word = "!trap" => \E i \in 1..n : fromDevice[i].word = "!trap"
    BY <1>1, <1>2
  <2> QED
    BY <2>1, <2>2, <2>3
<1>12. ReplyInv'
  BY <1>1, <1>4, <1>6, <1>7, <1>9, <1>10, <1>11 DEF ReplyInv
<1>13. ClientInv' /\ LoginInv'
  BY <1>1, <1>4 DEF ClientInv, LoginInv
<1> QED
  BY <1>5, <1>12, <1>13

\* What is known when readReply takes the last sentence: it is the only one left.
LEMMA LastAlone ==
    ASSUME Foreign = {}, Typed, Sync, NEW word \in Words, ReadLast(word)
    PROVE  /\ pc = "read" /\ Len(fromDevice) = 1 /\ fromDevice[1].word = word /\ Complete
           /\ fromDevice' = <<>> /\ Len(fromDevice') = 0 /\ re' = re
           /\ word \in {"!done", "!ret", "!fatal"} /\ (word = "!ret" => asked = 1)
           /\ UNCHANGED <<asked, werr, sent, refused, link, toDevice, replying, said, authed>>
           /\ refused <=> lastErr
           /\ ~refused => Len(re) = sent
<1> USE DEF Sync
<1>1. /\ pc = "read" /\ fromDevice # <<>> /\ fromDevice' = Tail(fromDevice)
      /\ fromDevice[1].word = word /\ word \in Ends
      /\ fromDevice \in Seq(Sentences) /\ re \in Seq(Commands) /\ sent \in Nat
      /\ UNCHANGED <<asked, werr, sent, refused, link, toDevice, replying, said, authed>>
  BY DEF ReadLast, Reads, Typed, seen, device
<1>2. word \in {"!done", "!ret", "!fatal"} /\ re' = re
  BY <1>1, Documented DEF ReadLast, Reads
<1>3. Len(fromDevice) \in Nat \ {0}
  BY <1>1, EmptySeq
<1>4. Len(fromDevice) = 1 /\ (word = "!ret" => asked = 1)
  <2>1. 1 \in 1..Len(fromDevice)
    BY <1>3
  <2> QED
    BY <1>1, <2>1, Zenon DEF StreamInv
<1>5. Complete
  BY <1>1, <1>4 DEF Complete
<1>6. fromDevice' = <<>> /\ Len(fromDevice') = 0
  BY <1>1, <1>4
<1>7. refused <=> lastErr
  BY <1>1, <1>2, <1>4, <1>5 DEF ReplyInv
<1>8. PICK c : Tally(c, fromDevice, Len(re), sent) /\ c[1] = sent
  BY <1>1, <1>4, <1>5 DEF ReplyInv
<1>9. c[1] = c[0] + One(fromDevice[1]) /\ c[0] = Len(re) /\ c \in [0..1 -> Nat]
  BY <1>4, <1>8 DEF Tally
<1>10. Len(re) = sent
  BY <1>1, <1>2, <1>8, <1>9 DEF One
<1> QED
  BY <1>1, <1>2, <1>4, <1>5, <1>6, <1>7, <1>10

\* Run returns with a reply or an error of the device, and leaves nothing behind.
LEMMA ReadLastSync ==
    ASSUME Foreign = {}, Typed, Sync, NEW word \in Words, ReadLast(word)
    PROVE  Sync'
<1> USE DEF Sync
<1> DEFINE ok == ~Remembered(word)
<1>1. /\ pc = "read" /\ Len(fromDevice) = 1 /\ fromDevice[1].word = word /\ Complete
      /\ fromDevice' = <<>> /\ Len(fromDevice') = 0 /\ re' = re
      /\ word \in {"!done", "!ret", "!fatal"} /\ (word = "!ret" => asked = 1)
      /\ UNCHANGED <<asked, werr, sent, refused, link, toDevice, replying, said, authed>>
      /\ refused <=> lastErr
  BY LastAlone
<1>2. ~Complete'
  BY <1>1 DEF Complete
<1>3. pc' = "idle" /\ stage' \in (IF stage = "in" THEN {"in"} ELSE AfterLogin(ok, word))
  BY DEF ReadLast, Return
<1>4. stage \in {"new", "challenge", "in"}
  BY <1>1 DEF Typed, ClientInv
<1>5. ok => ~lastErr /\ word \in {"!done", "!ret"}
  <2>1. word \notin Errors => word \in {"!done", "!ret"}
    BY <1>1, Documented
  <2> QED
    BY <2>1, Zenon DEF Remembered
<1>6. stage' = "in" /\ stage # "in" => ok /\ word = "!done"
  <2> SUFFICES ASSUME stage' = "in", stage # "in" PROVE ok /\ word = "!done"
    OBVIOUS
  <2>1. ok
    BY <1>3 DEF AfterLogin
  <2>2. stage = "new" => word # "!ret"
    BY <1>3, <2>1 DEF AfterLogin
  <2>3. stage = "challenge" => word # "!ret"
    BY <1>1 DEF ClientInv
  <2> QED
    BY <1>4, <1>5, <2>1, <2>2, <2>3
<1>7. /\ stage' \in {"challenge", "in", "failed"}
      /\ stage' = "challenge" => stage = "new"
  BY <1>3, <1>4, <1>5, <1>1 DEF AfterLogin, ClientInv
<1>8. ClientInv'
  BY <1>1, <1>3, <1>7 DEF ClientInv
<1>9. StreamInv'
  BY <1>1, <1>3 DEF StreamInv, Turn
<1>10. ReplyInv'
  BY <1>1, <1>3 DEF ReplyInv
<1>11. LoginInv'
  BY <1>1, <1>2, <1>5, <1>6 DEF LoginInv
<1> QED
  BY <1>8, <1>9, <1>10, <1>11

----------------------------------------------------------------------------
\* The device takes the command, the only one on its way.
LEMMA TakeSync ==
    ASSUME Foreign = {}, Typed, Sync, Take
    PROVE  Sync'
<1> USE DEF Sync
<1>1. /\ pc = "read" /\ toDevice = <<asked>> /\ fromDevice = <<>> /\ sent = 0
      /\ replying' = Head(toDevice) /\ toDevice' = Tail(toDevice) /\ said' = 0
      /\ UNCHANGED <<pc, stage, asked, werr, re, lastErr, link, fromDevice, sent, refused, authed>>
  BY DEF Take, StreamInv, Turn, client, reading, seen
<1>2. replying' = asked' /\ toDevice' = <<>> /\ re = <<>> /\ Len(re) = 0
  BY <1>1 DEF Take, StreamInv, Turn
<1>3. ~Complete /\ ~Complete'
  BY <1>1 DEF Complete
<1>4. StreamInv'
  BY <1>1, <1>2, <1>3 DEF StreamInv, Turn
<1>5. ReplyInv'
  BY <1>1, <1>2, <1>3 DEF ReplyInv
<1>6. ClientInv' /\ LoginInv'
  BY <1>1, <1>3 DEF ClientInv, LoginInv
<1> QED
  BY <1>4, <1>5, <1>6

\* The device says something: it answers the command asked last, and its end is still to come.
LEMMA SaysStream ==
    ASSUME Foreign = {}, Typed, Sync, NEW word \in Words, Says(word),
           word = "!ret" => replying = 1
    PROVE  /\ pc = "read" /\ replying = asked /\ link = "up" /\ toDevice = <<>> /\ ~Complete
           /\ UNCHANGED <<pc, stage, asked, werr, re, lastErr, result, toDevice>>
           /\ fromDevice' # <<>> /\ fromDevice'[Len(fromDevice')].word = word
           /\ (Complete' <=> word \in Ends)
           /\ \A i \in 1..Len(fromDevice') :
                  /\ fromDevice'[i].cmd = asked'
                  /\ fromDevice'[i].word \in Ends => i = Len(fromDevice')
                  /\ fromDevice'[i].word = "!ret" => asked' = 1
           /\ \E d : /\ Tally(d, fromDevice', Len(re), sent + One([word |-> word]))
                     /\ d[Len(fromDevice')] = sent + One([word |-> word])
           /\ (\E i \in 1..Len(fromDevice') : fromDevice'[i].word = "!trap") <=>
                  word = "!trap" \/ \E i \in 1..Len(fromDevice) : fromDevice[i].word = "!trap"
<1> USE DEF Sync
<1> DEFINE n == Len(fromDevice)
<1> DEFINE s == [word |-> word, cmd |-> replying]
<1>1. /\ pc = "read" /\ replying = asked /\ link = "up" /\ toDevice = <<>> /\ ~Complete
      /\ UNCHANGED <<pc, stage, asked, werr, re, lastErr, result, toDevice>>
      /\ fromDevice' = Append(fromDevice, s)
      /\ fromDevice \in Seq(Sentences) /\ sent \in Nat /\ asked \in Commands
  BY DEF Says, StreamInv, Turn, client, reading, Typed, Commands
<1>2. s \in Sentences /\ s.word = word /\ s.cmd = asked
  BY <1>1 DEF Sentences
<1>3. /\ n \in Nat /\ Len(fromDevice') = n + 1 /\ fromDevice' # <<>>
      /\ \A i \in 1..n : fromDevice'[i] = fromDevice[i]
      /\ fromDevice'[n + 1] = s
  BY <1>1, <1>2, AppendProperties, LenProperties
<1>4. fromDevice'[Len(fromDevice')].word = word /\ (Complete' <=> word \in Ends)
  BY <1>2, <1>3 DEF Complete
<1>5. ASSUME NEW i \in 1..Len(fromDevice')
      PROVE  /\ fromDevice'[i].cmd = asked'
             /\ fromDevice'[i].word \in Ends => i = Len(fromDevice')
             /\ fromDevice'[i].word = "!ret" => asked' = 1
  <2>1. CASE i = n + 1
    BY <1>1, <1>2, <1>3, <2>1
  <2>2. CASE i # n + 1
    <3>1. i \in 1..n /\ fromDevice'[i] = fromDevice[i] /\ (i = n => fromDevice # <<>>)
      BY <1>1, <1>3, <2>2
    <3>2. /\ fromDevice[i].cmd = asked
          /\ fromDevice[i].word \in Ends => i = n
          /\ fromDevice[i].word = "!ret" => asked = 1
      BY <3>1, Zenon DEF StreamInv
    <3>3. fromDevice[i].word \notin Ends
      BY <1>1, <3>1, <3>2, Zenon DEF Complete
    <3>4. asked' = asked
      BY <1>1
    <3> QED
      BY <3>1, <3>2, <3>3, <3>4, Zenon
  <2> QED
    BY <2>1, <2>2
<1>6. PICK c : Tally(c, fromDevice, Len(re), sent) /\ c[n] = sent
  BY <1>1 DEF ReplyInv
<1>7. /\ One(s) = One([word |-> word]) /\ sent + One(s) \in Nat
  BY <1>1 DEF One
<1>8. \E d : Tally(d, fromDevice', Len(re), sent + One(s)) /\ d[Len(fromDevice')] = sent + One(s)
  BY <1>1, <1>2, <1>6, <1>7, TallyAppend
<1>9. (\E i \in 1..Len(fromDevice') : fromDevice'[i].word = "!trap") <=>
          word = "!trap" \/ \E i \in 1..n : fromDevice[i].word = "!trap"
  <2>1. ASSUME NEW i \in 1..n, fromDevice[i].word = "!trap"
        PROVE  \E j \in 1..Len(fromDevice') : fromDevice'[j].word = "!trap"
    <3>1. i \in 1..Len(fromDevice') /\ fromDevice'[i] = fromDevice[i]
      BY <1>3
    <3> QED
      BY <2>1, <3>1
  <2>2. word = "!trap" => \E j \in 1..Len(fromDevice') : fromDevice'[j].word = "!trap"
    BY <1>2, <1>3
  <2>3. ASSUME NEW j \in 1..Len(fromDevice'), fromDevice'[j].word = "!trap"
        PROVE  word = "!trap" \/ \E i \in 1..n : fromDevice[i].word = "!trap"
    <3>1. CASE j = n + 1
      BY <1>2, <1>3, <2>3, <3>1
    <3>2. CASE j # n + 1
      <4>1. j \in 1..n /\ fromDevice'[j] = fromDevice[j]
        BY <1>3, <3>2
      <4> QED
        BY <2>3, <4>1
    <3> QED
      BY <3>1, <3>2
  <2> QED
    BY <2>1, <2>2, <2>3
<1> QED
  BY <1>1, <1>3, <1>4, <1>5, <1>7, <1>8, <1>9

\* The device sends a row, an error or !empty.
LEMMA SaysMoreSync ==
    ASSUME Foreign = {}, Typed, Sync, NEW word \in Words, SaysMore(word)
    PROVE  Sync'
<1> USE DEF Sync
<1>1. /\ Says(word) /\ word \in {"!re", "!trap", "!empty"} /\ word \notin Ends
      /\ UNCHANGED <<link, replying, authed>> /\ said' = said + 1
      /\ said \in Nat /\ sent \in Nat
  BY Documented, BoundsAssumption DEF SaysMore, Typed
<1>2. /\ pc = "read" /\ replying = asked /\ link = "up" /\ toDevice = <<>> /\ ~Complete
      /\ UNCHANGED <<pc, stage, asked, werr, re, lastErr, result, toDevice>>
      /\ ~Complete'
      /\ \A i \in 1..Len(fromDevice') :
             /\ fromDevice'[i].cmd = asked'
             /\ fromDevice'[i].word \in Ends => i = Len(fromDevice')
             /\ fromDevice'[i].word = "!ret" => asked' = 1
      /\ \E d : /\ Tally(d, fromDevice', Len(re), sent + One([word |-> word]))
                /\ d[Len(fromDevice')] = sent + One([word |-> word])
      /\ (\E i \in 1..Len(fromDevice') : fromDevice'[i].word = "!trap") <=>
             word = "!trap" \/ \E i \in 1..Len(fromDevice) : fromDevice[i].word = "!trap"
  BY <1>1, SaysStream
<1>3. sent' = sent + One([word |-> word]) /\ sent' \in Nat /\ sent <= sent' /\ sent' <= sent + 1
  BY <1>1, <1>2 DEF SaysMore, One
<1>4. refused' <=> refused \/ word = "!trap"
  BY <1>2, Zenon DEF SaysMore
<1>5. StreamInv'
  BY <1>1, <1>2 DEF StreamInv, Turn
<1>6. ReplyInv'
  <2>1. Len(re') <= sent' /\ sent' <= said' /\ \A i \in 1..Len(re') : re'[i] = asked'
    <3>1. Len(re) \in Nat
      BY DEF Typed
    <3> QED
      BY <1>1, <1>2, <1>3, <3>1 DEF ReplyInv
  <2>2. refused' <=> lastErr' \/ \E i \in 1..Len(fromDevice') : fromDevice'[i].word = "!trap"
    BY <1>2, <1>4 DEF ReplyInv
  <2>3. \E d : Tally(d, fromDevice', Len(re'), sent') /\ d[Len(fromDevice')] = sent'
    BY <1>2, <1>3
  <2> QED
    BY <2>1, <2>2, <2>3 DEF ReplyInv
<1>7. ClientInv' /\ LoginInv'
  BY <1>1, <1>2 DEF ClientInv, LoginInv
<1> QED
  BY <1>5, <1>6, <1>7

\* The device ends its reply, by !done, a challenge or !fatal.
LEMMA SaysLastSync ==
    ASSUME Foreign = {}, Typed, Sync, NEW word \in Words, SaysLast(word) \/ (SaysFatal /\ word = "!fatal")
    PROVE  Sync'
<1> USE DEF Sync
<1>1. /\ Says(word) /\ word \in {"!done", "!ret", "!fatal"} /\ word \in Ends
      /\ word = "!ret" => replying = 1
      /\ replying' = 0 /\ UNCHANGED <<link, said, sent, refused>> /\ sent \in Nat
  BY Documented DEF SaysLast, SaysFatal, Typed, seen
<1>2. /\ pc = "read" /\ replying = asked /\ link = "up" /\ toDevice = <<>> /\ ~Complete
      /\ UNCHANGED <<pc, stage, asked, werr, re, lastErr, result, toDevice>>
      /\ Complete' /\ fromDevice'[Len(fromDevice')].word = word
      /\ \A i \in 1..Len(fromDevice') :
             /\ fromDevice'[i].cmd = asked'
             /\ fromDevice'[i].word \in Ends => i = Len(fromDevice')
             /\ fromDevice'[i].word = "!ret" => asked' = 1
      /\ \E d : /\ Tally(d, fromDevice', Len(re), sent + One([word |-> word]))
                /\ d[Len(fromDevice')] = sent + One([word |-> word])
      /\ (\E i \in 1..Len(fromDevice') : fromDevice'[i].word = "!trap") <=>
             word = "!trap" \/ \E i \in 1..Len(fromDevice) : fromDevice[i].word = "!trap"
  BY <1>1, SaysStream
<1>3. sent + One([word |-> word]) = sent'
  BY <1>1 DEF One
<1>4. StreamInv'
  BY <1>1, <1>2 DEF StreamInv, Turn
<1>5. ReplyInv'
  <2>1. refused' <=> lastErr' \/ \E i \in 1..Len(fromDevice') : fromDevice'[i].word = "!trap"
    BY <1>1, <1>2 DEF ReplyInv
  <2>2. \E d : Tally(d, fromDevice', Len(re'), sent') /\ d[Len(fromDevice')] = sent'
    BY <1>2, <1>3
  <2> QED
    BY <1>1, <1>2, <2>1, <2>2 DEF ReplyInv
<1>6. authed => authed'
  BY DEF SaysLast, SaysFatal
<1>7. word = "!done" /\ ~refused => authed'
  BY <1>1 DEF SaysLast
<1>8. ClientInv' /\ LoginInv'
  BY <1>1, <1>2, <1>6, <1>7 DEF ClientInv, LoginInv
<1> QED
  BY <1>4, <1>5, <1>8

\* The connection breaks and loses the last sentences: either the end of the reply is among
\* them or nothing is lost.
LEMMA BreakSync ==
    ASSUME Foreign = {}, Typed, Sync, Break
    PROVE  Sync'
<1> USE DEF Sync
<1>1. /\ link = "up" /\ link' = "down" /\ fromDevice \in Seq(Sentences) /\ sent \in Nat
      /\ UNCHANGED <<pc, stage, asked, werr, re, lastErr, toDevice, replying, said, sent,
                     refused, authed>>
  BY DEF Break, Typed, client, reading, seen
<1>2. PICK n \in 0..Len(fromDevice) : fromDevice' = SubSeq(fromDevice, 1, n)
  BY DEF Break
<1>3. /\ Len(fromDevice) \in Nat /\ n \in Nat /\ Len(fromDevice') = n
      /\ \A i \in 1..n : i \in 1..Len(fromDevice) /\ fromDevice'[i] = fromDevice[i]
  BY <1>1, <1>2
<1>4. Complete' => n = Len(fromDevice) /\ fromDevice' = fromDevice
  <2> SUFFICES ASSUME Complete' PROVE n = Len(fromDevice) /\ fromDevice' = fromDevice
    OBVIOUS
  <2>1. fromDevice' # <<>> /\ fromDevice'[n].word \in Ends
    BY <1>3 DEF Complete
  <2>2. n \in 1..n
    BY <1>1, <1>2, <1>3, <2>1
  <2>3. n = Len(fromDevice)
    BY <1>3, <2>1, <2>2, Zenon DEF StreamInv
  <2> QED
    BY <1>1, <1>2, <2>3
<1>5. StreamInv'
  <2>1. ASSUME NEW i \in 1..Len(fromDevice')
        PROVE  /\ fromDevice'[i].cmd = asked'
               /\ fromDevice'[i].word \in Ends => i = Len(fromDevice')
               /\ fromDevice'[i].word = "!ret" => asked' = 1
    <3>1. i \in 1..Len(fromDevice) /\ fromDevice'[i] = fromDevice[i] /\ i <= n
      BY <1>3
    <3>2. /\ fromDevice[i].cmd = asked
          /\ fromDevice[i].word \in Ends => i = Len(fromDevice)
          /\ fromDevice[i].word = "!ret" => asked = 1
      BY <3>1, Zenon DEF StreamInv
    <3>3. i = Len(fromDevice) => i = Len(fromDevice')
      BY <1>3, <3>1
    <3>4. asked' = asked
      BY <1>1
    <3> QED
      BY <3>1, <3>2, <3>3, <3>4, Zenon
  <2>2. pc' # "read" => fromDevice' = <<>>
    BY <1>1, <1>2 DEF StreamInv
  <2> QED
    BY <1>1, <2>1, <2>2 DEF StreamInv
<1>6. ReplyInv'
  <2>1. pc = "read" => \E d : /\ Tally(d, fromDevice', Len(re'), sent')
                              /\ link' = "up" \/ Complete' => d[Len(fromDevice')] = sent'
    <3> SUFFICES ASSUME pc = "read"
                 PROVE  \E d : /\ Tally(d, fromDevice', Len(re'), sent')
                               /\ link' = "up" \/ Complete' => d[Len(fromDevice')] = sent'
      OBVIOUS
    <3>1. PICK c : Tally(c, fromDevice, Len(re), sent) /\ c[Len(fromDevice)] = sent
      BY <1>1 DEF ReplyInv
    <3>2. PICK d : /\ Tally(d, SubSeq(fromDevice, 1, n), Len(re), sent)
                   /\ n = Len(fromDevice) => d[n] = c[Len(fromDevice)]
      BY <1>1, <3>1, TallyPrefix
    <3> QED
      BY <1>1, <1>2, <1>3, <1>4, <3>1, <3>2
  <2>2. pc = "read" /\ Complete' =>
            (refused' <=> lastErr' \/ \E i \in 1..Len(fromDevice') : fromDevice'[i].word = "!trap")
    BY <1>1, <1>4 DEF ReplyInv
  <2> QED
    BY <1>1, <2>1, <2>2 DEF ReplyInv
<1>7. ClientInv' /\ LoginInv'
  <2>1. Complete' => Complete
    BY <1>4 DEF Complete
  <2> QED
    BY <1>1, <1>4, <2>1 DEF ClientInv, LoginInv
<1> QED
  BY <1>5, <1>6, <1>7

\* Every step of the client, the device and the network keeps the two sides in step.
LEMMA StepSync ==
    ASSUME Foreign = {}, Typed, Sync, [Next]_vars
    PROVE  Sync'
<1>1. CASE UNCHANGED vars
  BY <1>1 DEF vars, Sync, ClientInv, StreamInv, Turn, Complete, ReplyInv, LoginInv
<1>2. CASE SaysFatal
  <2>1. "!fatal" \in Words
    BY DEF Words
  <2> QED
    BY <1>2, <2>1, SaysLastSync
<1> QED
  BY <1>1, <1>2, BeginsSync, GivesUpSync, ReadMoreSync, ReadLastSync, CloseSync, NewClientSync,
     TakeSync, SaysMoreSync, SaysLastSync, BreakSync DEF Next, Step, Environment

----------------------------------------------------------------------------
\* The invariant holds when the device knows no other words than the documented ones.
InStepInv == Foreign = {} => Sync

\* It holds in every state.
LEMMA AlwaysInStep == Spec => []InStepInv
<1>1. Init => InStepInv
  BY InitSync DEF InStepInv
<1>2. Typed /\ InStepInv /\ [Next]_vars => InStepInv'
  BY StepSync DEF InStepInv
<1> QED
  BY <1>1, <1>2, AlwaysTyped, PTL DEF Spec

\* The state of a client and of its connection is well formed; a reply has no more rows than
\* the device may send for one command (readReply of routeros/run.go starts a new one each time).
THEOREM TypeCorrect == Spec => []TypeOK
<1>1. Typed /\ InStepInv => TypeOK
  <2> SUFFICES ASSUME Typed, InStepInv PROVE TypeOK
    OBVIOUS
  <2>1. Foreign = {} => Len(re) <= MaxSentences
    <3> SUFFICES ASSUME Foreign = {} PROVE Len(re) <= MaxSentences
      OBVIOUS
    <3>1. Len(re) <= sent /\ sent <= said
      BY DEF InStepInv, Sync, ReplyInv
    <3>2. Len(re) \in Nat /\ sent \in Nat /\ said \in 0..MaxSentences
      BY DEF Typed
    <3> QED
      BY <3>1, <3>2, BoundsAssumption
  <2> QED
    BY <2>1, Zenon DEF Typed, TypeOK
<1> QED
  BY <1>1, AlwaysTyped, AlwaysInStep, PTL

\* With a device that knows only the documented words, Login (routeros/client.go) returns
\* without an error only when the device accepted it, by either way of logging in.
THEOREM LoginIsAccepted == ASSUME Foreign = {} PROVE Spec => []LoginAccepted
<1>1. InStepInv => LoginAccepted
  BY DEF InStepInv, Sync, LoginInv, LoginAccepted
<1> QED
  BY <1>1, AlwaysInStep, PTL

\* With such a device a client whose Run has returned, whatever it returned, finds nothing of
\* the old reply on a connection that is still up when its next Run reads.
THEOREM StaysInStep == ASSUME Foreign = {} PROVE Spec => []InStep
<1>1. Typed /\ InStepInv => InStep
  <2> SUFFICES ASSUME Typed, Sync, pc = "idle", link = "up"
               PROVE  fromDevice = <<>> /\ toDevice = <<>> /\ replying = 0
    BY DEF InStepInv, InStep
  <2> QED
    BY DEF Sync, StreamInv, Turn
<1> QED
  BY <1>1, AlwaysTyped, AlwaysInStep, PTL

----------------------------------------------------------------------------
\* Without an error Run returns the rows the device sent for this command, all of them.
LEMMA FullReply ==
    ASSUME Foreign = {}, Typed, Sync, NEW word \in Words, ReadLast(word)
    PROVE  Promise!Reply
<1>1. /\ pc = "read" /\ UNCHANGED <<asked, sent, refused>>
      /\ refused <=> lastErr
      /\ ~refused => Len(re) = sent
  BY LastAlone
<1>2. pc' = "idle"
  BY DEF ReadLast, Return
<1>3. CASE Remembered(word)
  <2>1. result' = Failure
    BY <1>3 DEF ReadLast, Return, Failure
  <2> QED
    BY <1>1, <1>2, <2>1 DEF Promise!Reply, Promise!Failure, Failure
<1>4. CASE ~Remembered(word)
  <2>1. ~refused /\ Len(re) = sent
    BY <1>1, <1>4 DEF Remembered
  <2>2. result' = [ok |-> TRUE, re |-> re]
    BY <1>4 DEF ReadLast, Return
  <2>3. re = [i \in 1..sent |-> asked]
    BY <2>1 DEF Typed, Sync, ReplyInv
  <2> QED
    BY <1>1, <1>2, <2>1, <2>2, <2>3 DEF Promise!Reply, Promise!Success
<1> QED
  BY <1>3, <1>4

\* A step of the client, the device or the network is a step of RequestReply or changes nothing
\* its caller sees.
LEMMA PromiseStep ==
    ASSUME Foreign = {}, Typed, Sync, [Next]_vars
    PROVE  [Promise!Next]_(Promise!vars)
<1> USE DEF Promise!Next, Promise!vars
<1>1. CASE Send \/ WriteFails
  <2>1. Promise!Ask
    BY <1>1 DEF Send, WriteFails, Begins, Promise!Ask
  <2> QED
    BY <2>1
<1>2. CASE ReturnUnsent \/ ReadFails
  <2>1. Promise!Reply
    BY <1>2 DEF ReturnUnsent, ReadFails, Return, seen, Promise!Reply, Promise!Failure
  <2> QED
    BY <2>1
<1>3. ASSUME NEW word \in Words, ReadMore(word) PROVE UNCHANGED Promise!vars
  BY <1>3 DEF ReadMore, Reads, seen
<1>4. ASSUME NEW word \in Words, ReadLast(word) PROVE Promise!Next
  BY <1>4, FullReply
<1>5. CASE NewClient
  <2>1. pc = "idle"
    BY <1>5 DEF NewClient, Sync, ClientInv
  <2>2. Promise!Connect
    BY <1>5, <2>1 DEF NewClient, Promise!Connect, Promise!Failure, Failure
  <2> QED
    BY <2>2
<1>6. ASSUME NEW word \in Words, SaysMore(word) PROVE Promise!Next \/ UNCHANGED Promise!vars
  <2>1. word \in {"!re", "!trap", "!empty"} /\ UNCHANGED <<asked, pc, result>>
    BY <1>6 DEF SaysMore, Says, client
  <2>2. CASE word = "!re" /\ replying = asked
    <3>1. Promise!Row
      BY <1>6, <2>1, <2>2 DEF SaysMore, Promise!Row, Typed
    <3> QED
      BY <3>1
  <2>3. CASE word = "!trap" /\ replying = asked
    <3>1. Promise!Trap
      BY <1>6, <2>1, <2>3 DEF SaysMore, Promise!Trap, Typed
    <3> QED
      BY <3>1
  <2>4. CASE ~(word = "!re" /\ replying = asked) /\ ~(word = "!trap" /\ replying = asked)
    BY <1>6, <2>1, <2>4 DEF SaysMore, Typed
  <2> QED
    BY <2>2, <2>3, <2>4
<1>7. ASSUME NEW word \in Words, SaysLast(word) PROVE UNCHANGED Promise!vars
  BY <1>7 DEF SaysLast, Says, client, seen
<1>8. CASE Close \/ Take \/ SaysFatal \/ Break
  BY <1>8 DEF Close, Take, SaysFatal, Says, Break, client, seen
<1>9. CASE UNCHANGED vars
  BY <1>9 DEF vars
<1> QED
  BY <1>1, <1>2, <1>3, <1>4, <1>5, <1>6, <1>7, <1>8, <1>9 DEF Next, Step, Environment

\* With such a device, every command Run sends ends in an error or in exactly the rows the
\* device sent for it, in their order: routeros.Client implements RequestReply over errors,
\* empty replies, challenges, broken connections and reconnects.
THEOREM KeepsPromise == ASSUME Foreign = {} PROVE Spec => PromiseKept
<1>1. Init => Promise!Init
  BY DEF Init, Promise!Init, Failure, Promise!Failure
<1>2. Typed /\ InStepInv /\ [Next]_vars => [Promise!Next]_(Promise!vars)
  BY PromiseStep DEF InStepInv
<1> QED
  BY <1>1, <1>2, AlwaysTyped, AlwaysInStep, PTL DEF Spec, PromiseKept, Promise!Spec

=============================================================================
