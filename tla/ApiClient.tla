----------------------------- MODULE ApiClient -----------------------------
(***************************************************************************)
(* A routeros.Client (routeros/client.go, run.go, reply.go) on one         *)
(* connection: Run writes a sentence and reads sentences until the reply   *)
(* is over; Login runs one command or two.  The device and the network are *)
(* modelled as the client sees them: sentences come in order, a connection *)
(* may break and lose what was not read.                                   *)
(***************************************************************************)
EXTENDS Integers, Sequences

CONSTANTS
    Foreign,      \* reply words the client does not know; stands also for a sentence with
                  \* a word ReadSentence rejects
    MaxCommands,  \* bound of the model: commands per connection
    MaxSentences  \* bound of the model: sentences per reply before its last

ASSUME ForeignAssumption ==
    Foreign \cap {"!re", "!trap", "!empty", "!done", "!ret", "!fatal"} = {}
ASSUME BoundsAssumption == MaxCommands \in Nat \ {0} /\ MaxSentences \in Nat

VARIABLES
    \* the client and its caller
    pc,          \* "idle", or in Run: "read" in readReply, "unsent" after a failed write
    stage,       \* "new", "challenge" (the second /login), "in", "failed", "closed"
    asked,       \* the number of commands run; it tells a command from the others
    werr,        \* writer.err, the first error of the writer
    re,          \* reply.Re: for each row the command the device sent it for
    lastErr,     \* lastErr of readReply is not nil
    result,      \* what Run returned last
    \* the device and the network
    link,        \* "up" or "down"
    toDevice,    \* commands on their way
    fromDevice,  \* sentences on their way: their word and the command they answer
    replying,    \* the command the device answers, 0 if none
    said,        \* sentences of this reply
    sent,        \* history: rows sent for command number asked
    refused,     \* history: it was answered with !trap
    authed       \* the device accepted the login

client == <<stage, asked, werr>>
reading == <<re, lastErr>>
seen == <<sent, refused>>
device == <<link, toDevice, replying, said, authed>>
vars == <<pc, stage, asked, werr, re, lastErr, result, link, toDevice, fromDevice,
          replying, said, sent, refused, authed>>

\* "!ret" is a !done that carries a challenge.
Words == {"!re", "!trap", "!empty", "!done", "!ret", "!fatal"} \cup Foreign
Commands == 1..MaxCommands
Sentences == [word : Words, cmd : Commands]

\* What a reply is to the caller: whether err is nil, and the rows.
Failure == [ok |-> FALSE, re |-> <<>>]

TypeOK ==
    /\ pc \in {"idle", "read", "unsent"}
    /\ stage \in {"new", "challenge", "in", "failed", "closed"}
    /\ asked \in 0..MaxCommands
    /\ werr \in BOOLEAN /\ lastErr \in BOOLEAN
    /\ re \in Seq(Commands) /\ (Foreign = {} => Len(re) <= MaxSentences)
    /\ result.ok \in BOOLEAN /\ result.re \in Seq(Commands)
    /\ link \in {"up", "down"}
    /\ toDevice \in Seq(Commands) /\ fromDevice \in Seq(Sentences)
    /\ replying \in 0..MaxCommands /\ said \in 0..MaxSentences
    /\ sent \in Nat /\ refused \in BOOLEAN /\ authed \in BOOLEAN

Init ==
    /\ pc = "idle" /\ stage = "new" /\ asked = 0 /\ werr = FALSE
    /\ re = <<>> /\ lastErr = FALSE /\ result = Failure
    /\ link = "up" /\ toDevice = <<>> /\ fromDevice = <<>>
    /\ replying = 0 /\ said = 0 /\ sent = 0 /\ refused = FALSE /\ authed = FALSE

----------------------------------------------------------------------------
\* Run returns to its caller.  Login goes on to its second command when the first reply
\* holds a challenge it can decode; its caller closes a client that could not log in.
AfterLogin(ok, word) ==
    CASE ~ok                            -> {"failed"}
      [] ok /\ stage = "new" /\ word = "!ret" -> {"challenge", "failed"}
      [] OTHER                          -> {"in"}

Return(ok, rows, word) ==
    /\ pc' = "idle"
    /\ result' = [ok |-> ok, re |-> rows]
    /\ stage' \in IF stage = "in" THEN {"in"} ELSE AfterLogin(ok, word)

\* RunArgs: the words are buffered and flushed by EndSentence.  A connection that is down
\* may still take them; once a write has failed, all further ones fail.
OldReply == re                              \* mutant: rows of the last reply are kept
NewReply == <<>>

Begins ==
    /\ pc = "idle" /\ stage \in {"new", "challenge", "in"}
    /\ asked < MaxCommands
    /\ asked' = asked + 1
    /\ re' = NewReply /\ lastErr' = FALSE
    /\ sent' = 0 /\ refused' = FALSE
    /\ UNCHANGED <<stage, result, link, fromDevice, replying, said, authed>>

Send ==
    /\ Begins
    /\ ~werr
    /\ pc' = "read"
    /\ toDevice' = IF link = "up" THEN Append(toDevice, asked + 1) ELSE toDevice
    /\ UNCHANGED werr

WriteFails ==
    /\ Begins
    /\ link = "down" \/ werr
    /\ pc' = "unsent"
    /\ werr' = TRUE
    /\ UNCHANGED toDevice

ReturnUnsent ==
    /\ pc = "unsent"
    /\ Return(FALSE, <<>>, "")
    /\ UNCHANGED <<asked, werr, reading, seen, fromDevice, device>>

\* Words on which processSentence reports done, and those on which it returns an error.
EndsAtTrap == {"!done", "!ret", "!trap", "!fatal"} \cup Foreign  \* mutant: !trap ends a reply
EndsNotAtFatal == {"!done", "!ret"} \cup Foreign                 \* mutant: !fatal does not
EndsAtEmpty == {"!done", "!ret", "!empty", "!fatal"} \cup Foreign \* mutant: !empty is unknown
Ends == {"!done", "!ret", "!fatal"} \cup Foreign
Errors == {"!trap", "!fatal"} \cup Foreign

\* The error readReply returns with a finished reply.
NotRemembered(word) == FALSE                \* mutant: lastErr is dropped
Remembered(word) == lastErr \/ word \in Errors

\* readReply takes the next sentence.
Reads(word) ==
    /\ pc = "read" /\ fromDevice # <<>>
    /\ Head(fromDevice).word = word
    /\ fromDevice' = Tail(fromDevice)
    /\ re' = IF word = "!re" THEN Append(re, Head(fromDevice).cmd) ELSE re
    /\ lastErr' = Remembered(word)
    /\ UNCHANGED <<asked, werr, seen, device>>

ReadMore(word) ==
    /\ word \notin Ends
    /\ Reads(word)
    /\ UNCHANGED <<pc, stage, result>>

\* The reply is over: without an error it is returned with its rows.
ReadLast(word) ==
    /\ word \in Ends
    /\ Reads(word)
    /\ LET ok == ~Remembered(word) IN Return(ok, IF ok THEN re ELSE <<>>, word)

\* The connection ended before the reply did.
ReadFails ==
    /\ pc = "read" /\ fromDevice = <<>> /\ link = "down"
    /\ Return(FALSE, <<>>, "")
    /\ UNCHANGED <<asked, werr, reading, seen, fromDevice, device>>

\* Close: by connect() after a failed login or probe, by disconnect() otherwise.
Close ==
    /\ pc = "idle" /\ stage # "closed"
    /\ stage' = "closed"
    /\ link' = "down"
    /\ UNCHANGED <<pc, asked, werr, reading, result, seen, toDevice, fromDevice, replying,
                   said, authed>>

\* NewClient over a new connection.
NewClient ==
    /\ stage = "closed"
    /\ pc' = "idle" /\ stage' = "new" /\ asked' = 0 /\ werr' = FALSE
    /\ re' = <<>> /\ lastErr' = FALSE /\ result' = Failure
    /\ link' = "up" /\ toDevice' = <<>> /\ fromDevice' = <<>>
    /\ replying' = 0 /\ said' = 0 /\ sent' = 0 /\ refused' = FALSE /\ authed' = FALSE

----------------------------------------------------------------------------
\* The device answers one command after the other.
Take ==
    /\ link = "up" /\ replying = 0 /\ toDevice # <<>>
    /\ replying' = Head(toDevice)
    /\ toDevice' = Tail(toDevice)
    /\ said' = 0
    /\ UNCHANGED <<pc, client, reading, result, link, fromDevice, seen, authed>>

Says(word) ==
    /\ link = "up" /\ replying # 0
    /\ fromDevice' = Append(fromDevice, [word |-> word, cmd |-> replying])
    /\ UNCHANGED <<pc, client, reading, result, toDevice>>

\* A sentence that does not end the reply.  Errors come without further rows.
SaysMore(word) ==
    /\ word \in {"!re", "!trap", "!empty"} \cup Foreign
    /\ said < MaxSentences
    /\ Says(word)
    /\ said' = said + 1
    /\ sent' = IF word = "!re" /\ replying = asked THEN sent + 1 ELSE sent
    /\ refused' = (refused \/ (word = "!trap" /\ replying = asked))
    /\ UNCHANGED <<link, replying, authed>>

\* A first /login may be answered by a challenge; a login without error is accepted.
SaysLast(word) ==
    /\ word \in {"!done"} \cup (IF ~authed /\ replying = 1 THEN {"!ret"} ELSE {})
    /\ Says(word)
    /\ replying' = 0
    /\ authed' = (authed \/ (word = "!done" /\ ~refused))
    /\ UNCHANGED <<link, said, seen>>

\* A device that gives up says why; it need not close the connection at once.
SaysFatal ==
    /\ Says("!fatal")
    /\ replying' = 0
    /\ UNCHANGED <<link, said, seen, authed>>

\* The connection breaks: the client still reads some of what is on its way.
Break ==
    /\ link = "up"
    /\ link' = "down"
    /\ \E n \in 0..Len(fromDevice) : fromDevice' = SubSeq(fromDevice, 1, n)
    /\ UNCHANGED <<pc, client, reading, result, toDevice, replying, said, seen, authed>>

----------------------------------------------------------------------------
Step ==
    \/ ReturnUnsent \/ ReadFails
    \/ \E word \in Words : ReadMore(word) \/ ReadLast(word)

Environment ==
    \/ Take \/ SaysFatal \/ Break
    \/ \E word \in Words : SaysMore(word) \/ SaysLast(word)

Next == Send \/ WriteFails \/ Step \/ Close \/ NewClient \/ Environment

Spec == Init /\ [][Next]_vars

\* A goroutine in Run goes on when it can.  Nothing is assumed of the device.
FairSpec == Spec /\ WF_vars(Step)

----------------------------------------------------------------------------
\* The reply Run returns is the reply to the command it sent: complete, and an error when
\* the device reported one.  A device that knows only the documented words keeps the two
\* sides in step over errors, empty replies and broken connections.
Promise == INSTANCE RequestReply WITH waiting <- pc # "idle"
PromiseKept == Promise!Spec

\* Login returns without an error only when the device accepted it.
LoginAccepted == stage = "in" => authed

\* A client whose last command failed without the connection breaking is used for the
\* next one: nothing of the old reply is left for it to read.
InStep ==
    pc = "idle" /\ link = "up" => fromDevice = <<>> /\ toDevice = <<>> /\ replying = 0

\* Run returns once the reply is over or the connection gone.
ReplyOver == \E i \in DOMAIN fromDevice : fromDevice[i].word \in {"!done", "!ret", "!fatal"}
RunReturns == (pc # "idle" /\ (link = "down" \/ ReplyOver)) ~> pc = "idle"

----------------------------------------------------------------------------
\* A claim of the source that the code does not keep.

\* "RunArgs sends a sentence to the RouterOS device and waits for the reply" (run.go:10):
\* the rows it returns were sent for that sentence.
RowsOfThisCommand ==
    pc = "idle" => \A i \in DOMAIN result.re : result.re[i] = asked

=============================================================================
