---------------------------- MODULE RequestReply ----------------------------
(***************************************************************************)
(* What routeros.Client promises its caller: commands run one at a time,   *)
(* and each ends in an error or in the reply to that very command: with    *)
(* the rows the device sent for it, all of them, in their order.           *)
(***************************************************************************)
EXTENDS Integers, Sequences

VARIABLES
    asked,    \* the number of commands run on this connection
    waiting,  \* Run has not returned from the last one
    sent,     \* how many rows the device has sent for the last one
    refused,  \* the device has reported an error for it
    result    \* what the last Run returned

vars == <<asked, waiting, sent, refused, result>>

\* The rows of a reply: the number of the command each belongs to.
Failure == [ok |-> FALSE, re |-> <<>>]
Success(cmd, n) == [ok |-> TRUE, re |-> [i \in 1..n |-> cmd]]

Init == asked = 0 /\ waiting = FALSE /\ sent = 0 /\ refused = FALSE /\ result = Failure

Ask ==
    /\ ~waiting
    /\ asked' = asked + 1
    /\ waiting' = TRUE
    /\ sent' = 0 /\ refused' = FALSE
    /\ UNCHANGED result

\* The device sends a row or an error.
Row ==
    /\ sent' = sent + 1
    /\ UNCHANGED <<asked, waiting, refused, result>>

Trap ==
    /\ refused' = TRUE
    /\ UNCHANGED <<asked, waiting, sent, result>>

Reply ==
    /\ waiting
    /\ waiting' = FALSE
    /\ result' \in {Failure} \cup (IF refused THEN {} ELSE {Success(asked, sent)})
    /\ UNCHANGED <<asked, sent, refused>>

\* A new connection.
Connect ==
    /\ ~waiting
    /\ asked' = 0 /\ waiting' = FALSE /\ sent' = 0 /\ refused' = FALSE /\ result' = Failure

Next == Ask \/ Row \/ Trap \/ Reply \/ Connect

Spec == Init /\ [][Next]_vars

=============================================================================
