---------------------------- MODULE MCApiClient ----------------------------
(***************************************************************************)
(* Up to four commands on a connection, replies of up to four sentences.   *)
(***************************************************************************)
EXTENDS ApiClient

\* A word of a RouterOS release the client has never heard of.
NewerWords == {"!progress"}

=============================================================================
