---------------------------- MODULE MCWireFormat ----------------------------
(***************************************************************************)
(* Four words with lengths of one, two and three bytes: a name, which may  *)
(* not follow the first word, a pair, another value for its key that is    *)
(* not ASCII and longer than the buffer, a tag.                            *)
(***************************************************************************)
EXTENDS WireFormat

Word(kind, key, value, text, len) ==
    [kind |-> kind, key |-> key, read |-> value, text |-> text, len |-> len]
MCWords ==
    <<Word("plain", "", "", "!re", 127), Word("pair", "name", "ether1", "=name=ether1", 128),
      Word("pair", "name", "decoded", "=name=decoded", 16384), Word("tag", "", "t1", ".tag=t1", 7)>>

=============================================================================
