----------------------------- MODULE MCExporter -----------------------------
(***************************************************************************)
(* An SRV record, looked up first, and a configured device; two clients.   *)
(* DNS may answer with no target, one, two, or one target twice.           *)
(***************************************************************************)
EXTENDS Exporter

CONSTANTS p1, p2, router, record, t1, t2

MCDevices == <<record, router>>
MCAnswers == {<<>>, <<t1>>, <<t1, t2>>, <<t1, t1>>}

=============================================================================
