---------------------------- MODULE MCCollectors ----------------------------
(***************************************************************************)
(* Every registered collector on six devices: old and new firmware, IPv6   *)
(* and details on and off, configured lists or none.                       *)
(***************************************************************************)
EXTENDS Collectors, CollectorRun

Device(v, arch, ipv6, details, listed) ==
    [version |-> v, arch |-> arch, ipv6 |-> ipv6, details |-> details, listed |-> listed]
MCEnvs ==
    { Device(649, TRUE, FALSE, TRUE, TRUE), Device(649, FALSE, TRUE, FALSE, FALSE),
      Device(706, TRUE, TRUE, TRUE, TRUE), Device(704, TRUE, FALSE, FALSE, TRUE),
      Device(719, TRUE, FALSE, TRUE, TRUE), Device(719, FALSE, TRUE, FALSE, TRUE) }

MCIds == <<"r1", "r2">>

\* Metrics whose property is read but not asked for.
MCSilent ==
    {<<"interface", "fp-rx-packet">>, <<"ipv6_neighbor", "reachable">>}
        \cup ({"poe"} \X {"current", "wattage", "voltage"})

=============================================================================
