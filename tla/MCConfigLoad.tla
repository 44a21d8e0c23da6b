---------------------------- MODULE MCConfigLoad ----------------------------
(***************************************************************************)
(* Files of up to two devices and one profile, over three feature names:   *)
(* a registered one, the same in capitals, and one nobody knows.           *)
(***************************************************************************)
EXTENDS ConfigLoad

MCLower == [resource |-> "resource", dns |-> "dns", DNS |-> "dns", bogus |-> "bogus"]
MCKnown == {"resource", "dns"}

MCFeatures ==
    { NilMap, [dns |-> "on"], [dns |-> "off"], [dns |-> "nil"], [dns |-> "odd"],
      [resource |-> "off"], [DNS |-> "bare"], [bogus |-> "off"] }

Device(n, s, p, c, d) ==
    [name |-> n, srv |-> s, profile |-> p, complete |-> c, disabled |-> d]
MCDevices ==
    { Device("a", FALSE, "", TRUE, FALSE), Device("b", FALSE, "home", TRUE, FALSE),
      Device("", TRUE, "home", TRUE, FALSE), Device("", TRUE, "", TRUE, FALSE),
      Device("", FALSE, "", TRUE, FALSE), Device("c", FALSE, "home", FALSE, TRUE),
      Device("c", TRUE, "", FALSE, FALSE) }
MCDeviceLists == {<<d>> : d \in MCDevices} \cup (MCDevices \X MCDevices)

MCProfiles == {<<>>} \cup {[home |-> f] : f \in MCFeatures}
MCFiles == [features : MCFeatures, profiles : MCProfiles, devices : MCDeviceLists]

=============================================================================
