------------------------- MODULE MCDeviceCollector -------------------------
(***************************************************************************)
(* A device with four collectors, a limit of two failures in a row, two    *)
(* connections and two RouterOS versions.                                  *)
(***************************************************************************)
EXTENDS DeviceCollector

MCCollectorLists ==
    { <<"command", "quiet", "fragile", "command">>,
      <<"command", "command", "command", "command">>,
      <<"command", "nil", "command", "quiet">> }

=============================================================================
