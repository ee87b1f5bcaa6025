---------------------------- MODULE MCScanTable ----------------------------
(***************************************************************************)
(* Three stations, two of them on one frequency and one that is renamed,   *)
(* and a table with room for two.                                          *)
(***************************************************************************)
EXTENDS ScanTable

CONSTANTS b1, b2, b3, home, cafe

MCNames == [b \in BSSIDs |-> CASE b = b1 -> {home} [] b = b2 -> {home, cafe}
                               [] b = b3 -> {cafe}]
MCFreq == [b \in BSSIDs |-> IF b \in {b1, b2} THEN 1 ELSE 2]
=============================================================================
