------------------------------ MODULE MCWsupp ------------------------------
(***************************************************************************)
(* Instances of Wsupp: a network "home" with one 2.4GHz station and, in    *)
(* the larger instance, "cafe" with a weaker 5GHz one.  ckey is cafe's key *)
(* and a wrong key for home.  The daemon starts with no config file, with  *)
(* both keys on file, or with a line for cafe that does not parse, and     *)
(* with or without a session at home to resume.                            *)
(***************************************************************************)
EXTENDS Wsupp

CONSTANTS h1, c1, home, cafe, hkey, ckey

Of(s) == [ssid |-> s, type |-> "RSN_PSK"]

MCBeacons == [b \in BSSIDs |-> {Of(IF b = h1 THEN home ELSE cafe)}]

(* The station of home changes its ciphers ... *)
MCCiphers == [b \in BSSIDs |-> {Of(home), [ssid |-> home, type |-> "OTHER"]}]

(* ... that of cafe its name. *)
MCRenamed == [b \in BSSIDs |-> {Of(s) : s \in IF b = h1 THEN {home} ELSE SSIDs}]

MCFreq   == [b \in BSSIDs |-> IF b = h1 THEN 2412 ELSE 5180]
MCSignal == [b \in BSSIDs |-> IF b = h1 THEN -5000 ELSE -6000]
MCSlot   == [b \in BSSIDs |-> IF b = h1 THEN 0 ELSE 1]
MCRight  == [s \in SSIDs |-> IF s = home THEN hkey ELSE ckey]
MCCfg    == {[s \in SSIDs |-> NoPsk], MCRight,
             [s \in SSIDs |-> IF s = home THEN hkey ELSE BadPsk]}
MCState  == {NoSsid, home}
=============================================================================
