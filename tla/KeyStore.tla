------------------------------ MODULE KeyStore ------------------------------
(***************************************************************************)
(* What the config file is to the rest of the daemon: a key per network,   *)
(* changed in memory by handlers and brought to the disk now and then.  A  *)
(* daemon that stops loses what was not brought there.  save_psk, drop_psk *)
(* and load_psk of the daemon's own specification work on mem.             *)
(***************************************************************************)
CONSTANTS SSIDs, PSKs, NoPsk, BadPsk

VARIABLES mem,   \* the key the daemon finds for each network
          disk   \* the one that its successor would find

Keys == PSKs \cup {NoPsk, BadPsk}

Init == disk \in [SSIDs -> Keys] /\ mem = disk

Save(s, k) == mem' = [mem EXCEPT ![s] = k] /\ disk' = disk
Forget(s)  == mem' = [mem EXCEPT ![s] = NoPsk] /\ disk' = disk
Sync       == mem' = mem /\ disk' = mem
Stop       == mem' = disk /\ disk' = disk

Next == \/ \E s \in SSIDs : (\E k \in PSKs : Save(s, k)) \/ Forget(s)
        \/ Sync \/ Stop

Spec == Init /\ [][Next]_<<mem, disk>>
=============================================================================
