----------------------------- MODULE KeyAgreement -----------------------------
(***************************************************************************)
(* What a key handshake promises to its two ends: the supplicant takes a    *)
(* key that was never in use, the authenticator opens its port with the key *)
(* the supplicant has taken, and either may drop the key at any time.       *)
(***************************************************************************)
CONSTANTS Keys, NoKey

VARIABLES
  supp,   \* the key the supplicant's card works with
  port,   \* the key the authenticator's port is open with
  used    \* the keys the supplicant has ever taken

Init == supp = NoKey /\ port = NoKey /\ used = {}

Install(k) ==
  /\ k \notin used /\ port = NoKey
  /\ supp' = k /\ used' = used \cup {k} /\ UNCHANGED port

(* The supplicant may have left while its last message was on the way. *)
Open(k) ==
  /\ k \in used /\ supp \in {k, NoKey}
  /\ port' = k /\ UNCHANGED <<supp, used>>

Leave == supp' = NoKey /\ UNCHANGED <<port, used>>

Shut == port' = NoKey /\ UNCHANGED <<supp, used>>

Next == (\E k \in Keys : Install(k) \/ Open(k)) \/ Leave \/ Shut

Spec == Init /\ [][Next]_<<supp, port, used>>
=============================================================================
