------------------------------ MODULE Handshake ------------------------------
(***************************************************************************)
(* wsupp_eapol.c with an access point at the other end: nonces, keys made   *)
(* of them, replay counters and generations of the group key.              *)
(*                                                                         *)
(* The air forgets nothing: a frame may be read late, after another one      *)
(* that was sent later, twice, in a later association (the raw socket stays *)
(* open across associations), or never.                                    *)
(***************************************************************************)
EXTENDS Integers

CONSTANTS
  Pmks,       \* pairwise master keys: what PSK may hold
  ApPmk,      \* and the access point's
  NoKey,      \* a key that is all zeros, or absent
  MaxNonce,   \* nonces either side may draw
  MaxCount,   \* replay counters the access point may use in an association
  MaxGtk      \* group keys it may draw

ASSUME HandshakeAssumption ==
  /\ ApPmk \in Pmks
  /\ MaxNonce \in Nat /\ MaxCount \in Nat \ {0} /\ MaxGtk \in Nat \ {0}

Nonces == 0..MaxNonce       \* 0 is the nonce of zeros
Counts == 0..MaxCount
Gtks   == 0..MaxGtk         \* 0 is no group key

(* What PRF480 makes of its inputs, for the two MAC addresses of a link: KCK, *)
(* KEK and PTK at once.                                                    *)
Keys == [pmk : Pmks, a : Nonces, s : Nonces]

ASSUME NoKeyIsNone == NoKey \notin Keys

Down == [type : {"M1", "M3", "G1"}, nonce : Nonces, count : Counts,
         mic : Keys \cup {NoKey}, gtk : Gtks]
Up   == [type : {"P2", "P4", "G2"}, nonce : Nonces, count : Counts,
         mic : Keys \cup {NoKey}]

VARIABLES
  auth,                       \* authstate, see below
  eapolstate, eapolsends,
  anonce, snonce, replay,
  psk,
  key,                        \* KCK, KEK
  card,                       \* the keys the card has: PTK and GTK
  drawn,                      \* how often fill_rand has been called
  taken, again,               \* history: PTKs uploaded; was one of them twice
  down, up,                   \* the air
  apstate, apnonce, apkey, apcount, apgtk, apdrawn,
  port                        \* the key the AP lets data through with

station == <<auth, eapolstate, eapolsends, anonce, snonce, replay, psk, key, card,
             drawn, taken, again>>
ap      == <<apstate, apnonce, apkey, apcount, apgtk, apdrawn, port>>
vars    == <<station, ap, down, up>>

(* DOWN: there is no link, whatever authstate is.  ANSWERED is ASSOCIATING   *)
(* when the access point has agreed and the card has not yet told so.       *)
AuthStates == {"DOWN", "ASSOCIATING", "ANSWERED", "LINKED", "DISCONNECTING"}

-----------------------------------------------------------------------------
(* Frames of the station. *)
Sends(f) == up' = IF auth = "DOWN" THEN up ELSE up \cup {f}

abort_connection ==
  auth' = IF auth = "DOWN" THEN "DOWN" ELSE "DISCONNECTING"

Packet2(n, c, k) == [type |-> "P2", nonce |-> n, count |-> c, mic |-> k]
Packet4(c, k)    == [type |-> "P4", nonce |-> 0, count |-> c, mic |-> k]
Group2(c, k)     == [type |-> "G2", nonce |-> 0, count |-> c, mic |-> k]

(* Every send may fail. *)
Fails == abort_connection /\ UNCHANGED up

(* The card takes keys while there is a link. *)
Uploads(p, g) ==
  IF auth = "DOWN" THEN UNCHANGED <<card, taken, again>>
  ELSE /\ card' = [ptk |-> p, gtk |-> g]
       /\ again' = (again \/ p \in taken) /\ taken' = taken \cup {p}

upload_gtk(g) ==
  /\ card' = IF auth = "DOWN" THEN card ELSE [card EXCEPT !.gtk = g]
  /\ UNCHANGED <<taken, again>>

NoUpload == UNCHANGED <<card, taken, again>>

-----------------------------------------------------------------------------
(* Mutant: what the last association left is kept. *)
primed_Kept == eapolsends

primed == FALSE

(* AUTHENTICATE: prime_eapol_state, then ASSOCIATE is sent. *)
Authenticated ==
  /\ auth = "DOWN" /\ auth' = "ASSOCIATING"
  /\ eapolstate' = "WAITING_1_4" /\ eapolsends' = primed
  /\ UNCHANGED <<anonce, snonce, replay, psk, key, card, drawn, taken, again, ap, down, up>>

(* ASSOCIATE: allow_eapol_sends.  The state is CONNECTING even if packet 2/4 *)
(* could not be sent.                                                      *)
Associated ==
  /\ auth = "ANSWERED" /\ auth' = "LINKED"
  /\ IF eapolstate = "WAITING_1_4"
     THEN eapolsends' = TRUE /\ UNCHANGED <<eapolstate, up>>
     ELSE /\ UNCHANGED eapolsends
          /\ \/ /\ Sends(Packet2(snonce, replay, key))
                /\ eapolstate' = "WAITING_3_4"
             \/ UNCHANGED <<up, eapolstate>>
  /\ UNCHANGED <<anonce, snonce, replay, psk, key, card, drawn, taken, again, ap, down>>

(* DISCONNECT, and snap_to_disabled, after which every frame is a stray one: *)
(* reset_eapol_state.  With the link the card loses its keys.              *)
Disconnected ==
  /\ auth' = "DOWN"
  /\ anonce' = 0 /\ snonce' = 0 /\ key' = NoKey
  /\ card' = [ptk |-> NoKey, gtk |-> 0]
  /\ psk' \in Pmks                              \* of the next station
  /\ UNCHANGED <<eapolstate, eapolsends, replay, drawn, taken, again, ap, down, up>>

(* ENETDOWN and a refused DISCONNECT leave no link either, but what the      *)
(* handshake had come to stays.                                            *)
LinkLost ==
  /\ auth # "DOWN" /\ auth' = "DOWN"
  /\ card' = [ptk |-> NoKey, gtk |-> 0]
  /\ psk' \in Pmks
  /\ UNCHANGED <<eapolstate, eapolsends, anonce, snonce, replay, key, drawn, taken,
                 again, ap, down, up>>

(* The timer, an error from the card, the user. *)
Aborted ==
  /\ auth # "DOWN" /\ auth' = "DISCONNECTING"
  /\ UNCHANGED <<eapolstate, eapolsends, anonce, snonce, replay, psk, key, card,
                 drawn, taken, again, ap, down, up>>

-----------------------------------------------------------------------------
(* Mutant: the generator returns what it returned the first time. *)
fill_rand_Same == 1

fill_rand == drawn + 1

recv_packet_1(f) ==
  LET k == [pmk |-> psk, a |-> f.nonce, s |-> fill_rand] IN
  IF f.type # "M1" THEN UNCHANGED <<station, up>>
  ELSE /\ drawn < MaxNonce /\ drawn' = drawn + 1
       /\ anonce' = f.nonce /\ replay' = f.count
       /\ snonce' = fill_rand /\ key' = k
       /\ IF ~eapolsends
          THEN eapolstate' = "WAITING_2_4" /\ UNCHANGED <<auth, up>>
          ELSE \/ /\ Sends(Packet2(fill_rand, f.count, k))
                  /\ eapolstate' = "WAITING_3_4" /\ UNCHANGED auth
               \/ Fails /\ UNCHANGED eapolstate
       /\ NoUpload /\ UNCHANGED <<eapolsends, psk>>

(* Mutant: the counter may go down. *)
Newer_Any(f) == TRUE

Newer(f) == f.count > replay

(* Mutant: a MIC is taken for good. *)
check_mic_Any(f) == TRUE

check_mic(f) == key # NoKey /\ f.mic = key

(* Mutant: the counter that is to come next is stored. *)
Stored_Next(f) == f.count + 1

Stored(f) == f.count

Good3(f) == f.type = "M3" /\ f.nonce = anonce /\ Newer(f) /\ check_mic(f)

(* Nonces, PTK and GTK are wiped once the card has the keys; KCK stays. *)
recv_packet_3(f) ==
  /\ UNCHANGED <<eapolsends, psk, key, drawn>>
  /\ IF ~Good3(f)
     THEN abort_connection /\ UNCHANGED <<up, eapolstate, anonce, snonce, replay>> /\ NoUpload
     ELSE /\ replay' = Stored(f)
          /\ \/ /\ Sends(Packet4(f.count, key))
                /\ eapolstate' = "NEGOTIATED" /\ UNCHANGED auth
                /\ Uploads(key, f.gtk)
                /\ anonce' = 0 /\ snonce' = 0
             \/ Fails /\ NoUpload /\ UNCHANGED <<eapolstate, anonce, snonce>>

recv_group_1(f) ==
  IF ~(f.type = "G1" /\ Newer(f) /\ check_mic(f)) THEN UNCHANGED <<station, up>>
  ELSE /\ replay' = Stored(f)
       /\ \/ Sends(Group2(f.count, key)) /\ UNCHANGED auth /\ upload_gtk(f.gtk)
          \/ Fails /\ NoUpload
       /\ UNCHANGED <<eapolstate, eapolsends, anonce, snonce, psk, key, drawn>>

(* Mutant: a 3/4 that is sent again is answered again. *)
dispatch_Resent(f) ==
  CASE eapolstate = "WAITING_1_4" -> recv_packet_1(f)
    [] eapolstate = "WAITING_3_4" -> recv_packet_3(f)
    [] eapolstate = "NEGOTIATED" /\ f.type = "M3" /\ f.mic = key ->
         /\ Sends(Packet4(f.count, key)) /\ Uploads(key, f.gtk)
         /\ UNCHANGED <<auth, eapolstate, eapolsends, anonce, snonce, replay, psk, key,
                        drawn>>
    [] OTHER -> UNCHANGED <<station, up>>

dispatch(f) ==
  CASE eapolstate = "WAITING_1_4" -> recv_packet_1(f)
    [] eapolstate = "WAITING_3_4" -> recv_packet_3(f)
    [] eapolstate = "NEGOTIATED"  -> recv_group_1(f)
    [] OTHER                      -> UNCHANGED <<station, up>>

(* handle_rawsock, whenever: nothing in it asks what authstate is. *)
Reads(f) == f \in down /\ dispatch(f) /\ UNCHANGED <<ap, down>>

-----------------------------------------------------------------------------
(* The access point. *)
Transmits(f) == down' = down \cup {f}

Message1(n, c)       == [type |-> "M1", nonce |-> n, count |-> c, mic |-> NoKey, gtk |-> 0]
Message3(n, c, k, g) == [type |-> "M3", nonce |-> n, count |-> c, mic |-> k, gtk |-> g]
GroupM1(c, k, g)     == [type |-> "G1", nonce |-> 0, count |-> c, mic |-> k, gtk |-> g]

Counted == apcount < MaxCount /\ apcount' = apcount + 1

(* A nonce for each handshake, a counter for each association. *)
ApAssociates ==
  /\ auth = "ASSOCIATING" /\ auth' = "ANSWERED" /\ apdrawn < MaxNonce
  /\ apdrawn' = apdrawn + 1 /\ apnonce' = apdrawn + 1
  /\ apstate' = "WAIT_2" /\ apkey' = NoKey /\ port' = NoKey /\ apcount' = 1
  /\ Transmits(Message1(apnonce', 1))
  /\ UNCHANGED <<eapolstate, eapolsends, anonce, snonce, replay, psk, key, card, drawn,
                 taken, again, up, apgtk>>

ApResends ==
  /\ Counted
  /\ \/ apstate = "WAIT_2" /\ Transmits(Message1(apnonce, apcount'))
     \/ apstate = "WAIT_4" /\ Transmits(Message3(apnonce, apcount', apkey, apgtk))
     \/ apstate = "DONE" /\ Transmits(GroupM1(apcount', apkey, apgtk))
  /\ UNCHANGED <<station, up, apstate, apnonce, apkey, apgtk, apdrawn, port>>

ApHears2(f) ==
  /\ f \in up /\ f.type = "P2" /\ f.count <= apcount /\ apstate = "WAIT_2"
  /\ f.mic = [pmk |-> ApPmk, a |-> apnonce, s |-> f.nonce]
  /\ apkey' = f.mic /\ apstate' = "WAIT_4" /\ Counted
  /\ Transmits(Message3(apnonce, apcount', apkey', apgtk))
  /\ UNCHANGED <<station, up, apnonce, apgtk, apdrawn, port>>

ApHears4(f) ==
  /\ f \in up /\ f.type = "P4" /\ f.count <= apcount /\ apstate = "WAIT_4"
  /\ f.mic = apkey
  /\ apstate' = "DONE" /\ port' = apkey
  /\ UNCHANGED <<station, up, down, apnonce, apkey, apcount, apgtk, apdrawn>>

(* A new group key, told to a station that has one. *)
ApRekeysGroup ==
  /\ apgtk < MaxGtk /\ apgtk' = apgtk + 1
  /\ IF apstate = "DONE" THEN Counted /\ Transmits(GroupM1(apcount', apkey, apgtk'))
     ELSE UNCHANGED <<apcount, down>>
  /\ UNCHANGED <<station, up, apstate, apnonce, apkey, apdrawn, port>>

(* A new pairwise handshake over the old keys. *)
ApRekeysPair ==
  /\ apstate = "DONE" /\ apdrawn < MaxNonce /\ Counted
  /\ apdrawn' = apdrawn + 1 /\ apnonce' = apdrawn + 1 /\ apstate' = "WAIT_2"
  /\ Transmits(Message1(apnonce', apcount'))
  /\ UNCHANGED <<station, up, apkey, apgtk, port>>

ApDrops ==
  /\ apstate # "OFF" /\ apstate' = "OFF" /\ apkey' = NoKey /\ port' = NoKey
  /\ apnonce' = 0 /\ apcount' = 0
  /\ UNCHANGED <<station, up, down, apgtk, apdrawn>>

-----------------------------------------------------------------------------
Init ==
  /\ auth = "DOWN" /\ eapolstate = "IDLE" /\ eapolsends = FALSE
  /\ anonce = 0 /\ snonce = 0 /\ replay = 0 /\ psk \in Pmks /\ key = NoKey
  /\ card = [ptk |-> NoKey, gtk |-> 0] /\ drawn = 0 /\ taken = {}
  /\ again = FALSE
  /\ down = {} /\ up = {}
  /\ apstate = "OFF" /\ apnonce = 0 /\ apkey = NoKey /\ apcount = 0 /\ apgtk = 1
  /\ apdrawn = 0 /\ port = NoKey

StationStep ==
  \/ Authenticated \/ Associated \/ Disconnected \/ LinkLost \/ Aborted
  \/ \E f \in down : Reads(f)

ApStep ==
  \/ ApAssociates \/ ApResends \/ ApRekeysGroup \/ ApRekeysPair \/ ApDrops
  \/ \E f \in up : ApHears2(f) \/ ApHears4(f)

Next == StationStep \/ ApStep

Spec == Init /\ [][Next]_vars

-----------------------------------------------------------------------------
TypeOK ==
  /\ auth \in AuthStates
  /\ eapolstate \in {"IDLE", "WAITING_1_4", "WAITING_2_4", "WAITING_3_4", "NEGOTIATED"}
  /\ eapolsends \in BOOLEAN /\ again \in BOOLEAN /\ psk \in Pmks
  /\ anonce \in Nonces /\ snonce \in Nonces /\ drawn \in Nonces /\ replay \in Counts
  /\ key \in Keys \cup {NoKey} /\ taken \subseteq Keys
  /\ card \in [ptk : Keys \cup {NoKey}, gtk : Gtks]
  /\ down \subseteq Down /\ up \subseteq Up
  /\ apstate \in {"OFF", "WAIT_2", "WAIT_4", "DONE"}
  /\ apnonce \in Nonces /\ apdrawn \in Nonces /\ apcount \in Counts /\ apgtk \in Gtks
  /\ apkey \in Keys \cup {NoKey} /\ port \in Keys \cup {NoKey}

(* The key the card was given is the one the access point has made, unless  *)
(* it has dropped the station meanwhile: whatever frames of earlier          *)
(* associations are still in the raw socket, none of them completes a        *)
(* handshake, and an open port is open with the card's key.                 *)
KeysAgree ==
  card.ptk # NoKey =>
    /\ apstate # "OFF" => apkey = card.ptk
    /\ port \in {card.ptk, NoKey}

(* No pairwise key is uploaded twice, so that the card never starts its      *)
(* packet numbers again with a key it has used: a 3/4 that comes again is   *)
(* not answered.                                                           *)
FreshPtk == ~again

(* A group key the access point has replaced never comes back while the     *)
(* link lasts, in whatever order its frames are read.                       *)
GtkForward == [][card'.gtk # 0 => card'.gtk >= card.gtk]_vars

(* Nothing is sent between ASSOCIATE and the card's answer to it, when it   *)
(* would be lost: packet 1/4 may be read then, 2/4 has to wait.             *)
HeldBack ==
  [][(auth \in {"ASSOCIATING", "ANSWERED"} /\ auth' # "LINKED") => UNCHANGED up]_vars

(* The handshake is a key agreement. *)
Agreement == INSTANCE KeyAgreement WITH supp <- card.ptk, used <- taken
Implements == Agreement!Spec
=============================================================================
