--------------------------- MODULE HandshakeProofs ---------------------------
(***************************************************************************)
(* Theorems about Handshake, for any keys, nonces, counters and group keys. *)
(***************************************************************************)
EXTENDS Handshake, TLAPS

Unfinished == {"WAITING_1_4", "WAITING_2_4", "WAITING_3_4"}

(* The access point has answered ASSOCIATE since this handshake began, or    *)
(* there is nothing left of it.                                            *)
Peered == auth \in {"ANSWERED", "LINKED"} \/ eapolsends \/ eapolstate = "WAITING_3_4"

(* 3/4 and group 1/2: the frames that carry a group key. *)
WithGtk == {f \in down : f.type \in {"M3", "G1"}}
P2s     == {f \in up : f.type = "P2"}

(* No nonce is from the future. *)
Past(k) == k # NoKey => k.a <= apdrawn /\ k.s <= drawn

PastNonces ==
  /\ Past(key) /\ Past(apkey)
  /\ \A k \in taken : Past(k)
  /\ \A f \in up : Past(f.mic)
  /\ \A f \in down : Past(f.mic) /\ f.nonce <= apdrawn
  /\ apnonce <= apdrawn

(* Until the access point answers, nothing is sent. *)
Quiet ==
  auth \in {"ASSOCIATING", "ANSWERED"} =>
    /\ ~eapolsends
    /\ eapolstate \in {"WAITING_1_4", "WAITING_2_4"}
    /\ eapolstate = "WAITING_2_4" => key # NoKey

(* A key that a handshake has come to is not in use, and one that has not    *)
(* been sent is not known to the access point.                             *)
NewKey ==
  /\ eapolstate \in {"WAITING_2_4", "WAITING_3_4"} => key \notin taken
  /\ eapolstate = "WAITING_2_4" /\ key # NoKey =>
       \A f \in P2s \cup WithGtk : f.mic # key

CardKey ==
  /\ card.ptk # NoKey =>
       /\ eapolstate = "NEGOTIATED" /\ key = card.ptk
       /\ auth \in {"LINKED", "DISCONNECTING"}
  /\ card.ptk = NoKey => card.gtk = 0
  /\ eapolstate = "NEGOTIATED" /\ auth # "DOWN" => card.ptk # NoKey

(* What is in use was asked for by a 3/4, and a 4/4 is for a key in use. *)
Taken ==
  /\ \A k \in taken : \E f \in down : f.type = "M3" /\ f.mic = k
  /\ \A f \in up : f.type = "P4" => f.mic \in taken

(* A nonce of the access point gets one key, that of the first 2/4. *)
OneKeyPerNonce ==
  /\ \A f \in P2s \cup WithGtk : f.mic \in Keys
  /\ apkey # NoKey => \E f \in P2s : f.mic = apkey
  /\ apstate \in {"WAIT_4", "DONE"} => apkey \in Keys
  /\ apstate = "WAIT_2" => \A f \in WithGtk : f.mic.a # apnonce

(* While the station has not finished, neither has the access point.  A 3/4  *)
(* with the station's key is from this association.                        *)
InStep ==
  Peered /\ eapolstate \in Unfinished =>
    /\ port = NoKey /\ apstate # "DONE"
    /\ apstate = "WAIT_4" => apkey \notin taken
    /\ eapolstate = "WAITING_3_4" /\ apstate # "OFF" =>
         \A f \in WithGtk : f.mic = key => apstate = "WAIT_4" /\ apkey = key

(* The 2/4 of a new pairwise handshake is not sent by a station that has not *)
(* begun anew.                                                             *)
NoSecond ==
  card.ptk # NoKey /\ apstate = "WAIT_2" => \A f \in P2s : f.mic.a # apnonce

(* Of the group keys told under one pairwise key the later is the newer. *)
GtkOrder ==
  /\ \A f, g \in WithGtk : f.mic = g.mic /\ f.count <= g.count => f.gtk <= g.gtk
  /\ \A f \in WithGtk : f.gtk <= apgtk
  /\ card.gtk <= apgtk
  /\ \A f \in WithGtk : f.mic = apkey => f.count <= apcount
  /\ card.ptk # NoKey =>
       \A f \in WithGtk : f.mic = card.ptk /\ f.count > replay => f.gtk >= card.gtk

IInv ==
  /\ TypeOK /\ PastNonces /\ Quiet /\ NewKey /\ CardKey /\ Taken
  /\ OneKeyPerNonce /\ InStep /\ NoSecond /\ GtkOrder
  /\ KeysAgree /\ FreshPtk

USE HandshakeAssumption, NoKeyIsNone

-----------------------------------------------------------------------------
LEMMA DownTypes ==
  ASSUME NEW n \in Nonces, NEW c \in Counts, NEW k \in Keys \cup {NoKey},
         NEW g \in Gtks
  PROVE  /\ Message1(n, c) \in Down
         /\ Message3(n, c, k, g) \in Down
         /\ GroupM1(c, k, g) \in Down
  BY DEF Message1, Message3, GroupM1, Down, Nonces, Gtks, HandshakeAssumption

LEMMA UpTypes ==
  ASSUME NEW n \in Nonces, NEW c \in Counts, NEW k \in Keys \cup {NoKey}
  PROVE  /\ Packet2(n, c, k) \in Up
         /\ Packet4(c, k) \in Up
         /\ Group2(c, k) \in Up
  BY DEF Packet2, Packet4, Group2, Up, Nonces, HandshakeAssumption

LEMMA DownFields ==
  ASSUME NEW f \in Down
  PROVE  /\ f.type \in {"M1", "M3", "G1"} /\ f.nonce \in Nonces
         /\ f.count \in Counts /\ f.mic \in Keys \cup {NoKey} /\ f.gtk \in Gtks
  BY DEF Down

LEMMA InitType == Init => TypeOK
  <1>1. SUFFICES ASSUME Init
                 PROVE  TypeOK
    OBVIOUS
  <1>2. 0 \in Nonces /\ 0 \in Counts /\ {0, 1} \subseteq Gtks
    BY DEF Nonces, Counts, Gtks, HandshakeAssumption
  <1>3. card \in [ptk : Keys \cup {NoKey}, gtk : Gtks]
    BY <1>1, <1>2 DEF Init
  <1>4. down \subseteq Down /\ up \subseteq Up /\ taken \subseteq Keys
    BY <1>1 DEF Init
  <1> QED
    BY <1>1, <1>2, <1>3, <1>4 DEF Init, TypeOK, AuthStates

LEMMA DispatchType ==
  ASSUME TypeOK, NEW f \in down, Reads(f)
  PROVE  TypeOK'
  <1>1. f \in Down
    BY DEF TypeOK
  <1>2. /\ f.nonce \in Nonces /\ f.count \in Counts /\ f.gtk \in Gtks
    BY <1>1, DownFields
  <1>3. UNCHANGED <<ap, down>> /\ dispatch(f)
    BY DEF Reads
  <1>4. CASE recv_packet_1(f)
    <2>1. CASE f.type # "M1"
      BY <1>3, <1>4, <2>1 DEF recv_packet_1, TypeOK, ap, station
    <2>2. CASE f.type = "M1"
      <3> DEFINE k == [pmk |-> psk, a |-> f.nonce, s |-> fill_rand]
      <3>1. fill_rand \in Nonces /\ k \in Keys
        BY <1>2, <1>4, <2>2
        DEF recv_packet_1, TypeOK, fill_rand, Nonces, Keys, HandshakeAssumption
      <3>2. Packet2(fill_rand, f.count, k) \in Up
        BY <1>2, <3>1, UpTypes
      <3> HIDE DEF k
      <3>3. /\ drawn' = fill_rand /\ anonce' = f.nonce /\ replay' = f.count
            /\ snonce' = fill_rand /\ key' = k
            /\ NoUpload /\ UNCHANGED <<eapolsends, psk>>
            /\ eapolstate' \in {eapolstate, "WAITING_2_4", "WAITING_3_4"}
            /\ auth' = auth \/ abort_connection
            /\ up' = up \/ Sends(Packet2(fill_rand, f.count, k))
        BY <1>4, <2>2 DEF recv_packet_1, k, fill_rand, Fails
      <3>4. auth' \in AuthStates /\ up' \subseteq Up
        BY <3>2, <3>3 DEF abort_connection, Sends, TypeOK, AuthStates
      <3> QED
        BY <1>2, <1>3, <3>1, <3>3, <3>4 DEF TypeOK, NoUpload, ap
    <2> QED
      BY <2>1, <2>2
  <1>5. CASE recv_packet_3(f)
    <2>1. Packet4(f.count, key) \in Up
      BY <1>2, UpTypes DEF TypeOK
    <2>2. /\ UNCHANGED <<eapolsends, psk, key, drawn>>
          /\ eapolstate' \in {eapolstate, "NEGOTIATED"}
          /\ auth' = auth \/ abort_connection
          /\ up' = up \/ Sends(Packet4(f.count, key))
          /\ anonce' \in {anonce, 0} /\ snonce' \in {snonce, 0}
          /\ replay' \in {replay, f.count}
          /\ NoUpload \/ (Uploads(key, f.gtk) /\ check_mic(f))
      BY <1>5 DEF recv_packet_3, Fails, Stored, Good3
    <2>3. auth' \in AuthStates /\ up' \subseteq Up
      BY <2>1, <2>2 DEF abort_connection, Sends, TypeOK, AuthStates
    <2>4. /\ card' \in [ptk : Keys \cup {NoKey}, gtk : Gtks]
          /\ taken' \subseteq Keys /\ again' \in BOOLEAN
      <3>1. CASE UNCHANGED <<card, taken, again>>
        BY <3>1 DEF TypeOK
      <3>2. CASE /\ card' = [ptk |-> key, gtk |-> f.gtk] /\ key # NoKey
                 /\ again' = (again \/ key \in taken) /\ taken' = taken \cup {key}
        <4>1. key \in Keys /\ taken \subseteq Keys
          BY <3>2 DEF TypeOK
        <4>2. card' \in [ptk : Keys \cup {NoKey}, gtk : Gtks]
          BY <1>2, <3>2, <4>1
        <4>3. again' \in BOOLEAN
          BY <3>2
        <4> QED
          BY <3>2, <4>1, <4>2, <4>3
      <3> QED
        BY <2>2, <3>1, <3>2 DEF NoUpload, Uploads, check_mic
    <2>5. 0 \in Nonces
      BY DEF Nonces, HandshakeAssumption
    <2> QED
      BY <1>2, <1>3, <2>2, <2>3, <2>4, <2>5 DEF TypeOK, ap
  <1>6. CASE recv_group_1(f)
    <2>1. Group2(f.count, key) \in Up
      BY <1>2, UpTypes DEF TypeOK
    <2>2. /\ UNCHANGED <<eapolstate, eapolsends, anonce, snonce, psk, key, drawn>>
          /\ auth' = auth \/ abort_connection
          /\ up' = up \/ Sends(Group2(f.count, key))
          /\ replay' \in {replay, f.count}
          /\ NoUpload \/ upload_gtk(f.gtk)
      BY <1>6 DEF recv_group_1, Fails, Stored, station, NoUpload
    <2>3. auth' \in AuthStates /\ up' \subseteq Up
      BY <2>1, <2>2 DEF abort_connection, Sends, TypeOK, AuthStates
    <2>4. /\ card' \in [ptk : Keys \cup {NoKey}, gtk : Gtks]
          /\ taken' = taken /\ again' = again
      BY <1>2, <2>2 DEF NoUpload, upload_gtk, TypeOK
    <2> QED
      BY <1>2, <1>3, <2>2, <2>3, <2>4 DEF TypeOK, ap
  <1>7. CASE UNCHANGED <<station, up>>
    BY <1>3, <1>7 DEF TypeOK, ap, station
  <1> QED
    BY <1>3, <1>4, <1>5, <1>6, <1>7 DEF dispatch

LEMMA TypeKept ==
  ASSUME TypeOK, [Next]_vars
  PROVE  TypeOK'
  <1> USE DEF TypeOK, ap, station
  <1>0. 0 \in Nonces /\ 0 \in Counts /\ 1 \in Counts /\ 0 \in Gtks
    BY DEF Nonces, Counts, Gtks, HandshakeAssumption
  <1>1. /\ \A f \in Down : down \cup {f} \subseteq Down
        /\ \A f \in Up : up \cup {f} \subseteq Up
    OBVIOUS
  <1>2. Counted => apcount' \in Counts
    BY DEF Counted, Counts, HandshakeAssumption
  <1>3. apdrawn < MaxNonce => apdrawn + 1 \in Nonces
    BY DEF Nonces, HandshakeAssumption
  <1>4. apgtk < MaxGtk => apgtk + 1 \in Gtks
    BY DEF Gtks, HandshakeAssumption
  <1>5. [ptk |-> NoKey, gtk |-> 0] \in [ptk : Keys \cup {NoKey}, gtk : Gtks]
    BY <1>0
  <1>6. CASE Authenticated
    BY <1>6 DEF Authenticated, primed, AuthStates
  <1>7. CASE Associated
    <2>1. Packet2(snonce, replay, key) \in Up
      BY UpTypes
    <2>2. up' \subseteq Up
      BY <1>7, <2>1 DEF Associated, Sends
    <2>3. /\ auth' \in AuthStates /\ eapolsends' \in BOOLEAN
          /\ eapolstate' \in {eapolstate, "WAITING_3_4"}
      BY <1>7 DEF Associated, AuthStates
    <2>4. UNCHANGED <<anonce, snonce, replay, psk, key, card, drawn, taken,
                      again, ap, down>>
      BY <1>7 DEF Associated
    <2> QED
      BY <2>2, <2>3, <2>4
  <1>8. CASE Disconnected \/ LinkLost \/ Aborted
    BY <1>0, <1>5, <1>8 DEF Disconnected, LinkLost, Aborted, AuthStates
  <1>9. CASE ApAssociates
    <2>1. Message1(apdrawn + 1, 1) \in Down
      BY <1>0, <1>3, <1>9, DownTypes DEF ApAssociates
    <2> QED
      BY <1>0, <1>1, <1>3, <1>9, <2>1 DEF ApAssociates, Transmits, AuthStates
  <1>10. CASE ApResends
    <2>1. apcount' \in Counts
      BY <1>2, <1>10 DEF ApResends
    <2>2. /\ Message1(apnonce, apcount') \in Down
          /\ Message3(apnonce, apcount', apkey, apgtk) \in Down
          /\ GroupM1(apcount', apkey, apgtk) \in Down
      BY <1>0, <2>1, DownTypes
    <2>3. down' \subseteq Down
      BY <1>1, <1>10, <2>2 DEF ApResends, Transmits
    <2> QED
      BY <1>10, <2>1, <2>3 DEF ApResends
  <1>11. ASSUME NEW f \in up, ApHears2(f)
         PROVE  TypeOK'
    <2>1. apcount' \in Counts /\ apkey' \in Keys
      BY <1>2, <1>11 DEF ApHears2, Up, Keys, HandshakeAssumption
    <2>2. Message3(apnonce, apcount', apkey', apgtk) \in Down
      BY <2>1, DownTypes
    <2> QED
      BY <1>1, <1>11, <2>1, <2>2 DEF ApHears2, Transmits
  <1>12. ASSUME NEW f \in up, ApHears4(f)
         PROVE  TypeOK'
    BY <1>12 DEF ApHears4
  <1>13. CASE ApRekeysGroup
    <2>1. apgtk' \in Gtks /\ (Counted => apcount' \in Counts)
      BY <1>2, <1>4, <1>13 DEF ApRekeysGroup
    <2>2. Counted => GroupM1(apcount', apkey, apgtk') \in Down
      BY <2>1, DownTypes
    <2> QED
      BY <1>1, <1>13, <2>1, <2>2 DEF ApRekeysGroup, Transmits
  <1>14. CASE ApRekeysPair
    <2>1. apcount' \in Counts /\ apnonce' \in Nonces /\ apdrawn' \in Nonces
      BY <1>2, <1>3, <1>14 DEF ApRekeysPair
    <2>2. Message1(apnonce', apcount') \in Down
      BY <1>0, <2>1, DownTypes
    <2> QED
      BY <1>1, <1>14, <2>1, <2>2 DEF ApRekeysPair, Transmits
  <1>15. CASE ApDrops
    BY <1>0, <1>15 DEF ApDrops
  <1>16. CASE UNCHANGED vars
    BY <1>16 DEF vars
  <1> QED
    BY <1>6, <1>7, <1>8, <1>9, <1>10, <1>11, <1>12, <1>13, <1>14, <1>15, <1>16,
       DispatchType DEF Next, StationStep, ApStep

-----------------------------------------------------------------------------
(* What a step of the access point does to the keys it tells. *)
LEMMA ApTells ==
  ASSUME TypeOK, ApStep
  PROVE  /\ UNCHANGED <<eapolstate, eapolsends, anonce, snonce, replay, psk, key,
                        card, drawn, taken, again, up>>
         /\ P2s' = P2s
         /\ apgtk <= apgtk' /\ down \subseteq down'
         /\ \/ WithGtk' = WithGtk
            \/ \E f \in down' :
                 /\ WithGtk' = WithGtk \cup {f}
                 /\ f.type \in {"M3", "G1"}
                 /\ f.mic = apkey' /\ f.count = apcount' /\ f.gtk = apgtk'
                 /\ f.type = "M3" => f.nonce = apnonce
                 /\ apcount' = apcount + 1
                 /\ apstate' \in {"WAIT_4", "DONE"}
  <1> USE DEF WithGtk, P2s, station, Transmits
  <1>1. CASE ApAssociates
    BY <1>1 DEF ApAssociates, Message1, TypeOK, Gtks
  <1>2. CASE ApResends
    <2>1. CASE apstate = "WAIT_2"
      BY <1>2, <2>1 DEF ApResends, Message1, TypeOK, Gtks
    <2>2. CASE apstate = "WAIT_4"
      <3> DEFINE m == Message3(apnonce, apcount', apkey, apgtk)
      <3>1. /\ m.type = "M3" /\ m.mic = apkey' /\ m.count = apcount'
            /\ m.gtk = apgtk' /\ m.nonce = apnonce
            /\ down' = down \cup {m} /\ apcount' = apcount + 1
        BY <1>2, <2>2 DEF ApResends, Message3, Counted
      <3> HIDE DEF m
      <3>2. WithGtk' = WithGtk \cup {m}
        BY <3>1
      <3> QED
        BY <1>2, <2>2, <3>1, <3>2 DEF ApResends, TypeOK, Gtks
    <2>3. CASE apstate = "DONE"
      <3> DEFINE m == GroupM1(apcount', apkey, apgtk)
      <3>1. /\ m.type = "G1" /\ m.mic = apkey' /\ m.count = apcount'
            /\ m.gtk = apgtk'
            /\ down' = down \cup {m} /\ apcount' = apcount + 1
        BY <1>2, <2>3 DEF ApResends, GroupM1, Counted
      <3> HIDE DEF m
      <3>2. WithGtk' = WithGtk \cup {m}
        BY <3>1
      <3> QED
        BY <1>2, <2>3, <3>1, <3>2 DEF ApResends, TypeOK, Gtks
    <2> QED
      BY <1>2, <2>1, <2>2, <2>3 DEF ApResends
  <1>3. ASSUME NEW f \in up, ApHears2(f)
        PROVE  \E m \in down' :
                 /\ WithGtk' = WithGtk \cup {m} /\ down \subseteq down'
                 /\ m.type = "M3" /\ m.nonce = apnonce
                 /\ m.mic = apkey' /\ m.count = apcount' /\ m.gtk = apgtk'
    <2> DEFINE m == Message3(apnonce, apcount', apkey', apgtk)
    <2>1. /\ m.type = "M3" /\ m.mic = apkey' /\ m.count = apcount'
          /\ m.gtk = apgtk' /\ m.nonce = apnonce /\ down' = down \cup {m}
      BY <1>3 DEF ApHears2, Message3
    <2> HIDE DEF m
    <2>2. WithGtk' = WithGtk \cup {m}
      BY <2>1
    <2> QED
      BY <2>1, <2>2
  <1>4. ASSUME NEW f \in up, ApHears4(f)
        PROVE  UNCHANGED <<down, station, up, apgtk>>
    BY <1>4 DEF ApHears4
  <1>5. CASE ApRekeysGroup
    <2>1. CASE apstate = "DONE"
      <3> DEFINE m == GroupM1(apcount', apkey, apgtk')
      <3>1. /\ m.type = "G1" /\ m.mic = apkey' /\ m.count = apcount'
            /\ m.gtk = apgtk'
            /\ down' = down \cup {m} /\ apcount' = apcount + 1
        BY <1>5, <2>1 DEF ApRekeysGroup, GroupM1, Counted
      <3> HIDE DEF m
      <3>2. WithGtk' = WithGtk \cup {m}
        BY <3>1
      <3> QED
        BY <1>5, <2>1, <3>1, <3>2 DEF ApRekeysGroup, TypeOK, Gtks
    <2> QED
      BY <1>5, <2>1 DEF ApRekeysGroup, TypeOK, Gtks
  <1>6. CASE ApRekeysPair
    BY <1>6 DEF ApRekeysPair, Message1, TypeOK, Gtks
  <1>7. CASE ApDrops
    BY <1>7 DEF ApDrops, TypeOK, Gtks
  <1>8. apgtk <= apgtk
    BY DEF TypeOK, Gtks
  <1>9. ASSUME NEW f \in up, ApHears2(f)
        PROVE  /\ UNCHANGED <<station, up, apgtk>> /\ apcount' = apcount + 1
               /\ apstate' = "WAIT_4"
    BY <1>9 DEF ApHears2, Counted
  <1> QED
    BY <1>1, <1>2, <1>3, <1>4, <1>5, <1>6, <1>7, <1>8, <1>9 DEF ApStep

(* What a step of the station does that is not about a frame: nothing to the *)
(* access point, and keys are only lost.                                   *)
LEMMA StationLeaves ==
  ASSUME StationStep \/ UNCHANGED vars
  PROVE  UNCHANGED <<ap, down>> /\ WithGtk' = WithGtk
  BY DEF StationStep, Authenticated, Associated, Disconnected, LinkLost, Aborted,
         Reads, WithGtk, vars

-----------------------------------------------------------------------------
LEMMA QuietKept ==
  ASSUME IInv, [Next]_vars
  PROVE  Quiet'
  <1> USE DEF Quiet, IInv
  <1>1. CASE Authenticated
    BY <1>1 DEF Authenticated, primed
  <1>4. CASE Associated \/ Disconnected \/ LinkLost \/ Aborted
    BY <1>4 DEF Associated, Disconnected, LinkLost, Aborted
  <1>5. CASE UNCHANGED vars
    BY <1>5 DEF vars, station
  <1>2. ASSUME NEW f \in down, Reads(f)
        PROVE  Quiet'
    <2>1. CASE recv_packet_1(f)
      <3>1. [pmk |-> psk, a |-> f.nonce, s |-> fill_rand] # NoKey
         \/ f.type # "M1"
        <4>1. f.nonce \in Nonces
          BY DownFields DEF TypeOK
        <4>2. CASE f.type = "M1"
          <5>1. fill_rand \in Nonces
            BY <2>1, <4>2
            DEF recv_packet_1, TypeOK, fill_rand, Nonces, HandshakeAssumption
          <5>2. [pmk |-> psk, a |-> f.nonce, s |-> fill_rand] \in Keys
            BY <4>1, <5>1 DEF TypeOK, Keys
          <5> QED
            BY <5>2
        <4> QED
          BY <4>2
      <3> QED
        BY <2>1, <3>1 DEF recv_packet_1, station, Fails, abort_connection
    <2>2. CASE recv_packet_3(f) /\ eapolstate = "WAITING_3_4"
      BY <2>2 DEF recv_packet_3, Fails, abort_connection
    <2>3. CASE recv_group_1(f) /\ eapolstate = "NEGOTIATED"
      BY <2>3 DEF recv_group_1, Fails, abort_connection, station
    <2>4. CASE UNCHANGED <<station, up>>
      BY <2>4 DEF station
    <2> QED
      BY <1>2, <2>1, <2>2, <2>3, <2>4 DEF Reads, dispatch
  <1>3. CASE ApStep
    <2>1. auth' = auth \/ auth = "ASSOCIATING"
      BY <1>3 DEF ApStep, ApAssociates, ApResends, ApRekeysGroup, ApRekeysPair,
                  ApDrops, ApHears2, ApHears4, station
    <2> QED
      BY <1>3, <2>1, ApTells
  <1> QED
    BY <1>1, <1>2, <1>3, <1>4, <1>5 DEF Next, StationStep

-----------------------------------------------------------------------------
(* What reading a frame may do: nothing, a new key, the end of the handshake *)
(* with the key uploaded if there is still a link, a new group key, or the   *)
(* end of the link.                                                        *)
Replies(t, k) ==
  \/ up' = up
  \/ auth # "DOWN" /\ \E g \in Up : g.type = t /\ g.mic = k /\ up' = up \cup {g}

NewPtk(f) ==
  /\ f.type = "M1" /\ eapolstate = "WAITING_1_4"
  /\ drawn' = drawn + 1 /\ key' \in Keys /\ key'.a = f.nonce /\ key'.s = drawn + 1
  /\ UNCHANGED <<card, taken, again, eapolsends>>
  /\ \/ ~eapolsends /\ eapolstate' = "WAITING_2_4" /\ UNCHANGED <<auth, up>>
     \/ /\ eapolsends /\ eapolstate' = "WAITING_3_4" /\ UNCHANGED auth
        /\ Replies("P2", key')
     \/ eapolsends /\ UNCHANGED <<eapolstate, up>> /\ abort_connection

Installed(f) ==
  /\ f.type = "M3" /\ eapolstate = "WAITING_3_4" /\ key # NoKey /\ f.mic = key
  /\ replay' = f.count /\ eapolstate' = "NEGOTIATED"
  /\ Replies("P4", key)
  /\ Uploads(key, f.gtk)
  /\ UNCHANGED <<auth, eapolsends, psk, key, drawn>>

NewGtk(f) ==
  /\ f.type = "G1" /\ eapolstate = "NEGOTIATED" /\ key # NoKey /\ f.mic = key
  /\ f.count > replay /\ replay' = f.count
  /\ Replies("G2", key) /\ upload_gtk(f.gtk)
  /\ UNCHANGED <<auth, eapolstate, eapolsends, psk, key, drawn>>

GivenUp(f) ==
  /\ eapolstate \in {"WAITING_3_4", "NEGOTIATED"}
  /\ abort_connection
  /\ \/ replay' = replay
     \/ f.count > replay /\ replay' = f.count
  /\ UNCHANGED <<up, eapolstate, eapolsends, psk, key, drawn, card, taken, again>>

LEMMA ReadsEffect ==
  ASSUME TypeOK, NEW f \in down, Reads(f)
  PROVE  \/ UNCHANGED <<station, up>>
         \/ NewPtk(f) \/ Installed(f) \/ NewGtk(f) \/ GivenUp(f)
  <1>1. f.nonce \in Nonces /\ f.count \in Counts /\ key \in Keys \cup {NoKey}
    BY DownFields DEF TypeOK
  <1>2. CASE recv_packet_1(f) /\ eapolstate = "WAITING_1_4" /\ f.type = "M1"
    <2> DEFINE k == [pmk |-> psk, a |-> f.nonce, s |-> fill_rand]
               g == Packet2(fill_rand, f.count, k)
    <2>1. fill_rand \in Nonces /\ k \in Keys /\ k.a = f.nonce /\ k.s = drawn + 1
      BY <1>1, <1>2
      DEF recv_packet_1, TypeOK, fill_rand, Nonces, Keys, HandshakeAssumption
    <2>2. g \in Up /\ g.type = "P2" /\ g.mic = k
      BY <1>1, <2>1, UpTypes DEF Packet2
    <2> HIDE DEF k, g
    <2>3. /\ drawn' = drawn + 1 /\ key' = k
          /\ UNCHANGED <<card, taken, again, eapolsends>>
          /\ IF ~eapolsends
             THEN eapolstate' = "WAITING_2_4" /\ UNCHANGED <<auth, up>>
             ELSE \/ /\ Sends(g) /\ eapolstate' = "WAITING_3_4"
                     /\ UNCHANGED auth
                  \/ Fails /\ UNCHANGED eapolstate
      BY <1>2 DEF recv_packet_1, k, g, NoUpload, fill_rand
    <2>4. Sends(g) => Replies("P2", key')
      BY <2>2, <2>3 DEF Sends, Replies
    <2> QED
      BY <1>2, <2>1, <2>3, <2>4 DEF NewPtk, Fails
  <1>3. CASE recv_packet_1(f) /\ eapolstate = "WAITING_1_4" /\ f.type # "M1"
    BY <1>3 DEF recv_packet_1
  <1>4. CASE recv_packet_3(f) /\ eapolstate = "WAITING_3_4"
    <2> DEFINE g == Packet4(f.count, key)
    <2>1. g \in Up /\ g.type = "P4" /\ g.mic = key
      BY <1>1, UpTypes DEF Packet4
    <2> HIDE DEF g
    <2>2. Sends(g) => Replies("P4", key)
      BY <2>1 DEF Sends, Replies
    <2>3. CASE ~Good3(f)
      BY <1>4, <2>3 DEF recv_packet_3, GivenUp, NoUpload
    <2>4. CASE Good3(f)
      <3>1. f.type = "M3" /\ f.count > replay /\ key # NoKey /\ f.mic = key
        BY <2>4 DEF Good3, Newer, check_mic
      <3>2. /\ UNCHANGED <<eapolsends, psk, key, drawn>> /\ replay' = f.count
            /\ \/ /\ Sends(g) /\ eapolstate' = "NEGOTIATED" /\ UNCHANGED auth
                  /\ Uploads(key, f.gtk)
               \/ /\ Fails /\ NoUpload /\ UNCHANGED eapolstate
        BY <1>4, <2>4 DEF recv_packet_3, Stored, g
      <3> QED
        BY <1>4, <2>2, <3>1, <3>2 DEF Installed, GivenUp, Fails, NoUpload
    <2> QED
      BY <2>3, <2>4
  <1>5. CASE recv_group_1(f) /\ eapolstate = "NEGOTIATED"
    <2> DEFINE g == Group2(f.count, key)
    <2>1. g \in Up /\ g.type = "G2" /\ g.mic = key
      BY <1>1, UpTypes DEF Group2
    <2> HIDE DEF g
    <2>2. Sends(g) => Replies("G2", key)
      BY <2>1 DEF Sends, Replies
    <2>3. CASE f.type = "G1" /\ Newer(f) /\ check_mic(f)
      <3>1. f.type = "G1" /\ f.count > replay /\ key # NoKey /\ f.mic = key
        BY <2>3 DEF Newer, check_mic
      <3>2. /\ UNCHANGED <<eapolstate, eapolsends, psk, key, drawn>>
            /\ replay' = f.count
            /\ \/ Sends(g) /\ UNCHANGED auth /\ upload_gtk(f.gtk)
               \/ Fails /\ NoUpload
        BY <1>5, <2>3 DEF recv_group_1, Stored, g
      <3> QED
        BY <1>5, <2>2, <3>1, <3>2 DEF NewGtk, GivenUp, Fails, NoUpload
    <2> QED
      BY <1>5, <2>3 DEF recv_group_1
  <1>6. CASE UNCHANGED <<station, up>>
    BY <1>6
  <1> QED
    BY <1>2, <1>3, <1>4, <1>5, <1>6 DEF Reads, dispatch

-----------------------------------------------------------------------------
(* The steps of the station that read no frame. *)
Others == Authenticated \/ Associated \/ Disconnected \/ LinkLost \/ Aborted

LEMMA OthersEffect ==
  ASSUME IInv, Others
  PROVE  /\ UNCHANGED <<taken, again, drawn>>
         /\ key' \in {key, NoKey}
         /\ card' = card \/ card' = [ptk |-> NoKey, gtk |-> 0]
         /\ \/ up' = up
            \/ /\ eapolstate = "WAITING_2_4" /\ eapolstate' = "WAITING_3_4"
               /\ auth = "ANSWERED" /\ key' = key /\ key \in Keys /\ card' = card
               /\ \E g \in Up : g.type = "P2" /\ g.mic = key /\ up' = up \cup {g}
  <1>1. CASE Associated /\ eapolstate = "WAITING_2_4"
    <2> DEFINE g == Packet2(snonce, replay, key)
    <2>1. g \in Up /\ g.type = "P2" /\ g.mic = key
      BY UpTypes DEF Packet2, IInv, TypeOK
    <2>2. key \in Keys
      BY <1>1 DEF Associated, IInv, TypeOK, Quiet
    <2> HIDE DEF g
    <2>3. \/ up' = up
          \/ eapolstate' = "WAITING_3_4" /\ up' = up \cup {g}
      BY <1>1 DEF Associated, Sends, g
    <2> QED
      BY <1>1, <2>1, <2>2, <2>3 DEF Associated
  <1>2. CASE Associated /\ eapolstate # "WAITING_2_4"
    BY <1>2 DEF Associated, IInv, Quiet
  <1>3. CASE Authenticated \/ Aborted \/ Disconnected \/ LinkLost
    BY <1>3 DEF Authenticated, Aborted, Disconnected, LinkLost
  <1> QED
    BY <1>1, <1>2, <1>3 DEF Others

(* What the access point sends. *)
LEMMA ApFrames ==
  ASSUME TypeOK, ApStep
  PROVE  \A f \in down' : f \in down \/ /\ f.mic \in {NoKey, apkey'}
                                        /\ f.nonce \in {0, apnonce'}
  <1> USE DEF Transmits
  <1>1. CASE ApAssociates
    BY <1>1 DEF ApAssociates, Message1
  <1>2. CASE ApResends
    BY <1>2 DEF ApResends, Message1, Message3, GroupM1
  <1>3. ASSUME NEW f \in up, ApHears2(f) \/ ApHears4(f)
        PROVE  \A g \in down' : g \in down \/ /\ g.mic \in {NoKey, apkey'}
                                              /\ g.nonce \in {0, apnonce'}
    BY <1>3 DEF ApHears2, ApHears4, Message3
  <1>4. CASE ApRekeysGroup \/ ApRekeysPair \/ ApDrops
    BY <1>4 DEF ApRekeysGroup, ApRekeysPair, ApDrops, GroupM1, Message1
  <1> QED
    BY <1>1, <1>2, <1>3, <1>4 DEF ApStep

(* Its keys are from 2/4 frames. *)
LEMMA ApKeys ==
  ASSUME TypeOK, ApStep
  PROVE  /\ apkey' \in {apkey, NoKey} \cup {f.mic : f \in P2s}
         /\ apdrawn <= apdrawn' /\ apnonce' \in {apnonce, 0, apdrawn'}
  <1>1. ASSUME NEW f \in up, ApHears2(f) \/ ApHears4(f)
        PROVE  /\ apkey' \in {apkey, f.mic} /\ (apkey' # apkey => f \in P2s)
               /\ apdrawn' = apdrawn /\ apnonce' = apnonce
    BY <1>1 DEF ApHears2, ApHears4, P2s
  <1>2. apdrawn \in Nat
    BY DEF TypeOK, Nonces
  <1> QED
    BY <1>1, <1>2 DEF ApStep, ApAssociates, ApResends, ApRekeysGroup, ApRekeysPair,
                      ApDrops

LEMMA PastNoncesKept ==
  ASSUME IInv, [Next]_vars
  PROVE  PastNonces'
  <1>0. /\ TypeOK /\ PastNonces /\ drawn \in Nat /\ apdrawn \in Nat
        /\ apnonce \in Nat
    BY DEF IInv, TypeOK, Nonces
  <1>1. CASE Others
    <2>1. UNCHANGED <<ap, down, taken, drawn>> /\ key' \in {key, NoKey}
      BY <1>1, StationLeaves, OthersEffect DEF Others, StationStep
    <2>2. \A f \in up' : f \in up \/ f.mic = key
      BY <1>1, OthersEffect
    <2> QED
      BY <1>0, <2>1, <2>2 DEF PastNonces, Past, ap
  <1>2. ASSUME NEW f \in down, Reads(f)
        PROVE  PastNonces'
    <2>0. UNCHANGED <<ap, down>>
      BY <1>2 DEF Reads
    <2>1. CASE UNCHANGED <<station, up>>
      BY <1>0, <2>0, <2>1 DEF PastNonces, Past, station, ap
    <2>2. CASE NewPtk(f)
      <3>1. \A g \in up' : g \in up \/ g.mic = key'
        BY <2>2 DEF NewPtk, Replies
      <3>2. drawn' = drawn + 1 /\ apdrawn' = apdrawn
        BY <2>0, <2>2 DEF NewPtk, ap
      <3>3. Past(key)'
        BY <1>0, <2>2, <3>2 DEF NewPtk, PastNonces, Past
      <3>4. \A k \in Keys \cup {NoKey} : Past(k) => Past(k)'
        <4>1. \A k \in Keys : k.s \in Nat
          BY DEF Keys, Nonces
        <4> QED
          BY <1>0, <3>2, <4>1 DEF Past
      <3>5. /\ taken \subseteq Keys /\ apkey \in Keys \cup {NoKey}
            /\ \A g \in up \cup down : g.mic \in Keys \cup {NoKey}
        BY <1>0 DEF TypeOK, Up, Down
      <3>6. UNCHANGED <<taken, apkey, apnonce, down>>
        BY <2>0, <2>2 DEF NewPtk, ap
      <3>7. \A g \in up' : Past(g.mic)'
        BY <1>0, <3>1, <3>3, <3>4, <3>5 DEF PastNonces
      <3> QED
        BY <1>0, <3>2, <3>3, <3>4, <3>5, <3>6, <3>7 DEF PastNonces
    <2>3. CASE Installed(f)
      BY <1>0, <2>0, <2>3 DEF PastNonces, Past, Installed, ap, Replies, Uploads
    <2>4. CASE NewGtk(f)
      BY <1>0, <2>0, <2>4 DEF PastNonces, Past, NewGtk, ap, Replies, upload_gtk
    <2>5. CASE GivenUp(f)
      BY <1>0, <2>0, <2>5 DEF PastNonces, Past, GivenUp, ap
    <2> QED
      BY <1>0, <1>2, <2>1, <2>2, <2>3, <2>4, <2>5, ReadsEffect
  <1>3. CASE ApStep
    <2>1. UNCHANGED <<key, taken, up, drawn>>
      BY <1>0, <1>3, ApTells
    <2>2. apdrawn <= apdrawn' /\ apdrawn' \in Nat /\ apnonce' \in Nat
      BY <1>0, <1>3, ApKeys, TypeKept DEF TypeOK, Nonces
    <2>3. \A k \in Keys \cup {NoKey} : Past(k) => Past(k)'
      <3>1. \A k \in Keys : k.a \in Nat
        BY DEF Keys, Nonces
      <3> QED
        BY <1>0, <2>1, <2>2, <3>1 DEF Past
    <2>4. /\ {key, apkey} \cup taken \subseteq Keys \cup {NoKey}
          /\ \A g \in up \cup down : g.mic \in Keys \cup {NoKey}
          /\ \A g \in down : g.nonce \in Nat
      BY <1>0 DEF TypeOK, Up, Down, Nonces
    <2>5. Past(apkey)'
      <3>1. apkey' = apkey \/ apkey' = NoKey \/ \E f \in up : apkey' = f.mic
        BY <1>0, <1>3, ApKeys DEF P2s
      <3> QED
        BY <1>0, <2>3, <2>4, <3>1 DEF PastNonces, Past
    <2>6. apnonce' <= apdrawn'
      BY <1>0, <1>3, <2>2, ApKeys DEF PastNonces
    <2>7. ASSUME NEW f \in down'
          PROVE  Past(f.mic)' /\ f.nonce <= apdrawn'
      <3>1. CASE f \in down
        BY <1>0, <2>2, <2>3, <2>4, <3>1 DEF PastNonces
      <3>2. CASE f.mic \in {NoKey, apkey'} /\ f.nonce \in {0, apnonce'}
        BY <2>2, <2>5, <2>6, <3>2 DEF Past
      <3> QED
        BY <1>0, <1>3, <3>1, <3>2, ApFrames
    <2> QED
      BY <1>0, <2>1, <2>3, <2>4, <2>5, <2>6, <2>7 DEF PastNonces
  <1>4. CASE UNCHANGED vars
    BY <1>0, <1>4 DEF PastNonces, Past, vars, station, ap
  <1> QED
    BY <1>1, <1>2, <1>3, <1>4 DEF Next, StationStep, Others

(* A key made with a new nonce is nowhere yet. *)
LEMMA NewPtkIsNew ==
  ASSUME IInv, NEW f \in down, NewPtk(f)
  PROVE  /\ key' \notin taken /\ key' # NoKey
         /\ \A g \in up \cup down : g.mic # key'
  <1>1. drawn \in Nat /\ taken \subseteq Keys
    BY DEF IInv, TypeOK, Nonces
  <1>2. \A k \in Keys \cup {NoKey} : Past(k) => k # key'
    BY <1>1 DEF NewPtk, Past
  <1>3. \A g \in up \cup down : g.mic \in Keys \cup {NoKey} /\ Past(g.mic)
    BY DEF IInv, TypeOK, Up, Down, PastNonces
  <1>4. \A k \in taken : Past(k)
    BY DEF IInv, PastNonces
  <1> QED
    BY <1>1, <1>2, <1>3, <1>4 DEF NewPtk

LEMMA NewKeyKept ==
  ASSUME IInv, [Next]_vars
  PROVE  NewKey'
  <1>0. TypeOK /\ NewKey /\ Quiet /\ OneKeyPerNonce
    BY DEF IInv
  <1>1. CASE Others
    <2>1. UNCHANGED <<taken, down>> /\ WithGtk' = WithGtk /\ key' \in {key, NoKey}
      BY <1>1, StationLeaves, OthersEffect DEF Others, StationStep
    <2>2. NoKey \notin taken
      BY <1>0 DEF TypeOK
    <2>3. eapolstate' = "WAITING_2_4" => eapolstate = "WAITING_2_4" /\ up' = up
      BY <1>1, OthersEffect DEF Others, Authenticated, Associated, Disconnected,
                                LinkLost, Aborted
    <2>4. eapolstate' = "WAITING_3_4" => eapolstate \in {"WAITING_2_4", "WAITING_3_4"}
      BY <1>0, <1>1 DEF Others, Authenticated, Associated, Disconnected, LinkLost,
                        Aborted, Quiet
    <2> QED
      BY <1>0, <2>1, <2>2, <2>3, <2>4 DEF NewKey, P2s
  <1>2. ASSUME NEW f \in down, Reads(f)
        PROVE  NewKey'
    <2>0. UNCHANGED down /\ WithGtk' = WithGtk
      BY <1>2 DEF Reads, WithGtk
    <2>1. CASE UNCHANGED <<station, up>>
      BY <1>0, <2>0, <2>1 DEF NewKey, station, P2s
    <2>2. CASE NewPtk(f)
      <3>1. taken' = taken /\ (eapolstate' = "WAITING_2_4" => up' = up)
        BY <2>2 DEF NewPtk
      <3> QED
        BY <2>0, <2>2, <3>1, NewPtkIsNew DEF NewKey, WithGtk, P2s
    <2>3. CASE Installed(f) \/ NewGtk(f)
      BY <2>3 DEF Installed, NewGtk, NewKey
    <2>4. CASE GivenUp(f)
      BY <1>0, <2>0, <2>4 DEF GivenUp, NewKey, P2s
    <2> QED
      BY <1>0, <1>2, <2>1, <2>2, <2>3, <2>4, ReadsEffect
  <1>3. CASE ApStep
    <2>1. UNCHANGED <<eapolstate, key, taken>> /\ P2s' = P2s
      BY <1>0, <1>3, ApTells
    <2>2. ASSUME eapolstate = "WAITING_2_4", key # NoKey, NEW f \in WithGtk'
          PROVE  f.mic # key
      <3>1. CASE f \in WithGtk
        BY <1>0, <2>2, <3>1 DEF NewKey
      <3>2. CASE f \notin WithGtk
        <4>1. f.mic = apkey' /\ apstate' \in {"WAIT_4", "DONE"}
          BY <1>0, <1>3, <2>2, <3>2, ApTells
        <4>2. CASE \E g \in P2s : apkey' = g.mic
          BY <1>0, <2>2, <4>1, <4>2 DEF NewKey
        <4>3. CASE apkey' = NoKey
          BY <2>2, <4>1, <4>3
        <4>4. apkey' = NoKey \/ \E g \in P2s : apkey' = g.mic
          BY <1>0, <1>3, ApKeys DEF OneKeyPerNonce
        <4> QED
          BY <4>2, <4>3, <4>4
      <3> QED
        BY <3>1, <3>2
    <2> QED
      BY <1>0, <2>1, <2>2 DEF NewKey
  <1>4. CASE UNCHANGED vars
    BY <1>0, <1>4 DEF NewKey, vars, station, WithGtk, P2s
  <1> QED
    BY <1>1, <1>2, <1>3, <1>4 DEF Next, StationStep, Others

LEMMA FreshPtkKept ==
  ASSUME IInv, [Next]_vars
  PROVE  FreshPtk'
  <1>0. TypeOK /\ NewKey /\ ~again
    BY DEF IInv, FreshPtk
  <1>1. CASE Others
    BY <1>0, <1>1, OthersEffect DEF FreshPtk
  <1>2. ASSUME NEW f \in down, Reads(f)
        PROVE  FreshPtk'
    <2>1. CASE Installed(f)
      <3>1. key \notin taken
        BY <1>0, <2>1 DEF Installed, NewKey
      <3>2. again' = again \/ again' = (again \/ key \in taken)
        BY <2>1 DEF Installed, Uploads
      <3> QED
        BY <1>0, <3>1, <3>2 DEF FreshPtk
    <2>2. again' = again \/ Installed(f)
      BY <1>0, <1>2, ReadsEffect DEF NewPtk, NewGtk, GivenUp, upload_gtk, station
    <2> QED
      BY <1>0, <2>1, <2>2 DEF FreshPtk
  <1>3. CASE ApStep
    BY <1>0, <1>3, ApTells DEF FreshPtk
  <1>4. CASE UNCHANGED vars
    BY <1>0, <1>4 DEF FreshPtk, vars, station
  <1> QED
    BY <1>1, <1>2, <1>3, <1>4 DEF Next, StationStep, Others

LEMMA CardKeyKept ==
  ASSUME IInv, [Next]_vars
  PROVE  CardKey'
  <1>0. TypeOK /\ CardKey /\ Quiet
    BY DEF IInv
  <1>1. CASE Others
    <2>1. CASE Disconnected \/ LinkLost
      BY <2>1 DEF Disconnected, LinkLost, CardKey
    <2>2. CASE Authenticated \/ Associated \/ Aborted
      BY <1>0, <2>2 DEF Authenticated, Associated, Aborted, CardKey, Quiet
    <2> QED
      BY <1>1, <2>1, <2>2 DEF Others
  <1>2. ASSUME NEW f \in down, Reads(f)
        PROVE  CardKey'
    <2>1. CASE UNCHANGED <<station, up>>
      BY <1>0, <2>1 DEF CardKey, station
    <2>2. CASE NewPtk(f)
      BY <1>0, <2>2 DEF NewPtk, CardKey
    <2>3. CASE Installed(f)
      <3>1. CASE auth = "DOWN"
        BY <1>0, <2>3, <3>1 DEF Installed, Uploads, CardKey
      <3>2. CASE auth # "DOWN"
        <4>1. auth \in {"LINKED", "DISCONNECTING"}
          BY <1>0, <2>3, <3>2 DEF Installed, Quiet, TypeOK, AuthStates
        <4>2. card'.ptk = key /\ key # NoKey
          BY <2>3, <3>2 DEF Installed, Uploads
        <4> QED
          BY <2>3, <4>1, <4>2 DEF Installed, CardKey
      <3> QED
        BY <3>1, <3>2
    <2>4. CASE NewGtk(f)
      <3>1. card \in [ptk : Keys \cup {NoKey}, gtk : Gtks]
        BY <1>0 DEF TypeOK
      <3>2. \/ card' = card
            \/ card' = [card EXCEPT !.gtk = f.gtk] /\ auth # "DOWN"
        BY <2>4 DEF NewGtk, upload_gtk
      <3>3. card'.ptk = card.ptk /\ (card' = card \/ card.ptk # NoKey)
        BY <1>0, <2>4, <3>1, <3>2 DEF NewGtk, CardKey
      <3> QED
        BY <1>0, <2>4, <3>3 DEF NewGtk, CardKey
    <2>5. CASE GivenUp(f)
      BY <1>0, <2>5 DEF GivenUp, CardKey, abort_connection
    <2> QED
      BY <1>0, <1>2, <2>1, <2>2, <2>3, <2>4, <2>5, ReadsEffect
  <1>3. CASE ApStep
    <2>1. UNCHANGED <<eapolstate, key, card>>
      BY <1>0, <1>3, ApTells
    <2>2. auth' = auth \/ (auth = "ASSOCIATING" /\ auth' = "ANSWERED")
      BY <1>3 DEF ApStep, ApAssociates, ApResends, ApRekeysGroup, ApRekeysPair,
                  ApDrops, ApHears2, ApHears4, station
    <2> QED
      BY <1>0, <2>1, <2>2 DEF CardKey
  <1>4. CASE UNCHANGED vars
    BY <1>0, <1>4 DEF CardKey, vars, station
  <1> QED
    BY <1>1, <1>2, <1>3, <1>4 DEF Next, StationStep, Others

LEMMA TakenKept ==
  ASSUME IInv, [Next]_vars
  PROVE  Taken'
  <1>0. TypeOK /\ Taken
    BY DEF IInv
  <1>1. CASE Others
    <2>1. UNCHANGED <<down, taken>>
      BY <1>1, StationLeaves, OthersEffect DEF Others, StationStep
    <2>2. \A f \in up' : f \in up \/ f.type = "P2"
      BY <1>1, OthersEffect
    <2> QED
      BY <1>0, <2>1, <2>2 DEF Taken
  <1>2. ASSUME NEW f \in down, Reads(f)
        PROVE  Taken'
    <2>0. UNCHANGED down
      BY <1>2 DEF Reads
    <2>1. CASE Installed(f)
      <3>1. CASE auth = "DOWN"
        BY <1>0, <2>0, <2>1, <3>1 DEF Installed, Uploads, Replies, Taken
      <3>2. CASE auth # "DOWN"
        <4>1. taken' = taken \cup {key} /\ f.type = "M3" /\ f.mic = key
          BY <2>1, <3>2 DEF Installed, Uploads
        <4>2. \A g \in up' : g \in up \/ g.mic = key
          BY <2>1 DEF Installed, Replies
        <4> QED
          BY <1>0, <2>0, <4>1, <4>2 DEF Taken
      <3> QED
        BY <3>1, <3>2
    <2>2. \/ UNCHANGED taken /\ \A g \in up' : g \in up \/ g.type # "P4"
          \/ Installed(f)
      BY <1>0, <1>2, ReadsEffect
      DEF NewPtk, NewGtk, GivenUp, upload_gtk, station, Replies
    <2> QED
      BY <1>0, <2>0, <2>1, <2>2 DEF Taken
  <1>3. CASE ApStep
    BY <1>0, <1>3, ApTells DEF Taken
  <1>4. CASE UNCHANGED vars
    BY <1>0, <1>4 DEF Taken, vars, station
  <1> QED
    BY <1>1, <1>2, <1>3, <1>4 DEF Next, StationStep, Others

LEMMA OneKeyPerNonceKept ==
  ASSUME IInv, [Next]_vars
  PROVE  OneKeyPerNonce'
  <1>0. TypeOK /\ OneKeyPerNonce /\ PastNonces
    BY DEF IInv
  <1>1. ASSUME UNCHANGED ap, WithGtk' = WithGtk, up \subseteq up',
               \A f \in up' : f \in up \/ f.type # "P2" \/ f.mic \in Keys
        PROVE  OneKeyPerNonce'
    BY <1>0, <1>1 DEF OneKeyPerNonce, P2s, ap
  <1>2. CASE Others
    <2>1. UNCHANGED ap /\ WithGtk' = WithGtk
      BY <1>2, StationLeaves DEF Others, StationStep
    <2> QED
      BY <1>1, <1>2, <2>1, OthersEffect
  <1>3. ASSUME NEW f \in down, Reads(f)
        PROVE  OneKeyPerNonce'
    <2>1. UNCHANGED ap /\ WithGtk' = WithGtk
      BY <1>3 DEF Reads, WithGtk
    <2>2. up \subseteq up' /\ \A g \in up' : g \in up \/ g.type # "P2" \/ g.mic \in Keys
      BY <1>0, <1>3, ReadsEffect DEF NewPtk, Installed, NewGtk, GivenUp, Replies
    <2> QED
      BY <1>1, <2>1, <2>2
  <1>4. CASE ApStep
    <2>0. P2s' = P2s /\ \A f \in P2s : f.mic \in Keys
      BY <1>0, <1>4, ApTells DEF OneKeyPerNonce
    <2>1. apkey' # NoKey => \E f \in P2s : f.mic = apkey'
      <3>1. apkey' = apkey \/ apkey' = NoKey \/ \E f \in P2s : apkey' = f.mic
        BY <1>0, <1>4, ApKeys
      <3> QED
        BY <1>0, <3>1 DEF OneKeyPerNonce
    <2>2. apstate' \in {"WAIT_4", "DONE"} => apkey' \in Keys
      <3>1. ASSUME NEW f \in up, ApHears2(f) \/ ApHears4(f)
            PROVE  apstate' \in {"WAIT_4", "DONE"} => apkey' \in Keys
        BY <1>0, <2>0, <3>1 DEF ApHears2, ApHears4, OneKeyPerNonce, P2s
      <3> QED
        BY <1>0, <1>4, <3>1 DEF ApStep, ApAssociates, ApResends, ApRekeysGroup,
                                ApRekeysPair, ApDrops, OneKeyPerNonce
    <2>3. \A f \in WithGtk' : f.mic \in Keys
      BY <1>0, <1>4, <2>2, ApTells DEF OneKeyPerNonce
    <2>4. ASSUME apstate' = "WAIT_2", NEW f \in WithGtk'
          PROVE  f.mic.a # apnonce'
      <3>1. WithGtk' = WithGtk /\ f \in down /\ f.mic \in Keys
        BY <1>0, <1>4, <2>3, <2>4, ApTells DEF WithGtk
      <3>2. f.mic.a <= apdrawn /\ apdrawn \in Nat /\ f.mic.a \in Nat
        BY <1>0, <3>1 DEF PastNonces, Past, TypeOK, Keys, Nonces
      <3>3. \/ apstate = "WAIT_2" /\ apnonce' = apnonce
            \/ apnonce' = apdrawn + 1
        <4>1. ASSUME NEW g \in up, ApHears2(g) \/ ApHears4(g)
              PROVE  FALSE
          BY <2>4, <4>1 DEF ApHears2, ApHears4
        <4> QED
          BY <1>4, <2>4, <4>1 DEF ApStep, ApAssociates, ApResends, ApRekeysGroup,
                                  ApRekeysPair, ApDrops
      <3> QED
        BY <1>0, <3>1, <3>2, <3>3 DEF OneKeyPerNonce
    <2> QED
      BY <2>0, <2>1, <2>2, <2>3, <2>4 DEF OneKeyPerNonce
  <1>5. CASE UNCHANGED vars
    BY <1>1, <1>5 DEF vars, station, ap, WithGtk
  <1> QED
    BY <1>2, <1>3, <1>4, <1>5 DEF Next, StationStep, Others

(* While the station has not finished, a 4/4 cannot be for the key that the   *)
(* access point waits with, and a 2/4 with its new nonce brings a new key.   *)
LEMMA InStepKept ==
  ASSUME IInv, [Next]_vars
  PROVE  InStep'
  <1> DEFINE Fine == Peered /\ eapolstate \in Unfinished
  <1>0. /\ TypeOK /\ OneKeyPerNonce /\ Taken /\ NewKey /\ Quiet /\ CardKey
        /\ InStep
    BY DEF IInv
  <1>1. CASE Others
    <2>1. UNCHANGED <<ap, down, taken>> /\ WithGtk' = WithGtk
      BY <1>1, StationLeaves, OthersEffect DEF Others, StationStep
    <2>2. Fine' => Fine
      BY <1>0, <1>1 DEF Others, Authenticated, Associated, Disconnected, LinkLost,
                        Aborted, Peered, Unfinished, Quiet, primed
    <2>3. CASE eapolstate' = eapolstate \/ eapolstate' # "WAITING_3_4"
      <3>1. \A f \in WithGtk : f.mic = key' => f.mic = key
        <4>1. key' \in {key, NoKey} /\ \A f \in WithGtk : f.mic # NoKey
          BY <1>0, <1>1, OthersEffect DEF OneKeyPerNonce
        <4> QED
          BY <4>1
      <3>2. key' = key \/ \A f \in WithGtk : f.mic # key'
        <4>1. key' \in {key, NoKey} /\ \A f \in WithGtk : f.mic # NoKey
          BY <1>0, <1>1, OthersEffect DEF OneKeyPerNonce
        <4> QED
          BY <4>1
      <3> QED
        BY <1>0, <2>1, <2>2, <2>3, <3>1, <3>2 DEF InStep, ap
    <2>4. CASE eapolstate' # eapolstate /\ eapolstate' = "WAITING_3_4"
      <3>1. eapolstate = "WAITING_2_4" /\ key' = key /\ key # NoKey
        BY <1>0, <1>1, <2>4 DEF Others, Authenticated, Associated, Disconnected,
                                LinkLost, Aborted, Quiet
      <3>2. \A f \in WithGtk' : f.mic # key'
        BY <1>0, <2>1, <3>1 DEF NewKey
      <3> QED
        BY <1>0, <2>1, <2>2, <3>2 DEF InStep, ap
    <2> QED
      BY <2>3, <2>4
  <1>2. ASSUME NEW f \in down, Reads(f)
        PROVE  InStep'
    <2>0. UNCHANGED <<ap, down>> /\ WithGtk' = WithGtk
      BY <1>2 DEF Reads, WithGtk
    <2>1. CASE UNCHANGED <<station, up>>
      BY <1>0, <2>0, <2>1 DEF InStep, station, Peered, ap
    <2>2. CASE NewPtk(f)
      <3>1. Fine' => Fine
        BY <2>2 DEF NewPtk, Peered, Unfinished, abort_connection
      <3>2. taken' = taken /\ \A g \in WithGtk : g.mic # key'
        BY <2>2, NewPtkIsNew DEF NewPtk, WithGtk
      <3> QED
        BY <1>0, <2>0, <3>1, <3>2 DEF InStep, ap
    <2>3. CASE Installed(f) \/ NewGtk(f)
      BY <2>3 DEF Installed, NewGtk, InStep, Unfinished
    <2>4. CASE GivenUp(f)
      BY <1>0, <2>0, <2>4 DEF GivenUp, InStep, Peered, Unfinished, ap,
                              abort_connection
    <2> QED
      BY <1>0, <1>2, <2>1, <2>2, <2>3, <2>4, ReadsEffect
  <1>3. CASE ApAssociates
    <2>1. port' = NoKey /\ apstate' = "WAIT_2" /\ eapolstate' # "WAITING_3_4"
      BY <1>0, <1>3 DEF ApAssociates, Quiet
    <2> QED
      BY <2>1 DEF InStep
  <1>4. CASE ApStep /\ ~ApAssociates
    <2>0. /\ UNCHANGED <<auth, eapolstate, eapolsends, key, taken>>
          /\ (Fine' <=> Fine)
      <3>1. UNCHANGED <<auth, eapolstate, eapolsends, key, taken>>
        BY <1>4 DEF ApStep, ApResends, ApRekeysGroup, ApRekeysPair, ApDrops,
                    ApHears2, ApHears4, station
      <3> QED
        BY <3>1 DEF Peered, Unfinished
    <2>1. ASSUME Fine, NEW g \in up, ApHears2(g)
          PROVE  InStep'
      <3>1. apkey' = g.mic /\ apstate = "WAIT_2" /\ apstate' = "WAIT_4"
            /\ port' = port /\ g.mic.a = apnonce
        BY <2>1 DEF ApHears2
      <3>2. apkey' \notin taken
        BY <1>0, <3>1 DEF Taken, OneKeyPerNonce, WithGtk
      <3>3. eapolstate = "WAITING_3_4" =>
              \A f \in WithGtk' : f.mic = key => apkey' = key
        BY <1>0, <1>4, <2>1, <3>1, ApTells DEF InStep
      <3> QED
        BY <1>0, <2>0, <2>1, <3>1, <3>2, <3>3 DEF InStep
    <2>2. ASSUME Fine, NEW g \in up, ApHears4(g)
          PROVE  InStep'
      <3>1. g.mic \in taken /\ g.mic = apkey /\ apstate = "WAIT_4"
        BY <1>0, <2>2 DEF ApHears4, Taken
      <3> QED
        BY <1>0, <2>2, <3>1 DEF InStep
    <2>3. ASSUME Fine, ApResends \/ ApRekeysGroup
          PROVE  InStep'
      <3>1. UNCHANGED <<port, apstate, apkey>>
        BY <2>3 DEF ApResends, ApRekeysGroup
      <3>2. \A f \in WithGtk' : f \in WithGtk \/ (f.mic = apkey /\ apstate # "WAIT_2")
        BY <1>0, <1>4, <3>1, ApTells
      <3> QED
        BY <1>0, <2>0, <2>3, <3>1, <3>2 DEF InStep, TypeOK
    <2>4. ASSUME Fine, ApRekeysPair
          PROVE  InStep'
      BY <1>0, <2>4 DEF ApRekeysPair, InStep
    <2>5. ASSUME Fine, ApDrops
          PROVE  InStep'
      BY <2>5 DEF ApDrops, InStep
    <2> QED
      BY <1>4, <2>0, <2>1, <2>2, <2>3, <2>4, <2>5 DEF ApStep, InStep
  <1>5. CASE UNCHANGED vars
    BY <1>0, <1>5 DEF vars, station, ap, InStep, Peered, WithGtk
  <1> QED
    BY <1>1, <1>2, <1>3, <1>4, <1>5 DEF Next, StationStep, Others

(* What an upload finds: a card without keys, a closed port, and an access   *)
(* point that has this key or is gone.                                     *)
LEMMA Uploaded ==
  ASSUME IInv, NEW f \in down, Installed(f), auth # "DOWN"
  PROVE  /\ card' = [ptk |-> key, gtk |-> f.gtk] /\ taken' = taken \cup {key}
         /\ key \in Keys /\ key \notin taken /\ f \in WithGtk
         /\ card.ptk = NoKey /\ card.gtk = 0 /\ port = NoKey
         /\ apstate = "OFF" \/ (apstate = "WAIT_4" /\ apkey = key)
  <1>1. card' = [ptk |-> key, gtk |-> f.gtk] /\ taken' = taken \cup {key}
    BY DEF Installed, Uploads
  <1>2. key \in Keys /\ key \notin taken /\ f \in WithGtk
    BY DEF Installed, IInv, TypeOK, NewKey, WithGtk
  <1>3. card.ptk = NoKey /\ card.gtk = 0
    BY DEF Installed, IInv, CardKey
  <1>4. port = NoKey /\ (apstate = "OFF" \/ (apstate = "WAIT_4" /\ apkey = key))
    BY <1>2 DEF Installed, IInv, InStep, Peered, Unfinished
  <1> QED
    BY <1>1, <1>2, <1>3, <1>4

(* A new group key is for the pairwise key that the card has. *)
LEMMA Rekeyed ==
  ASSUME IInv, NEW f \in down, NewGtk(f), card' # card
  PROVE  /\ card' = [ptk |-> card.ptk, gtk |-> f.gtk] /\ f \in WithGtk
         /\ card.ptk = key /\ key # NoKey
  <1>1. card' = [card EXCEPT !.gtk = f.gtk] /\ auth # "DOWN"
    BY DEF NewGtk, upload_gtk
  <1>2. card \in [ptk : Keys \cup {NoKey}, gtk : Gtks]
    BY DEF IInv, TypeOK
  <1>3. card.ptk = key /\ key # NoKey /\ f \in WithGtk
    BY <1>1 DEF NewGtk, IInv, CardKey, WithGtk
  <1> QED
    BY <1>1, <1>2, <1>3

LEMMA KeysAgreeKept ==
  ASSUME IInv, [Next]_vars
  PROVE  KeysAgree' /\ NoSecond'
  <1>0. TypeOK /\ KeysAgree /\ NoSecond /\ CardKey /\ PastNonces /\ OneKeyPerNonce
    BY DEF IInv
  <1>1. CASE Others
    <2>1. UNCHANGED <<ap, down>>
      BY <1>1, StationLeaves DEF Others, StationStep
    <2>2. /\ card' = card \/ card' = [ptk |-> NoKey, gtk |-> 0]
          /\ up' = up \/ eapolstate # "NEGOTIATED"
      BY <1>1, OthersEffect
    <2> QED
      BY <1>0, <2>1, <2>2 DEF KeysAgree, NoSecond, CardKey, ap, P2s
  <1>2. ASSUME NEW f \in down, Reads(f)
        PROVE  KeysAgree' /\ NoSecond'
    <2>0. UNCHANGED ap
      BY <1>2 DEF Reads
    <2>1. CASE UNCHANGED <<station, up>>
      BY <1>0, <2>0, <2>1 DEF KeysAgree, NoSecond, station, ap, P2s
    <2>2. CASE NewPtk(f)
      <3>1. card' = card /\ card.ptk = NoKey
        BY <1>0, <2>2 DEF NewPtk, CardKey
      <3> QED
        BY <3>1 DEF KeysAgree, NoSecond
    <2>3. CASE Installed(f)
      <3>1. CASE auth = "DOWN"
        <4>1. card' = card /\ card.ptk = NoKey
          BY <1>0, <2>3, <3>1 DEF Installed, Uploads, CardKey
        <4> QED
          BY <4>1 DEF KeysAgree, NoSecond
      <3>2. CASE auth # "DOWN"
        BY <2>0, <2>3, <3>2, Uploaded DEF KeysAgree, NoSecond, ap
      <3> QED
        BY <3>1, <3>2
    <2>4. CASE NewGtk(f)
      <3>1. card'.ptk = card.ptk
        BY <2>4, Rekeyed
      <3>2. P2s' = P2s
        BY <2>4 DEF NewGtk, Replies, P2s
      <3> QED
        BY <1>0, <2>0, <3>1, <3>2 DEF KeysAgree, NoSecond, ap
    <2>5. CASE GivenUp(f)
      BY <1>0, <2>0, <2>5 DEF GivenUp, KeysAgree, NoSecond, ap, P2s
    <2> QED
      BY <1>0, <1>2, <2>1, <2>2, <2>3, <2>4, <2>5, ReadsEffect
  <1>3. CASE ApStep
    <2>0. UNCHANGED card /\ P2s' = P2s
      BY <1>0, <1>3, ApTells
    <2>1. CASE card.ptk = NoKey
      BY <2>0, <2>1 DEF KeysAgree, NoSecond
    <2>2. CASE card.ptk # NoKey
      <3>1. ~ApAssociates
        BY <1>0, <2>2 DEF ApAssociates, CardKey
      <3>2. CASE ApResends \/ ApRekeysGroup \/ ApDrops
        BY <1>0, <2>0, <3>2 DEF ApResends, ApRekeysGroup, ApDrops, KeysAgree, NoSecond
      <3>3. CASE ApRekeysPair
        <4>1. \A f \in P2s : f.mic.a # apdrawn + 1
          <5>1. \A f \in P2s : f.mic \in Keys /\ f.mic.a <= apdrawn
            BY <1>0 DEF OneKeyPerNonce, PastNonces, Past, P2s
          <5>2. \A k \in Keys : k.a \in Nat
            BY DEF Keys, Nonces
          <5>3. apdrawn \in Nat
            BY <1>0 DEF TypeOK, Nonces
          <5> QED
            BY <5>1, <5>2, <5>3
        <4> QED
          BY <1>0, <2>0, <3>3, <4>1 DEF ApRekeysPair, KeysAgree, NoSecond
      <3>4. ASSUME NEW f \in up, ApHears2(f)
            PROVE  FALSE
        BY <1>0, <2>2, <3>4 DEF ApHears2, NoSecond, P2s
      <3>5. ASSUME NEW f \in up, ApHears4(f)
            PROVE  KeysAgree' /\ NoSecond'
        BY <1>0, <2>0, <3>5 DEF ApHears4, KeysAgree, NoSecond
      <3> QED
        BY <1>3, <3>1, <3>2, <3>3, <3>4, <3>5 DEF ApStep
    <2> QED
      BY <2>1, <2>2
  <1>4. CASE UNCHANGED vars
    BY <1>0, <1>4 DEF KeysAgree, NoSecond, vars, station, ap, P2s
  <1> QED
    BY <1>1, <1>2, <1>3, <1>4 DEF Next, StationStep, Others

LEMMA GtkTypes ==
  ASSUME TypeOK
  PROVE  /\ replay \in Nat /\ apcount \in Nat /\ apgtk \in Nat /\ card.gtk \in Nat
         /\ \A f \in WithGtk : f \in down /\ f.count \in Nat /\ f.gtk \in Nat
  BY DEF TypeOK, WithGtk, Down, Counts, Gtks

LEMMA GtkOrderKept ==
  ASSUME IInv, [Next]_vars
  PROVE  GtkOrder'
  <1>0. /\ TypeOK /\ GtkOrder /\ CardKey /\ OneKeyPerNonce
        /\ replay \in Nat /\ apcount \in Nat /\ apgtk \in Nat /\ card.gtk \in Nat
        /\ \A f \in WithGtk : f.count \in Nat /\ f.gtk \in Nat
    BY GtkTypes DEF IInv
  <1>1. ASSUME UNCHANGED <<ap, replay>>, WithGtk' = WithGtk,
               card' = card \/ card' = [ptk |-> NoKey, gtk |-> 0]
        PROVE  GtkOrder'
    BY <1>0, <1>1 DEF GtkOrder, ap
  <1>2. CASE Others
    <2>1. UNCHANGED <<ap, replay>> /\ WithGtk' = WithGtk
      BY <1>2, StationLeaves DEF Others, StationStep, Authenticated, Associated,
                                 Disconnected, LinkLost, Aborted
    <2> QED
      BY <1>1, <1>2, <2>1, OthersEffect
  <1>3. ASSUME NEW f \in down, Reads(f)
        PROVE  GtkOrder'
    <2>0. UNCHANGED ap /\ WithGtk' = WithGtk
      BY <1>3 DEF Reads, WithGtk
    <2>1. CASE UNCHANGED <<station, up>>
      BY <1>1, <2>0, <2>1 DEF station
    <2>2. CASE NewPtk(f)
      <3>1. card' = card /\ card.ptk = NoKey
        BY <1>0, <2>2 DEF NewPtk, CardKey
      <3> QED
        BY <1>0, <2>0, <3>1 DEF GtkOrder, ap
    <2>3. CASE Installed(f)
      <3>1. CASE auth = "DOWN"
        <4>1. card' = card /\ card.ptk = NoKey
          BY <1>0, <2>3, <3>1 DEF Installed, Uploads, CardKey
        <4> QED
          BY <1>0, <2>0, <4>1 DEF GtkOrder, ap
      <3>2. CASE auth # "DOWN"
        <4>1. card'.ptk = key /\ card'.gtk = f.gtk /\ f \in WithGtk
          BY <2>3, <3>2, Uploaded
        <4>2. replay' = f.count /\ f.mic = key
          BY <2>3 DEF Installed
        <4>3. \A g \in WithGtk : g.mic = key /\ g.count > f.count => g.gtk >= f.gtk
          BY <1>0, <4>1, <4>2 DEF GtkOrder
        <4> QED
          BY <1>0, <2>0, <4>1, <4>2, <4>3 DEF GtkOrder, ap
      <3> QED
        BY <3>1, <3>2
    <2>4. CASE NewGtk(f)
      <3>0. f.count > replay /\ replay' = f.count /\ f.mic = key /\ f \in WithGtk
        BY <2>4 DEF NewGtk, WithGtk
      <3>1. CASE card' = card
        BY <1>0, <2>0, <3>0, <3>1 DEF GtkOrder, ap
      <3>2. CASE card' # card
        <4>1. card'.ptk = key /\ card'.gtk = f.gtk
          BY <2>4, <3>2, Rekeyed
        <4>2. \A g \in WithGtk : g.mic = key /\ g.count > f.count => g.gtk >= f.gtk
          BY <1>0, <3>0 DEF GtkOrder
        <4> QED
          BY <1>0, <2>0, <3>0, <4>1, <4>2 DEF GtkOrder, ap
      <3> QED
        BY <3>1, <3>2
    <2>5. CASE GivenUp(f)
      <3>1. card' = card /\ replay' >= replay /\ replay' \in Nat
        BY <1>0, <2>5, TypeKept, GtkTypes DEF GivenUp, TypeOK, Counts
      <3> QED
        BY <1>0, <2>0, <3>1 DEF GtkOrder, ap
    <2> QED
      BY <1>0, <1>3, <2>1, <2>2, <2>3, <2>4, <2>5, ReadsEffect
  <1>4. CASE ApStep
    <2>0. UNCHANGED <<card, replay>> /\ apgtk <= apgtk' /\ apgtk' \in Nat
          /\ apcount' \in Nat
      BY <1>0, <1>4, ApTells, TypeKept DEF TypeOK, Gtks, Counts
    <2>1. \A f \in WithGtk : f.mic = apkey' => f.count <= apcount /\ apcount <= apcount'
      <3>1. ASSUME NEW g \in up, ApHears2(g) \/ ApHears4(g)
            PROVE  \A f \in WithGtk :
                     f.mic = apkey' => f.count <= apcount /\ apcount <= apcount'
        BY <1>0, <3>1 DEF ApHears2, ApHears4, Counted, GtkOrder, OneKeyPerNonce
      <3>2. CASE apkey' = NoKey
        BY <1>0, <3>2 DEF OneKeyPerNonce
      <3>3. CASE apkey' = apkey /\ apcount <= apcount'
        BY <1>0, <3>3 DEF GtkOrder
      <3>4. apkey' = NoKey \/ (apkey' = apkey /\ apcount <= apcount')
              \/ \E g \in up : ApHears2(g) \/ ApHears4(g)
        BY <1>0, <1>4 DEF ApStep, ApAssociates, ApResends, ApRekeysGroup,
                          ApRekeysPair, ApDrops, Counted
      <3> QED
        BY <3>1, <3>2, <3>3, <3>4
    <2>2. CASE WithGtk' = WithGtk
      BY <1>0, <2>0, <2>1, <2>2 DEF GtkOrder
    <2>3. ASSUME NEW m, WithGtk' = WithGtk \cup {m}, m.mic = apkey',
                 m.count = apcount', m.gtk = apgtk', apcount' = apcount + 1
          PROVE  GtkOrder'
      <3>1. \A f \in WithGtk : f.gtk <= m.gtk /\ (f.mic = m.mic => f.count < m.count)
        BY <1>0, <2>0, <2>1, <2>3 DEF GtkOrder
      <3>2. card.gtk <= m.gtk
        BY <1>0, <2>0, <2>3 DEF GtkOrder
      <3>3. m.gtk \in Nat /\ m.count \in Nat
        BY <2>0, <2>3
      <3>4. \A f, g \in WithGtk' : f.mic = g.mic /\ f.count <= g.count => f.gtk <= g.gtk
        BY <1>0, <2>3, <3>1, <3>3 DEF GtkOrder
      <3> QED
        BY <1>0, <2>0, <2>1, <2>3, <3>1, <3>2, <3>3, <3>4 DEF GtkOrder
    <2> QED
      BY <1>0, <1>4, <2>2, <2>3, ApTells
  <1>5. CASE UNCHANGED vars
    BY <1>1, <1>5 DEF vars, station, ap, WithGtk
  <1> QED
    BY <1>2, <1>3, <1>4, <1>5 DEF Next, StationStep, Others

LEMMA InitIInv == Init => IInv
  BY InitType
  DEF Init, IInv, PastNonces, Past, Quiet, NewKey, CardKey, Taken, OneKeyPerNonce,
      InStep, NoSecond, GtkOrder, KeysAgree, FreshPtk, P2s, WithGtk, Peered,
      Unfinished, Nonces

LEMMA Invariant == Spec => []IInv
  <1>1. IInv /\ [Next]_vars => IInv'
    <2>1. ASSUME IInv, [Next]_vars
          PROVE  IInv'
      <3>1. TypeOK'
        BY <2>1, TypeKept DEF IInv
      <3> QED
        BY <2>1, <3>1, PastNoncesKept, QuietKept, NewKeyKept, CardKeyKept, TakenKept,
           OneKeyPerNonceKept, InStepKept, GtkOrderKept, KeysAgreeKept, FreshPtkKept
        DEF IInv
    <2> QED
      BY <2>1
  <1> QED
    BY <1>1, InitIInv, PTL DEF Spec

-----------------------------------------------------------------------------
(* Nonces, counters and keys stay within what wsupp_eapol.c may draw, read    *)
(* and make, whatever frames it is fed.                                    *)
THEOREM TypeCorrect == Spec => []TypeOK
  <1>1. IInv => TypeOK
    BY DEF IInv
  <1> QED
    BY <1>1, Invariant, PTL

(* The key that upload_ptk gives to the card is the access point's, or the   *)
(* access point has dropped the station; an open port is open with it.     *)
THEOREM BothHaveTheKey == Spec => []KeysAgree
  <1>1. IInv => KeysAgree
    BY DEF IInv
  <1> QED
    BY <1>1, Invariant, PTL

(* No 3/4, however often and late it is read, makes recv_packet_3 upload a    *)
(* PTK a second time.                                                      *)
THEOREM NoKeyReinstalled == Spec => []FreshPtk
  <1>1. IInv => FreshPtk
    BY DEF IInv
  <1> QED
    BY <1>1, Invariant, PTL

LEMMA GtkStep ==
  ASSUME IInv, [Next]_vars
  PROVE  card'.gtk # 0 => card'.gtk >= card.gtk
  <1>0. TypeOK /\ GtkOrder /\ card.gtk \in Nat
    BY GtkTypes DEF IInv
  <1>1. CASE Others
    BY <1>0, <1>1, OthersEffect
  <1>2. ASSUME NEW f \in down, Reads(f)
        PROVE  card'.gtk # 0 => card'.gtk >= card.gtk
    <2>1. CASE Installed(f)
      <3>1. CASE auth = "DOWN"
        BY <1>0, <2>1, <3>1 DEF Installed, Uploads
      <3>2. CASE auth # "DOWN"
        <4>1. card.gtk = 0 /\ card'.gtk = f.gtk /\ f.gtk \in Nat
          BY <1>0, <2>1, <3>2, Uploaded, GtkTypes
        <4> QED
          BY <4>1
      <3> QED
        BY <3>1, <3>2
    <2>2. CASE NewGtk(f)
      <3>1. CASE card' # card
        BY <1>0, <2>2, <3>1, Rekeyed DEF NewGtk, GtkOrder
      <3> QED
        BY <1>0, <3>1
    <2>3. card' = card \/ Installed(f) \/ NewGtk(f)
      BY <1>0, <1>2, ReadsEffect DEF NewPtk, GivenUp, station
    <2> QED
      BY <1>0, <2>1, <2>2, <2>3
  <1>3. CASE ApStep \/ UNCHANGED vars
    BY <1>0, <1>3, ApTells DEF vars, station
  <1> QED
    BY <1>1, <1>2, <1>3 DEF Next, StationStep, Others

(* recv_group_1 and recv_packet_3 replace a group key by a later one only:    *)
(* the counters they accept rise, and so do the keys told with them.       *)
THEOREM GroupKeysOnlyRise == Spec => GtkForward
  <1>1. IInv /\ [Next]_vars => [card'.gtk # 0 => card'.gtk >= card.gtk]_vars
    BY GtkStep
  <1> QED
    BY <1>1, Invariant, PTL DEF Spec, GtkForward

(* From ASSOCIATE to the card's answer no frame is sent: recv_packet_1 holds  *)
(* 2/4 back until allow_eapol_sends.                                       *)
THEOREM NothingSentEarly == Spec => HeldBack
  <1>1. ASSUME IInv, [Next]_vars
        PROVE  auth \in {"ASSOCIATING", "ANSWERED"} /\ auth' # "LINKED"
                 => UNCHANGED up
    <2>0. TypeOK /\ Quiet
      BY <1>1 DEF IInv
    <2>1. CASE Others
      BY <2>1 DEF Others, Authenticated, Associated, Disconnected, LinkLost, Aborted
    <2>2. ASSUME NEW f \in down, Reads(f), auth \in {"ASSOCIATING", "ANSWERED"}
          PROVE  UNCHANGED up
      BY <2>0, <2>2, ReadsEffect DEF Quiet, NewPtk, Installed, NewGtk, GivenUp, station
    <2>3. CASE ApStep \/ UNCHANGED vars
      BY <2>0, <2>3, ApTells DEF vars
    <2> QED
      BY <1>1, <2>1, <2>2, <2>3 DEF Next, StationStep, Others
  <1>2. IInv /\ [Next]_vars
          => [(auth \in {"ASSOCIATING", "ANSWERED"} /\ auth' # "LINKED")
                => UNCHANGED up]_vars
    BY <1>1
  <1> QED
    BY <1>2, Invariant, PTL DEF Spec, HeldBack

LEMMA StepAgrees ==
  ASSUME IInv, [Next]_vars
  PROVE  [Agreement!Next]_<<card.ptk, port, taken>>
  <1>0. TypeOK /\ KeysAgree /\ Taken
    BY DEF IInv
  <1>1. CASE Others
    <2>1. UNCHANGED <<port, taken>> /\ (card' = card \/ card'.ptk = NoKey)
      BY <1>1, StationLeaves, OthersEffect DEF Others, StationStep, ap
    <2> QED
      BY <2>1 DEF Agreement!Next, Agreement!Leave
  <1>2. ASSUME NEW f \in down, Reads(f)
        PROVE  [Agreement!Next]_<<card.ptk, port, taken>>
    <2>0. UNCHANGED port
      BY <1>2 DEF Reads, ap
    <2>1. CASE Installed(f)
      <3>1. CASE auth = "DOWN"
        BY <2>0, <2>1, <3>1 DEF Installed, Uploads
      <3>2. CASE auth # "DOWN"
        <4>1. /\ card'.ptk = key /\ taken' = taken \cup {key} /\ port = NoKey
              /\ key \in Keys /\ key \notin taken
          BY <2>1, <3>2, Uploaded
        <4>2. Agreement!Install(key)
          BY <2>0, <4>1 DEF Agreement!Install
        <4> QED
          BY <4>1, <4>2 DEF Agreement!Next
      <3> QED
        BY <3>1, <3>2
    <2>2. CASE NewGtk(f)
      <3>1. card'.ptk = card.ptk /\ taken' = taken
        BY <2>2, Rekeyed DEF NewGtk, upload_gtk
      <3> QED
        BY <2>0, <3>1
    <2>3. UNCHANGED <<card, taken>> \/ Installed(f) \/ NewGtk(f)
      BY <1>0, <1>2, ReadsEffect DEF NewPtk, GivenUp, station
    <2> QED
      BY <2>0, <2>1, <2>2, <2>3
  <1>3. CASE ApStep
    <2>0. UNCHANGED <<card, taken>>
      BY <1>0, <1>3, ApTells
    <2>1. CASE ApAssociates \/ ApDrops
      BY <2>0, <2>1 DEF ApAssociates, ApDrops, Agreement!Next, Agreement!Shut
    <2>2. ASSUME NEW f \in up, ApHears4(f)
          PROVE  [Agreement!Next]_<<card.ptk, port, taken>>
      <3>1. port' = f.mic /\ f.mic = apkey /\ f.mic \in taken /\ apstate # "OFF"
        BY <1>0, <2>2 DEF ApHears4, Taken
      <3>2. f.mic \in Keys /\ card.ptk \in {f.mic, NoKey}
        BY <1>0, <3>1 DEF TypeOK, KeysAgree
      <3>3. Agreement!Open(f.mic)
        BY <2>0, <3>1, <3>2 DEF Agreement!Open
      <3> QED
        BY <3>2, <3>3 DEF Agreement!Next
    <2>3. CASE ApResends \/ ApRekeysGroup \/ ApRekeysPair \/ \E f \in up : ApHears2(f)
      BY <2>0, <2>3 DEF ApResends, ApRekeysGroup, ApRekeysPair, ApHears2
    <2> QED
      BY <1>3, <2>1, <2>2, <2>3 DEF ApStep
  <1>4. CASE UNCHANGED vars
    BY <1>4 DEF vars, station, ap
  <1> QED
    BY <1>1, <1>2, <1>3, <1>4 DEF Next, StationStep, Others

(* recv_packet_1 to send_packet_4 and the access point agree on keys: a key  *)
(* is taken once, while the port is closed, and the port opens with the key  *)
(* the station has taken.                                                  *)
THEOREM HandshakeImplements == Spec => Implements
  <1>1. Init => Agreement!Init
    BY DEF Init, Agreement!Init
  <1>2. IInv /\ [Next]_vars => [Agreement!Next]_<<card.ptk, port, taken>>
    BY StepAgrees
  <1> QED
    BY <1>1, <1>2, Invariant, PTL DEF Spec, Implements, Agreement!Spec
==============================================================================
