------------------------------- MODULE EapolRx -------------------------------
(***************************************************************************)
(* wsupp_eapol.c as the rest of the daemon sees it: when a handshake makes *)
(* progress, when it aborts the connection, when keys are uploaded.        *)
(*                                                                         *)
(* A frame names its sender, its place in the protocol, the network key    *)
(* the AP works with, and whether it belongs to the association the AP     *)
(* holds now (its nonces are those the AP remembers) or to an earlier one. *)
(***************************************************************************)
EXTENDS ApSelect

Frames == [src : BSSIDs, type : {"M1", "M3", "G1"}, key : PSKs, cur : BOOLEAN]

(* PTK and GTK, nonces and KCK go; eapolstate and eapolsends stay. *)
reset_eapol_state(d) == [d EXCEPT !.kck = NoPsk]

prime_eapol_state(d) ==
  [d EXCEPT !.eapolstate = "WAITING_1_4", !.eapolsends = FALSE]

send_packet(d, f) == [d EXCEPT !.sent = f]

(* In the three below, ok says whether sendto took the frame; when it did  *)
(* not, send_packet aborts the connection and the rest is skipped.         *)
send_packet_2(d, ok) ==
  IF ok THEN [send_packet(d, "P2") EXCEPT !.eapolstate = "WAITING_3_4"]
  ELSE abort_connection(d)

send_packet_4(d, ok) ==
  IF ok THEN handle_connect(upload_gtk(upload_ptk(
               [send_packet(d, "P4") EXCEPT !.eapolstate = "NEGOTIATED"])))
  ELSE abort_connection(d)

send_group_2(d, ok) ==
  IF ok THEN upload_gtk(send_packet(d, "G2")) ELSE abort_connection(d)

allow_eapol_sends(d, ok) ==
  IF d.eapolstate = "WAITING_1_4" THEN [d EXCEPT !.eapolsends = TRUE]
  ELSE send_packet_2(d, ok)

(* Keys made from a nonce the AP has forgotten match none of its own. *)
pmk_to_ptk(d, m) == [d EXCEPT !.kck = IF m.cur THEN d.psk ELSE BadPsk]

check_mic(d, m) == m.cur /\ d.kck = m.key

recv_packet_1(d, m, ok) ==
  LET e == pmk_to_ptk(d, m)
  IN IF m.type # "M1" THEN d                       \* ignored: wrong bits
     ELSE IF d.eapolsends THEN send_packet_2(e, ok)
     ELSE [e EXCEPT !.eapolstate = "WAITING_2_4"]

(* A resent 1/4, any other frame, a changed nonce and a bad MIC all abort. *)
recv_packet_3(d, m, ok) ==
  IF m.type = "M3" /\ check_mic(d, m) THEN send_packet_4(d, ok)
  ELSE abort_connection(d)

recv_group_1(d, m, ok) ==
  IF m.type = "G1" /\ check_mic(d, m) THEN send_group_2(d, ok) ELSE d

handle_rawsock(d, m, ok) ==
  IF m.src # d.ap.bssid THEN d                                    \* stray
  ELSE CASE d.eapolstate = "WAITING_1_4" -> recv_packet_1(d, m, ok)
         [] d.eapolstate = "WAITING_3_4" -> recv_packet_3(d, m, ok)
         [] d.eapolstate = "NEGOTIATED" -> recv_group_1(d, m, ok)
         [] d.eapolstate \in {"IDLE", "WAITING_2_4"} -> d
=============================================================================
