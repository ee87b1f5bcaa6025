----------------------------- MODULE NlCommands -----------------------------
(***************************************************************************)
(* The sending half of wsupp_netlink.c: starting scans and dumps, and the  *)
(* commands of the connection state machine.  nl_send reports no socket    *)
(* error to its callers, so every send succeeds as far as they can tell.   *)
(***************************************************************************)
EXTENDS WsuppState

nl_send(d, c) == [d EXCEPT !.tx = Append(@, c)]

reset_scan_state(d) ==
  [d EXCEPT !.scanstate = "IDLE", !.reseq = TRUE, !.scanreq = {}]

(* What a request for frequency freq asks to be done when the scan is over: *)
(* freq > 0 returns to the current AP, freq < 0 picks any, 0 does nothing.  *)
ScanPurpose(freq) ==
  CASE freq > 0 -> {"RECONNECT"}
    [] freq < 0 -> {"SOMETHING"}
    [] freq = 0 -> {}

scan_busy(d) == d.scanstate # "IDLE" /\ "ONE_FREQ" \in d.scanreq

start_scan(d, freq) ==
  IF d.scanstate = "IDLE"
  THEN [nl_send(d, [Command("TRIGGER_SCAN") EXCEPT !.freq = freq]) EXCEPT
          !.scanstate = "SCANNING",
          !.scanreq = @ \cup ScanPurpose(freq)
                        \cup (IF freq > 0 THEN {"ONE_FREQ"} ELSE {}),
          !.reseq = TRUE]
  ELSE IF scan_busy(d) THEN d                                    \* -EBUSY
  ELSE [d EXCEPT !.scanreq = @ \cup ScanPurpose(freq)]

start_void_scan(d) == start_scan(d, 0)

start_full_scan(d) == start_scan(d, -1)

trigger_scan_dump(d) ==
  [nl_send(d, Command("GET_SCAN")) EXCEPT
     !.scanstate = "SCANDUMP", !.reseq = TRUE]

send_set_authstate(d, c, as) == [nl_send(d, c) EXCEPT !.authstate = as]

ToAp(c, ap) == [cmd |-> c, freq |-> ap.freq, bssid |-> ap.bssid,
                ssid |-> ap.ssid]

trigger_authentication(d) ==
  send_set_authstate(d, ToAp("AUTHENTICATE", d.ap), "AUTHENTICATING")

trigger_associaction(d) ==
  send_set_authstate(d, ToAp("ASSOCIATE", d.ap), "ASSOCIATING")

trigger_disconnect(d) ==
  send_set_authstate(d, Command("DISCONNECT"), "DISCONNECTING")

can_connect(d) == d.authstate = "IDLE" /\ d.scanstate = "IDLE"

start_connection(d) == IF can_connect(d) THEN trigger_authentication(d) ELSE d

can_disconnect(d) == d.authstate \notin {"IDLE", "NETDOWN", "DISCONNECTING"}

start_disconnect(d) == IF can_disconnect(d) THEN trigger_disconnect(d) ELSE d

upload_ptk(d) == nl_send(d, Command("NEW_KEY"))

upload_gtk(d) == nl_send(d, Command("NEW_KEY"))
=============================================================================
