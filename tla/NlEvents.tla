------------------------------ MODULE NlEvents ------------------------------
(***************************************************************************)
(* The receiving half of wsupp_netlink.c: events, dumps and errors.        *)
(*                                                                         *)
(* A message is an event, one part of a scan dump, the end of the dump or  *)
(* an error.  seq says whether the sequence number of the command that     *)
(* failed is the current scanseq.  status says how the association that an *)
(* ASSOCIATE or a CONNECT reports has ended (NL80211_ATTR_TIMED_OUT,       *)
(* NL80211_ATTR_STATUS_CODE): no handler looks at it.                      *)
(***************************************************************************)
EXTENDS EapolRx

Events == {"TRIGGER_SCAN", "NEW_SCAN_RESULTS", "SCAN_ABORTED",
           "AUTHENTICATE", "ASSOCIATE", "CONNECT", "DISCONNECT"}

Errors == {"NONE", "ENETDOWN", "ENOENT", "EBUSY"}

(* The stations of a dump, each with what it is found to be. *)
Dumps == UNION {[S -> Looks] : S \in SUBSET BSSIDs}

Nothing == [b \in {} |-> NoLook]

Messages ==
  [type : Events \cup {"MULTI", "DONE", "ERROR"},
   freq : Int,                   \* TRIGGER_SCAN: frequency, <= 0 for all
   bss  : Dumps,                 \* MULTI: the stations dumped
   err  : Errors,
   seq  : {"SCANSEQ", "OTHER"},
   status : {"OK", "FAILED"}]

Event(t) == [type |-> t, freq |-> 0, bss |-> Nothing, err |-> "NONE",
             seq |-> "OTHER", status |-> "OK"]

Failed(t) == [Event(t) EXCEPT !.status = "FAILED"]

mark_stale_scan_slots(d, freq) ==
  [d EXCEPT !.scans = [b \in BSSIDs |->
     IF Has(d, b, "USED") /\ (freq > 0 => Freq[b] = freq)
     THEN @[b] \cup {"STALE"} ELSE @[b]]]

drop_stale_scan_slots(d) ==
  [d EXCEPT !.scans = [b \in BSSIDs |->
                         IF "STALE" \in @[b] THEN {} ELSE @[b]],
            !.looks = [b \in BSSIDs |->
                         IF Has(d, b, "STALE") THEN NoLook ELSE @[b]]]

(* One slot per dumped station, an old one or a fresh one.  An old one gets *)
(* the SSID and the ciphers of the dump and keeps its other flags.          *)
parse_scan_result(d, dump) ==
  LET S == DOMAIN dump
  IN [d EXCEPT !.scans = [b \in BSSIDs |->
                 IF b \in S THEN (@[b] \ {"STALE"}) \cup {"USED"} ELSE @[b]],
               !.looks = [b \in BSSIDs |->
                 IF b \in S THEN dump[b] ELSE @[b]]]

cmd_trigger_scan(d, m) ==
  IF d.scanstate = "SCANNING"
  THEN report(mark_stale_scan_slots(d, m.freq), "SCANNING")
  ELSE d

cmd_scan_results(d, m) ==
  IF m.type = "MULTI" THEN parse_scan_result(d, m.bss)
  ELSE IF d.scanstate = "SCANNING" THEN trigger_scan_dump(d)
  ELSE d

(* Mutant: an aborted scan is reported and not ended. *)
cmd_scan_aborted_NoReset(d) == report(d, "SCAN_FAIL")

cmd_scan_aborted(d) ==
  IF d.scanstate = "SCANNING"
  THEN reset_scan_state(report(d, "SCAN_FAIL"))
  ELSE d

genl_done(d) ==
  LET e == report(check_new_scan_results(drop_stale_scan_slots(
                    reset_scan_state(d))), "SCAN_DONE")
  IN IF d.scanstate # "SCANDUMP" THEN d
     ELSE IF "RECONNECT" \in d.scanreq THEN reconnect_to_current_ap(e)
     ELSE IF "SOMETHING" \in d.scanreq THEN reassess_wifi_situation(e)
     ELSE e

-----------------------------------------------------------------------------
snap_to_disabled(d) ==
  handle_disconnect(reset_eapol_state(
    [d EXCEPT !.opermode = "NEUTRAL", !.authstate = "EXTERNAL"]))

cmd_authenticate(d) ==
  IF d.authstate = "EXTERNAL" THEN d
  ELSE IF d.authstate # "AUTHENTICATING" THEN snap_to_disabled(d)
  ELSE trigger_associaction(prime_eapol_state(d))

(* authstate becomes CONNECTING even if sending 2/4 failed and started a   *)
(* disconnect.                                                             *)
cmd_associate(d, ok) ==
  IF d.authstate = "EXTERNAL" THEN d
  ELSE IF d.authstate # "ASSOCIATING" THEN snap_to_disabled(d)
  ELSE [allow_eapol_sends(d, ok) EXCEPT !.authstate = "CONNECTING"]

(* There is no return after snap_to_disabled: CONNECTED either way. *)
cmd_connect(d) ==
  LET e == IF d.authstate = "CONNECTING" THEN d ELSE snap_to_disabled(d)
  IN IF d.authstate = "EXTERNAL" THEN d
     ELSE [e EXCEPT !.authstate = "CONNECTED"]

(* Mutant: a lost link is left to the next command to find out. *)
cmd_disconnect_StaysUp(d) ==
  IF d.authstate \in {"IDLE", "CONNECTED"} THEN d
  ELSE handle_disconnect([reset_eapol_state(d) EXCEPT !.authstate = "IDLE"])

(* Mutant: a disconnect the daemon asked for needs no handling. *)
cmd_disconnect_Asked(d) ==
  IF d.authstate \in {"IDLE", "DISCONNECTING"} THEN d
  ELSE handle_disconnect([reset_eapol_state(d) EXCEPT !.authstate = "IDLE"])

cmd_disconnect(d) ==
  IF d.authstate = "IDLE" THEN d
  ELSE handle_disconnect([reset_eapol_state(d) EXCEPT !.authstate = "IDLE"])

-----------------------------------------------------------------------------
(* Mutant: a scan that failed is still going on. *)
handle_scan_error_NoReset(d) == report(d, "SCAN_FAIL")

handle_scan_error(d) == report(reset_scan_state(d), "SCAN_FAIL")

(* Mutant: the interface going down is not reported. *)
snap_to_netdown_Silent(d) ==
  LET e == reset_scan_state(d)
  IN IF d.rfkilled THEN [e EXCEPT !.authstate = "IDLE"]
     ELSE set_timer([e EXCEPT !.authstate = "NETDOWN"])

snap_to_netdown(d) ==
  LET e == report(reset_scan_state(d), "NET_DOWN")
  IN IF d.rfkilled THEN [e EXCEPT !.authstate = "IDLE"]
     ELSE set_timer([e EXCEPT !.authstate = "NETDOWN"])

(* Mutant: a failed DISCONNECT leaves authstate alone. *)
handle_auth_error_NoIdle(d, err) ==
  IF d.authstate = "AUTHENTICATING" /\ err = "ENOENT"
  THEN start_scan([d EXCEPT !.authstate = "IDLE"], d.ap.freq)
  ELSE abort_connection(d)

handle_auth_error(d, err) ==
  LET e == [d EXCEPT !.authstate = "IDLE"]
  IN IF d.authstate = "DISCONNECTING" THEN reassess_wifi_situation(e)
     ELSE IF d.authstate = "AUTHENTICATING" /\ err = "ENOENT"
     THEN start_scan(e, d.ap.freq)
     ELSE abort_connection(d)

genl_error(d, m) ==
  IF m.err = "ENETDOWN" THEN snap_to_netdown(d)
  ELSE IF m.seq = "SCANSEQ" THEN handle_scan_error(d)
  ELSE IF d.authstate # "IDLE" THEN handle_auth_error(d, m.err)
  ELSE d

(* handle_netlink and dispatch, for one message.  ok is the outcome of the *)
(* one frame that cmd_associate may send.                                  *)
handle_netlink(d, m, ok) ==
  CASE m.type = "TRIGGER_SCAN" -> cmd_trigger_scan(d, m)
    [] m.type \in {"NEW_SCAN_RESULTS", "MULTI"} -> cmd_scan_results(d, m)
    [] m.type = "SCAN_ABORTED" -> cmd_scan_aborted(d)
    [] m.type = "AUTHENTICATE" -> cmd_authenticate(d)
    [] m.type = "ASSOCIATE" -> cmd_associate(d, ok)
    [] m.type = "CONNECT" -> cmd_connect(d)
    [] m.type = "DISCONNECT" -> cmd_disconnect(d)
    [] m.type = "DONE" -> genl_done(d)
    [] m.type = "ERROR" -> genl_error(d, m)
=============================================================================
