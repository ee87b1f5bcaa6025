------------------------------ MODULE Handlers ------------------------------
(***************************************************************************)
(* The remaining entry points of the event loop: the commands of the       *)
(* control socket (wsupp_cntrl.c), rfkill events (wsupp_rfkill.c), the     *)
(* poll timeout and SIGTERM (wsupp.c).                                     *)
(***************************************************************************)
EXTENDS NlEvents

(* CMD_WI_STATUS and CMD_WI_DEVICE read the state and change none of it. *)
cmd_scan(d) == start_void_scan(d)

(* The timer is left alone when there is nothing to disconnect. *)
cmd_neutral(d) ==
  LET e == [d EXCEPT !.opermode = "NEUTRAL"]
  IN IF can_disconnect(e) THEN clr_timer(start_disconnect(e)) ELSE e

(* A CONNECT names nothing (any known AP), a network whose key is saved,   *)
(* or a network and its key.  BadPsk stands for a key that is not 32 bytes *)
(* long: the station is reset before the command is found invalid.         *)
configure_station(d, s, psk) ==
  LET e == reset_station(d)
  IN IF s = NoSsid THEN e
     ELSE IF psk = NoPsk THEN set_fixed_saved(e, s)
     ELSE IF psk \in PSKs THEN set_fixed_given(e, s, psk)
     ELSE e                                                      \* -EINVAL

configured(d, s, psk) ==
  s = NoSsid \/ psk \in PSKs \/ (psk = NoPsk /\ has_psk(d, s))

ctl_connect(d, s, psk) ==
  LET e == configure_station(d, s, psk)
  IN IF ~can_connect(d) THEN d                                   \* -EBUSY
     ELSE IF ~configured(d, s, psk) THEN e                  \* -ENOKEY ...
     ELSE reassess_wifi_situation(clr_timer([e EXCEPT !.opermode = "ONESHOT"]))

drop_psk(d, s) == [d EXCEPT !.cfg[s] = NoPsk]

(* Mutant: the key goes, the flags stay. *)
cmd_forget_KeepsPass(d, s) == drop_psk(d, s)

cmd_forget(d, s) ==
  IF d.cfg[s] = NoPsk THEN d
  ELSE [drop_psk(d, s) EXCEPT !.scans = [b \in BSSIDs |->
          IF SsidOf(d, b) = s THEN @[b] \ {"PASS"} ELSE @[b]]]

-----------------------------------------------------------------------------
(* handle_event for the managed card.  up: bring_iface_up succeeded.        *)
rfkill_event(d, blocked, up) ==
  IF blocked THEN clr_timer([d EXCEPT !.rfkilled = TRUE])
  ELSE IF ~up THEN quit([d EXCEPT !.rfkilled = FALSE])
  ELSE handle_rfrestored([d EXCEPT !.rfkilled = FALSE])

timer_expired(d) ==
  LET e == clr_timer(d)
  IN CASE d.authstate = "NETDOWN" ->
            IF d.rfkilled THEN [e EXCEPT !.authstate = "IDLE"]
            ELSE [e EXCEPT !.opermode = "EXIT"]
       [] d.authstate = "CONNECTED" -> routine_bg_scan(e)
       [] d.authstate = "IDLE" -> routine_fg_scan(e)
       [] d.authstate \notin {"NETDOWN", "CONNECTED", "IDLE"} ->
            abort_connection(e)

xshutdown(d) ==
  IF d.opermode \in {"EXIT", "EXITREQ"} THEN quit(d)
  ELSE IF can_disconnect(d)
  THEN [start_disconnect(d) EXCEPT !.opermode = "EXITREQ"]
  ELSE [d EXCEPT !.opermode = "EXIT"]

-----------------------------------------------------------------------------
(* The daemon as main() leaves it when it enters the loop: state zeroed,   *)
(* the SSID of the last session restored if its key is still there, and    *)
(* the first foreground scan started.                                      *)
Zeroed(cfg) ==
  [opermode |-> "NEUTRAL", authstate |-> "IDLE", scanstate |-> "IDLE",
   scanreq |-> {}, reseq |-> FALSE, timerset |-> FALSE, rfkilled |-> FALSE,
   ap |-> [bssid |-> NoBssid, ssid |-> NoSsid, freq |-> 0, fixed |-> FALSE,
           unsaved |-> FALSE, success |-> FALSE, rescans |-> 0],
   psk |-> NoPsk, eapolstate |-> "IDLE", eapolsends |-> FALSE, kck |-> NoPsk,
   scans |-> [b \in BSSIDs |-> {}], looks |-> [b \in BSSIDs |-> NoLook],
   cfg |-> cfg, tx |-> <<>>, sent |-> "NONE", rep |-> {}]

load_state(d, s) ==
  IF s = NoSsid THEN d                                   \* no state file
  ELSE IF ~has_psk(d, s) THEN set_fixed_saved(d, s)
  ELSE [set_fixed_saved(d, s) EXCEPT !.opermode = "ACTIVE"]

Started(cfg, s) == routine_fg_scan(load_state(Zeroed(cfg), s))
=============================================================================
