------------------------------ MODULE ApSelect ------------------------------
(***************************************************************************)
(* wsupp_apsel.c: which AP to try, what to do when a connection succeeds   *)
(* or is lost, and when to scan again.                                     *)
(***************************************************************************)
EXTENDS NlCommands

Has(d, b, f) == f \in d.scans[b]

SsidOf(d, b) == d.looks[b].ssid

check_wpa(d, b) == d.looks[b].type = "RSN_PSK"

connectable(d, b) ==
  /\ Has(d, b, "GOOD")
  /\ ~Has(d, b, "TRIED")
  /\ d.ap.fixed \/ Has(d, b, "PASS")

match_ssid(d, b) == d.ap.fixed => SsidOf(d, b) = d.ap.ssid

band_score(b) ==
  IF Signal[b] >= -7500 /\ Freq[b] \div 1000 = 5 THEN 1 ELSE 0

(* compare(a, b) > 0, or = 0 and a comes first in scans[]: get_best_ap     *)
(* keeps the earliest of the equally good entries.                         *)
Beats(a, b) ==
  \/ band_score(a) > band_score(b)
  \/ /\ band_score(a) = band_score(b)
     /\ \/ Signal[a] > Signal[b]
        \/ Signal[a] = Signal[b] /\ Slot[a] < Slot[b]

Best(S) == CHOOSE b \in S : \A c \in S \ {b} : Beats(b, c)

Last(S) == CHOOSE b \in S : \A c \in S \ {b} : Beats(c, b)

(* scans[] is finite and no two entries share a slot. *)
ASSUME BestAssumption ==
  \A S \in (SUBSET BSSIDs) \ {{}} :
    /\ \E b \in S : \A c \in S \ {b} : Beats(b, c)
    /\ \E b \in S : \A c \in S \ {b} : Beats(c, b)

Candidates(d) ==
  {b \in BSSIDs : Has(d, b, "USED") /\ connectable(d, b) /\ match_ssid(d, b)}

(* Mutant: the counter is restarted below zero. *)
clear_ap_bssid_Below(d) ==
  [d EXCEPT !.ap.bssid = NoBssid, !.ap.success = FALSE, !.ap.rescans = -1]

(* Mutant: success outlives the station it was earned with. *)
clear_ap_bssid_KeepsSuccess(d) ==
  [d EXCEPT !.ap.bssid = NoBssid, !.ap.rescans = 0]

clear_ap_bssid(d) ==
  [d EXCEPT !.ap.bssid = NoBssid, !.ap.success = FALSE, !.ap.rescans = 0]

(* Mutant: fixed mode outlives the SSID and the key. *)
clear_ap_ssid_StaysFixed(d) ==
  [d EXCEPT !.ap.ssid = NoSsid, !.ap.freq = 0, !.ap.unsaved = FALSE,
            !.psk = NoPsk]

clear_ap_ssid(d) ==
  [d EXCEPT !.ap.ssid = NoSsid, !.ap.freq = 0, !.ap.fixed = FALSE,
            !.ap.unsaved = FALSE, !.psk = NoPsk]

reset_station(d) == clear_ap_ssid(clear_ap_bssid(d))

(* What find_ssid finds for an SSID.  No line names a hidden network.      *)
KeyFor(d, s) == IF s \in SSIDs THEN d.cfg[s] ELSE NoPsk

(* The key load_psk leaves in PSK: untouched when there is no line for the *)
(* SSID, garbage when the line does not parse.                             *)
load_psk(d, s) ==
  IF KeyFor(d, s) = NoPsk THEN d ELSE [d EXCEPT !.psk = KeyFor(d, s)]

has_psk(d, s) == KeyFor(d, s) \in PSKs

got_psk_for(d, s) == KeyFor(d, s) # NoPsk

has_ccmp(d, b) == d.looks[b].type # "OTHER"

(* A station without CCMP is refused before its SSID is looked at.         *)
set_current_ap(d, b) ==
  LET e == [d EXCEPT !.scans[b] = @ \cup {"TRIED"},
                     !.ap.success = FALSE,
                     !.ap.freq = Freq[b],
                     !.ap.bssid = b]
  IN IF d.ap.fixed \/ ~has_ccmp(d, b) THEN e
     ELSE load_psk([e EXCEPT !.ap.ssid = SsidOf(d, b)], SsidOf(d, b))

(* Mutant: entries already tried are skipped, as get_best_ap skips them. *)
find_current_ap_Untried(d) ==
  /\ d.ap.bssid \in BSSIDs
  /\ Has(d, d.ap.bssid, "USED") /\ ~Has(d, d.ap.bssid, "TRIED")
  /\ SsidOf(d, d.ap.bssid) = d.ap.ssid

(* The BSSID is the one ap points at, provided it is listed with its SSID. *)
find_current_ap(d) ==
  /\ d.ap.bssid \in BSSIDs
  /\ Has(d, d.ap.bssid, "USED")
  /\ SsidOf(d, d.ap.bssid) = d.ap.ssid

reset_scan_counters(d) ==
  [d EXCEPT !.scans = [b \in BSSIDs |->
     IF match_ssid(d, b) THEN @[b] \ {"TRIED"} ELSE @[b]]]

set_fixed(d, s) ==
  reset_scan_counters(clear_ap_bssid(
    [d EXCEPT !.ap.ssid = s, !.ap.fixed = TRUE]))

(* Mutant: the key is saved when it is given, not when it has worked. *)
set_fixed_given_SavesNow(d, s, psk) ==
  [set_fixed(d, s) EXCEPT !.psk = psk, !.cfg[s] = psk]

set_fixed_given(d, s, psk) ==
  [set_fixed(d, s) EXCEPT !.psk = psk, !.ap.unsaved = TRUE]

set_fixed_saved(d, s) ==
  IF has_psk(d, s)
  THEN [set_fixed(load_psk(d, s), s) EXCEPT !.ap.unsaved = FALSE]
  ELSE load_psk(d, s)

-----------------------------------------------------------------------------
(* connect_to_something tries the candidates best first and stops at the   *)
(* first that set_current_ap accepts: one with CCMP and, but in fixed      *)
(* mode, with a readable key.  Those it passes by lose GOOD.  When all are *)
(* passed by, ap is left with the last of them, and with the SSID of the   *)
(* last whose SSID was looked at.                                          *)
Secure(d) == {b \in Candidates(d) : has_ccmp(d, b)}

Acceptable(d) == {b \in Secure(d) : d.ap.fixed \/ has_psk(d, SsidOf(d, b))}

PassBy(d, S) ==
  [d EXCEPT !.scans = [b \in BSSIDs |->
     IF b \in S THEN (@[b] \cup {"TRIED"}) \ {"GOOD"} ELSE @[b]]]

connect_to_something(d) ==
  LET A == Acceptable(d)
      C == Candidates(d)
      N == Secure(d)
      better == {c \in C : Beats(c, Best(A))}
      named  == IF N = {} THEN d ELSE set_current_ap(d, Last(N))
      failed == PassBy(set_current_ap(named, Last(C)), C)
  IN IF A # {}
     THEN start_connection(set_current_ap(PassBy(d, better), Best(A)))
     ELSE IF C = {} THEN d
     ELSE IF \E c \in N : KeyFor(d, SsidOf(d, c)) = BadPsk
     THEN [failed EXCEPT !.psk = BadPsk]
     ELSE failed

(* reassess_wifi_situation, and what follows when no AP can be tried. *)
snap_to_neutral(d) == [reset_station(d) EXCEPT !.opermode = "NEUTRAL"]

idle_then_rescan(d) == set_timer(d)

reassess_wifi_situation(d) ==
  IF d.opermode = "NEUTRAL" \/ ~can_connect(d) THEN d
  ELSE LET e == connect_to_something(d)
           f == report(e, "NO_CONNECT")
       IN IF e.authstate # "IDLE" THEN e
          ELSE IF d.opermode = "ONESHOT" THEN snap_to_neutral(f)
          ELSE idle_then_rescan(f)

(* Called by the EAPOL code, by late errors and by the timer. *)
abort_connection(d) ==
  IF can_disconnect(d) THEN trigger_disconnect(d)
  ELSE reassess_wifi_situation(d)

-----------------------------------------------------------------------------
save_psk(d, s, psk) == [d EXCEPT !.cfg[s] = psk]

handle_connect(d) ==
  LET found == find_current_ap(d)
      e == set_timer(
             [d EXCEPT
                !.ap.success = TRUE,
                !.ap.fixed = TRUE,
                !.opermode = IF @ \in {"RESCAN", "ONESHOT"}
                             THEN "ACTIVE" ELSE @,
                !.scans = [b \in BSSIDs |->
                   IF found /\ b = d.ap.bssid
                   THEN (@[b] \ {"TRIED"})
                          \cup (IF d.ap.unsaved THEN {"PASS"} ELSE {})
                   ELSE @[b]],
                !.ap.unsaved = FALSE])
  IN report(IF d.ap.unsaved THEN save_psk(e, d.ap.ssid, d.psk) ELSE e,
            "CONNECTED")

rescan_current_ap(d) ==
  start_scan([d EXCEPT !.ap.success = FALSE, !.opermode = "RESCAN"],
             d.ap.freq)

end_rescan(d) ==
  [d EXCEPT !.opermode = IF @ = "RESCAN" THEN "ACTIVE" ELSE @]

reconnect_to_current_ap(d) ==
  IF find_current_ap(d) THEN start_connection(end_rescan(d))
  ELSE reassess_wifi_situation(end_rescan(d))

try_some_other_ap(d) ==
  reassess_wifi_situation(
    IF d.ap.fixed THEN clear_ap_bssid(d) ELSE reset_station(d))

check_new_scan_results(d) ==
  [d EXCEPT !.scans = [b \in BSSIDs |->
     IF Has(d, b, "USED") /\ ~Has(d, b, "SEEN")
     THEN @[b] \cup {"SEEN"}
               \cup (IF check_wpa(d, b) THEN {"GOOD"} ELSE {})
               \cup (IF check_wpa(d, b) /\ got_psk_for(d, SsidOf(d, b))
                     THEN {"PASS"} ELSE {})
     ELSE @[b]]]

(* Mutant: the exit that was asked for is forgotten. *)
handle_disconnect_NoExit(d) ==
  IF d.opermode \notin {"ACTIVE", "RESCAN"}
  THEN report(report(reset_station(clr_timer(d)), "DISCONNECT"), "NO_CONNECT")
  ELSE IF d.ap.success THEN rescan_current_ap(end_rescan(clr_timer(d)))
  ELSE try_some_other_ap(end_rescan(clr_timer(d)))

handle_disconnect(d) ==
  LET e == clr_timer(d)
      f == end_rescan(report(e, "DISCONNECT"))
  IN CASE d.opermode \in {"EXITREQ", "EXIT"} ->
            [e EXCEPT !.opermode = "EXIT"]
       [] d.opermode \in {"ACTIVE", "RESCAN"} ->
            IF d.ap.success THEN rescan_current_ap(f) ELSE try_some_other_ap(f)
       [] d.opermode \in {"NEUTRAL", "ONESHOT", "QUIT"} ->
            report(reset_station(f), "NO_CONNECT")

handle_rfrestored(d) ==
  LET e == [d EXCEPT !.authstate = "IDLE"]
  IN IF d.authstate # "NETDOWN" THEN d
     ELSE IF d.opermode = "RESCAN" THEN rescan_current_ap(e)
     ELSE reassess_wifi_situation(e)

routine_bg_scan(d) == set_timer(start_void_scan(d))

routine_fg_scan(d) ==
  LET n == d.ap.rescans + 1
      e == set_timer(d)
      f == start_scan(e, IF n % RescanCycle # 0 THEN d.ap.freq ELSE -1)
  IN IF ~d.ap.fixed THEN start_void_scan(e)
     ELSE IF d.ap.freq = 0 THEN start_full_scan(e)
     ELSE IF n >= RescanLimit
     THEN [f EXCEPT !.ap.freq = 0, !.ap.rescans = 0]
     ELSE [f EXCEPT !.ap.rescans = n]
=============================================================================
