----------------------------- MODULE WsuppState -----------------------------
(***************************************************************************)
(* The state of the wsupp daemon: the globals of wsupp.c, wsupp_netlink.c, *)
(* wsupp_eapol.c, wsupp_apsel.c and wsupp_slots.c that the handlers of its *)
(* event loop read and write, as one record.  The modules above this one   *)
(* translate the C functions, under their C names, to operators that map   *)
(* such a record to the record the function leaves behind.                 *)
(*                                                                         *)
(* A station (one access point, one BSSID) has a fixed frequency, signal   *)
(* and place in scans[].  Its SSID and its cipher suites are what the last *)
(* dump said, and may be others in the next.  A pre-shared key is an       *)
(* opaque token: two tokens derive the same session keys exactly when they *)
(* are equal.                                                              *)
(***************************************************************************)
EXTENDS Integers, Sequences

CONSTANTS
  BSSIDs,       \* stations that may show up in scan results
  SSIDs,        \* network names
  PSKs,         \* pre-shared keys a user may know
  Freq,         \* its frequency, MHz
  Signal,       \* its signal, mBm (-7500 is -75dBm)
  Slot,         \* the position of its entry in scans[]
  NoBssid,      \* ap.bssid zeroed
  NoSsid,       \* slen = 0: no SSID, or the one of a hidden network
  NoPsk,        \* PSK zeroed, or no line in the config file
  BadPsk,       \* a config line whose key does not parse
  RescanCycle,  \* 6 in routine_fg_scan: every 6th rescan is a full one
  RescanLimit   \* 6*5 in routine_fg_scan: rescans before the freq is dropped

ASSUME StationAssumption ==
  /\ Freq   \in [BSSIDs -> Nat \ {0}]
  /\ Signal \in [BSSIDs -> Int]
  /\ Slot   \in [BSSIDs -> Nat]

ASSUME NoneAssumption ==
  /\ NoBssid \notin BSSIDs
  /\ NoSsid  \notin SSIDs
  /\ NoPsk   \notin PSKs
  /\ BadPsk  \notin PSKs
  /\ NoPsk # BadPsk

ASSUME RescanAssumption ==
  /\ RescanCycle \in Nat \ {0}
  /\ RescanLimit \in Nat \ {0}

-----------------------------------------------------------------------------
(* OP_EXIT ... OP_RESCAN; QUIT stands for a process that is gone, through   *)
(* quit() or by leaving the event loop.                                     *)
OperModes  == {"EXIT", "EXITREQ", "NEUTRAL", "ONESHOT", "ACTIVE", "RESCAN",
               "QUIT"}
AuthStates == {"IDLE", "AUTHENTICATING", "ASSOCIATING", "CONNECTING",
               "CONNECTED", "DISCONNECTING", "NETDOWN", "EXTERNAL"}
ScanStates == {"IDLE", "SCANNING", "SCANDUMP"}
EapolStates == {"IDLE", "WAITING_1_4", "WAITING_2_4", "WAITING_3_4",
                "NEGOTIATED"}

(* SR_SCANNING_ONE_FREQ, SR_RECONNECT_CURRENT, SR_CONNECT_SOMETHING. *)
ScanReqs == {"ONE_FREQ", "RECONNECT", "SOMETHING"}

(* The SF_ flags of a scan entry; USED stands for a non-zero freq, which is *)
(* how the code tells a live entry of scans[] from a free one.              *)
ScanFlags == {"USED", "SEEN", "GOOD", "PASS", "STALE", "TRIED"}

Keys == PSKs \cup {NoPsk, BadPsk}

(* sc->type as check_wpa and set_current_ap tell it apart: everything that *)
(* RSN-PSK needs, CCMP as a pairwise cipher but not the rest, or no CCMP.   *)
Types == {"RSN_PSK", "CCMP", "OTHER"}

(* What a dump says of a station and its entry keeps; NoLook is an entry   *)
(* that has been zeroed.                                                   *)
Looks  == [ssid : SSIDs \cup {NoSsid}, type : Types]
NoLook == [ssid |-> NoSsid, type |-> "OTHER"]

(* struct ap, without signal, type and the IEs. *)
Ap == [bssid   : BSSIDs \cup {NoBssid},
       ssid    : SSIDs \cup {NoSsid},
       freq    : Nat,
       fixed   : BOOLEAN,
       unsaved : BOOLEAN,
       success : BOOLEAN,
       rescans : Nat]

(* A netlink command.  freq is the one frequency of a scan (0 or -1: all);  *)
(* bssid, ssid and freq address an AUTHENTICATE or an ASSOCIATE.            *)
Commands ==
  [cmd   : {"TRIGGER_SCAN", "GET_SCAN", "AUTHENTICATE", "ASSOCIATE",
            "DISCONNECT", "NEW_KEY"},
   freq  : Int,
   bssid : BSSIDs \cup {NoBssid},
   ssid  : SSIDs \cup {NoSsid}]

Command(c) == [cmd |-> c, freq |-> 0, bssid |-> NoBssid, ssid |-> NoSsid]

(* The frame the running handler has sent to the AP. *)
EapolSent == {"NONE", "P2", "P4", "G2"}

(* The notifications the running handler has written to the clients that   *)
(* asked for them, by their REP_WI names.                                  *)
Reports == {"NET_DOWN", "SCANNING", "SCAN_DONE", "SCAN_FAIL", "NO_CONNECT",
            "DISCONNECT", "CONNECTED"}

(* cfg is the config file as load_psk and got_psk_for see it.  kck is the   *)
(* key the handshake keys were derived from (NoPsk: KCK is zero).  tx, sent *)
(* and rep are what the running handler has sent to the card, to the AP and *)
(* to the clients, reseq says that it has changed scanseq.                  *)
Daemon ==
  [opermode   : OperModes,
   authstate  : AuthStates,
   scanstate  : ScanStates,
   scanreq    : SUBSET ScanReqs,
   reseq      : BOOLEAN,
   timerset   : BOOLEAN,
   rfkilled   : BOOLEAN,
   ap         : Ap,
   psk        : Keys,
   eapolstate : EapolStates,
   eapolsends : BOOLEAN,
   kck        : Keys,
   scans      : [BSSIDs -> SUBSET ScanFlags],
   looks      : [BSSIDs -> Looks],
   cfg        : [SSIDs -> Keys],
   tx         : Seq(Commands),
   sent       : EapolSent,
   rep        : SUBSET Reports]

report(d, r) == [d EXCEPT !.rep = @ \cup {r}]

clr_timer(d) == [d EXCEPT !.timerset = FALSE]

set_timer(d) == [d EXCEPT !.timerset = TRUE]

(* quit() leaves the process; the DISCONNECT it sends first is synchronous. *)
quit(d) == [d EXCEPT !.opermode = "QUIT", !.tx = <<>>]
=============================================================================
