--------------------------- MODULE NetworkProofs ---------------------------
(***************************************************************************)
(* What the daemon knows of networks stays consistent: a station comes to  *)
(* be offered without a key in the config file in one way only, and the    *)
(* station, the network and the key of struct ap belong together, for any  *)
(* number of stations, networks, keys and events.                          *)
(***************************************************************************)
EXTENDS AuthProofs

(* A claim is made of a daemon on its way from an earlier state, the one   *)
(* its handler started in, and says how much is claimed: the keys too, or  *)
(* not.                                                                    *)
Proven(claim) == claim[1] = "PROVEN"
From(claim)   == claim[2]

(* A station offered without a key was so already, or had another name.    *)
Offered(claim, x) ==
  \A b \in BSSIDs :
    Unkeyed(x, b) => Unkeyed(From(claim), b)
                     \/ SsidOf(x, b) # SsidOf(From(claim), b)

(* A key that save_psk is going to write exists, and has a network.        *)
Fits(x) ==
  x.ap.unsaved => x.ap.fixed /\ x.ap.ssid \in SSIDs /\ x.psk # NoPsk

(* PSK cannot change in an attempt the card has joined a station for.      *)
Joined == {"ASSOCIATING", "CONNECTING", "CONNECTED"}

(* The handshake works with PSK, if with any key of a network. *)
Keyed(x) == x.kck \in {x.psk, BadPsk, NoPsk}

(* What was read or saved as a network's key opens it, and so does PSK     *)
(* once it has; fixed mode has a network and a key; a handshake under way  *)
(* works with PSK from its first message on.                               *)
Genuine(x) ==
  /\ \A s \in SSIDs : x.cfg[s] \in {NoPsk, BadPsk, RightPsk[s]}
  /\ x.ap.fixed => x.ap.ssid \in SSIDs /\ x.psk \in PSKs
  /\ x.ap.success => /\ x.ap.bssid \in BSSIDs /\ x.ap.ssid \in SSIDs
                     /\ x.psk = RightPsk[x.ap.ssid]
  /\ x.authstate \in Joined /\ x.eapolstate # "WAITING_1_4" => Keyed(x)

Net(claim, x) ==
  /\ x \in Daemon /\ Offered(claim, x) /\ Fits(x)
  /\ Proven(claim) => Genuine(x)

(* Nothing depends on PSK: no station joined, no network to come back to.  *)
Loose(x) == x.authstate \notin Joined
Blank(x) == Loose(x) /\ ~x.ap.fixed /\ ~x.ap.success

(* y knows the networks x knows, offers no station x does not offer by the *)
(* same name, and has joined nothing x had not.                            *)
Alike(x, y) ==
  /\ y \in Daemon
  /\ y.psk = x.psk /\ y.cfg = x.cfg
  /\ y.ap.unsaved = x.ap.unsaved /\ y.ap.fixed = x.ap.fixed
  /\ y.ap.ssid = x.ap.ssid /\ y.ap.bssid = x.ap.bssid
  /\ y.ap.success => x.ap.success
  /\ y.kck \in {x.kck, NoPsk}
  /\ y.eapolstate \in {x.eapolstate, "WAITING_1_4"}
  /\ y.authstate \in Joined => x.authstate \in Joined
  /\ \A b \in BSSIDs : "PASS" \in y.scans[b] =>
        "PASS" \in x.scans[b] /\ y.looks[b] = x.looks[b]

(* With the same keys and no new flags nothing is offered anew. *)
LEMMA OfferedKept ==
  ASSUME NEW claim, NEW x, NEW y, Offered(claim, x), y.cfg = x.cfg,
         \A b \in BSSIDs : "PASS" \in y.scans[b] =>
           "PASS" \in x.scans[b] /\ y.looks[b] = x.looks[b]
  PROVE  Offered(claim, y)
  BY DEF Offered, Unkeyed, SsidOf, got_psk_for, KeyFor

(* And what is claimed of a state is claimed of one like it. *)
LEMMA AlikeNet ==
  ASSUME NEW claim, NEW x, NEW y, Net(claim, x), Alike(x, y)
  PROVE  Net(claim, y) /\ (Loose(x) => Loose(y)) /\ (Blank(x) => Blank(y))
  <1>1. Offered(claim, y)
    BY OfferedKept DEF Net, Alike
  <1>2. Fits(y)
    BY DEF Net, Alike, Fits
  <1>3. ASSUME Proven(claim) PROVE Genuine(y)
    <2>1. Genuine(x)
      BY <1>3 DEF Net
    <2> QED
      BY <2>1 DEF Alike, Genuine, Keyed
  <1>4. (Loose(x) => Loose(y)) /\ (Blank(x) => Blank(y))
    BY DEF Alike, Loose, Blank
  <1> QED
    BY <1>1, <1>2, <1>3, <1>4 DEF Net, Alike

(* The relation composes. *)
LEMMA AlikeTrans ==
  ASSUME NEW x, NEW y, NEW z, Alike(x, y), Alike(y, z)
  PROVE  Alike(x, z)
  BY DEF Alike

-----------------------------------------------------------------------------
(* Functions that touch no network. *)

(* Fields about something else. *)
LEMMA AlikeFields ==
  ASSUME NEW x \in Daemon
  PROVE  /\ Alike(x, x)
         /\ Alike(x, clr_timer(x)) /\ Alike(x, set_timer(x))
         /\ Alike(x, reset_scan_state(x))
         /\ Alike(x, reset_eapol_state(x)) /\ Alike(x, prime_eapol_state(x))
         /\ \A r \in Reports : Alike(x, report(x, r))
         /\ \A m \in OperModes : Alike(x, [x EXCEPT !.opermode = m])
         /\ \A a \in AuthStates \ Joined : Alike(x, [x EXCEPT !.authstate = a])
  <1>1. Alike(x, x)
    BY DEF Alike
  <1>2. Alike(x, clr_timer(x)) /\ Alike(x, set_timer(x))
    BY TimerType DEF clr_timer, set_timer, Alike, Daemon
  <1>3. Alike(x, reset_scan_state(x))
    BY ResetScanType DEF reset_scan_state, Alike, Daemon
  <1>4. Alike(x, reset_eapol_state(x)) /\ Alike(x, prime_eapol_state(x))
    BY EapolResetType DEF reset_eapol_state, prime_eapol_state, Alike, Daemon
  <1>5. ASSUME NEW r \in Reports PROVE Alike(x, report(x, r))
    BY ReportType DEF report, Alike, Daemon
  <1>6. ASSUME NEW m \in OperModes PROVE Alike(x, [x EXCEPT !.opermode = m])
    BY OpermodeType DEF Alike, Daemon
  <1>7. ASSUME NEW a \in AuthStates \ Joined
        PROVE  Alike(x, [x EXCEPT !.authstate = a])
    BY AuthstateType DEF Alike, Daemon
  <1> QED
    BY <1>1, <1>2, <1>3, <1>4, <1>5, <1>6, <1>7

(* A command is sent. *)
LEMMA AlikeSend ==
  ASSUME NEW x \in Daemon, NEW c \in Commands
  PROVE  /\ Alike(x, nl_send(x, c))
         /\ \A a \in AuthStates \ Joined :
              Alike(x, send_set_authstate(x, c, a))
  <1>1. Alike(x, nl_send(x, c))
    BY SendType DEF nl_send, Alike, Daemon
  <1>2. ASSUME NEW a \in AuthStates \ Joined
        PROVE  Alike(x, send_set_authstate(x, c, a))
    <2>1. Alike(nl_send(x, c), [nl_send(x, c) EXCEPT !.authstate = a])
      BY SendType, AlikeFields
    <2> QED
      BY <1>1, <2>1, AlikeTrans DEF send_set_authstate
  <1> QED
    BY <1>1, <1>2

(* A scan or a dump is started, or joined. *)
LEMMA AlikeScan ==
  ASSUME NEW x \in Daemon, NEW f \in Int
  PROVE  /\ Alike(x, start_scan(x, f)) /\ Alike(x, trigger_scan_dump(x))
         /\ Alike(x, start_void_scan(x)) /\ Alike(x, start_full_scan(x))
  <1>1. ASSUME NEW y, NEW z \in Daemon, Alike(x, y), NEW s, NEW r, NEW q,
               z = [y EXCEPT !.scanstate = s, !.scanreq = r, !.reseq = q]
        PROVE  Alike(x, z)
    BY <1>1 DEF Alike, Daemon
  <1>2. ASSUME NEW g \in Int PROVE Alike(x, start_scan(x, g))
    <2> DEFINE c == [Command("TRIGGER_SCAN") EXCEPT !.freq = g]
               y == nl_send(x, c)
    <2>1. c \in Commands
      BY CommandType DEF Commands
    <2>2. Alike(x, y)
      BY <2>1, AlikeSend
    <2>3. start_scan(x, g) \in Daemon
      BY StartScanType
    <2>4. Alike(x, x)
      BY AlikeFields
    <2> DEFINE z == start_scan(x, g)
    <2>5. CASE x.scanstate = "IDLE"
      <3>1. \E s, r, q :
              z = [y EXCEPT !.scanstate = s, !.scanreq = r, !.reseq = q]
        BY <2>5 DEF start_scan
      <3> QED
        BY <1>1, <2>2, <2>3, <3>1
    <2>6. CASE x.scanstate # "IDLE"
      <3>1. z = x \/ \E r : z = [x EXCEPT !.scanreq = r]
        BY <2>6 DEF start_scan
      <3> QED
        BY <2>3, <2>4, <3>1 DEF Alike, Daemon
    <2> QED
      BY <2>5, <2>6
  <1>3. Alike(x, trigger_scan_dump(x))
    <2> DEFINE y == nl_send(x, Command("GET_SCAN"))
    <2>1. Alike(x, y) /\ trigger_scan_dump(x) \in Daemon
      BY AlikeSend, CommandType, ScanDumpType
    <2>2. trigger_scan_dump(x)
            = [y EXCEPT !.scanstate = "SCANDUMP", !.reseq = TRUE]
      BY DEF trigger_scan_dump
    <2> HIDE DEF y
    <2> QED
      BY <2>1, <2>2 DEF Alike, Daemon
  <1> QED
    BY <1>2, <1>3 DEF start_void_scan, start_full_scan

(* Commands to the AP are made of struct ap. *)
LEMMA ToApType ==
  ASSUME NEW x \in Daemon
  PROVE  /\ ToAp("AUTHENTICATE", x.ap) \in Commands
         /\ ToAp("ASSOCIATE", x.ap) \in Commands
  <1>1. /\ x.ap.freq \in Int /\ x.ap.bssid \in BSSIDs \cup {NoBssid}
        /\ x.ap.ssid \in SSIDs \cup {NoSsid}
    BY DEF Daemon, Ap
  <1> QED
    BY <1>1 DEF ToAp, Commands

(* The connection machine moves. *)
LEMMA AlikeTriggers ==
  ASSUME NEW x \in Daemon
  PROVE  /\ Alike(x, trigger_authentication(x))
         /\ Alike(x, trigger_disconnect(x))
         /\ Alike(x, start_connection(x)) /\ Alike(x, start_disconnect(x))
         /\ Alike(x, upload_ptk(x)) /\ Alike(x, upload_gtk(x))
  <1>1. Alike(x, x)
    BY AlikeFields
  <1>2. Alike(x, trigger_authentication(x))
    <2> DEFINE c == ToAp("AUTHENTICATE", x.ap)
    <2>1. c \in Commands
      BY ToApType
    <2> HIDE DEF c
    <2> QED
      BY <2>1, AlikeSend DEF trigger_authentication, c, AuthStates, Joined
  <1>3. Alike(x, trigger_disconnect(x))
    BY CommandType, AlikeSend DEF trigger_disconnect, AuthStates, Joined
  <1>4. Alike(x, upload_ptk(x)) /\ Alike(x, upload_gtk(x))
    BY CommandType, AlikeSend DEF upload_ptk, upload_gtk
  <1> QED
    BY <1>1, <1>2, <1>3, <1>4 DEF start_connection, start_disconnect

(* None of these disturbs what is known of networks. *)
LEMMA NetSteps ==
  ASSUME NEW claim, NEW x, Net(claim, x)
  PROVE  LET Fine(y) == Net(claim, y) /\ (Loose(x) => Loose(y))
         IN /\ x \in Daemon
            /\ Fine(clr_timer(x)) /\ Fine(set_timer(x))
            /\ Fine(reset_scan_state(x))
            /\ Fine(reset_eapol_state(x)) /\ Fine(prime_eapol_state(x))
            /\ \A r \in Reports : Fine(report(x, r))
            /\ \A m \in OperModes : Fine([x EXCEPT !.opermode = m])
            /\ \A a \in AuthStates \ Joined : Fine([x EXCEPT !.authstate = a])
            /\ \A f \in Int : Fine(start_scan(x, f))
            /\ Fine(trigger_scan_dump(x))
            /\ Fine(start_void_scan(x)) /\ Fine(start_full_scan(x))
            /\ Fine(trigger_authentication(x)) /\ Fine(trigger_disconnect(x))
            /\ Fine(start_connection(x)) /\ Fine(start_disconnect(x))
            /\ Fine(upload_ptk(x)) /\ Fine(upload_gtk(x))
  <1>1. x \in Daemon
    BY DEF Net
  <1>2. ASSUME NEW y, Alike(x, y)
        PROVE  Net(claim, y) /\ (Loose(x) => Loose(y))
    BY <1>2, AlikeNet
  <1> QED
    BY <1>1, <1>2, AlikeFields, AlikeScan, AlikeTriggers

-----------------------------------------------------------------------------
(* wsupp_apsel.c. *)

(* What is left when the station, or the network too, is given up. *)
LEMMA NetCleared ==
  ASSUME NEW claim, NEW x, Net(claim, x)
  PROVE  /\ Net(claim, clear_ap_bssid(x))
         /\ Loose(x) => LET z == reset_station(x)
                        IN Net(claim, z) /\ Blank(z) /\ z.authstate = x.authstate
  <1> DEFINE y == clear_ap_bssid(x)
             z == clear_ap_ssid(y)
  <1>1. x \in Daemon /\ x.ap \in Ap
    BY DEF Net, Daemon
  <1>2. y \in Daemon /\ y.ap \in Ap
    <2>1. y \in Daemon
      BY <1>1, ClearApType
    <2> HIDE DEF y
    <2> QED
      BY <2>1 DEF Daemon
  <1>3. /\ y.ap.bssid = NoBssid /\ y.ap.ssid = x.ap.ssid
        /\ y.ap.fixed = x.ap.fixed /\ y.ap.unsaved = x.ap.unsaved
        /\ ~y.ap.success
        /\ y.psk = x.psk /\ y.scans = x.scans /\ y.cfg = x.cfg
        /\ y.looks = x.looks
        /\ y.kck = x.kck /\ y.eapolstate = x.eapolstate
        /\ y.authstate = x.authstate
    BY <1>1 DEF clear_ap_bssid, Daemon, Ap
  <1> HIDE DEF y
  <1>4. z \in Daemon
    BY <1>2, ResetStationType
  <1>5. /\ z.ap.bssid = NoBssid /\ ~z.ap.fixed /\ ~z.ap.unsaved
        /\ ~z.ap.success
        /\ z.scans = x.scans /\ z.cfg = x.cfg /\ z.authstate = x.authstate
        /\ z.looks = x.looks
    BY <1>2, <1>3 DEF clear_ap_ssid, Daemon, Ap
  <1> HIDE DEF z
  <1>6. Net(claim, y)
    <2>1. Offered(claim, y) /\ Fits(y)
      BY <1>3, OfferedKept DEF Net, Fits
    <2>2. Proven(claim) => Genuine(y)
      BY <1>3 DEF Net, Genuine, Keyed
    <2> QED
      BY <1>2, <2>1, <2>2 DEF Net
  <1>7. ASSUME Loose(x) PROVE Net(claim, z) /\ Blank(z)
    <2>1. Offered(claim, z) /\ Fits(z)
      BY <1>5, OfferedKept DEF Net, Fits
    <2>2. Proven(claim) => Genuine(z)
      BY <1>5, <1>7 DEF Net, Genuine, Loose
    <2> QED
      BY <1>4, <1>5, <1>7, <2>1, <2>2 DEF Net, Blank, Loose
  <1> QED
    BY <1>5, <1>6, <1>7 DEF y, z, reset_station

(* load_psk finds a key or leaves the one there is; it is used where       *)
(* nothing depends on that one.                                            *)
LEMMA NetLoad ==
  ASSUME NEW claim, NEW x, Net(claim, x), Blank(x), NEW s
  PROVE  /\ Net(claim, load_psk(x, s)) /\ Blank(load_psk(x, s))
         /\ load_psk(x, s).ap = x.ap
         /\ has_psk(x, s) => load_psk(x, s).psk \in PSKs
  <1> DEFINE y == load_psk(x, s)
  <1>1. x \in Daemon /\ y \in Daemon
    BY LoadPskType DEF Net
  <1>2. /\ y.ap = x.ap /\ y.scans = x.scans /\ y.cfg = x.cfg
        /\ y.looks = x.looks
        /\ y.authstate = x.authstate
        /\ y.psk = x.psk \/ y.psk # NoPsk
        /\ has_psk(x, s) => y.psk \in PSKs
    <2> DEFINE k == KeyFor(x, s)
    <2> HIDE DEF k
    <2> QED
      BY <1>1, NoneAssumption DEF load_psk, has_psk, Daemon, k
  <1> HIDE DEF y
  <1>3. Blank(y)
    BY <1>2 DEF Blank, Loose
  <1>4. Proven(claim) => Genuine(y)
    BY <1>2, <1>3 DEF Net, Genuine, Blank, Loose
  <1>5. Net(claim, y)
    BY <1>1, <1>2, <1>4, OfferedKept DEF Net, Fits
  <1> QED
    BY <1>2, <1>3, <1>5 DEF y

(* In fixed mode only the station changes.  Otherwise nothing but the new  *)
(* key depends on PSK.                                                     *)
LEMMA NetCurrent ==
  ASSUME NEW claim, NEW x, Net(claim, x), Loose(x), NEW b \in BSSIDs
  PROVE  LET y == set_current_ap(x, b)
         IN /\ Net(claim, y) /\ Loose(y) /\ y.ap.fixed = x.ap.fixed
            /\ ~x.ap.fixed => Blank(y)
  <1> DEFINE e == [x EXCEPT !.scans[b] = @ \cup {"TRIED"},
                            !.ap.success = FALSE,
                            !.ap.freq = Freq[b],
                            !.ap.bssid = b]
             f == [e EXCEPT !.ap.ssid = SsidOf(x, b)]
  <1>1. x \in Daemon /\ x.ap \in Ap /\ set_current_ap(x, b) \in Daemon
    BY SetCurrentType DEF Net, Daemon
  <1>2. /\ e.ap.ssid = x.ap.ssid
        /\ e.ap.fixed = x.ap.fixed /\ e.ap.unsaved = x.ap.unsaved
        /\ ~e.ap.success
        /\ e.psk = x.psk /\ e.cfg = x.cfg /\ e.authstate = x.authstate
        /\ \A c \in BSSIDs : "PASS" \in e.scans[c] =>
              "PASS" \in x.scans[c] /\ e.looks[c] = x.looks[c]
    BY <1>1 DEF Daemon, Ap
  <1>3. Offered(claim, e) /\ Fits(e)
    <2> HIDE DEF e
    <2> QED
      BY <1>2, OfferedKept DEF Net, Fits
  <1>4. Loose(e) /\ (~x.ap.fixed => Blank(e))
    <2> HIDE DEF e
    <2> QED
      BY <1>2 DEF Blank, Loose
  <1>5. Proven(claim) => Genuine(e)
    <2> HIDE DEF e
    <2> QED
      BY <1>2 DEF Net, Genuine, Loose
  <1>6. CASE x.ap.fixed \/ ~has_ccmp(x, b)
    <2>1. set_current_ap(x, b) = e
      BY <1>6 DEF set_current_ap
    <2> HIDE DEF e
    <2> QED
      BY <1>1, <1>2, <1>3, <1>4, <1>5, <2>1 DEF Net
  <1>7. CASE ~(x.ap.fixed \/ ~has_ccmp(x, b))
    <2>1. set_current_ap(x, b) = load_psk(f, SsidOf(x, b))
      BY <1>7 DEF set_current_ap
    <2>2. e \in Daemon /\ f \in Daemon
      <3>1. e.scans \in [BSSIDs -> SUBSET ScanFlags]
        BY <1>1 DEF Daemon, ScanFlags
      <3> DEFINE h == [x EXCEPT !.scans = e.scans]
                 a == [x.ap EXCEPT !.success = FALSE, !.freq = Freq[b],
                                   !.bssid = b]
                 g == [a EXCEPT !.ssid = SsidOf(x, b)]
      <3>2. a \in Ap /\ g \in Ap
        <4>1. Freq[b] \in Nat /\ SsidOf(x, b) \in SSIDs \cup {NoSsid}
          BY <1>1, StationAssumption, SsidOfType
        <4> QED
          BY <1>1, <4>1 DEF Ap
      <3>3. h \in Daemon
        <4> HIDE DEF e
        <4> QED
          BY <1>1, <3>1 DEF Daemon
      <3>4. e = [h EXCEPT !.ap = a] /\ f = [h EXCEPT !.ap = g]
        <4>1. /\ x = [i \in DOMAIN x |-> x[i]]
              /\ {"scans", "ap"} \subseteq DOMAIN x
          BY <1>1 DEF Daemon
        <4>2. e = [h EXCEPT !.ap = a]
          BY <4>1
        <4>3. f = [h EXCEPT !.ap = g]
          BY <4>1
        <4> QED
          BY <4>2, <4>3
      <3> HIDE DEF e, f, h, a, g
      <3> QED
        BY <3>2, <3>3, <3>4 DEF Daemon
    <2> HIDE DEF e
    <2>3. /\ f.ap.fixed = x.ap.fixed /\ f.ap.unsaved = x.ap.unsaved
          /\ ~f.ap.success
          /\ f.psk = e.psk /\ f.cfg = e.cfg /\ f.scans = e.scans
          /\ f.looks = e.looks /\ f.authstate = x.authstate
      BY <1>2, <2>2 DEF Daemon, Ap
    <2> HIDE DEF f
    <2>4. Offered(claim, f)
      BY <1>3, <2>3, OfferedKept
    <2>5. Blank(f) /\ Fits(f)
      BY <1>3, <1>4, <1>7, <2>3 DEF Net, Fits, Blank, Loose
    <2>6. Proven(claim) => Genuine(f)
      BY <1>2, <2>3, <2>5 DEF Net, Genuine, Blank, Loose
    <2>7. Net(claim, f)
      BY <2>2, <2>4, <2>5, <2>6 DEF Net
    <2> DEFINE y == load_psk(f, SsidOf(x, b))
    <2>8. Net(claim, y) /\ Blank(y) /\ y.ap = f.ap
      BY <2>5, <2>7, NetLoad
    <2> HIDE DEF y
    <2> QED
      BY <1>7, <2>1, <2>3, <2>8 DEF Blank, y
  <1> QED
    BY <1>6, <1>7

(* What set_fixed makes of a daemon. *)
LEMMA FixedFields ==
  ASSUME NEW x \in Daemon, NEW s \in SSIDs
  PROVE  LET z == set_fixed(x, s)
         IN /\ z \in Daemon
            /\ z.ap.unsaved = x.ap.unsaved /\ z.ap.ssid = s /\ z.ap.fixed
            /\ z.ap.bssid = NoBssid /\ ~z.ap.success
            /\ z.psk = x.psk /\ z.cfg = x.cfg /\ z.authstate = x.authstate
            /\ \A b \in BSSIDs : "PASS" \in z.scans[b] =>
                  "PASS" \in x.scans[b] /\ z.looks[b] = x.looks[b]
  <1> DEFINE v == [x EXCEPT !.ap.ssid = s, !.ap.fixed = TRUE]
             w == clear_ap_bssid(v)
             z == reset_scan_counters(w)
  <1>1. x.ap \in Ap
    BY DEF Daemon
  <1>2. v \in Daemon
    BY <1>1 DEF Daemon, Ap
  <1>3. /\ v.ap.unsaved = x.ap.unsaved /\ v.ap.ssid = s /\ v.ap.fixed
        /\ v.psk = x.psk /\ v.cfg = x.cfg /\ v.scans = x.scans
        /\ v.looks = x.looks /\ v.authstate = x.authstate
    BY <1>1 DEF Daemon, Ap
  <1> HIDE DEF v
  <1>4. w \in Daemon
    BY <1>2, ClearApType
  <1>5. v.ap \in Ap
    BY <1>2 DEF Daemon
  <1>6. /\ w.ap.unsaved = x.ap.unsaved /\ w.ap.ssid = s /\ w.ap.fixed
        /\ w.ap.bssid = NoBssid /\ ~w.ap.success
        /\ w.psk = x.psk /\ w.cfg = x.cfg /\ w.scans = x.scans
        /\ w.looks = x.looks /\ w.authstate = x.authstate
    BY <1>2, <1>3, <1>5 DEF clear_ap_bssid, Daemon, Ap
  <1> HIDE DEF w
  <1>7. z \in Daemon
    BY <1>4, ResetCountersType
  <1>8. /\ z.ap = w.ap /\ z.psk = w.psk /\ z.cfg = w.cfg
        /\ z.authstate = w.authstate
        /\ \A b \in BSSIDs : "PASS" \in z.scans[b] =>
              "PASS" \in w.scans[b] /\ z.looks[b] = w.looks[b]
    BY <1>4 DEF reset_scan_counters, Daemon
  <1> HIDE DEF z
  <1>9. set_fixed(x, s) = z
    BY DEF z, w, v, set_fixed
  <1> QED
    BY <1>6, <1>7, <1>8, <1>9

(* A network is asked for, with a key or with the one in the config file.  *)
LEMMA NetFixed ==
  ASSUME NEW claim, NEW x, Net(claim, x), Blank(x), NEW s \in SSIDs
  PROVE  /\ Net(claim, set_fixed_saved(x, s))
         /\ \A key \in PSKs : Net(claim, set_fixed_given(x, s, key))
  <1> DEFINE l == load_psk(x, s)
  <1>1. Net(claim, l) /\ Blank(l) /\ (has_psk(x, s) => l.psk \in PSKs)
    BY NetLoad
  <1> HIDE DEF l
  <1>2. ASSUME has_psk(x, s) PROVE Net(claim, set_fixed_saved(x, s))
    <2> DEFINE z == set_fixed(l, s)
               v == [z EXCEPT !.ap.unsaved = FALSE]
    <2>1. /\ z \in Daemon
          /\ z.ap.ssid = s /\ z.ap.fixed /\ z.ap.bssid = NoBssid
          /\ ~z.ap.success /\ z.psk \in PSKs /\ z.cfg = l.cfg
          /\ z.authstate = l.authstate
          /\ \A b \in BSSIDs : "PASS" \in z.scans[b] =>
                "PASS" \in l.scans[b] /\ z.looks[b] = l.looks[b]
      BY <1>1, <1>2, FixedFields DEF Net
    <2> HIDE DEF z
    <2>2. z.ap \in Ap
      BY <2>1 DEF Daemon
    <2>3. v \in Daemon
      BY <2>1, UnsavedType
    <2>4. /\ v.ap = [z.ap EXCEPT !.unsaved = FALSE]
          /\ v.psk = z.psk /\ v.cfg = z.cfg /\ v.scans = z.scans
          /\ v.looks = z.looks /\ v.authstate = z.authstate
      BY <2>1 DEF Daemon
    <2> HIDE DEF v
    <2>5. /\ v.ap.ssid = s /\ v.ap.fixed /\ v.ap.bssid = NoBssid
          /\ ~v.ap.success /\ ~v.ap.unsaved
      BY <2>1, <2>2, <2>4 DEF Ap
    <2>6. Offered(claim, v) /\ Fits(v)
      <3>1. Offered(claim, l) /\ v.cfg = l.cfg
        BY <1>1, <2>1, <2>4 DEF Net
      <3>2. \A b \in BSSIDs : "PASS" \in v.scans[b] =>
              "PASS" \in l.scans[b] /\ v.looks[b] = l.looks[b]
        BY <2>1, <2>4
      <3> QED
        BY <2>5, <3>1, <3>2, OfferedKept DEF Fits
    <2>7. Proven(claim) => Genuine(v)
      BY <1>1, <2>1, <2>4, <2>5 DEF Net, Genuine, Blank, Loose
    <2>8. Net(claim, v)
      BY <2>3, <2>6, <2>7 DEF Net
    <2> QED
      BY <1>2, <2>8 DEF set_fixed_saved, v, z, l
  <1>3. ASSUME NEW key \in PSKs PROVE Net(claim, set_fixed_given(x, s, key))
    <2> DEFINE z == set_fixed(x, s)
               v == [z EXCEPT !.psk = key, !.ap.unsaved = TRUE]
    <2>1. /\ z \in Daemon
          /\ z.ap.ssid = s /\ z.ap.fixed /\ z.ap.bssid = NoBssid
          /\ ~z.ap.success /\ z.cfg = x.cfg /\ z.authstate = x.authstate
          /\ \A b \in BSSIDs : "PASS" \in z.scans[b] =>
                "PASS" \in x.scans[b] /\ z.looks[b] = x.looks[b]
      BY FixedFields DEF Net
    <2> HIDE DEF z
    <2>2. z.ap \in Ap
      BY <2>1 DEF Daemon
    <2>3. v \in Daemon
      <3>1. v = [[z EXCEPT !.psk = key] EXCEPT !.ap.unsaved = TRUE]
        BY <2>1 DEF Daemon
      <3>2. [z EXCEPT !.psk = key] \in Daemon
        BY <2>1 DEF Daemon, Keys
      <3> QED
        BY <3>1, <3>2, UnsavedType
    <2>4. /\ v.ap = [z.ap EXCEPT !.unsaved = TRUE]
          /\ v.psk = key /\ v.cfg = z.cfg /\ v.scans = z.scans
          /\ v.looks = z.looks /\ v.authstate = z.authstate
      BY <2>1 DEF Daemon
    <2> HIDE DEF v
    <2>5. /\ v.ap.ssid = s /\ v.ap.fixed /\ v.ap.bssid = NoBssid
          /\ ~v.ap.success
      BY <2>1, <2>2, <2>4 DEF Ap
    <2>6. Offered(claim, v) /\ Fits(v)
      <3>1. Offered(claim, x) /\ v.cfg = x.cfg
        BY <2>1, <2>4 DEF Net
      <3>2. \A b \in BSSIDs : "PASS" \in v.scans[b] =>
              "PASS" \in x.scans[b] /\ v.looks[b] = x.looks[b]
        BY <2>1, <2>4
      <3> QED
        BY <2>4, <2>5, <3>1, <3>2, NoneAssumption, OfferedKept DEF Fits
    <2>7. Proven(claim) => Genuine(v)
      BY <2>1, <2>4, <2>5 DEF Net, Genuine, Blank, Loose
    <2>8. Net(claim, v)
      BY <2>3, <2>6, <2>7 DEF Net
    <2> QED
      BY <2>8 DEF set_fixed_given, v, z
  <1>4. ~has_psk(x, s) => Net(claim, set_fixed_saved(x, s))
    BY <1>1 DEF set_fixed_saved, l
  <1> QED
    BY <1>2, <1>3, <1>4

(* Candidates passed by lose GOOD, no more. *)
LEMMA AlikePassBy ==
  ASSUME NEW x \in Daemon, NEW S
  PROVE  Alike(x, PassBy(x, S))
  <1>1. PassBy(x, S) \in Daemon
    BY PassByType
  <1> QED
    BY <1>1 DEF PassBy, Alike, Daemon

(* PSK becomes garbage only where nothing depends on it. *)
LEMMA NetConnectSomething ==
  ASSUME NEW claim, NEW x, Net(claim, x), Loose(x)
  PROVE  Net(claim, connect_to_something(x))
  <1> DEFINE A == Acceptable(x)
             C == Candidates(x)
             N == Secure(x)
             better == {c \in C : Beats(c, Best(A))}
             p == PassBy(x, better)
             named == IF N = {} THEN x ELSE set_current_ap(x, Last(N))
             failed == PassBy(set_current_ap(named, Last(C)), C)
  <1>0. x \in Daemon
    BY DEF Net
  <1>2. A \in SUBSET BSSIDs /\ C \in SUBSET BSSIDs /\ N \in SUBSET BSSIDs
    BY AcceptableAreCandidates
  <1>3. CASE A # {}
    <2>1. Best(A) \in A
      BY <1>2, <1>3, BestInSet
    <2>2. Best(A) \in BSSIDs
      BY <1>2, <2>1
    <2>3. Alike(x, p)
      BY <1>0, AlikePassBy
    <2>4. Net(claim, p) /\ Loose(p)
      BY <2>3, AlikeNet
    <2> DEFINE y == set_current_ap(p, Best(A))
    <2>5. Net(claim, y)
      BY <2>2, <2>4, NetCurrent
    <2>6. connect_to_something(x) = start_connection(y)
      BY <1>3 DEF connect_to_something
    <2> HIDE DEF y
    <2>7. Alike(y, start_connection(y))
      BY <2>5, AlikeTriggers DEF Net
    <2> QED
      BY <2>5, <2>6, <2>7, AlikeNet
  <1>4. CASE A = {} /\ C = {}
    BY <1>4 DEF connect_to_something
  <1>5. CASE A = {} /\ C # {}
    <2>1. Last(C) \in BSSIDs /\ (N # {} => Last(N) \in BSSIDs)
      BY <1>2, <1>5, BestInSet
    <2>2. x.ap.fixed => N = {}
      BY <1>5 DEF Acceptable
    <2>n. Net(claim, named) /\ Loose(named) /\ named.ap.fixed = x.ap.fixed
      BY <2>1, NetCurrent
    <2> HIDE DEF named
    <2> DEFINE c == set_current_ap(named, Last(C))
    <2>3. Net(claim, c) /\ (~x.ap.fixed => Blank(c))
      BY <2>1, <2>n, NetCurrent
    <2> HIDE DEF c
    <2>4. Alike(c, failed)
      BY <2>3, AlikePassBy DEF Net, c
    <2>5. Net(claim, failed) /\ (~x.ap.fixed => Blank(failed))
      BY <2>3, <2>4, AlikeNet
    <2>6. \/ connect_to_something(x) = failed
          \/ /\ connect_to_something(x) = [failed EXCEPT !.psk = BadPsk]
             /\ ~x.ap.fixed
      BY <1>5, <2>2 DEF connect_to_something, named
    <2> HIDE DEF failed
    <2> DEFINE y == [failed EXCEPT !.psk = BadPsk]
    <2>7. /\ y \in Daemon /\ y.ap = failed.ap /\ y.psk = BadPsk
          /\ y.cfg = failed.cfg /\ y.scans = failed.scans
          /\ y.looks = failed.looks /\ y.authstate = failed.authstate
      BY <2>5 DEF Net, Daemon, Keys
    <2> HIDE DEF y
    <2>8. Offered(claim, y) /\ Fits(y)
      BY <2>5, <2>7, NoneAssumption, OfferedKept DEF Net, Fits
    <2>9. ~x.ap.fixed /\ Proven(claim) => Genuine(y)
      BY <2>5, <2>7 DEF Net, Genuine, Blank, Loose
    <2> QED
      BY <2>5, <2>6, <2>7, <2>8, <2>9 DEF Net, y
  <1> QED
    BY <1>3, <1>4, <1>5

(* Candidates are tried; if there are none the mode or the timer changes. *)
LEMMA NetReassess ==
  ASSUME NEW claim, NEW x, Net(claim, x)
  PROVE  /\ Net(claim, reassess_wifi_situation(x))
         /\ Net(claim, abort_connection(x))
  <1> DEFINE e == connect_to_something(x)
             f == report(e, "NO_CONNECT")
             z == reset_station(f)
  <1>1. can_connect(x) => Net(claim, e)
    BY NetConnectSomething DEF can_connect, Loose, Joined
  <1> HIDE DEF e
  <1>2. ASSUME can_connect(x), e.authstate = "IDLE"
        PROVE  /\ Net(claim, [z EXCEPT !.opermode = "NEUTRAL"])
               /\ Net(claim, set_timer(f))
    <2>1. Net(claim, e) /\ Loose(e)
      BY <1>1, <1>2 DEF Loose, Joined
    <2>2. Net(claim, f) /\ Loose(f)
      BY <2>1, NetSteps DEF Reports
    <2> HIDE DEF f
    <2>3. Net(claim, z)
      BY <2>2, NetCleared
    <2> HIDE DEF z
    <2>4. Net(claim, [z EXCEPT !.opermode = "NEUTRAL"])
      BY <2>3, NetSteps DEF OperModes
    <2> QED
      BY <2>2, <2>4, NetSteps
  <1>6. Net(claim, reassess_wifi_situation(x))
    BY <1>1, <1>2
       DEF reassess_wifi_situation, snap_to_neutral, idle_then_rescan, e, f, z
  <1>7. Net(claim, trigger_disconnect(x))
    BY NetSteps
  <1> QED
    BY <1>6, <1>7 DEF abort_connection

(* A handshake has succeeded: the key is saved before SF_PASS counts, and  *)
(* the station that gets it is of the network the key is saved for.        *)
LEMMA NetConnected ==
  ASSUME NEW claim, NEW x, Net(claim, x), x.ap.bssid \in BSSIDs,
         Proven(claim) => x.ap.ssid \in SSIDs /\ x.psk = RightPsk[x.ap.ssid]
  PROVE  Net(claim, handle_connect(x))
  <1> DEFINE found == find_current_ap(x)
             om == IF x.opermode \in {"RESCAN", "ONESHOT"}
                   THEN "ACTIVE" ELSE x.opermode
             fs == [b \in BSSIDs |->
                      IF found /\ b = x.ap.bssid
                      THEN (x.scans[b] \ {"TRIED"})
                             \cup (IF x.ap.unsaved THEN {"PASS"} ELSE {})
                      ELSE x.scans[b]]
             ap == [x.ap EXCEPT !.success = TRUE, !.fixed = TRUE,
                                !.unsaved = FALSE]
             e == [x EXCEPT !.ap = ap, !.opermode = om, !.scans = fs,
                            !.timerset = TRUE]
             g == IF x.ap.unsaved THEN save_psk(e, x.ap.ssid, x.psk) ELSE e
  <1>0. x \in Daemon /\ x.ap \in Ap
    BY DEF Net, Daemon
  <1>1. /\ ap.bssid = x.ap.bssid /\ ap.ssid = x.ap.ssid
        /\ ap.fixed /\ ~ap.unsaved /\ ap \in Ap
    BY <1>0 DEF Ap
  <1>1a. x.ap.ssid \in SSIDs => RightPsk[x.ap.ssid] \in PSKs
    BY EnvAssumption
  <1>2. om \in OperModes
    BY <1>0 DEF Daemon, OperModes
  <1>3. fs \in [BSSIDs -> SUBSET ScanFlags]
    BY <1>0 DEF Daemon, ScanFlags
  <1>4. \A b \in BSSIDs : "PASS" \in fs[b] =>
           \/ "PASS" \in x.scans[b]
           \/ x.ap.unsaved /\ SsidOf(x, b) = x.ap.ssid
    BY DEF find_current_ap
  <1> HIDE DEF ap, om, fs
  <1>5. e \in Daemon
    BY <1>0, <1>1, <1>2, <1>3 DEF Daemon
  <1>6. /\ e.ap = ap /\ e.scans = fs /\ e.psk = x.psk /\ e.cfg = x.cfg
        /\ e.looks = x.looks /\ e.kck = x.kck /\ e.eapolstate = x.eapolstate
        /\ e.authstate = x.authstate
    BY <1>0 DEF Daemon
  <1> DEFINE t == set_timer(
               [x EXCEPT
                  !.ap.success = TRUE,
                  !.ap.fixed = TRUE,
                  !.opermode = IF @ \in {"RESCAN", "ONESHOT"}
                               THEN "ACTIVE" ELSE @,
                  !.scans = [b \in BSSIDs |->
                     IF found /\ b = x.ap.bssid
                     THEN (@[b] \ {"TRIED"})
                            \cup (IF x.ap.unsaved THEN {"PASS"} ELSE {})
                     ELSE @[b]],
                  !.ap.unsaved = FALSE])
             h == IF x.ap.unsaved THEN save_psk(t, x.ap.ssid, x.psk) ELSE t
  <1>7. handle_connect(x) = report(g, "CONNECTED")
    <2>1. t = e
      BY <1>0 DEF set_timer, ap, om, fs, Daemon
    <2> HIDE DEF e, found
    <2>2. handle_connect(x) = report(h, "CONNECTED")
      BY DEF handle_connect, found
    <2> HIDE DEF t
    <2> QED
      BY <2>1, <2>2
  <1> HIDE DEF e
  <1>8. Net(claim, g)
    <2>1. CASE ~x.ap.unsaved
      <3>1. g = e
        BY <2>1
      <3>2. Offered(claim, e)
        BY <1>4, <1>6, <2>1, OfferedKept DEF Net
      <3>3. Fits(e)
        BY <1>1, <1>6 DEF Fits
      <3>4. Proven(claim) => Genuine(e)
        BY <1>1, <1>1a, <1>6 DEF Net, Genuine, Keyed
      <3> QED
        BY <1>5, <3>1, <3>2, <3>3, <3>4 DEF Net
    <2>2. CASE x.ap.unsaved
      <3>1. g = save_psk(e, x.ap.ssid, x.psk)
        BY <2>2
      <3>2. x.psk \in Keys /\ x.psk # NoPsk /\ x.ap.ssid \in SSIDs
        BY <1>0, <2>2 DEF Net, Fits, Daemon
      <3>3. g \in Daemon
        BY <1>5, <3>1, <3>2, SavePskType
      <3>4. /\ g.ap = ap /\ g.scans = fs /\ g.psk = x.psk
            /\ g.cfg = [x.cfg EXCEPT ![x.ap.ssid] = x.psk]
            /\ g.looks = x.looks /\ g.kck = x.kck /\ g.eapolstate = x.eapolstate
            /\ g.authstate = x.authstate
        BY <1>5, <1>6, <3>1 DEF save_psk, Daemon
      <3> HIDE DEF g
      <3>5. \A b \in BSSIDs : SsidOf(g, b) = SsidOf(x, b)
        BY <3>4 DEF SsidOf
      <3>6. ASSUME NEW b \in BSSIDs, Unkeyed(g, b)
            PROVE  Unkeyed(x, b)
        <4>1. x.cfg \in [SSIDs -> Keys]
          BY <1>0 DEF Daemon
        <4> DEFINE s == SsidOf(x, b)
        <4>2. "PASS" \in fs[b] /\ KeyFor(g, s) = NoPsk
          BY <3>4, <3>5, <3>6 DEF Unkeyed, got_psk_for
        <4> HIDE DEF s
        <4>3. s # x.ap.ssid
          BY <3>2, <3>4, <4>1, <4>2 DEF KeyFor
        <4>4. KeyFor(x, s) = NoPsk
          BY <3>4, <4>1, <4>2, <4>3 DEF KeyFor
        <4>5. "PASS" \in x.scans[b]
          BY <1>4, <4>2, <4>3 DEF s
        <4> QED
          BY <4>4, <4>5 DEF Unkeyed, got_psk_for, s
      <3>7. Offered(claim, g)
        BY <3>5, <3>6 DEF Net, Offered
      <3>8. Fits(g)
        BY <1>1, <3>4 DEF Fits
      <3>9. ASSUME Proven(claim) PROVE Genuine(g)
        <4>1. /\ Genuine(x) /\ x.ap.ssid \in SSIDs
              /\ x.psk = RightPsk[x.ap.ssid]
          BY <3>9 DEF Net
        <4>2. \A s \in SSIDs : g.cfg[s] \in {NoPsk, BadPsk, RightPsk[s]}
          <5>1. x.cfg \in [SSIDs -> Keys]
            BY <1>0 DEF Daemon
          <5> QED
            BY <3>4, <4>1, <5>1 DEF Genuine
        <4>3. /\ g.ap.bssid \in BSSIDs /\ g.ap.ssid \in SSIDs
              /\ g.psk = RightPsk[g.ap.ssid]
          BY <1>1, <3>4, <4>1
        <4>4. g.psk \in PSKs
          BY <1>1a, <3>4, <4>1
        <4>5. /\ g.authstate \in Joined /\ g.eapolstate # "WAITING_1_4"
                => Keyed(g)
          BY <3>4, <4>1 DEF Genuine, Keyed
        <4> QED
          BY <4>2, <4>3, <4>4, <4>5 DEF Genuine
      <3> QED
        BY <3>3, <3>7, <3>8, <3>9 DEF Net
    <2> QED
      BY <2>1, <2>2
  <1> HIDE DEF g
  <1> QED
    BY <1>7, <1>8, NetSteps DEF Reports

(* A rescan ends, or begins after a loss. *)
LEMMA NetRescan ==
  ASSUME NEW claim, NEW x, Net(claim, x)
  PROVE  /\ Net(claim, end_rescan(x)) /\ Net(claim, rescan_current_ap(x))
         /\ Net(claim, reconnect_to_current_ap(x))
         /\ Loose(x) => Net(claim, try_some_other_ap(x)) /\ Loose(end_rescan(x))
  <1>0. x \in Daemon /\ x.ap \in Ap
    BY DEF Net, Daemon
  <1> DEFINE r == end_rescan(x)
  <1>1. Net(claim, r) /\ (Loose(x) => Loose(r))
    <2>1. (IF x.opermode = "RESCAN" THEN "ACTIVE" ELSE x.opermode) \in OperModes
      BY <1>0 DEF Daemon, OperModes
    <2>2. Alike(x, r)
      BY <1>0, <2>1, AlikeFields DEF end_rescan
    <2> HIDE DEF r
    <2> QED
      BY <2>2, AlikeNet
  <1> HIDE DEF r
  <1>2. Net(claim, rescan_current_ap(x))
    <2> DEFINE y == [x EXCEPT !.ap.success = FALSE, !.opermode = "RESCAN"]
    <2>1. y \in Daemon
      <3>1. [x.ap EXCEPT !.success = FALSE] \in Ap
        BY <1>0 DEF Ap
      <3> QED
        BY <1>0, <3>1 DEF Daemon, OperModes
    <2>2. Alike(x, y)
      BY <1>0, <2>1 DEF Alike, Daemon, Ap
    <2> HIDE DEF y
    <2>3. x.ap.freq \in Int
      BY <1>0 DEF Ap
    <2>4. Alike(y, start_scan(y, x.ap.freq))
      BY <2>1, <2>3, AlikeScan
    <2> QED
      BY <2>2, <2>4, AlikeTrans, AlikeNet DEF rescan_current_ap, y
  <1>3. Net(claim, start_connection(r)) /\ Net(claim, reassess_wifi_situation(r))
    BY <1>1, NetSteps, NetReassess
  <1>4. Net(claim, reconnect_to_current_ap(x))
    BY <1>3 DEF reconnect_to_current_ap, r
  <1>5. Loose(x) => Net(claim, try_some_other_ap(x))
    BY NetCleared, NetReassess DEF try_some_other_ap
  <1> QED
    BY <1>1, <1>2, <1>4, <1>5 DEF r

(* SF_PASS for a new station is read from the config file. *)
LEMMA NetNewResults ==
  ASSUME NEW claim, NEW x, Net(claim, x)
  PROVE  Net(claim, check_new_scan_results(x))
  <1> DEFINE y == check_new_scan_results(x)
  <1>1. x \in Daemon /\ y \in Daemon
    BY NewResultsType DEF Net
  <1>2. /\ y.ap = x.ap /\ y.psk = x.psk /\ y.cfg = x.cfg
        /\ y.looks = x.looks
        /\ y.kck = x.kck /\ y.eapolstate = x.eapolstate
        /\ y.authstate = x.authstate
        /\ \A b \in BSSIDs : "PASS" \in y.scans[b] =>
              "PASS" \in x.scans[b] \/ got_psk_for(x, SsidOf(x, b))
    BY <1>1 DEF check_new_scan_results, Daemon
  <1> HIDE DEF y
  <1>3. Proven(claim) => Genuine(y)
    BY <1>2 DEF Net, Genuine, Keyed
  <1>4. \A b \in BSSIDs : SsidOf(y, b) = SsidOf(x, b)
                         /\ (Unkeyed(y, b) => Unkeyed(x, b))
    BY <1>2 DEF Unkeyed, got_psk_for, KeyFor, SsidOf
  <1>5. Offered(claim, y)
    BY <1>4 DEF Net, Offered
  <1>6. Net(claim, y)
    BY <1>1, <1>2, <1>3, <1>5 DEF Net, Fits
  <1> QED
    BY <1>6 DEF y

(* A connection has ended. *)
LEMMA NetDisconnect ==
  ASSUME NEW claim, NEW x, Net(claim, x)
  PROVE  /\ Loose(x) => Net(claim, handle_disconnect(x))
         /\ Net(claim, handle_rfrestored(x))
  <1> DEFINE e == clr_timer(x)
             q == report(e, "DISCONNECT")
             f == end_rescan(q)
             z == reset_station(f)
             i == [x EXCEPT !.authstate = "IDLE"]
  <1>1. ASSUME Loose(x) PROVE Net(claim, handle_disconnect(x))
    <2>1. Net(claim, e) /\ Loose(e)
      BY <1>1, NetSteps
    <2> HIDE DEF e
    <2>2. Net(claim, [e EXCEPT !.opermode = "EXIT"])
      BY <2>1, NetSteps DEF OperModes
    <2>3. Net(claim, q) /\ Loose(q)
      BY <2>1, NetSteps DEF Reports
    <2> HIDE DEF q
    <2>4. Net(claim, f) /\ Loose(f)
      BY <2>3, NetRescan
    <2> HIDE DEF f
    <2>5. Net(claim, z)
      BY <2>4, NetCleared
    <2> HIDE DEF z
    <2>6. Net(claim, report(z, "NO_CONNECT"))
      BY <2>5, NetSteps DEF Reports
    <2>7. x.opermode \in OperModes
      BY DEF Net, Daemon
    <2> QED
      BY <2>2, <2>4, <2>6, <2>7, NetRescan
         DEF handle_disconnect, OperModes, e, q, f, z
  <1>2. Net(claim, i)
    BY NetSteps DEF AuthStates, Joined
  <1> HIDE DEF i
  <1>3. Net(claim, handle_rfrestored(x))
    BY <1>2, NetRescan, NetReassess DEF handle_rfrestored, i
  <1> QED
    BY <1>1, <1>3

(* Scans at regular times. *)
LEMMA NetRoutine ==
  ASSUME NEW claim, NEW x, Net(claim, x)
  PROVE  Net(claim, routine_bg_scan(x)) /\ Net(claim, routine_fg_scan(x))
  <1>1. Net(claim, routine_bg_scan(x))
    <2>1. Net(claim, start_void_scan(x))
      BY NetSteps
    <2> QED
      BY <2>1, NetSteps DEF routine_bg_scan
  <1>2. Net(claim, routine_fg_scan(x))
    <2> DEFINE n == x.ap.rescans + 1
               e == set_timer(x)
               g == IF n % RescanCycle # 0 THEN x.ap.freq ELSE -1
               f == start_scan(e, g)
    <2>1. Net(claim, e)
      BY NetSteps
    <2>2. x.ap \in Ap
      BY DEF Net, Daemon
    <2>3. g \in Int /\ n \in Nat
      BY <2>2 DEF Ap
    <2> HIDE DEF e, g, n
    <2>4. Net(claim, f)
      BY <2>1, <2>3, NetSteps
    <2> HIDE DEF f
    <2>5. f \in Daemon /\ f.ap \in Ap
      BY <2>4 DEF Net, Daemon
    <2> DEFINE v == [f EXCEPT !.ap.rescans = n]
               w == [f EXCEPT !.ap.freq = 0, !.ap.rescans = 0]
    <2>6. Alike(f, v)
      BY <2>3, <2>5 DEF Alike, Daemon, Ap
    <2>7. Alike(f, w)
      BY <2>5 DEF Alike, Daemon, Ap
    <2>8. Net(claim, v) /\ Net(claim, w)
      BY <2>4, <2>6, <2>7, AlikeNet
    <2> HIDE DEF v, w
    <2>9. Net(claim, start_void_scan(e)) /\ Net(claim, start_full_scan(e))
      BY <2>1, NetSteps
    <2> QED
      BY <2>8, <2>9 DEF routine_fg_scan, e, f, g, n, v, w
  <1> QED
    BY <1>1, <1>2

-----------------------------------------------------------------------------
(* wsupp_eapol.c. *)

(* The handshake moves on: with PSK, if it was waiting for its first       *)
(* message.                                                                *)
LEMMA NetEapolState ==
  ASSUME NEW claim, NEW x, Net(claim, x), NEW es \in EapolStates,
         x.eapolstate = "WAITING_1_4" => Keyed(x)
  PROVE  LET y == [x EXCEPT !.eapolstate = es]
         IN /\ Net(claim, y)
            /\ y.ap = x.ap /\ y.psk = x.psk /\ y.authstate = x.authstate
            /\ Keyed(x) => Keyed(y)
  <1> DEFINE y == [x EXCEPT !.eapolstate = es]
  <1>1. y \in Daemon
    BY EapolStateType DEF Net
  <1>2. /\ y.ap = x.ap /\ y.psk = x.psk /\ y.cfg = x.cfg
        /\ y.scans = x.scans /\ y.looks = x.looks
        /\ y.kck = x.kck /\ y.authstate = x.authstate
    BY DEF Net, Daemon
  <1> HIDE DEF y
  <1>3. Offered(claim, y) /\ Fits(y)
    BY <1>2, OfferedKept DEF Net, Fits
  <1>4. Proven(claim) => Genuine(y)
    BY <1>2 DEF Net, Genuine, Keyed
  <1>5. Net(claim, y)
    BY <1>1, <1>3, <1>4 DEF Net
  <1> QED
    BY <1>2, <1>5 DEF Keyed, y

(* A frame is sent: the handshake, the keys, PSK are what they were. *)
LEMMA NetSend ==
  ASSUME NEW claim, NEW x, Net(claim, x), NEW f \in EapolSent
  PROVE  LET y == send_packet(x, f)
         IN /\ Net(claim, y)
            /\ y.ap = x.ap /\ y.psk = x.psk
            /\ y.eapolstate = x.eapolstate /\ (Keyed(x) => Keyed(y))
  <1> DEFINE y == send_packet(x, f)
  <1>1. y \in Daemon
    BY SendPacketType DEF Net
  <1>2. /\ y.ap = x.ap /\ y.psk = x.psk /\ y.kck = x.kck
        /\ y.eapolstate = x.eapolstate
    BY DEF send_packet, Net, Daemon
  <1>3. Alike(x, y)
    BY <1>1 DEF send_packet, Alike, Net, Daemon
  <1> HIDE DEF y
  <1>4. Net(claim, y)
    BY <1>3, AlikeNet
  <1> QED
    BY <1>2, <1>4 DEF Keyed, y

(* Frames sent; 4/4 to a station that is one of the current network and    *)
(* has proved to work with PSK.                                            *)
LEMMA NetPackets ==
  ASSUME NEW claim, NEW x, Net(claim, x), NEW ok \in BOOLEAN
  PROVE  /\ (x.eapolstate = "WAITING_1_4" => Keyed(x))
              => Net(claim, send_packet_2(x, ok))
         /\ Net(claim, send_group_2(x, ok))
         /\ /\ x.ap.bssid \in BSSIDs /\ x.eapolstate = "WAITING_3_4"
            /\ Proven(claim) =>
                 x.ap.ssid \in SSIDs /\ x.psk = RightPsk[x.ap.ssid]
            => Net(claim, send_packet_4(x, ok))
  <1>1. Net(claim, abort_connection(x))
    BY NetReassess
  <1>2. ASSUME x.eapolstate = "WAITING_1_4" => Keyed(x)
        PROVE  Net(claim, send_packet_2(x, ok))
    <2> DEFINE y == send_packet(x, "P2")
    <2>1. Net(claim, y) /\ (y.eapolstate = "WAITING_1_4" => Keyed(y))
      BY <1>2, NetSend DEF EapolSent
    <2> HIDE DEF y
    <2>2. Net(claim, [y EXCEPT !.eapolstate = "WAITING_3_4"])
      BY <2>1, NetEapolState DEF EapolStates
    <2> QED
      BY <1>1, <2>2 DEF send_packet_2, y
  <1>3. Net(claim, send_group_2(x, ok))
    <2> DEFINE y == send_packet(x, "G2")
    <2>1. Net(claim, y)
      BY NetSend DEF EapolSent
    <2> HIDE DEF y
    <2>2. Net(claim, upload_gtk(y))
      BY <2>1, NetSteps
    <2> QED
      BY <1>1, <2>2 DEF send_group_2, y
  <1>4. ASSUME x.ap.bssid \in BSSIDs, x.eapolstate = "WAITING_3_4",
               Proven(claim) =>
                 x.ap.ssid \in SSIDs /\ x.psk = RightPsk[x.ap.ssid]
        PROVE  Net(claim, send_packet_4(x, ok))
    <2> DEFINE p == send_packet(x, "P4")
               y == [p EXCEPT !.eapolstate = "NEGOTIATED"]
               v == upload_ptk(y)
               w == upload_gtk(v)
    <2>1. /\ Net(claim, p) /\ p.ap = x.ap /\ p.psk = x.psk
          /\ p.eapolstate # "WAITING_1_4"
      BY <1>4, NetSend DEF EapolSent
    <2> HIDE DEF p
    <2>2. Net(claim, y) /\ y.ap = p.ap /\ y.psk = p.psk
      BY <2>1, NetEapolState DEF EapolStates
    <2> HIDE DEF y
    <2>3. Alike(y, v)
      BY <2>2, AlikeTriggers DEF Net
    <2> HIDE DEF v
    <2>4. Alike(v, w)
      BY <2>3, AlikeTriggers DEF Alike
    <2> HIDE DEF w
    <2>5. Alike(y, w)
      BY <2>3, <2>4, AlikeTrans
    <2>6. /\ Net(claim, w) /\ w.ap.bssid = x.ap.bssid
          /\ w.ap.ssid = x.ap.ssid /\ w.psk = x.psk
      BY <2>1, <2>2, <2>5, AlikeNet DEF Alike
    <2>7. Net(claim, handle_connect(w))
      BY <1>4, <2>6, NetConnected
    <2> QED
      BY <1>1, <2>7 DEF send_packet_4, w, v, y, p
  <1> QED
    BY <1>2, <1>3, <1>4

(* 2/4, held back or not. *)
LEMMA NetAllow ==
  ASSUME NEW claim, NEW x, Net(claim, x), NEW ok \in BOOLEAN
  PROVE  Net(claim, allow_eapol_sends(x, ok))
  <1> DEFINE y == [x EXCEPT !.eapolsends = TRUE]
  <1>1. Alike(x, y)
    BY DEF Alike, Net, Daemon
  <1>2. Net(claim, y)
    BY <1>1, AlikeNet
  <1> HIDE DEF y
  <1> QED
    BY <1>2, NetPackets DEF allow_eapol_sends, y

(* 4/4 ends the handshake. *)
LEMMA Negotiated ==
  ASSUME NEW x \in Daemon
  PROVE  send_packet_4(x, TRUE).eapolstate = "NEGOTIATED"
  <1> DEFINE y == [send_packet(x, "P4") EXCEPT !.eapolstate = "NEGOTIATED"]
             v == upload_ptk(y)
             w == upload_gtk(v)
  <1>1. y \in Daemon /\ y.eapolstate = "NEGOTIATED"
    <2> DEFINE p == send_packet(x, "P4")
    <2>1. p \in Daemon
      BY SendPacketType DEF EapolSent
    <2> HIDE DEF p
    <2>2. [p EXCEPT !.eapolstate = "NEGOTIATED"] \in Daemon
      BY <2>1, EapolStateType DEF EapolStates
    <2>3. [p EXCEPT !.eapolstate = "NEGOTIATED"].eapolstate = "NEGOTIATED"
      BY <2>1 DEF Daemon
    <2> QED
      BY <2>2, <2>3 DEF p
  <1> HIDE DEF y
  <1>2. v \in Daemon /\ v.eapolstate = "NEGOTIATED"
    BY <1>1, UploadType DEF upload_ptk, nl_send, Daemon
  <1> HIDE DEF v
  <1>3. w \in Daemon /\ w.eapolstate = "NEGOTIATED"
    BY <1>2, UploadType DEF upload_gtk, nl_send, Daemon
  <1> HIDE DEF w
  <1>4. handle_connect(w).eapolstate = w.eapolstate
    BY <1>3 DEF handle_connect, set_timer, save_psk, report, Daemon
  <1> QED
    BY <1>3, <1>4 DEF send_packet_4, w, v, y

(* Any frame: one that is handled comes from the current station.  A 3/4   *)
(* that passes its check proves PSK, in an attempt that has got that far.  *)
LEMMA NetRawsock ==
  ASSUME NEW claim, NEW x, Net(claim, x), NEW m \in Frames, NEW ok \in BOOLEAN,
         /\ Proven(claim) /\ m.cur
         /\ x.eapolstate # "NEGOTIATED"
         /\ handle_rawsock(x, m, ok).eapolstate = "NEGOTIATED"
         => /\ x.authstate \in {"CONNECTING", "CONNECTED"}
            /\ x.ap.ssid \in SSIDs /\ m.key = RightPsk[x.ap.ssid]
  PROVE  Net(claim, handle_rawsock(x, m, ok))
  <1>0. x \in Daemon /\ m.src \in BSSIDs /\ m.key \in PSKs
    BY DEF Net, Frames
  <1> DEFINE e == pmk_to_ptk(x, m)
  <1>1. Net(claim, e) /\ Keyed(e)
    <2>1. e \in Daemon
      BY <1>0 DEF pmk_to_ptk, Daemon, Keys
    <2>2. /\ e.ap = x.ap /\ e.psk = x.psk /\ e.cfg = x.cfg
          /\ e.scans = x.scans /\ e.looks = x.looks
          /\ e.kck \in {x.psk, BadPsk}
      BY <1>0 DEF pmk_to_ptk, Daemon
    <2> HIDE DEF e
    <2>3. Offered(claim, e) /\ Fits(e) /\ Keyed(e)
      BY <2>2, OfferedKept DEF Net, Fits, Keyed
    <2>4. Proven(claim) => Genuine(e)
      BY <2>2, <2>3 DEF Net, Genuine
    <2> QED
      BY <2>1, <2>3, <2>4 DEF Net
  <1> HIDE DEF e
  <1>3. Net(claim, [e EXCEPT !.eapolstate = "WAITING_2_4"])
    BY <1>1, NetEapolState DEF EapolStates
  <1>4. Net(claim, recv_packet_1(x, m, ok))
    BY <1>1, <1>3, NetPackets DEF recv_packet_1, e
  <1>5. ASSUME m.src = x.ap.bssid, x.eapolstate = "WAITING_3_4"
        PROVE  Net(claim, recv_packet_3(x, m, ok))
    <2>1. CASE ~(m.type = "M3" /\ check_mic(x, m) /\ ok)
      BY <2>1, NetReassess DEF recv_packet_3, send_packet_4
    <2>2. CASE m.type = "M3" /\ check_mic(x, m) /\ ok
      <3>1. handle_rawsock(x, m, ok) = send_packet_4(x, TRUE)
        BY <1>5, <2>2 DEF handle_rawsock, recv_packet_3
      <3>2. recv_packet_3(x, m, ok) = send_packet_4(x, ok)
        BY <2>2 DEF recv_packet_3
      <3>3. ASSUME Proven(claim)
            PROVE  x.ap.ssid \in SSIDs /\ x.psk = RightPsk[x.ap.ssid]
        <4>1. x.kck = m.key /\ m.cur
          BY <2>2 DEF check_mic
        <4>2. /\ x.authstate \in Joined
              /\ x.ap.ssid \in SSIDs /\ m.key = RightPsk[x.ap.ssid]
          BY <1>0, <1>5, <3>1, <3>3, <4>1, Negotiated DEF Joined
        <4>3. x.kck \in {x.psk, BadPsk, NoPsk}
          BY <1>5, <3>3, <4>2 DEF Net, Genuine, Keyed
        <4> QED
          BY <1>0, <4>1, <4>2, <4>3, NoneAssumption
      <3> QED
        BY <1>0, <1>5, <3>2, <3>3, NetPackets
    <2> QED
      BY <2>1, <2>2
  <1>6. Net(claim, recv_group_1(x, m, ok))
    BY NetPackets DEF recv_group_1
  <1>7. x.eapolstate \in EapolStates
    BY <1>0 DEF Daemon
  <1>8. CASE m.src # x.ap.bssid
    BY <1>8 DEF handle_rawsock
  <1>9. CASE m.src = x.ap.bssid
    BY <1>0, <1>4, <1>5, <1>6, <1>7, <1>9 DEF handle_rawsock, EapolStates
  <1> QED
    BY <1>8, <1>9

-----------------------------------------------------------------------------
(* wsupp_netlink.c: events and errors. *)

(* Entries are marked and dropped: none of them gets SF_PASS. *)
LEMMA AlikeEntries ==
  ASSUME NEW x \in Daemon
  PROVE  /\ \A f \in Int : Alike(x, mark_stale_scan_slots(x, f))
         /\ Alike(x, drop_stale_scan_slots(x))
  <1>1. ASSUME NEW f \in Int PROVE Alike(x, mark_stale_scan_slots(x, f))
    <2>1. mark_stale_scan_slots(x, f) \in Daemon
      BY StaleType
    <2> QED
      BY <2>1 DEF Alike, mark_stale_scan_slots, Daemon
  <1>2. Alike(x, drop_stale_scan_slots(x))
    <2>1. drop_stale_scan_slots(x) \in Daemon
      BY StaleType
    <2> QED
      BY <2>1 DEF Alike, drop_stale_scan_slots, Has, Daemon
  <1> QED
    BY <1>1, <1>2

(* An entry that is filled keeps its SF_PASS: for what the dump calls the   *)
(* station, which need not be what it was called before.                   *)
LEMMA NetScanResult ==
  ASSUME NEW claim, NEW x, Net(claim, x), From(claim) = x, NEW dump \in Dumps
  PROVE  Net(claim, parse_scan_result(x, dump))
  <1> DEFINE y == parse_scan_result(x, dump)
  <1>1. x \in Daemon /\ y \in Daemon
    BY ScanResultType DEF Net
  <1>2. /\ y.ap = x.ap /\ y.psk = x.psk /\ y.cfg = x.cfg
        /\ y.kck = x.kck /\ y.eapolstate = x.eapolstate
        /\ y.authstate = x.authstate
        /\ \A b \in BSSIDs : "PASS" \in y.scans[b] => "PASS" \in x.scans[b]
    BY <1>1 DEF parse_scan_result, Daemon
  <1> HIDE DEF y
  <1>3. \A s : KeyFor(y, s) = KeyFor(x, s)
    BY <1>2 DEF KeyFor
  <1>4. ASSUME NEW b \in BSSIDs, Unkeyed(y, b), SsidOf(y, b) = SsidOf(x, b)
        PROVE  Unkeyed(x, b)
    BY <1>2, <1>3, <1>4 DEF Unkeyed, got_psk_for
  <1>5. Offered(claim, y)
    BY <1>4 DEF Net, Offered
  <1>6. Fits(y)
    BY <1>2 DEF Net, Fits
  <1>7. Proven(claim) => Genuine(y)
    BY <1>2 DEF Net, Genuine, Keyed
  <1> QED
    BY <1>1, <1>5, <1>6, <1>7 DEF Net, y

(* Messages about scans. *)
LEMMA NetScanEvents ==
  ASSUME NEW claim, NEW x, Net(claim, x), From(claim) = x, NEW m \in Messages
  PROVE  /\ Net(claim, cmd_trigger_scan(x, m))
         /\ Net(claim, cmd_scan_results(x, m))
         /\ Net(claim, cmd_scan_aborted(x))
         /\ Net(claim, genl_done(x))
  <1>0. x \in Daemon /\ m.freq \in Int /\ m.bss \in Dumps
    BY DEF Net, Messages
  <1>1. Net(claim, cmd_trigger_scan(x, m))
    <2>1. Net(claim, mark_stale_scan_slots(x, m.freq))
      BY <1>0, AlikeEntries, AlikeNet
    <2> QED
      BY <2>1, NetSteps DEF cmd_trigger_scan, Reports
  <1>2. Net(claim, cmd_scan_results(x, m))
    <2>1. Net(claim, parse_scan_result(x, m.bss))
      BY <1>0, NetScanResult
    <2>2. Net(claim, trigger_scan_dump(x))
      BY <1>0, NetSteps
    <2> QED
      BY <2>1, <2>2 DEF cmd_scan_results
  <1>3. Net(claim, cmd_scan_aborted(x))
    <2>1. Net(claim, report(x, "SCAN_FAIL"))
      BY NetSteps DEF Reports
    <2>2. Net(claim, reset_scan_state(report(x, "SCAN_FAIL")))
      BY <2>1, NetSteps
    <2> QED
      BY <2>2 DEF cmd_scan_aborted
  <1>4. Net(claim, genl_done(x))
    <2> DEFINE r == reset_scan_state(x)
               s == drop_stale_scan_slots(r)
               n == check_new_scan_results(s)
               e == report(n, "SCAN_DONE")
    <2>1. Net(claim, r)
      BY NetSteps
    <2> HIDE DEF r
    <2>2. Net(claim, s)
      <3>1. Alike(r, s)
        BY <2>1, AlikeEntries DEF Net
      <3> HIDE DEF s
      <3> QED
        BY <2>1, <3>1, AlikeNet
    <2> HIDE DEF s
    <2>3. Net(claim, n)
      BY <2>2, NetNewResults
    <2> HIDE DEF n
    <2>4. Net(claim, e)
      BY <2>3, NetSteps DEF Reports
    <2> HIDE DEF e
    <2> QED
      BY <2>4, NetRescan, NetReassess DEF genl_done, e, n, s, r
  <1> QED
    BY <1>1, <1>2, <1>3, <1>4

(* The card joins the station, or the daemon takes it for joined.          *)
LEMMA NetJoin ==
  ASSUME NEW claim, NEW x, Net(claim, x), NEW a \in Joined,
         Proven(claim) => x.eapolstate = "WAITING_1_4" \/ Keyed(x)
  PROVE  Net(claim, [x EXCEPT !.authstate = a])
  <1> DEFINE y == [x EXCEPT !.authstate = a]
  <1>1. y \in Daemon
    BY AuthstateType DEF Net, AuthStates, Joined
  <1>2. /\ y.ap = x.ap /\ y.psk = x.psk /\ y.cfg = x.cfg
        /\ y.scans = x.scans /\ y.looks = x.looks
        /\ y.kck = x.kck /\ y.eapolstate = x.eapolstate
    BY DEF Net, Daemon
  <1> HIDE DEF y
  <1>3. Offered(claim, y) /\ Fits(y)
    BY <1>2, OfferedKept DEF Net, Fits
  <1>4. Proven(claim) => Genuine(y)
    BY <1>2 DEF Net, Genuine, Keyed
  <1> QED
    BY <1>1, <1>3, <1>4 DEF Net, y

(* Another supplicant's connection: the handshake's keys are wiped.        *)
LEMMA NetDisabled ==
  ASSUME NEW claim, NEW x, Net(claim, x)
  PROVE  Net(claim, snap_to_disabled(x)) /\ Keyed(snap_to_disabled(x))
  <1> DEFINE y == [x EXCEPT !.opermode = "NEUTRAL", !.authstate = "EXTERNAL"]
             z == reset_eapol_state(y)
             e == report(clr_timer(z), "DISCONNECT")
             f == end_rescan(e)
             h == reset_station(f)
  <1>1. Alike(x, y) /\ y.opermode = "NEUTRAL" /\ Loose(y)
    BY DEF Alike, Net, Daemon, OperModes, AuthStates, Loose, Joined
  <1> HIDE DEF y
  <1>2. Alike(y, z) /\ z.kck = NoPsk /\ z.opermode = "NEUTRAL"
    <2>1. y \in Daemon
      BY <1>1 DEF Alike
    <2>2. z.kck = NoPsk /\ z.opermode = y.opermode
      BY <2>1 DEF reset_eapol_state, Daemon
    <2> QED
      BY <1>1, <2>1, <2>2, AlikeFields
  <1> HIDE DEF z
  <1>3. Net(claim, z) /\ Loose(z) /\ z \in Daemon
    BY <1>1, <1>2, AlikeTrans, AlikeNet DEF Alike
  <1>4. Net(claim, handle_disconnect(z))
    BY <1>3, NetDisconnect
  <1>5. handle_disconnect(z) = report(h, "NO_CONNECT")
    BY <1>2 DEF handle_disconnect
  <1>6. e \in Daemon /\ e.kck = NoPsk
    <2>1. clr_timer(z) \in Daemon /\ clr_timer(z).kck = NoPsk
      BY <1>2, <1>3, TimerType DEF clr_timer, Daemon
    <2> QED
      BY <2>1, ReportType DEF report, Daemon, Reports
  <1> HIDE DEF e
  <1>7. f \in Daemon /\ f.kck = NoPsk
    BY <1>6, EndRescanType DEF end_rescan, Daemon
  <1> HIDE DEF f
  <1>8. h \in Daemon /\ h.kck = NoPsk
    <2> DEFINE c == clear_ap_bssid(f)
    <2>1. c \in Daemon /\ c.kck = NoPsk
      BY <1>7, ClearApType DEF clear_ap_bssid, Daemon
    <2> HIDE DEF c
    <2>2. clear_ap_ssid(c).kck = NoPsk
      BY <2>1 DEF clear_ap_ssid, Daemon
    <2>3. h \in Daemon
      BY <1>7, ResetStationType
    <2> QED
      BY <2>2, <2>3 DEF reset_station, c
  <1> HIDE DEF h
  <1>9. report(h, "NO_CONNECT").kck = NoPsk
    BY <1>8 DEF report, Daemon
  <1> QED
    BY <1>4, <1>5, <1>9 DEF snap_to_disabled, Keyed, z, y

(* Messages about the connection. *)
LEMMA NetAuthEvents ==
  ASSUME NEW claim, NEW x, Net(claim, x), NEW ok \in BOOLEAN
  PROVE  /\ Net(claim, cmd_authenticate(x))
         /\ Net(claim, cmd_associate(x, ok))
         /\ Net(claim, cmd_connect(x))
         /\ Net(claim, cmd_disconnect(x))
  <1>0. x \in Daemon
    BY DEF Net
  <1>1. Net(claim, snap_to_disabled(x)) /\ Keyed(snap_to_disabled(x))
    BY NetDisabled
  <1>2. Net(claim, cmd_authenticate(x))
    <2> DEFINE y == prime_eapol_state(x)
               z == nl_send(y, ToAp("ASSOCIATE", y.ap))
    <2>1. Alike(x, y) /\ y.eapolstate = "WAITING_1_4"
      BY <1>0, AlikeFields DEF prime_eapol_state, Daemon
    <2> HIDE DEF y
    <2>2. Alike(y, z)
      BY <2>1, ToApType, AlikeSend DEF Alike
    <2> HIDE DEF z
    <2>3. Net(claim, z) /\ z.eapolstate = "WAITING_1_4"
      BY <2>1, <2>2, AlikeTrans, AlikeNet DEF Alike
    <2>4. Net(claim, [z EXCEPT !.authstate = "ASSOCIATING"])
      BY <2>3, NetJoin DEF Joined
    <2> QED
      BY <1>1, <2>4
         DEF cmd_authenticate, trigger_associaction, send_set_authstate, y, z
  <1>3. ASSUME x.authstate = "ASSOCIATING"
        PROVE  Net(claim, [allow_eapol_sends(x, ok) EXCEPT
                             !.authstate = "CONNECTING"])
    <2> DEFINE y == allow_eapol_sends(x, ok)
    <2>1. Net(claim, y)
      BY NetAllow
    <2>2. CASE x.eapolstate = "WAITING_1_4"
      <3>1. y.eapolstate = "WAITING_1_4"
        BY <1>0, <2>2 DEF allow_eapol_sends, Daemon
      <3> HIDE DEF y
      <3> QED
        BY <2>1, <3>1, NetJoin DEF Joined, y
    <2>3. CASE x.eapolstate # "WAITING_1_4"
      <3>1. y = send_packet_2(x, ok)
        BY <2>3 DEF allow_eapol_sends
      <3>2. can_disconnect(x)
        BY <1>3 DEF can_disconnect
      <3>3. y.psk = x.psk /\ y.kck = x.kck
        BY <1>0, <3>1, <3>2
           DEF send_packet_2, send_packet, abort_connection,
               trigger_disconnect, send_set_authstate, nl_send, Daemon
      <3>4. Proven(claim) => Keyed(y)
        BY <1>3, <2>3, <3>3 DEF Net, Genuine, Keyed, Joined
      <3> HIDE DEF y
      <3> QED
        BY <2>1, <3>4, NetJoin DEF Joined, y
    <2> QED
      BY <2>2, <2>3
  <1>4. Net(claim, cmd_associate(x, ok))
    BY <1>1, <1>3 DEF cmd_associate
  <1>5. Net(claim, cmd_connect(x))
    <2> DEFINE e == IF x.authstate = "CONNECTING" THEN x ELSE snap_to_disabled(x)
    <2>1. /\ Net(claim, e)
          /\ Proven(claim) => e.eapolstate = "WAITING_1_4" \/ Keyed(e)
      BY <1>1 DEF Net, Genuine, Joined
    <2> HIDE DEF e
    <2>2. Net(claim, [e EXCEPT !.authstate = "CONNECTED"])
      BY <2>1, NetJoin DEF Joined
    <2> QED
      BY <2>2 DEF cmd_connect, e
  <1>6. Net(claim, cmd_disconnect(x))
    <2> DEFINE y == reset_eapol_state(x)
               z == [y EXCEPT !.authstate = "IDLE"]
    <2>1. Net(claim, y)
      BY <1>0, NetSteps
    <2> HIDE DEF y
    <2>2. Net(claim, z) /\ Loose(z)
      BY <2>1, NetSteps DEF AuthStates, Joined, Loose, Daemon
    <2> HIDE DEF z
    <2> QED
      BY <2>2, NetDisconnect DEF cmd_disconnect, y, z
  <1> QED
    BY <1>2, <1>4, <1>5, <1>6

(* An error, whichever machine is charged with it. *)
LEMMA NetError ==
  ASSUME NEW claim, NEW x, Net(claim, x), NEW m
  PROVE  Net(claim, genl_error(x, m))
  <1>0. x \in Daemon /\ x.ap \in Ap
    BY DEF Net, Daemon
  <1> DEFINE r == reset_scan_state(x)
             y == report(r, "NET_DOWN")
             z == [y EXCEPT !.authstate = "NETDOWN"]
             e == [x EXCEPT !.authstate = "IDLE"]
  <1>1. Net(claim, r)
    BY <1>0, NetSteps
  <1> HIDE DEF r
  <1>2. Net(claim, y) /\ Net(claim, report(r, "SCAN_FAIL"))
    BY <1>1, NetSteps DEF Reports
  <1> HIDE DEF y
  <1>3. Net(claim, [y EXCEPT !.authstate = "IDLE"]) /\ Net(claim, z)
    BY <1>2, NetSteps DEF AuthStates, Joined
  <1> HIDE DEF z
  <1>4. Net(claim, set_timer(z))
    BY <1>3, NetSteps
  <1>5. Net(claim, snap_to_netdown(x)) /\ Net(claim, handle_scan_error(x))
    BY <1>2, <1>3, <1>4 DEF snap_to_netdown, handle_scan_error, z, y, r
  <1>6. Net(claim, e)
    BY <1>0, NetSteps DEF AuthStates, Joined
  <1> HIDE DEF e
  <1>7. x.ap.freq \in Int
    BY <1>0 DEF Ap
  <1>8. Net(claim, start_scan(e, x.ap.freq))
    BY <1>6, <1>7, NetSteps
  <1>9. Net(claim, handle_auth_error(x, m.err))
    BY <1>6, <1>8, NetReassess DEF handle_auth_error, e
  <1> QED
    BY <1>5, <1>9 DEF genl_error

(* Any message. *)
LEMMA NetNetlink ==
  ASSUME NEW claim, NEW x, Net(claim, x), From(claim) = x,
         NEW m \in Messages, NEW ok \in BOOLEAN
  PROVE  Net(claim, handle_netlink(x, m, ok))
  <1>1. m.type \in Events \cup {"MULTI", "DONE", "ERROR"}
    BY DEF Messages
  <1> QED
    BY <1>1, NetScanEvents, NetAuthEvents, NetError
       DEF handle_netlink, Events

-----------------------------------------------------------------------------
(* The control socket, rfkill, the timer and signals. *)

(* A network is configured only for a daemon that can connect to it. *)
LEMMA NetCtlConnect ==
  ASSUME NEW claim, NEW x, Net(claim, x),
         NEW s \in SSIDs \cup {NoSsid}, NEW k \in Keys
  PROVE  Net(claim, ctl_connect(x, s, k))
  <1> DEFINE r == reset_station(x)
             e == configure_station(x, s, k)
             f == [e EXCEPT !.opermode = "ONESHOT"]
             g == clr_timer(f)
  <1>1. CASE ~can_connect(x)
    BY <1>1 DEF ctl_connect
  <1>2. CASE can_connect(x)
    <2>1. Net(claim, r) /\ Blank(r)
      BY <1>2, NetCleared DEF can_connect, Loose, Joined
    <2> HIDE DEF r
    <2>2. Net(claim, e)
      BY <2>1, NetFixed DEF configure_station, r
    <2> HIDE DEF e
    <2>3. Net(claim, f)
      BY <2>2, NetSteps DEF OperModes
    <2> HIDE DEF f
    <2>4. Net(claim, g)
      BY <2>3, NetSteps
    <2> HIDE DEF g
    <2>5. Net(claim, reassess_wifi_situation(g))
      BY <2>4, NetReassess
    <2> QED
      BY <1>2, <2>2, <2>5 DEF ctl_connect, g, f, e
  <1> QED
    BY <1>1, <1>2

(* A forgotten network is offered no more, whatever its stations.          *)
LEMMA NetForget ==
  ASSUME NEW claim, NEW x, Net(claim, x), NEW s \in SSIDs
  PROVE  Net(claim, cmd_forget(x, s))
  <1> DEFINE y == cmd_forget(x, s)
  <1>1. x \in Daemon /\ y \in Daemon
    BY CommandsType DEF Net
  <1>2. CASE x.cfg[s] = NoPsk
    BY <1>2 DEF cmd_forget
  <1>3. CASE x.cfg[s] # NoPsk
    <2>1. /\ y.ap = x.ap /\ y.psk = x.psk /\ y.looks = x.looks
          /\ y.kck = x.kck /\ y.eapolstate = x.eapolstate
          /\ y.authstate = x.authstate
          /\ y.cfg = [x.cfg EXCEPT ![s] = NoPsk]
          /\ \A b \in BSSIDs : "PASS" \in y.scans[b] =>
                "PASS" \in x.scans[b] /\ SsidOf(x, b) # s
      BY <1>1, <1>3 DEF cmd_forget, drop_psk, Daemon
    <2> HIDE DEF y
    <2>2. x.cfg \in [SSIDs -> Keys]
      BY <1>1 DEF Daemon
    <2>s. \A b \in BSSIDs : SsidOf(y, b) = SsidOf(x, b)
      BY <2>1 DEF SsidOf
    <2>k. \A n : n # s => KeyFor(y, n) = KeyFor(x, n)
      BY <2>1, <2>2 DEF KeyFor
    <2>u. \A b \in BSSIDs : Unkeyed(y, b) => Unkeyed(x, b)
      BY <2>1, <2>s, <2>k DEF Unkeyed, got_psk_for
    <2>3. Offered(claim, y)
      BY <2>s, <2>u DEF Net, Offered
    <2>4. Fits(y)
      BY <2>1 DEF Net, Fits
    <2>5. Proven(claim) => Genuine(y)
      BY <2>1, <2>2 DEF Net, Genuine, Keyed
    <2>6. Net(claim, y)
      BY <1>1, <2>3, <2>4, <2>5 DEF Net
    <2> QED
      BY <2>6 DEF y
  <1> QED
    BY <1>2, <1>3

(* The other commands, rfkill, the timer and SIGTERM. *)
LEMMA NetCommands ==
  ASSUME NEW claim, NEW x, Net(claim, x)
  PROVE  /\ Net(claim, cmd_scan(x)) /\ Net(claim, cmd_neutral(x))
         /\ \A blocked, up \in BOOLEAN : Net(claim, rfkill_event(x, blocked, up))
         /\ Net(claim, timer_expired(x)) /\ Net(claim, xshutdown(x))
  <1>0. x \in Daemon
    BY DEF Net
  <1>1. Net(claim, cmd_scan(x))
    BY <1>0, NetSteps DEF cmd_scan
  <1>2. Net(claim, cmd_neutral(x))
    <2> DEFINE e == [x EXCEPT !.opermode = "NEUTRAL"]
    <2>1. Net(claim, e)
      BY <1>0, NetSteps DEF OperModes
    <2> HIDE DEF e
    <2>2. Net(claim, start_disconnect(e))
      BY <2>1, NetSteps
    <2>3. Net(claim, clr_timer(start_disconnect(e)))
      BY <2>2, NetSteps
    <2> QED
      BY <2>1, <2>3 DEF cmd_neutral, e
  <1>3. ASSUME NEW y, Net(claim, y) PROVE Net(claim, quit(y))
    <2>1. quit(y) \in Daemon
      BY <1>3, QuitType DEF Net
    <2>2. Alike(y, quit(y))
      BY <1>3, <2>1 DEF Alike, quit, Net, Daemon
    <2> QED
      BY <1>3, <2>2, AlikeNet
  <1>4. ASSUME NEW blocked \in BOOLEAN, NEW up \in BOOLEAN
        PROVE  Net(claim, rfkill_event(x, blocked, up))
    <2> DEFINE y == [x EXCEPT !.rfkilled = TRUE]
               z == [x EXCEPT !.rfkilled = FALSE]
    <2>1. Alike(x, y) /\ Alike(x, z)
      BY <1>0 DEF Alike, Daemon
    <2>2. Net(claim, y) /\ Net(claim, z)
      BY <2>1, AlikeNet
    <2> HIDE DEF y, z
    <2>3. Net(claim, clr_timer(y))
      BY <2>2, NetSteps
    <2> QED
      BY <1>3, <2>2, <2>3, NetDisconnect DEF rfkill_event, y, z
  <1>5. Net(claim, timer_expired(x))
    <2> DEFINE e == clr_timer(x)
    <2>1. Net(claim, e)
      BY <1>0, NetSteps
    <2> HIDE DEF e
    <2>2. /\ Net(claim, [e EXCEPT !.authstate = "IDLE"])
          /\ Net(claim, [e EXCEPT !.opermode = "EXIT"])
      BY <2>1, NetSteps DEF AuthStates, OperModes, Joined
    <2>3. x.authstate \in AuthStates
      BY <1>0 DEF Daemon
    <2> QED
      BY <2>1, <2>2, <2>3, NetRoutine, NetReassess
         DEF timer_expired, AuthStates, e
  <1>6. Net(claim, xshutdown(x))
    <2> DEFINE y == start_disconnect(x)
    <2>1. Net(claim, y)
      BY <1>0, NetSteps
    <2> HIDE DEF y
    <2>2. Net(claim, [y EXCEPT !.opermode = "EXITREQ"])
      BY <2>1, NetSteps DEF OperModes
    <2>3. Net(claim, [x EXCEPT !.opermode = "EXIT"])
      BY <1>0, NetSteps DEF OperModes
    <2> QED
      BY <1>3, <2>2, <2>3 DEF xshutdown, y
  <1> QED
    BY <1>1, <1>2, <1>4, <1>5, <1>6

(* The state main() starts with, if what the config file holds is genuine. *)
GenuineCfg(cfg) == \A s \in SSIDs : cfg[s] \in {NoPsk, BadPsk, RightPsk[s]}

CfgGenuine == \A cfg \in InitCfg : GenuineCfg(cfg)

LEMMA NetStarted ==
  ASSUME NEW claim, NEW cfg \in [SSIDs -> Keys],
         Proven(claim) => GenuineCfg(cfg), NEW s \in SSIDs \cup {NoSsid}
  PROVE  Net(claim, Started(cfg, s))
  <1> DEFINE z == Zeroed(cfg)
             l == load_state(z, s)
  <1>1. z \in Daemon
    BY ZeroedType
  <1>2. Blank(z)
    BY DEF Zeroed, Blank, Loose, Joined
  <1>3. Net(claim, z)
    <2>1. Offered(claim, z) /\ Fits(z)
      BY DEF Offered, Unkeyed, Fits, Zeroed
    <2>2. Proven(claim) => Genuine(z)
      BY DEF Genuine, GenuineCfg, Zeroed, Joined
    <2> QED
      BY <1>1, <2>1, <2>2 DEF Net
  <1> HIDE DEF z
  <1>4. s \in SSIDs => Net(claim, set_fixed_saved(z, s))
    BY <1>2, <1>3, NetFixed
  <1>5. s \in SSIDs => Net(claim, [set_fixed_saved(z, s) EXCEPT
                                    !.opermode = "ACTIVE"])
    BY <1>4, NetSteps DEF OperModes
  <1>6. Net(claim, l)
    BY <1>3, <1>4, <1>5 DEF load_state
  <1> HIDE DEF l
  <1> QED
    BY <1>6, NetRoutine DEF Started, l, z

-----------------------------------------------------------------------------
(* The system: only a handler changes what the daemon knows, and an AP     *)
(* works with the key of the network it is asked to be.                    *)

(* The frames of an association bear that key, and there is no other whose *)
(* nonces an AP remembers.                                                 *)
RightKeyed(q, c) ==
  \A i \in DOMAIN q : q[i].cur =>
    c.link \in Associated /\ c.net \in SSIDs /\ q[i].key = RightPsk[c.net]

(* From is the state the next handler starts in. *)
NetInv(keys) == TypeInv /\ Net(<<keys, d>>, d) /\ RightKeyed(rawq, card)

(* A state is a claim about itself, and of what has come of it. *)
LEMMA Rebased ==
  ASSUME NEW keys, NEW x, NEW y, Net(<<keys, x>>, y)
  PROVE  Net(<<keys, y>>, y)
  <1>1. Offered(<<keys, y>>, y)
    BY DEF Offered, From
  <1>2. Proven(<<keys, y>>) <=> Proven(<<keys, x>>)
    BY DEF Proven
  <1> QED
    BY <1>1, <1>2 DEF Net

(* Frames stay what they are while the association lasts, and go stale     *)
(* with it; there are none without one.                                    *)
LEMMA FramesKept ==
  ASSUME NEW q \in Seq(Frames), NEW c, NEW k, RightKeyed(q, c)
  PROVE  /\ RightKeyed(Outdated(q), k)
         /\ /\ k.net = c.net
            /\ c.link \in Associated => k.link \in Associated
            => RightKeyed(q, k)
         /\ c.link \notin Associated => RightKeyed(q, k)
  <1>1. RightKeyed(Outdated(q), k)
    <2>1. DOMAIN Outdated(q) = DOMAIN q
      BY DEF Outdated
    <2>2. ASSUME NEW i \in DOMAIN q PROVE ~Outdated(q)[i].cur
      <3>1. q[i] \in Frames
        OBVIOUS
      <3>2. Outdated(q)[i] = [q[i] EXCEPT !.cur = FALSE]
        BY DEF Outdated
      <3> QED
        BY <3>1, <3>2 DEF Frames
    <2> QED
      BY <2>1, <2>2 DEF RightKeyed
  <1> QED
    BY <1>1 DEF RightKeyed

(* Frames are read, and come from the AP the card is associated with. *)
LEMMA FrameKeys ==
  ASSUME NEW q \in Seq(Frames), NEW c, RightKeyed(q, c)
  PROVE  /\ q # <<>> => /\ RightKeyed(Tail(q), c)
                        /\ Head(q).cur => /\ c.net \in SSIDs
                                          /\ Head(q).key = RightPsk[c.net]
         /\ \A m \in Frames :
              /\ c.link \in Associated /\ c.net \in SSIDs
              /\ m.key = RightPsk[c.net]
              => RightKeyed(Append(q, m), c)
  <1>1. ASSUME q # <<>>
        PROVE  /\ RightKeyed(Tail(q), c)
               /\ Head(q).cur => /\ c.net \in SSIDs
                                 /\ Head(q).key = RightPsk[c.net]
    BY <1>1 DEF RightKeyed
  <1>2. ASSUME NEW m \in Frames, c.link \in Associated, c.net \in SSIDs,
               m.key = RightPsk[c.net]
        PROVE  RightKeyed(Append(q, m), c)
    BY <1>2 DEF RightKeyed
  <1> QED
    BY <1>1, <1>2

(* What the AP makes of a frame ends no association. *)
LEMMA ApHearsKept ==
  ASSUME NEW c \in Card, NEW e
  PROVE  /\ ApHears(c, e).net = c.net
         /\ c.link \in Associated => ApHears(c, e).link \in Associated
  BY DEF ApHears, Card, Associated

(* Emptying the scratch fields. *)
LEMMA NetLeaves ==
  ASSUME NEW claim, NEW e, Net(claim, e), NEW c, NEW W, Leaves(e, c, W)
  PROVE  Net(claim, d')
  <1> DEFINE y == [e EXCEPT !.tx = <<>>, !.reseq = FALSE, !.sent = "NONE",
                            !.rep = {}]
  <1>1. y \in Daemon
    <2>1. <<>> \in Seq(Commands)
      OBVIOUS
    <2> QED
      BY <2>1 DEF Net, Daemon, EapolSent
  <1>2. Alike(e, y)
    BY <1>1 DEF Alike, Net, Daemon
  <1> HIDE DEF y
  <1> QED
    BY <1>2, AlikeNet DEF Leaves, y

(* main() leaves a consistent daemon. *)
LEMMA InitNet ==
  ASSUME NEW keys, Init, keys = "PROVEN" => CfgGenuine
  PROVE  NetInv(keys)
  <1> PICK cfg \in InitCfg, s \in InitState :
        d = [Started(cfg, s) EXCEPT !.tx = <<>>, !.reseq = FALSE]
    BY DEF Init
  <1> DEFINE claim == <<keys, Zeroed(cfg)>>
             y == Started(cfg, s)
  <1>1. Net(claim, y)
    <2>1. cfg \in [SSIDs -> Keys] /\ s \in SSIDs \cup {NoSsid}
      BY EnvAssumption
    <2>2. Proven(claim) => GenuineCfg(cfg)
      BY DEF Proven, CfgGenuine
    <2> HIDE DEF claim
    <2> QED
      BY <2>1, <2>2, NetStarted
  <1>2. TypeInv
    BY InitType
  <1> HIDE DEF y
  <1>3. d \in Daemon /\ d = [y EXCEPT !.tx = <<>>, !.reseq = FALSE]
    BY <1>2 DEF TypeInv, TypeOK, y
  <1>4. Alike(y, d)
    BY <1>1, <1>3 DEF Alike, Net, Daemon
  <1>5. Net(claim, d)
    BY <1>1, <1>4, AlikeNet
  <1>6. RightKeyed(rawq, card)
    <2>1. rawq = <<>>
      BY DEF Init
    <2> QED
      BY <2>1 DEF RightKeyed
  <1> QED
    BY <1>2, <1>5, <1>6, Rebased DEF NetInv

(* What the card and the AP do to the frames. *)
LEMMA NextFrames ==
  ASSUME TypeInv, RightKeyed(rawq, card), [Next]_vars
  PROVE  RightKeyed(rawq', card')
  <1>0. TypeOK /\ PeerKnown /\ rawq \in Seq(Frames) /\ card \in Card
    BY DEF TypeInv, TypeOK
  <1>1. CASE /\ rawq' = rawq /\ card'.net = card.net
             /\ card.link \in Associated => card'.link \in Associated
    BY <1>0, <1>1, FramesKept
  <1>2. CASE rawq' = Outdated(rawq)
    BY <1>0, <1>2, FramesKept
  <1>3. CASE rawq' = rawq /\ card.link \notin Associated
    BY <1>0, <1>3, FramesKept
  <1>4. ASSUME NEW e, NEW W, Leaves(e, card, W)
        PROVE  /\ card'.net = card.net
               /\ card.link \in Associated => card'.link \in Associated
    BY <1>0, <1>4, ApHearsKept DEF Leaves
  <1>5. CASE HandleRawsock
    <2>1. /\ card'.net = card.net
          /\ card.link \in Associated => card'.link \in Associated
      BY <1>4, <1>5 DEF HandleRawsock, Becomes
    <2>2. rawq # <<>> /\ rawq' = Tail(rawq)
      BY <1>5 DEF HandleRawsock
    <2>3. RightKeyed(Tail(rawq), card) /\ Tail(rawq) \in Seq(Frames)
      BY <1>0, <2>2, FrameKeys
    <2> QED
      BY <2>1, <2>2, <2>3, FramesKept
  <1>6. CASE HandleNetlink \/ TimerExpired \/ UserStep
    <2>1. rawq' = rawq /\ \E e, W : Leaves(e, card, W)
      BY <1>6 DEF HandleNetlink, TimerExpired, UserStep, UserScan,
           UserNeutral, UserConnect, UserForget, Sigterm, Request, Becomes
    <2> QED
      BY <1>1, <1>4, <2>1
  <1>7. CASE HandleRfkill
    <2>1. rawq' = rawq
      BY <1>7 DEF HandleRfkill
    <2>2. PICK e : \/ Becomes(e, card)
                   \/ Becomes(e, [card EXCEPT !.up = TRUE])
      BY <1>7 DEF HandleRfkill
    <2>3. CASE Becomes(e, card)
      BY <1>1, <1>4, <2>1, <2>3 DEF Becomes
    <2>4. CASE Becomes(e, [card EXCEPT !.up = TRUE])
      <3> DEFINE k == [card EXCEPT !.up = TRUE]
      <3>1. k \in Card /\ k.net = card.net /\ k.link = card.link
        BY <1>0 DEF Card
      <3>2. card' = ApHears(k, e)
        BY <2>4 DEF Becomes, Leaves
      <3> HIDE DEF k
      <3> QED
        BY <1>1, <2>1, <3>1, <3>2, ApHearsKept
    <2> QED
      BY <2>2, <2>3, <2>4
  <1>8. CASE LeaveLoop \/ UNCHANGED vars
    BY <1>1, <1>8 DEF LeaveLoop, vars
  <1>9. CASE CardStep
    <2>1. CASE CardScan \/ CardDump \/ CardKey \/ CardRefuse
      <3>1. rawq' = rawq /\ card'.net = card.net /\ card'.link = card.link
        BY <1>0, <2>1 DEF CardScan, CardDump, CardKey, CardRefuse, Card
      <3> QED
        BY <1>1, <3>1
    <2>2. CASE CardAuth \/ CardAssoc
      <3>1. rawq' = rawq /\ card.link \in {"NONE", "AUTHED"}
        BY <2>2 DEF CardAuth, CardAssoc, Executes, Able
      <3> QED
        BY <1>3, <3>1 DEF Associated
    <2>3. CASE CardDisconnect
      BY <1>2, <2>3 DEF CardDisconnect
    <2> QED
      BY <1>9, <2>1, <2>2, <2>3 DEF CardStep
  <1>10. CASE ScanDone
    <2>1. rawq' = rawq /\ card'.net = card.net /\ card'.link = card.link
      BY <1>0, <1>10 DEF ScanDone, Card
    <2> QED
      BY <1>1, <2>1
  <1>11. CASE AuthDone \/ AssocDone
    BY <1>3, <1>11 DEF AuthDone, AssocDone, Associated
  <1>12. CASE LinkLost
    BY <1>2, <1>12 DEF LinkLost
  <1>13. ASSUME NEW t \in {"M1", "M3", "G1"}, NEW from \in SUBSET Associated,
                NEW to \in Associated, ApSend(t, from, to)
         PROVE  RightKeyed(rawq', card')
    <2>1. card.link \in Associated
      BY <1>13 DEF ApSend
    <2>2. card.peer \in BSSIDs /\ card.net \in SSIDs
      BY <1>0, <2>1 DEF PeerKnown, Peered, Associated
    <2>3. Frame(t) \in Frames /\ Frame(t).key = RightPsk[card.net]
      BY <2>2, EnvAssumption DEF Frame, Frames
    <2>4. rawq' = Append(rawq, Frame(t))
      BY <1>13 DEF ApSend
    <2>5. RightKeyed(Append(rawq, Frame(t)), card)
      BY <1>0, <2>1, <2>2, <2>3, FrameKeys
    <2>6. Append(rawq, Frame(t)) \in Seq(Frames)
      BY <1>0, <2>3
    <2>7. card'.net = card.net /\ card'.link \in Associated
      BY <1>0, <1>13 DEF ApSend, Card
    <2> QED
      BY <2>4, <2>5, <2>6, <2>7, FramesKept
  <1>14. CASE ApMessage1 \/ ApMessage3 \/ ApResend \/ ApRekey
    BY <1>13, <1>14 DEF ApMessage1, ApMessage3, ApResend, ApRekey, Associated
  <1>15. CASE LinkDown \/ RadioOff
    BY <1>2, <1>15 DEF LinkDown, RadioOff, IfaceDown
  <1>16. CASE RadioOn
    <2>1. rawq' = rawq /\ card'.net = card.net /\ card'.link = card.link
      BY <1>0, <1>16 DEF RadioOn, Card
    <2> QED
      BY <1>1, <2>1
  <1>17. CASE OtherSupplicant
    BY <1>3, <1>17 DEF OtherSupplicant, Associated
  <1> QED
    BY <1>5, <1>6, <1>7, <1>8, <1>9, <1>10, <1>11, <1>12, <1>14, <1>15, <1>16,
       <1>17 DEF Next, DaemonStep, AirStep, FaultStep

(* Every handler keeps it consistent; the rest of the world cannot touch it. *)
LEMMA StepNet ==
  ASSUME NEW keys, NetInv(keys), [Next]_vars,
         keys = "PROVEN" => [InOrder]_vars
  PROVE  Net(<<keys, d>>, d')
  <1> DEFINE claim == <<keys, d>>
  <1>0. /\ TypeInv /\ TypeOK /\ Net(claim, d) /\ RightKeyed(rawq, card)
        /\ From(claim) = d
    BY DEF NetInv, TypeInv, From
  <1>p. Proven(claim) => keys = "PROVEN"
    BY DEF Proven
  <1>c. claim = <<keys, d>>
    OBVIOUS
  <1> HIDE DEF claim
  <1> SUFFICES Net(claim, d')
    BY <1>c
  <1>1. CASE HandleNetlink
    <2> PICK ok \in BOOLEAN : Becomes(handle_netlink(d, Head(nlq), ok), card)
      BY <1>1 DEF HandleNetlink
    <2>1. Head(nlq) \in Messages
      BY <1>0, <1>1 DEF HandleNetlink, TypeOK
    <2>2. Net(claim, handle_netlink(d, Head(nlq), ok))
      BY <1>0, <2>1, NetNetlink
    <2> QED
      BY <2>2, NetLeaves DEF Becomes
  <1>2. CASE HandleRawsock
    <2> PICK ok \in BOOLEAN : Becomes(handle_rawsock(d, Head(rawq), ok), card)
      BY <1>2 DEF HandleRawsock
    <2> DEFINE e == handle_rawsock(d, Head(rawq), ok)
    <2>1. rawq # <<>> /\ rawq \in Seq(Frames)
      BY <1>0, <1>2 DEF HandleRawsock, TypeOK
    <2>2. /\ Head(rawq) \in Frames
          /\ Head(rawq).cur => /\ card.net \in SSIDs
                               /\ Head(rawq).key = RightPsk[card.net]
      BY <1>0, <2>1, FrameKeys, HeadTailProperties
    <2>3. d \in Daemon /\ e \in Daemon
      BY <1>0, <2>2, HandleRawsockType DEF Net
    <2>4. ASSUME Proven(claim), d.eapolstate # "NEGOTIATED",
                 e.eapolstate = "NEGOTIATED"
          PROVE  /\ d.authstate \in {"CONNECTING", "CONNECTED"}
                 /\ card.net = d.ap.ssid
      <3> HIDE DEF e
      <3>1. d' = [e EXCEPT !.tx = <<>>, !.reseq = FALSE, !.sent = "NONE",
                           !.rep = {}]
        BY DEF Becomes, Leaves, e
      <3>2. d'.eapolstate = "NEGOTIATED"
        BY <2>3, <2>4, <3>1 DEF Daemon
      <3>3. d' # d
        BY <2>4, <3>2
      <3>4. InOrder
        BY <1>p, <2>4, <3>3 DEF vars
      <3> QED
        BY <2>4, <3>2, <3>4 DEF InOrder
    <2>5. Net(claim, e)
      BY <1>0, <2>2, <2>4, NetRawsock
    <2> HIDE DEF e
    <2> QED
      BY <2>5, NetLeaves DEF Becomes, e
  <1>3. CASE HandleRfkill
    <2> DEFINE up == card.up \/ ~card.blocked
    <2>1. rfq # <<>> /\ rfq \in Seq(BOOLEAN)
      BY <1>0, <1>3 DEF HandleRfkill, TypeOK
    <2>2. Head(rfq) \in BOOLEAN
      BY <2>1, HeadTailProperties
    <2>3. up \in BOOLEAN
      OBVIOUS
    <2>4. \E c : Becomes(rfkill_event(d, Head(rfq), up), c)
      BY <1>3 DEF HandleRfkill
    <2> HIDE DEF up
    <2>5. Net(claim, rfkill_event(d, Head(rfq), up))
      BY <1>0, <2>2, <2>3, NetCommands
    <2> QED
      BY <2>4, <2>5, NetLeaves DEF Becomes
  <1>4. CASE TimerExpired
    BY <1>0, <1>4, NetCommands, NetLeaves DEF TimerExpired, Becomes
  <1>5. CASE LeaveLoop
    <2>1. d' = [d EXCEPT !.opermode = "QUIT"]
      BY <1>5 DEF LeaveLoop
    <2>2. Alike(d, d')
      BY <1>0, <2>1, AlikeFields DEF Net, OperModes
    <2> QED
      BY <1>0, <2>2, AlikeNet
  <1>6. CASE UserStep
    <2>1. \E e, w : Net(claim, e) /\ Request(e, w)
      BY <1>0, <1>6, NetCommands, NetCtlConnect, NetForget
         DEF UserStep, UserScan, UserNeutral, UserConnect, UserForget, Sigterm
    <2> QED
      BY <2>1, NetLeaves DEF Request
  <1>7. CASE CardStep \/ AirStep \/ FaultStep \/ UNCHANGED vars
    <2>1. d' = d
      BY <1>7 DEF CardStep, CardScan, CardDump, CardAuth, CardAssoc,
           CardDisconnect, CardKey, CardRefuse, Executes, AirStep, ScanDone,
           AuthDone, AssocDone, ApMessage1, ApMessage3, ApResend, ApRekey,
           ApSend, LinkLost, Silently, FaultStep, LinkDown, RadioOff, RadioOn,
           OtherSupplicant, vars
    <2> QED
      BY <1>0, <2>1
  <1> QED
    BY <1>1, <1>2, <1>3, <1>4, <1>5, <1>6, <1>7 DEF Next, DaemonStep

(* So the claim can be made again of the state a step leads to. *)
LEMMA NextNet ==
  ASSUME NEW keys, NetInv(keys), [Next]_vars,
         keys = "PROVEN" => [InOrder]_vars
  PROVE  NetInv(keys)'
  <1>1. TypeInv' /\ RightKeyed(rawq', card')
    BY NextType, NextFrames DEF NetInv
  <1>2. Net(<<keys, d>>, d')
    BY StepNet
  <1>3. Net(<<keys, d'>>, d')
    BY <1>2, Rebased
  <1> QED
    BY <1>1, <1>3 DEF NetInv

(* The invariant holds in every reachable state. *)
LEMMA NetworksInvariant == Spec => []NetInv("KNOWN")
  <1>1. Init => NetInv("KNOWN")
    BY InitNet
  <1>2. NetInv("KNOWN") /\ [Next]_vars => NetInv("KNOWN")'
    BY NextNet
  <1> QED
    BY <1>1, <1>2, PTL DEF Spec

(* A station comes to be offered for automatic connection without a key in *)
(* the config file only by a dump that gives it another name: the flags    *)
(* that check_new_scan_results and handle_connect set have a key then, and *)
(* cmd_forget takes them back from every station of the network.           *)
THEOREM OffersKeepKeys == Spec => OffersHaveKeys
  <1> DEFINE A == \A b \in BSSIDs :
                    Unkeyed(d', b) => Unkeyed(d, b) \/ SsidOf(d', b) # SsidOf(d, b)
  <1>1. NetInv("KNOWN") /\ [Next]_vars => A
    <2> SUFFICES ASSUME NetInv("KNOWN"), [Next]_vars PROVE A
      OBVIOUS
    <2>1. Offered(<<"KNOWN", d>>, d')
      BY StepNet DEF Net
    <2> QED
      BY <2>1 DEF Offered, From
  <1> HIDE DEF A
  <1>2. NetInv("KNOWN") /\ [Next]_vars => [A]_vars
    BY <1>1
  <1>3. Spec => [][A]_vars
    BY <1>2, NetworksInvariant, PTL DEF Spec
  <1> QED
    BY <1>3 DEF OffersHaveKeys, A

(* With handshakes that end in the attempt they belong to, and a config    *)
(* file whose keys are those of their networks, the keys stay genuine.     *)
LEMMA KeysInvariant ==
  ASSUME CfgGenuine
  PROVE  Spec /\ HandshakeInOrder => []NetInv("PROVEN")
  <1>1. Init => NetInv("PROVEN")
    BY InitNet
  <1>2. NetInv("PROVEN") /\ [Next]_vars /\ [InOrder]_vars => NetInv("PROVEN")'
    BY NextNet
  <1> QED
    BY <1>1, <1>2, PTL DEF Spec, HandshakeInOrder

(* The config file never gets a key its network has not proved: what       *)
(* handle_connect writes is PSK, and PSK is the key the 3/4 was checked    *)
(* with, of the network ap.ssid names.                                     *)
THEOREM ProvenKeysSaved ==
  ASSUME CfgGenuine
  PROVE  Spec /\ HandshakeInOrder => []SavedKeysWork
  <1>1. NetInv("PROVEN") => SavedKeysWork
    BY DEF NetInv, Net, Proven, Genuine, SavedKeysWork
  <1> QED
    BY <1>1, KeysInvariant, PTL

(* A daemon in fixed mode has the key of the network it comes back to, and *)
(* a station it rescans for when the link is lost has proved that key.     *)
THEOREM CurrentKeyProven ==
  ASSUME CfgGenuine
  PROVE  Spec /\ HandshakeInOrder => []CurrentKeyWorks
  <1>1. NetInv("PROVEN") => FixedHasKey
    BY DEF NetInv, Net, Proven, Genuine, FixedHasKey
  <1>2. NetInv("PROVEN") => SuccessIsProven
    BY DEF NetInv, Net, Proven, Genuine, SuccessIsProven
  <1>3. NetInv("PROVEN") => CurrentKeyWorks
    BY <1>1, <1>2 DEF CurrentKeyWorks
  <1> QED
    BY <1>3, KeysInvariant, PTL
=============================================================================
