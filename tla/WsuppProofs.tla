---------------------------- MODULE WsuppProofs ----------------------------
(***************************************************************************)
(* Theorems about Wsupp for any number of stations, networks, keys and     *)
(* events.                                                                 *)
(*                                                                         *)
(* The first part is about the daemon alone: every function maps a         *)
(* well-formed state to a well-formed state.  There is one lemma per       *)
(* function, in the order of the modules, each resting on the lemmas of    *)
(* the functions it calls.                                                 *)
(***************************************************************************)
EXTENDS Wsupp, TLAPS, SequenceTheorems

(* The timer is a flag to every function that sets or clears it. *)
LEMMA TimerType ==
  ASSUME NEW x \in Daemon
  PROVE  clr_timer(x) \in Daemon /\ set_timer(x) \in Daemon
  BY DEF clr_timer, set_timer, Daemon

(* A notification is recorded and changes nothing else. *)
LEMMA ReportType ==
  ASSUME NEW x \in Daemon, NEW r \in Reports
  PROVE  report(x, r) \in Daemon
  <1>1. x.rep \cup {r} \in SUBSET Reports
    BY DEF Daemon
  <1> QED
    BY <1>1 DEF report, Daemon

(* quit() leaves a state of the right shape behind. *)
LEMMA QuitType ==
  ASSUME NEW x \in Daemon
  PROVE  quit(x) \in Daemon
  <1>1. <<>> \in Seq(Commands)
    OBVIOUS
  <1>2. "QUIT" \in OperModes
    BY DEF OperModes
  <1> QED
    BY <1>1, <1>2 DEF quit, Daemon

(* A command without arguments is a command. *)
LEMMA CommandType ==
  ASSUME NEW c \in {"TRIGGER_SCAN", "GET_SCAN", "AUTHENTICATE", "ASSOCIATE",
                    "DISCONNECT", "NEW_KEY"}
  PROVE  Command(c) \in Commands
  BY DEF Command, Commands

(* nl_send appends to what the handler has sent and touches nothing else. *)
LEMMA SendType ==
  ASSUME NEW x \in Daemon, NEW c \in Commands
  PROVE  nl_send(x, c) \in Daemon
  <1>1. x.tx \in Seq(Commands)
    BY DEF Daemon
  <1>2. Append(x.tx, c) \in Seq(Commands)
    BY <1>1
  <1> QED
    BY <1>2 DEF nl_send, Daemon

(* reset_scan_state clears scanstate and the request. *)
LEMMA ResetScanType ==
  ASSUME NEW x \in Daemon
  PROVE  reset_scan_state(x) \in Daemon
  BY DEF reset_scan_state, Daemon, ScanStates

(* A scan of one frequency or of all has a legal set of purposes. *)
LEMMA PurposeType ==
  ASSUME NEW f \in Int
  PROVE  ScanPurpose(f) \in SUBSET ScanReqs
  BY DEF ScanPurpose, ScanReqs

(* start_scan joins a running scan, is refused by it, or triggers one. *)
LEMMA StartScanType ==
  ASSUME NEW x \in Daemon, NEW f \in Int
  PROVE  start_scan(x, f) \in Daemon
  <1> DEFINE c == [Command("TRIGGER_SCAN") EXCEPT !.freq = f]
             one == IF f > 0 THEN {"ONE_FREQ"} ELSE {}
             y == nl_send(x, c)
  <1>1. c \in Commands
    BY DEF Command, Commands
  <1>2. y \in Daemon
    BY <1>1, SendType
  <1>3. y.scanreq \in SUBSET ScanReqs /\ x.scanreq \in SUBSET ScanReqs
    BY <1>2 DEF Daemon
  <1>4. y.scanreq \cup ScanPurpose(f) \cup one \in SUBSET ScanReqs
    BY <1>3, PurposeType DEF ScanReqs
  <1>5. x.scanreq \cup ScanPurpose(f) \in SUBSET ScanReqs
    BY <1>3, PurposeType
  <1> HIDE DEF c, one, y
  <1>6. [y EXCEPT !.scanstate = "SCANNING",
                  !.scanreq = @ \cup ScanPurpose(f) \cup one,
                  !.reseq = TRUE] \in Daemon
    BY <1>2, <1>4 DEF Daemon, ScanStates
  <1>7. [x EXCEPT !.scanreq = @ \cup ScanPurpose(f)] \in Daemon
    BY <1>5 DEF Daemon
  <1> QED
    BY <1>6, <1>7 DEF start_scan, c, one, y

(* The two ways of asking for a scan of everything. *)
LEMMA VoidFullScanType ==
  ASSUME NEW x \in Daemon
  PROVE  start_void_scan(x) \in Daemon /\ start_full_scan(x) \in Daemon
  BY StartScanType DEF start_void_scan, start_full_scan

(* GET_SCAN is sent and the dump is awaited. *)
LEMMA ScanDumpType ==
  ASSUME NEW x \in Daemon
  PROVE  trigger_scan_dump(x) \in Daemon
  <1>1. nl_send(x, Command("GET_SCAN")) \in Daemon
    BY CommandType, SendType
  <1> QED
    BY <1>1 DEF trigger_scan_dump, Daemon, ScanStates

(* Every command of the connection machine is sent this way. *)
LEMMA SetAuthType ==
  ASSUME NEW x \in Daemon, NEW c \in Commands, NEW as \in AuthStates
  PROVE  send_set_authstate(x, c, as) \in Daemon
  <1>1. nl_send(x, c) \in Daemon
    BY SendType
  <1> QED
    BY <1>1 DEF send_set_authstate, Daemon

(* ap names the station of an AUTHENTICATE, or nothing. *)
LEMMA TriggersType ==
  ASSUME NEW x \in Daemon
  PROVE  /\ trigger_authentication(x) \in Daemon
         /\ trigger_associaction(x) \in Daemon
         /\ trigger_disconnect(x) \in Daemon
  <1>0. /\ x.ap.freq \in Int /\ x.ap.bssid \in BSSIDs \cup {NoBssid}
        /\ x.ap.ssid \in SSIDs \cup {NoSsid}
    BY DEF Daemon, Ap
  <1>1. /\ ToAp("AUTHENTICATE", x.ap) \in Commands
        /\ ToAp("ASSOCIATE", x.ap) \in Commands
    BY <1>0 DEF ToAp, Commands
  <1>2. trigger_authentication(x) \in Daemon
    BY <1>1, SetAuthType DEF trigger_authentication, AuthStates
  <1>3. trigger_associaction(x) \in Daemon
    BY <1>1, SetAuthType DEF trigger_associaction, AuthStates
  <1>4. trigger_disconnect(x) \in Daemon
    BY CommandType, SetAuthType DEF trigger_disconnect, AuthStates
  <1> QED
    BY <1>2, <1>3, <1>4

(* start_connection and start_disconnect, refused or not. *)
LEMMA StartConnectionType ==
  ASSUME NEW x \in Daemon
  PROVE  start_connection(x) \in Daemon /\ start_disconnect(x) \in Daemon
  BY TriggersType DEF start_connection, start_disconnect

(* Both keys of a handshake go to the card. *)
LEMMA UploadType ==
  ASSUME NEW x \in Daemon
  PROVE  upload_ptk(x) \in Daemon /\ upload_gtk(x) \in Daemon
  BY CommandType, SendType DEF upload_ptk, upload_gtk

-----------------------------------------------------------------------------
(* wsupp_apsel.c *)

(* Forgetting the station leaves the network chosen. *)
LEMMA ClearApType ==
  ASSUME NEW x \in Daemon
  PROVE  clear_ap_bssid(x) \in Daemon
  <1>1. [x.ap EXCEPT !.bssid = NoBssid, !.success = FALSE, !.rescans = 0] \in Ap
    BY DEF Daemon, Ap
  <1> QED
    BY <1>1 DEF clear_ap_bssid, Daemon

(* Forgetting the network, unless it is fixed. *)
LEMMA ResetStationType ==
  ASSUME NEW x \in Daemon
  PROVE  clear_ap_ssid(x) \in Daemon /\ reset_station(x) \in Daemon
  <1>1. ASSUME NEW y \in Daemon PROVE clear_ap_ssid(y) \in Daemon
    <2>1. y.ap \in Ap /\ NoPsk \in Keys
      BY DEF Daemon, Keys
    <2>2. [y.ap EXCEPT !.ssid = NoSsid, !.freq = 0, !.fixed = FALSE,
                       !.unsaved = FALSE] \in Ap
      BY <2>1 DEF Ap
    <2> QED
      BY <2>1, <2>2 DEF clear_ap_ssid, Daemon
  <1> QED
    BY <1>1, ClearApType DEF reset_station

(* A key read from the config is a key, bad or missing ones too. *)
LEMMA LoadPskType ==
  ASSUME NEW x \in Daemon, NEW s
  PROVE  load_psk(x, s) \in Daemon
  <1>1. KeyFor(x, s) \in Keys
    BY DEF Daemon, KeyFor, Keys
  <1> QED
    BY <1>1 DEF load_psk, Daemon

(* scans keeps its shape under any change of the flags of some entries. *)
LEMMA ScansType ==
  ASSUME NEW x \in Daemon, NEW f \in [BSSIDs -> SUBSET ScanFlags]
  PROVE  [x EXCEPT !.scans = f] \in Daemon
  BY DEF Daemon

(* Every entry has a name, that of a network or none. *)
LEMMA SsidOfType ==
  ASSUME NEW x \in Daemon, NEW b \in BSSIDs
  PROVE  SsidOf(x, b) \in SSIDs \cup {NoSsid}
  BY DEF SsidOf, Daemon, Looks

(* The chosen station and its network are known ones. *)
LEMMA SetCurrentType ==
  ASSUME NEW x \in Daemon, NEW b \in BSSIDs
  PROVE  set_current_ap(x, b) \in Daemon
  <1> DEFINE e == [x EXCEPT !.scans[b] = @ \cup {"TRIED"},
                            !.ap.success = FALSE,
                            !.ap.freq = Freq[b],
                            !.ap.bssid = b]
             g == [x.scans EXCEPT ![b] = @ \cup {"TRIED"}]
             a == [x.ap EXCEPT !.success = FALSE, !.freq = Freq[b],
                               !.bssid = b]
  <1>1. g \in [BSSIDs -> SUBSET ScanFlags]
    BY DEF Daemon, ScanFlags
  <1>2. /\ x.ap \in Ap /\ Freq[b] \in Nat
        /\ SsidOf(x, b) \in SSIDs \cup {NoSsid}
    BY StationAssumption, SsidOfType DEF Daemon
  <1>3. a \in Ap
    BY <1>2 DEF Ap
  <1> HIDE DEF g, a
  <1>4. [x EXCEPT !.scans = g, !.ap = a] \in Daemon
    BY <1>1, <1>3 DEF Daemon
  <1>5. e = [x EXCEPT !.scans = g, !.ap = a]
    BY DEF Daemon, g, a
  <1>6. e \in Daemon
    BY <1>4, <1>5
  <1> HIDE DEF e
  <1>7. [e.ap EXCEPT !.ssid = SsidOf(x, b)] \in Ap
    BY <1>2, <1>6 DEF Daemon, Ap
  <1>8. [e EXCEPT !.ap.ssid = SsidOf(x, b)] \in Daemon
    BY <1>6, <1>7 DEF Daemon
  <1> QED
    BY <1>2, <1>6, <1>8, LoadPskType DEF set_current_ap, e

(* Only flags of scan slots are cleared. *)
LEMMA ResetCountersType ==
  ASSUME NEW x \in Daemon
  PROVE  reset_scan_counters(x) \in Daemon
  <1>1. [b \in BSSIDs |-> IF match_ssid(x, b) THEN x.scans[b] \ {"TRIED"}
                          ELSE x.scans[b]] \in [BSSIDs -> SUBSET ScanFlags]
    BY DEF Daemon
  <1> QED
    BY <1>1, ScansType DEF reset_scan_counters

(* Fixing a network keeps ap in its range. *)
LEMMA SetFixedType ==
  ASSUME NEW x \in Daemon, NEW s \in SSIDs
  PROVE  set_fixed(x, s) \in Daemon
  <1>1. [x.ap EXCEPT !.ssid = s, !.fixed = TRUE] \in Ap
    BY DEF Daemon, Ap
  <1>2. [x EXCEPT !.ap.ssid = s, !.ap.fixed = TRUE] \in Daemon
    BY <1>1 DEF Daemon
  <1> QED
    BY <1>2, ClearApType, ResetCountersType DEF set_fixed

(* The flag that asks for the key to be saved. *)
LEMMA UnsavedType ==
  ASSUME NEW x \in Daemon, NEW v \in BOOLEAN
  PROVE  [x EXCEPT !.ap.unsaved = v] \in Daemon
  <1>1. [x.ap EXCEPT !.unsaved = v] \in Ap
    BY DEF Daemon, Ap
  <1> QED
    BY <1>1 DEF Daemon

(* A network and a key given by the user. *)
LEMMA SetFixedGivenType ==
  ASSUME NEW x \in Daemon, NEW s \in SSIDs, NEW k \in PSKs
  PROVE  set_fixed_given(x, s, k) \in Daemon
  <1> DEFINE y == set_fixed(x, s)
  <1>1. y \in Daemon
    BY SetFixedType
  <1> HIDE DEF y
  <1>2. [y.ap EXCEPT !.unsaved = TRUE] \in Ap
    BY <1>1 DEF Daemon, Ap
  <1>3. k \in Keys
    BY DEF Keys
  <1>4. [y EXCEPT !.psk = k, !.ap.unsaved = TRUE] \in Daemon
    BY <1>1, <1>2, <1>3 DEF Daemon
  <1> QED
    BY <1>4 DEF set_fixed_given, y

(* A network given by the user, with the saved key. *)
LEMMA SetFixedSavedType ==
  ASSUME NEW x \in Daemon, NEW s \in SSIDs
  PROVE  set_fixed_saved(x, s) \in Daemon
  BY LoadPskType, SetFixedType, UnsavedType DEF set_fixed_saved

(* Slots passed over by connect_to_something keep legal flags. *)
LEMMA PassByType ==
  ASSUME NEW x \in Daemon, NEW S
  PROVE  PassBy(x, S) \in Daemon
  <1>1. [b \in BSSIDs |->
           IF b \in S THEN (x.scans[b] \cup {"TRIED"}) \ {"GOOD"}
           ELSE x.scans[b]] \in [BSSIDs -> SUBSET ScanFlags]
    BY DEF Daemon, ScanFlags
  <1> QED
    BY <1>1, ScansType DEF PassBy

(* get_best_ap finds an entry when there is a candidate. *)
LEMMA BestInSet ==
  ASSUME NEW S \in SUBSET BSSIDs, S # {}
  PROVE  Best(S) \in S /\ Last(S) \in S
  BY BestAssumption DEF Best, Last

(* The stations that can be used are among those that were asked for. *)
LEMMA AcceptableAreCandidates ==
  ASSUME NEW x
  PROVE  /\ Candidates(x) \in SUBSET BSSIDs
         /\ Secure(x) \in SUBSET Candidates(x)
         /\ Acceptable(x) \in SUBSET Secure(x)
  BY DEF Candidates, Secure, Acceptable

(* The loop over the candidates, whichever station it stops at. *)
LEMMA ConnectSomethingType ==
  ASSUME NEW x \in Daemon
  PROVE  connect_to_something(x) \in Daemon
  <1> DEFINE A == Acceptable(x)
             C == Candidates(x)
             N == Secure(x)
             better == {c \in C : Beats(c, Best(A))}
             named == IF N = {} THEN x ELSE set_current_ap(x, Last(N))
             failed == PassBy(set_current_ap(named, Last(C)), C)
  <1>1. C \in SUBSET BSSIDs /\ A \in SUBSET BSSIDs /\ N \in SUBSET BSSIDs
    BY AcceptableAreCandidates
  <1> HIDE DEF A, C, N
  <1>2. CASE A # {}
    <2>1. Best(A) \in BSSIDs
      BY <1>1, <1>2, BestInSet
    <2>2. set_current_ap(PassBy(x, better), Best(A)) \in Daemon
      BY <2>1, PassByType, SetCurrentType
    <2> QED
      BY <1>2, <2>2, StartConnectionType DEF connect_to_something, A, C
  <1>3. CASE A = {} /\ C # {}
    <2>1. Last(C) \in BSSIDs
      BY <1>1, <1>3, BestInSet
    <2>n. named \in Daemon
      BY <1>1, BestInSet, SetCurrentType
    <2> HIDE DEF named
    <2>2. failed \in Daemon
      BY <2>1, <2>n, PassByType, SetCurrentType
    <2> HIDE DEF failed
    <2>3. [failed EXCEPT !.psk = BadPsk] \in Daemon
      BY <2>2 DEF Daemon, Keys
    <2> QED
      BY <1>3, <2>2, <2>3 DEF connect_to_something, A, C, N, named, failed
  <1>4. CASE A = {} /\ C = {}
    BY <1>4 DEF connect_to_something, A, C
  <1> QED
    BY <1>2, <1>3, <1>4

(* Assigning opermode. *)
LEMMA OpermodeType ==
  ASSUME NEW x \in Daemon, NEW m \in OperModes
  PROVE  [x EXCEPT !.opermode = m] \in Daemon
  BY DEF Daemon

(* Assigning authstate. *)
LEMMA AuthstateType ==
  ASSUME NEW x \in Daemon, NEW m \in AuthStates
  PROVE  [x EXCEPT !.authstate = m] \in Daemon
  BY DEF Daemon

(* reassess_wifi_situation in each of its modes. *)
LEMMA ReassessType ==
  ASSUME NEW x \in Daemon
  PROVE  reassess_wifi_situation(x) \in Daemon
  <1> DEFINE e == connect_to_something(x)
  <1>1. e \in Daemon
    BY ConnectSomethingType
  <1> HIDE DEF e
  <1> DEFINE f == report(e, "NO_CONNECT")
  <1>2. f \in Daemon
    BY <1>1, ReportType DEF Reports
  <1> HIDE DEF f
  <1>3. snap_to_neutral(f) \in Daemon
    BY <1>2, ResetStationType, OpermodeType DEF snap_to_neutral, OperModes
  <1>4. idle_then_rescan(f) \in Daemon
    BY <1>2, TimerType DEF idle_then_rescan
  <1> QED
    BY <1>1, <1>3, <1>4 DEF reassess_wifi_situation, e, f

(* A connection attempt that timed out. *)
LEMMA AbortType ==
  ASSUME NEW x \in Daemon
  PROVE  abort_connection(x) \in Daemon
  BY TriggersType, ReassessType DEF abort_connection

(* EXCEPT leaves cfg alone when there is no such SSID. *)
LEMMA SavePskType ==
  ASSUME NEW x \in Daemon, NEW s, NEW k \in Keys
  PROVE  save_psk(x, s, k) \in Daemon
  <1>1. [x.cfg EXCEPT ![s] = k] \in [SSIDs -> Keys]
    BY DEF Daemon
  <1> QED
    BY <1>1 DEF save_psk, Daemon

(* The end of a handshake: mode, flags, saved key, report. *)
LEMMA HandleConnectType ==
  ASSUME NEW x \in Daemon
  PROVE  handle_connect(x) \in Daemon
  <1> DEFINE found == find_current_ap(x)
             m == IF x.opermode \in {"RESCAN", "ONESHOT"}
                  THEN "ACTIVE" ELSE x.opermode
             g == [b \in BSSIDs |->
                     IF found /\ b = x.ap.bssid
                     THEN (x.scans[b] \ {"TRIED"})
                            \cup (IF x.ap.unsaved THEN {"PASS"} ELSE {})
                     ELSE x.scans[b]]
             a == [x.ap EXCEPT !.success = TRUE, !.fixed = TRUE,
                               !.unsaved = FALSE]
             y == [x EXCEPT !.ap = a, !.opermode = m, !.scans = g]
             e == [x EXCEPT !.ap.success = TRUE, !.ap.fixed = TRUE,
                            !.opermode = m, !.scans = g,
                            !.ap.unsaved = FALSE]
  <1> HIDE DEF found
  <1>1. m \in OperModes
    BY DEF Daemon, OperModes
  <1>2. g \in [BSSIDs -> SUBSET ScanFlags]
    BY DEF Daemon, ScanFlags
  <1>3. a \in Ap
    BY DEF Daemon, Ap
  <1>4. x.psk \in Keys
    BY DEF Daemon
  <1> HIDE DEF m, g, a
  <1>5. y \in Daemon
    BY <1>1, <1>2, <1>3 DEF Daemon
  <1>6. y = e
    BY DEF Daemon, a
  <1>7. set_timer(e) \in Daemon
    BY <1>5, <1>6, TimerType
  <1> HIDE DEF e, y
  <1>8. save_psk(set_timer(e), x.ap.ssid, x.psk) \in Daemon
    BY <1>4, <1>7, SavePskType
  <1>9. ASSUME NEW y2 \in Daemon PROVE report(y2, "CONNECTED") \in Daemon
    BY ReportType DEF Reports
  <1> QED
    BY <1>7, <1>8, <1>9 DEF handle_connect, e, m, g, found

(* The counters of a rescan stay natural numbers. *)
LEMMA RescanCurrentType ==
  ASSUME NEW x \in Daemon
  PROVE  rescan_current_ap(x) \in Daemon
  <1>0. x.ap \in Ap
    BY DEF Daemon
  <1>1. [x.ap EXCEPT !.success = FALSE] \in Ap
    BY <1>0 DEF Ap
  <1>2. x.ap.freq \in Int
    BY <1>0 DEF Ap
  <1>3. [x EXCEPT !.ap.success = FALSE, !.opermode = "RESCAN"] \in Daemon
    BY <1>1 DEF Daemon, OperModes
  <1> QED
    BY <1>2, <1>3, StartScanType DEF rescan_current_ap

(* A rescan given up goes back to OP_ACTIVE. *)
LEMMA EndRescanType ==
  ASSUME NEW x \in Daemon
  PROVE  end_rescan(x) \in Daemon
  <1>1. (IF x.opermode = "RESCAN" THEN "ACTIVE" ELSE x.opermode) \in OperModes
    BY DEF Daemon, OperModes
  <1> QED
    BY <1>1, OpermodeType DEF end_rescan

(* The lost station was found again. *)
LEMMA ReconnectType ==
  ASSUME NEW x \in Daemon
  PROVE  reconnect_to_current_ap(x) \in Daemon
  BY EndRescanType, StartConnectionType, ReassessType
     DEF reconnect_to_current_ap

(* The lost station was not found. *)
LEMMA TryOtherType ==
  ASSUME NEW x \in Daemon
  PROVE  try_some_other_ap(x) \in Daemon
  BY ClearApType, ResetStationType, ReassessType DEF try_some_other_ap

(* Flags given to the slots a scan has found. *)
LEMMA NewResultsType ==
  ASSUME NEW x \in Daemon
  PROVE  check_new_scan_results(x) \in Daemon
  <1>1. [b \in BSSIDs |->
           IF Has(x, b, "USED") /\ ~Has(x, b, "SEEN")
           THEN x.scans[b] \cup {"SEEN"}
                  \cup (IF check_wpa(x, b) THEN {"GOOD"} ELSE {})
                  \cup (IF check_wpa(x, b) /\ got_psk_for(x, SsidOf(x, b))
                        THEN {"PASS"} ELSE {})
           ELSE x.scans[b]] \in [BSSIDs -> SUBSET ScanFlags]
    BY DEF Daemon, ScanFlags
  <1> QED
    BY <1>1, ScansType DEF check_new_scan_results

(* The end of a link, in each of the modes. *)
LEMMA HandleDisconnectType ==
  ASSUME NEW x \in Daemon
  PROVE  handle_disconnect(x) \in Daemon
  <1> DEFINE e == clr_timer(x)
             f == end_rescan(report(e, "DISCONNECT"))
  <1>1. e \in Daemon /\ f \in Daemon
    BY TimerType, ReportType, EndRescanType DEF Reports
  <1> HIDE DEF e, f
  <1>2. [e EXCEPT !.opermode = "EXIT"] \in Daemon
    BY <1>1, OpermodeType DEF OperModes
  <1>3. rescan_current_ap(f) \in Daemon /\ try_some_other_ap(f) \in Daemon
    BY <1>1, RescanCurrentType, TryOtherType
  <1>4. report(reset_station(f), "NO_CONNECT") \in Daemon
    BY <1>1, ResetStationType, ReportType DEF Reports
  <1>5. x.opermode \in OperModes
    BY DEF Daemon
  <1> QED
    BY <1>2, <1>3, <1>4, <1>5 DEF handle_disconnect, e, f, OperModes

(* The radio is back. *)
LEMMA RfRestoredType ==
  ASSUME NEW x \in Daemon
  PROVE  handle_rfrestored(x) \in Daemon
  <1>1. [x EXCEPT !.authstate = "IDLE"] \in Daemon
    BY AuthstateType DEF AuthStates
  <1> QED
    BY <1>1, RescanCurrentType, ReassessType DEF handle_rfrestored

(* Scans started by the timer. *)
LEMMA RoutineScanType ==
  ASSUME NEW x \in Daemon
  PROVE  routine_bg_scan(x) \in Daemon /\ routine_fg_scan(x) \in Daemon
  <1>1. routine_bg_scan(x) \in Daemon
    BY VoidFullScanType, TimerType DEF routine_bg_scan
  <1> DEFINE n == x.ap.rescans + 1
             e == set_timer(x)
             q == IF n % RescanCycle # 0 THEN x.ap.freq ELSE -1
             f == start_scan(e, q)
  <1>2. n \in Nat /\ q \in Int
    BY DEF Daemon, Ap
  <1>3. e \in Daemon
    BY TimerType
  <1> HIDE DEF n, e, q
  <1>4. f \in Daemon
    BY <1>2, <1>3, StartScanType
  <1> HIDE DEF f
  <1>5. /\ [f.ap EXCEPT !.freq = 0, !.rescans = 0] \in Ap
        /\ [f.ap EXCEPT !.rescans = n] \in Ap
    BY <1>2, <1>4 DEF Daemon, Ap
  <1>6. /\ [f EXCEPT !.ap.freq = 0, !.ap.rescans = 0] \in Daemon
        /\ [f EXCEPT !.ap.rescans = n] \in Daemon
    BY <1>4, <1>5 DEF Daemon
  <1>7. start_void_scan(e) \in Daemon /\ start_full_scan(e) \in Daemon
    BY <1>3, VoidFullScanType
  <1>8. routine_fg_scan(x) \in Daemon
    BY <1>6, <1>7 DEF routine_fg_scan, n, e, q, f
  <1> QED
    BY <1>1, <1>8

-----------------------------------------------------------------------------
(* wsupp_eapol.c *)

(* Assigning eapolstate. *)
LEMMA EapolStateType ==
  ASSUME NEW x \in Daemon, NEW es \in EapolStates
  PROVE  [x EXCEPT !.eapolstate = es] \in Daemon
  BY DEF Daemon

(* The handshake is cleared or made ready. *)
LEMMA EapolResetType ==
  ASSUME NEW x \in Daemon
  PROVE  reset_eapol_state(x) \in Daemon /\ prime_eapol_state(x) \in Daemon
  BY DEF reset_eapol_state, prime_eapol_state, Daemon, Keys, EapolStates

(* Recording the frame that was sent. *)
LEMMA SendPacketType ==
  ASSUME NEW x \in Daemon, NEW f \in EapolSent
  PROVE  send_packet(x, f) \in Daemon
  BY DEF send_packet, Daemon

(* Messages 2/4, 4/4 and 2/2, sent or not. *)
LEMMA SendPacketsType ==
  ASSUME NEW x \in Daemon, NEW ok \in BOOLEAN
  PROVE  /\ send_packet_2(x, ok) \in Daemon
         /\ send_packet_4(x, ok) \in Daemon
         /\ send_group_2(x, ok) \in Daemon
  <1>1. /\ send_packet(x, "P2") \in Daemon
        /\ send_packet(x, "P4") \in Daemon
        /\ send_packet(x, "G2") \in Daemon
    BY SendPacketType DEF EapolSent
  <1>2. /\ [send_packet(x, "P2") EXCEPT !.eapolstate = "WAITING_3_4"] \in Daemon
        /\ [send_packet(x, "P4") EXCEPT !.eapolstate = "NEGOTIATED"] \in Daemon
    BY <1>1, EapolStateType DEF EapolStates
  <1>3. send_packet_2(x, ok) \in Daemon
    BY <1>2, AbortType DEF send_packet_2
  <1>4. send_packet_4(x, ok) \in Daemon
    BY <1>2, UploadType, HandleConnectType, AbortType DEF send_packet_4
  <1>5. send_group_2(x, ok) \in Daemon
    BY <1>1, UploadType, AbortType DEF send_group_2
  <1> QED
    BY <1>3, <1>4, <1>5

(* A message 1/4 that came before the association is answered. *)
LEMMA AllowSendsType ==
  ASSUME NEW x \in Daemon, NEW ok \in BOOLEAN
  PROVE  allow_eapol_sends(x, ok) \in Daemon
  <1>1. [x EXCEPT !.eapolsends = TRUE] \in Daemon
    BY DEF Daemon
  <1> QED
    BY <1>1, SendPacketsType DEF allow_eapol_sends

(* Any frame, in any state of the handshake. *)
LEMMA HandleRawsockType ==
  ASSUME NEW x \in Daemon, NEW m \in Frames, NEW ok \in BOOLEAN
  PROVE  handle_rawsock(x, m, ok) \in Daemon
  <1>1. pmk_to_ptk(x, m) \in Daemon
    BY DEF pmk_to_ptk, Daemon, Keys
  <1>2. [pmk_to_ptk(x, m) EXCEPT !.eapolstate = "WAITING_2_4"] \in Daemon
    BY <1>1, EapolStateType DEF EapolStates
  <1>3. recv_packet_1(x, m, ok) \in Daemon
    BY <1>1, <1>2, SendPacketsType DEF recv_packet_1
  <1>4. recv_packet_3(x, m, ok) \in Daemon
    BY SendPacketsType, AbortType DEF recv_packet_3
  <1>5. recv_group_1(x, m, ok) \in Daemon
    BY SendPacketsType DEF recv_group_1
  <1>6. x.eapolstate \in EapolStates
    BY DEF Daemon
  <1> QED
    BY <1>3, <1>4, <1>5, <1>6 DEF handle_rawsock, EapolStates

-----------------------------------------------------------------------------
(* wsupp_netlink.c: events and errors *)

(* Marking and dropping of slots. *)
LEMMA StaleType ==
  ASSUME NEW x \in Daemon, NEW f \in Int
  PROVE  /\ mark_stale_scan_slots(x, f) \in Daemon
         /\ drop_stale_scan_slots(x) \in Daemon
  <1>1. [b \in BSSIDs |->
           IF Has(x, b, "USED") /\ (f > 0 => Freq[b] = f)
           THEN x.scans[b] \cup {"STALE"} ELSE x.scans[b]]
             \in [BSSIDs -> SUBSET ScanFlags]
    BY DEF Daemon, ScanFlags
  <1> DEFINE h == [b \in BSSIDs |-> IF "STALE" \in x.scans[b] THEN {}
                                    ELSE x.scans[b]]
             g == [b \in BSSIDs |-> IF Has(x, b, "STALE") THEN NoLook
                                    ELSE x.looks[b]]
  <1>2. h \in [BSSIDs -> SUBSET ScanFlags] /\ g \in [BSSIDs -> Looks]
    BY DEF Daemon, Looks, NoLook, Types
  <1> HIDE DEF h, g
  <1>3. [x EXCEPT !.scans = h, !.looks = g] \in Daemon
    BY <1>2 DEF Daemon
  <1> QED
    BY <1>1, <1>3, ScansType
       DEF mark_stale_scan_slots, drop_stale_scan_slots, h, g

(* A dump message fills slots. *)
LEMMA ScanResultType ==
  ASSUME NEW x \in Daemon, NEW dump \in Dumps
  PROVE  parse_scan_result(x, dump) \in Daemon
  <1> DEFINE S == DOMAIN dump
             f == [b \in BSSIDs |-> IF b \in S
                                    THEN (x.scans[b] \ {"STALE"}) \cup {"USED"}
                                    ELSE x.scans[b]]
             g == [b \in BSSIDs |-> IF b \in S THEN dump[b] ELSE x.looks[b]]
  <1>1. dump \in [S -> Looks]
    BY DEF Dumps
  <1> HIDE DEF S
  <1>2. f \in [BSSIDs -> SUBSET ScanFlags] /\ g \in [BSSIDs -> Looks]
    BY <1>1 DEF Daemon, ScanFlags
  <1> HIDE DEF f, g
  <1>3. [x EXCEPT !.scans = f, !.looks = g] \in Daemon
    BY <1>2 DEF Daemon
  <1> QED
    BY <1>3 DEF parse_scan_result, f, g, S

(* Messages about scans. *)
LEMMA ScanEventsType ==
  ASSUME NEW x \in Daemon, NEW m \in Messages
  PROVE  /\ cmd_trigger_scan(x, m) \in Daemon
         /\ cmd_scan_results(x, m) \in Daemon
         /\ cmd_scan_aborted(x) \in Daemon
         /\ genl_done(x) \in Daemon
  <1>1. m.freq \in Int
    BY DEF Messages
  <1>2. cmd_trigger_scan(x, m) \in Daemon
    BY <1>1, StaleType, ReportType DEF cmd_trigger_scan, Reports
  <1>3. cmd_scan_results(x, m) \in Daemon
    BY ScanResultType, ScanDumpType DEF cmd_scan_results, Messages
  <1>4. cmd_scan_aborted(x) \in Daemon
    BY ResetScanType, ReportType DEF cmd_scan_aborted, Reports
  <1>5. report(check_new_scan_results(drop_stale_scan_slots(
                 reset_scan_state(x))), "SCAN_DONE") \in Daemon
    BY ResetScanType, StaleType, NewResultsType, ReportType DEF Reports
  <1>6. genl_done(x) \in Daemon
    BY <1>5, ReconnectType, ReassessType DEF genl_done
  <1> QED
    BY <1>2, <1>3, <1>4, <1>6

(* Another supplicant has taken the card. *)
LEMMA DisabledType ==
  ASSUME NEW x \in Daemon
  PROVE  snap_to_disabled(x) \in Daemon
  <1>1. [x EXCEPT !.opermode = "NEUTRAL", !.authstate = "EXTERNAL"] \in Daemon
    BY DEF Daemon, OperModes, AuthStates
  <1> QED
    BY <1>1, EapolResetType, HandleDisconnectType DEF snap_to_disabled

(* Messages about the connection. *)
LEMMA AuthEventsType ==
  ASSUME NEW x \in Daemon, NEW ok \in BOOLEAN
  PROVE  /\ cmd_authenticate(x) \in Daemon
         /\ cmd_associate(x, ok) \in Daemon
         /\ cmd_connect(x) \in Daemon
         /\ cmd_disconnect(x) \in Daemon
  <1>1. cmd_authenticate(x) \in Daemon
    BY DisabledType, EapolResetType, TriggersType DEF cmd_authenticate
  <1>2. [allow_eapol_sends(x, ok) EXCEPT !.authstate = "CONNECTING"] \in Daemon
    BY AllowSendsType, AuthstateType DEF AuthStates
  <1>3. cmd_associate(x, ok) \in Daemon
    BY <1>2, DisabledType DEF cmd_associate
  <1> DEFINE e == IF x.authstate = "CONNECTING" THEN x ELSE snap_to_disabled(x)
  <1>4. e \in Daemon
    BY DisabledType
  <1> HIDE DEF e
  <1>5. [e EXCEPT !.authstate = "CONNECTED"] \in Daemon
    BY <1>4, AuthstateType DEF AuthStates
  <1>6. cmd_connect(x) \in Daemon
    BY <1>5 DEF cmd_connect, e
  <1>7. [reset_eapol_state(x) EXCEPT !.authstate = "IDLE"] \in Daemon
    BY EapolResetType, AuthstateType DEF AuthStates
  <1>8. cmd_disconnect(x) \in Daemon
    BY <1>7, HandleDisconnectType DEF cmd_disconnect
  <1> QED
    BY <1>1, <1>3, <1>6, <1>8

(* An error, for each of the commands that can cause it. *)
LEMMA GenlErrorType ==
  ASSUME NEW x \in Daemon, NEW m \in Messages
  PROVE  genl_error(x, m) \in Daemon
  <1>0. x.ap \in Ap
    BY DEF Daemon
  <1>1. x.ap.freq \in Int
    BY <1>0 DEF Ap
  <1> DEFINE y == report(reset_scan_state(x), "NET_DOWN")
  <1>2. y \in Daemon /\ handle_scan_error(x) \in Daemon
    BY ResetScanType, ReportType DEF handle_scan_error, Reports
  <1> HIDE DEF y
  <1>3. /\ [y EXCEPT !.authstate = "IDLE"] \in Daemon
        /\ [y EXCEPT !.authstate = "NETDOWN"] \in Daemon
        /\ [x EXCEPT !.authstate = "IDLE"] \in Daemon
    BY <1>2, AuthstateType DEF AuthStates
  <1>4. snap_to_netdown(x) \in Daemon
    BY <1>3, TimerType DEF snap_to_netdown, y
  <1>5. handle_auth_error(x, m.err) \in Daemon
    BY <1>1, <1>3, ReassessType, StartScanType, AbortType
       DEF handle_auth_error
  <1> QED
    BY <1>2, <1>4, <1>5 DEF genl_error

(* Whatever message arrives, the dispatcher has a case for it. *)
LEMMA HandleNetlinkType ==
  ASSUME NEW x \in Daemon, NEW m \in Messages, NEW ok \in BOOLEAN
  PROVE  handle_netlink(x, m, ok) \in Daemon
  <1>1. m.type \in Events \cup {"MULTI", "DONE", "ERROR"}
    BY DEF Messages
  <1> QED
    BY <1>1, ScanEventsType, AuthEventsType, GenlErrorType
       DEF handle_netlink, Events

-----------------------------------------------------------------------------
(* The control socket, rfkill, the timer and signals *)

(* Commands of wifi(1) without a key. *)
LEMMA CommandsType ==
  ASSUME NEW x \in Daemon
  PROVE  /\ cmd_scan(x) \in Daemon
         /\ cmd_neutral(x) \in Daemon
         /\ \A s \in SSIDs : cmd_forget(x, s) \in Daemon
  <1>1. cmd_scan(x) \in Daemon
    BY VoidFullScanType DEF cmd_scan
  <1>2. [x EXCEPT !.opermode = "NEUTRAL"] \in Daemon
    BY OpermodeType DEF OperModes
  <1>3. cmd_neutral(x) \in Daemon
    BY <1>2, StartConnectionType, TimerType DEF cmd_neutral
  <1>4. ASSUME NEW s \in SSIDs PROVE cmd_forget(x, s) \in Daemon
    <2> DEFINE y == drop_psk(x, s)
    <2>1. y \in Daemon
      <3>1. [x.cfg EXCEPT ![s] = NoPsk] \in [SSIDs -> Keys]
        BY DEF Daemon, Keys
      <3> QED
        BY <3>1 DEF drop_psk, Daemon
    <2> HIDE DEF y
    <2>2. [b \in BSSIDs |-> IF SsidOf(x, b) = s THEN y.scans[b] \ {"PASS"}
                            ELSE y.scans[b]] \in [BSSIDs -> SUBSET ScanFlags]
      BY <2>1 DEF Daemon
    <2> QED
      BY <2>1, <2>2, ScansType DEF cmd_forget, y
  <1> QED
    BY <1>1, <1>3, <1>4

(* wifi connect, with and without network and key. *)
LEMMA CtlConnectType ==
  ASSUME NEW x \in Daemon, NEW s \in SSIDs \cup {NoSsid}, NEW k \in Keys
  PROVE  ctl_connect(x, s, k) \in Daemon
  <1> DEFINE e == configure_station(x, s, k)
  <1>1. e \in Daemon
    BY ResetStationType, SetFixedSavedType, SetFixedGivenType
       DEF configure_station
  <1> HIDE DEF e
  <1>2. clr_timer([e EXCEPT !.opermode = "ONESHOT"]) \in Daemon
    BY <1>1, OpermodeType, TimerType DEF OperModes
  <1> QED
    BY <1>1, <1>2, ReassessType DEF ctl_connect, e

(* The switch, and a failure to bring the interface up. *)
LEMMA RfkillType ==
  ASSUME NEW x \in Daemon, NEW blocked \in BOOLEAN, NEW up \in BOOLEAN
  PROVE  rfkill_event(x, blocked, up) \in Daemon
  <1>1. /\ [x EXCEPT !.rfkilled = TRUE] \in Daemon
        /\ [x EXCEPT !.rfkilled = FALSE] \in Daemon
    BY DEF Daemon
  <1> QED
    BY <1>1, TimerType, QuitType, RfRestoredType DEF rfkill_event

(* A timeout in each of the states that can have one. *)
LEMMA TimerExpiredType ==
  ASSUME NEW x \in Daemon
  PROVE  timer_expired(x) \in Daemon
  <1> DEFINE e == clr_timer(x)
  <1>1. e \in Daemon
    BY TimerType
  <1> HIDE DEF e
  <1>2. /\ [e EXCEPT !.authstate = "IDLE"] \in Daemon
        /\ [e EXCEPT !.opermode = "EXIT"] \in Daemon
    BY <1>1, AuthstateType, OpermodeType DEF AuthStates, OperModes
  <1> QED
    BY <1>1, <1>2, RoutineScanType, AbortType DEF timer_expired, e

(* SIGTERM, with and without a connection. *)
LEMMA ShutdownType ==
  ASSUME NEW x \in Daemon
  PROVE  xshutdown(x) \in Daemon
  BY QuitType, StartConnectionType, OpermodeType DEF xshutdown, OperModes

(* The globals before main() has read a file. *)
LEMMA ZeroedType ==
  ASSUME NEW cfg \in [SSIDs -> Keys]
  PROVE  Zeroed(cfg) \in Daemon
  BY DEF Zeroed, Looks, NoLook, Types, Daemon, Ap, Keys, OperModes, AuthStates, ScanStates,
         EapolStates, EapolSent, Reports

(* The state main() enters the loop with. *)
LEMMA StartedType ==
  ASSUME NEW cfg \in [SSIDs -> Keys], NEW s \in SSIDs \cup {NoSsid}
  PROVE  Started(cfg, s) \in Daemon
  <1>1. Zeroed(cfg) \in Daemon
    BY ZeroedType
  <1>2. load_state(Zeroed(cfg), s) \in Daemon
    BY <1>1, SetFixedSavedType, OpermodeType DEF load_state, OperModes
  <1> QED
    BY <1>2, RoutineScanType DEF Started

-----------------------------------------------------------------------------
(* The composition with the card, the AP and the user. *)

(* The AP at the other end of a connection attempt is a station, and it is *)
(* attempted for a network: frames have a sender and a key.  TypeOK is     *)
(* inductive only together with this.                                      *)
Peered(c) ==
  c.link \notin {"NONE", "FOREIGN"} => c.peer \in BSSIDs /\ c.net \in SSIDs

PeerKnown == Peered(card)

TypeInv == TypeOK /\ PeerKnown

-----------------------------------------------------------------------------
(* A message stays a message when scanseq moves on. *)
LEMMA ResequencedType ==
  ASSUME NEW q \in Seq(Messages), NEW e
  PROVE  Resequenced(q, e) \in Seq(Messages)
  <1>1. ASSUME NEW i \in DOMAIN q
        PROVE  [q[i] EXCEPT !.seq = "OTHER"] \in Messages
    <2>1. q[i] \in Messages
      BY <1>1
    <2> QED
      BY <2>1 DEF Messages
  <1>2. DOMAIN q = 1 .. Len(q) /\ Len(q) \in Nat
    OBVIOUS
  <1>3. [i \in 1 .. Len(q) |-> [q[i] EXCEPT !.seq = "OTHER"]] \in Seq(Messages)
    BY <1>1, <1>2, SeqDef
  <1> QED
    BY <1>2, <1>3 DEF Resequenced

(* Frames of a past association are frames. *)
LEMMA OutdatedType ==
  ASSUME NEW q \in Seq(Frames)
  PROVE  Outdated(q) \in Seq(Frames)
  <1>1. ASSUME NEW i \in DOMAIN q
        PROVE  [q[i] EXCEPT !.cur = FALSE] \in Frames
    <2>1. q[i] \in Frames
      BY <1>1
    <2> QED
      BY <2>1 DEF Frames
  <1>2. DOMAIN q = 1 .. Len(q) /\ Len(q) \in Nat
    OBVIOUS
  <1>3. [i \in 1 .. Len(q) |-> [q[i] EXCEPT !.cur = FALSE]] \in Seq(Frames)
    BY <1>1, <1>2, SeqDef
  <1> QED
    BY <1>2, <1>3 DEF Outdated

(* Every message the card makes is one the daemon knows. *)
LEMMA EventType ==
  ASSUME NEW t \in Events \cup {"MULTI", "DONE", "ERROR"}
  PROVE  Event(t) \in Messages /\ Failed(t) \in Messages
  <1>1. Nothing \in [{} -> Looks] /\ {} \in SUBSET BSSIDs
    BY DEF Nothing
  <1>2. Nothing \in Dumps
    BY <1>1 DEF Dumps
  <1>3. Event(t) \in Messages
    BY <1>2 DEF Event, Messages, Errors
  <1> QED
    BY <1>3 DEF Failed, Messages

(* Two messages at the end of the queue. *)
LEMMA TwoMessages ==
  ASSUME NEW q \in Seq(Messages), NEW m1 \in Messages, NEW m2 \in Messages
  PROVE  q \o << m1, m2 >> \in Seq(Messages)
  <1>1. << m1, m2 >> \in Seq(Messages)
    OBVIOUS
  <1> QED
    BY <1>1

(* What the AP makes of a frame changes the link and nothing else. *)
LEMMA ApHearsType ==
  ASSUME NEW c \in Card, NEW e,
         Peered(c)
  PROVE  ApHears(c, e) \in Card /\ Peered(ApHears(c, e))
  BY DEF ApHears, Card, Links, Associated, Peered

(* The step common to all handlers: the daemon is left with nothing in its *)
(* own tx, the commands go to the kernel, the frame to the AP.             *)
LEMMA BecomesType ==
  ASSUME NEW e \in Daemon, NEW c \in Card,
         Peered(c),
         NEW W \in SUBSET Clients,
         Leaves(e, c, W)
  PROVE  /\ d' \in Daemon /\ tx' \in Seq(Commands) /\ card' \in Card
         /\ PeerKnown' /\ wait' \in SUBSET Clients
  <1>1. <<>> \in Seq(Commands) /\ "NONE" \in EapolSent
    BY DEF EapolSent
  <1> DEFINE f == [e EXCEPT !.tx = <<>>, !.reseq = FALSE]
  <1>f. f \in Daemon
    BY <1>1 DEF Daemon
  <1>2. [e EXCEPT !.tx = <<>>, !.reseq = FALSE, !.sent = "NONE", !.rep = {}]
          \in Daemon
    <2>1. [f EXCEPT !.sent = "NONE", !.rep = {}] \in Daemon
      BY <1>1, <1>f DEF Daemon
    <2>2. [f EXCEPT !.sent = "NONE", !.rep = {}]
            = [e EXCEPT !.tx = <<>>, !.reseq = FALSE, !.sent = "NONE",
                        !.rep = {}]
      BY DEF Daemon
    <2> QED
      BY <2>1, <2>2
  <1>3. e.tx \in Seq(Commands)
    BY DEF Daemon
  <1> QED
    BY <1>2, <1>3, ApHearsType DEF Leaves, PeerKnown, Waiting

(* main() enters the loop in a legal state. *)
LEMMA InitType == Init => TypeInv
  <1> SUFFICES ASSUME Init PROVE TypeInv
    OBVIOUS
  <1> PICK cfg \in InitCfg, s \in InitState :
        /\ d = [Started(cfg, s) EXCEPT !.tx = <<>>, !.reseq = FALSE]
        /\ wait = {}
        /\ tx = Started(cfg, s).tx
        /\ nlq = <<>> /\ rawq = <<>> /\ rfq = <<>>
        /\ card = [up |-> TRUE, blocked |-> FALSE, scanning |-> FALSE,
                   link |-> "NONE", peer |-> NoBssid, net |-> NoSsid,
                   failed |-> "NO"]
        /\ left = MaxEvents
        /\ others = Externals
    BY DEF Init
  <1>1. Started(cfg, s) \in Daemon
    BY EnvAssumption, StartedType
  <1>2. <<>> \in Seq(Commands)
    OBVIOUS
  <1>3. d \in Daemon
    BY <1>1, <1>2 DEF Daemon
  <1>4. tx \in Seq(Commands)
    BY <1>1 DEF Daemon
  <1>5. card \in Card /\ PeerKnown
    BY DEF Card, Links, PeerKnown, Peered
  <1>6. nlq \in Seq(Messages) /\ rawq \in Seq(Frames) /\ rfq \in Seq(BOOLEAN)
    OBVIOUS
  <1>7. left \in 0..MaxEvents /\ others \in 0..Externals
          /\ wait \in SUBSET Clients
    BY EnvAssumption
  <1> QED
    BY <1>3, <1>4, <1>5, <1>6, <1>7 DEF TypeInv, TypeOK

(* No handler, no answer of the card and no fault leaves the ranges. *)
LEMMA NextType == TypeInv /\ [Next]_vars => TypeInv'
  <1> SUFFICES ASSUME TypeInv, [Next]_vars PROVE TypeInv'
    OBVIOUS
  <1> USE DEF TypeInv, TypeOK
  <1>1. CASE HandleNetlink
    <2> PICK ok \in BOOLEAN :
          /\ SendOutcome(ok, handle_netlink(d, Head(nlq), TRUE))
          /\ Becomes(handle_netlink(d, Head(nlq), ok), card)
          /\ nlq' = Resequenced(Tail(nlq), handle_netlink(d, Head(nlq), ok))
      BY <1>1 DEF HandleNetlink
    <2>1. Head(nlq) \in Messages /\ Tail(nlq) \in Seq(Messages)
      BY <1>1 DEF HandleNetlink
    <2>2. handle_netlink(d, Head(nlq), ok) \in Daemon
      BY <2>1, HandleNetlinkType
    <2>3. d' \in Daemon /\ tx' \in Seq(Commands) /\ card' \in Card /\ PeerKnown'
            /\ wait' \in SUBSET Clients
      BY <2>2, BecomesType DEF PeerKnown, Becomes
    <2>4. nlq' \in Seq(Messages)
      BY <2>1, ResequencedType
    <2>5. left' \in 0..MaxEvents
      BY EnvAssumption DEF SendOutcome
    <2> QED
      BY <1>1, <2>3, <2>4, <2>5 DEF HandleNetlink
  <1>2. CASE HandleRawsock
    <2> PICK ok \in BOOLEAN :
          /\ SendOutcome(ok, handle_rawsock(d, Head(rawq), TRUE))
          /\ Becomes(handle_rawsock(d, Head(rawq), ok), card)
          /\ nlq' = Resequenced(nlq, handle_rawsock(d, Head(rawq), ok))
      BY <1>2 DEF HandleRawsock
    <2>1. Head(rawq) \in Frames /\ rawq' \in Seq(Frames)
      BY <1>2 DEF HandleRawsock
    <2>2. handle_rawsock(d, Head(rawq), ok) \in Daemon
      BY <2>1, HandleRawsockType
    <2>3. d' \in Daemon /\ tx' \in Seq(Commands) /\ card' \in Card /\ PeerKnown'
            /\ wait' \in SUBSET Clients
      BY <2>2, BecomesType DEF PeerKnown, Becomes
    <2>4. nlq' \in Seq(Messages)
      BY ResequencedType
    <2>5. left' \in 0..MaxEvents
      BY EnvAssumption DEF SendOutcome
    <2> QED
      BY <1>2, <2>1, <2>3, <2>4, <2>5 DEF HandleRawsock
  <1>3. CASE HandleRfkill
    <2> DEFINE up == card.up \/ ~card.blocked
               e == rfkill_event(d, Head(rfq), up)
               c == IF Head(rfq) \/ ~up THEN card ELSE [card EXCEPT !.up = TRUE]
    <2>0. rfq # <<>> /\ rfq' = Tail(rfq)
      BY <1>3 DEF HandleRfkill
    <2>1. Head(rfq) \in BOOLEAN /\ rfq' \in Seq(BOOLEAN)
      BY <2>0, HeadTailProperties
    <2>2. up \in BOOLEAN
      OBVIOUS
    <2>3. c \in Card /\ Peered(c)
      <3>1. /\ [card EXCEPT !.up = TRUE] \in Card
            /\ [card EXCEPT !.up = TRUE].link = card.link
            /\ [card EXCEPT !.up = TRUE].peer = card.peer
            /\ [card EXCEPT !.up = TRUE].net = card.net
        BY DEF Card
      <3>2. c = card \/ c = [card EXCEPT !.up = TRUE]
        OBVIOUS
      <3> QED
        BY <3>1, <3>2 DEF PeerKnown, Peered
    <2>4. Becomes(e, c) /\ nlq' = Resequenced(nlq, e)
      BY <1>3 DEF HandleRfkill
    <2> HIDE DEF up, c
    <2>5. e \in Daemon
      BY <2>1, <2>2, RfkillType
    <2> HIDE DEF e
    <2>6. d' \in Daemon /\ tx' \in Seq(Commands) /\ card' \in Card /\ PeerKnown'
            /\ wait' \in SUBSET Clients
      BY <2>3, <2>4, <2>5, BecomesType DEF Becomes
    <2>7. nlq' \in Seq(Messages)
      BY <2>4, ResequencedType
    <2> QED
      BY <1>3, <2>1, <2>6, <2>7 DEF HandleRfkill
  <1>4. CASE TimerExpired
    <2>1. d' \in Daemon /\ tx' \in Seq(Commands) /\ card' \in Card /\ PeerKnown'
            /\ wait' \in SUBSET Clients
      BY <1>4, TimerExpiredType, BecomesType
         DEF TimerExpired, PeerKnown, Becomes
    <2> QED
      BY <1>4, <2>1 DEF TimerExpired
  <1>10. CASE LeaveLoop
    <2>1. d' \in Daemon
      BY <1>10 DEF LeaveLoop, Daemon, OperModes
    <2> QED
      BY <1>10, <2>1 DEF LeaveLoop, PeerKnown
  <1>5. CASE UserStep
    <2>1. ASSUME NEW e \in Daemon, NEW w \in SUBSET Clients, Request(e, w),
                 left' \in 0..MaxEvents
          PROVE  TypeInv'
      <3>1. d' \in Daemon /\ tx' \in Seq(Commands) /\ card' \in Card
              /\ PeerKnown' /\ wait' \in SUBSET Clients
        BY <2>1, BecomesType DEF Request, PeerKnown
      <3>2. nlq' \in Seq(Messages)
        BY <2>1, ResequencedType DEF Request
      <3> QED
        BY <2>1, <3>1, <3>2 DEF Request
    <2>2. left' \in 0..MaxEvents
      BY <1>5, EnvAssumption DEF UserStep, UserScan, UserNeutral, UserConnect,
           UserForget, Sigterm, Spend
    <2> QED
      BY <1>5, <2>1, <2>2, CommandsType, CtlConnectType, ShutdownType
         DEF UserStep, UserScan, UserNeutral, UserConnect, UserForget, Sigterm,
             Clients
  <1>6. CASE CardStep
    <2>0. ASSUME NEW m \in Messages, nlq' = Append(nlq, m)
          PROVE  nlq' \in Seq(Messages)
      BY <2>0
    <2>t. ASSUME tx # <<>> PROVE Head(tx) \in Commands /\ Tail(tx) \in Seq(Commands)
      BY <2>t
    <2>1. CASE CardScan
      <3>1. [Event("TRIGGER_SCAN") EXCEPT !.freq = Head(tx).freq] \in Messages
        <4>1. Event("TRIGGER_SCAN") \in Messages
          BY EventType DEF Events
        <4>2. Head(tx) \in Commands
          BY <2>1, <2>t DEF CardScan, Executes
        <4>3. Head(tx).freq \in Int
          BY <4>2 DEF Commands
        <4> QED
          BY <4>1, <4>3 DEF Messages
      <3>2. card' \in Card /\ PeerKnown'
        BY <2>1 DEF CardScan, Card, PeerKnown, Peered
      <3> QED
        BY <2>0, <2>1, <2>t, <3>1, <3>2 DEF CardScan, Executes
    <2>2. CASE CardDump
      <3> PICK S \in SUBSET BSSIDs : \E found \in [S -> Looks] :
            nlq' = nlq \o << [Event("MULTI") EXCEPT !.bss = found],
                             Event("DONE") >>
        BY <2>2 DEF CardDump
      <3> PICK found \in [S -> Looks] :
            nlq' = nlq \o << [Event("MULTI") EXCEPT !.bss = found],
                             Event("DONE") >>
        OBVIOUS
      <3>0. found \in Dumps
        BY DEF Dumps
      <3>1. Event("MULTI") \in Messages /\ Event("DONE") \in Messages
        BY EventType
      <3>2. [Event("MULTI") EXCEPT !.bss = found] \in Messages
        BY <3>0, <3>1 DEF Messages
      <3>3. nlq' \in Seq(Messages)
        BY <3>1, <3>2, TwoMessages
      <3> QED
        BY <2>2, <2>t, <3>3 DEF CardDump, Executes, PeerKnown, Peered
    <2>3. CASE CardAuth
      <3>1. card' \in Card /\ PeerKnown'
        BY <2>3 DEF CardAuth, Executes, Able, OnAir, Card, Links, PeerKnown,
                    Peered
      <3> QED
        BY <2>3, <2>t, <3>1 DEF CardAuth, Executes
    <2>4. CASE CardAssoc
      <3>1. card' \in Card /\ PeerKnown'
        BY <2>4 DEF CardAssoc, Executes, Able, OnAir, Card, Links, PeerKnown,
                    Peered
      <3> QED
        BY <2>4, <2>t, <3>1 DEF CardAssoc, Executes
    <2>5. CASE CardDisconnect
      <3>1. card' \in Card /\ PeerKnown'
        BY <2>5 DEF CardDisconnect, Unlinked, Card, Links, PeerKnown, Peered
      <3>2. Event("DISCONNECT") \in Messages
        BY EventType DEF Events
      <3> QED
        BY <2>0, <2>5, <2>t, <3>1, <3>2, OutdatedType
           DEF CardDisconnect, Executes
    <2>6. CASE CardKey
      BY <2>6, <2>t DEF CardKey, Executes, PeerKnown
    <2>7. CASE CardRefuse
      <3>1. ASSUME NEW err \in Errors, Fails(err) PROVE nlq' \in Seq(Messages)
        <4>1. Event("ERROR") \in Messages
          BY EventType
        <4> DEFINE sq == IF Head(tx).cmd \in ScanCommands
                         THEN "SCANSEQ" ELSE "OTHER"
        <4>2. sq \in {"SCANSEQ", "OTHER"}
          OBVIOUS
        <4> HIDE DEF sq
        <4>3. [Event("ERROR") EXCEPT !.err = err, !.seq = sq] \in Messages
          BY <4>1, <4>2 DEF Messages
        <4> QED
          BY <2>0, <3>1, <4>3 DEF Fails, sq
      <3>2. nlq' \in Seq(Messages)
        BY <2>7, <3>1 DEF CardRefuse, Errors
      <3>3. left' \in 0..MaxEvents
        BY <2>7, EnvAssumption DEF CardRefuse, Spend
      <3> QED
        BY <2>7, <2>t, <3>2, <3>3 DEF CardRefuse, PeerKnown
    <2> QED
      BY <1>6, <2>1, <2>2, <2>3, <2>4, <2>5, <2>6, <2>7 DEF CardStep
  <1>7. CASE AirStep
    <2>1. CASE ScanDone
      <3>1. card' \in Card /\ PeerKnown'
        BY <2>1 DEF ScanDone, Card, PeerKnown, Peered
      <3>2. nlq' \in Seq(Messages)
        <4>1. /\ Event("NEW_SCAN_RESULTS") \in Messages
              /\ Event("SCAN_ABORTED") \in Messages
          BY EventType DEF Events
        <4>2. \E m \in Messages : nlq' = Append(nlq, m)
          BY <2>1, <4>1 DEF ScanDone
        <4> QED
          BY <4>2
      <3>3. left' \in 0..MaxEvents
        <4>1. left' = left \/ (left > 0 /\ left' = left - 1)
          BY <2>1 DEF ScanDone, Spend
        <4> QED
          BY <4>1, EnvAssumption
      <3> QED
        BY <2>1, <3>1, <3>2, <3>3 DEF ScanDone, Silently
    <2>2. CASE AuthDone
      <3>1. card' \in Card /\ PeerKnown'
        BY <2>2 DEF AuthDone, Unlinked, Card, Links, PeerKnown, Peered
      <3>2. nlq' \in Seq(Messages)
        BY <2>2, EventType DEF AuthDone, Events
      <3>3. left' \in 0..MaxEvents
        BY <2>2, EnvAssumption DEF AuthDone, Spend
      <3> QED
        BY <2>2, <3>1, <3>2, <3>3 DEF AuthDone, Silently
    <2>3. CASE AssocDone
      <3>1. card' \in Card /\ PeerKnown'
        BY <2>3 DEF AssocDone, Unlinked, Card, Links, Associated, PeerKnown,
                    Peered
      <3>2. /\ Event("ASSOCIATE") \in Messages /\ Event("CONNECT") \in Messages
            /\ Failed("ASSOCIATE") \in Messages /\ Failed("CONNECT") \in Messages
        BY EventType DEF Events
      <3>a. nlq \o << Event("ASSOCIATE"), Event("CONNECT") >> \in Seq(Messages)
        BY <3>2, TwoMessages
      <3>b. nlq \o << Failed("ASSOCIATE"), Failed("CONNECT") >> \in Seq(Messages)
        BY <3>2, TwoMessages
      <3>c. Append(nlq, Failed("ASSOCIATE")) \in Seq(Messages)
        BY <3>2
      <3>3. nlq' \in Seq(Messages)
        BY <2>3, <3>a, <3>b, <3>c DEF AssocDone
      <3>4. left' \in 0..MaxEvents
        BY <2>3, EnvAssumption DEF AssocDone, Spend
      <3> QED
        BY <2>3, <3>1, <3>3, <3>4 DEF AssocDone, Silently
    <2>4. ASSUME NEW t \in {"M1", "M3", "G1"}, NEW from \in SUBSET Associated,
                 NEW to \in Associated, ApSend(t, from, to),
                 left' \in 0..MaxEvents
          PROVE  TypeInv'
      <3>1. card.peer \in BSSIDs /\ card.net \in SSIDs
        BY <2>4 DEF ApSend, Associated, PeerKnown, Peered
      <3>2. RightPsk[card.net] \in PSKs
        BY <3>1, EnvAssumption
      <3>3. Frame(t) \in Frames
        BY <3>1, <3>2 DEF Frame, Frames
      <3>4. card' \in Card /\ PeerKnown'
        BY <2>4, <3>1 DEF ApSend, Card, Links, PeerKnown, Peered
      <3> QED
        BY <2>4, <3>3, <3>4 DEF ApSend, Silently
    <2>5. CASE ApMessage1 \/ ApMessage3 \/ ApResend \/ ApRekey
      <3>1. left' \in 0..MaxEvents
        BY <2>5, EnvAssumption
           DEF ApMessage1, ApMessage3, ApResend, ApRekey, Spend
      <3> QED
        BY <2>4, <2>5, <3>1
           DEF ApMessage1, ApMessage3, ApResend, ApRekey, Associated
    <2>6. CASE LinkLost
      <3>1. card' \in Card /\ PeerKnown'
        BY <2>6 DEF LinkLost, Unlinked, Card, Links, PeerKnown, Peered
      <3>2. nlq' \in Seq(Messages)
        BY <2>6, EventType DEF LinkLost, Events
      <3>3. left' \in 0..MaxEvents
        BY <2>6, EnvAssumption DEF LinkLost, Spend
      <3> QED
        BY <2>6, <3>1, <3>2, <3>3, OutdatedType DEF LinkLost, Silently
    <2> QED
      BY <1>7, <2>1, <2>2, <2>3, <2>5, <2>6 DEF AirStep
  <1>8. CASE FaultStep
    <2>1. ASSUME NEW c \in Card, IfaceDown(c)
          PROVE  /\ card' \in Card /\ PeerKnown'
                 /\ rawq' \in Seq(Frames) /\ nlq' \in Seq(Messages)
      <3>1. card' \in Card /\ PeerKnown'
        BY <2>1 DEF IfaceDown, Unlinked, Card, Links, PeerKnown, Peered
      <3>2. Event("SCAN_ABORTED") \in Messages /\ Event("DISCONNECT") \in Messages
        BY EventType DEF Events
      <3>3. nlq' \in Seq(Messages)
        BY <2>1, <3>2 DEF IfaceDown
      <3> QED
        BY <2>1, <3>1, <3>3, OutdatedType DEF IfaceDown
    <2>2. CASE LinkDown
      <3>1. left' \in 0..MaxEvents
        BY <2>2, EnvAssumption DEF LinkDown, Spend
      <3> QED
        BY <2>1, <2>2, <3>1 DEF LinkDown, Silently
    <2>3. CASE RadioOff
      <3>1. left' \in 0..MaxEvents
        BY <2>3, EnvAssumption DEF RadioOff, Spend
      <3>2. [card EXCEPT !.blocked = TRUE] \in Card
        BY DEF Card
      <3> QED
        BY <2>1, <2>3, <3>1, <3>2 DEF RadioOff
    <2>4. CASE RadioOn
      <3>1. card' \in Card /\ PeerKnown'
        BY <2>4 DEF RadioOn, Card, PeerKnown, Peered
      <3> QED
        BY <2>4, <3>1 DEF RadioOn
    <2>5. CASE OtherSupplicant
      <3>1. card' \in Card /\ PeerKnown'
        BY <2>5 DEF OtherSupplicant, Card, Links, PeerKnown, Peered
      <3>2. /\ Event("AUTHENTICATE") \in Messages
            /\ Event("ASSOCIATE") \in Messages
            /\ Event("CONNECT") \in Messages
        BY EventType DEF Events
      <3>3. nlq' \in Seq(Messages)
        BY <2>5, <3>2 DEF OtherSupplicant
      <3>4. others' \in 0..Externals
        BY <2>5, EnvAssumption DEF OtherSupplicant
      <3> QED
        BY <2>5, <3>1, <3>3, <3>4 DEF OtherSupplicant
    <2> QED
      BY <1>8, <2>2, <2>3, <2>4, <2>5 DEF FaultStep
  <1>9. CASE UNCHANGED vars
    BY <1>9 DEF vars, PeerKnown
  <1> QED
    BY <1>1, <1>2, <1>3, <1>4, <1>5, <1>6, <1>7, <1>8, <1>9, <1>10
       DEF Next, DaemonStep

(* Type correctness of the daemon and its environment: the globals that    *)
(* the handlers of the event loop switch on stay in their ranges, in every *)
(* order of messages, commands, faults and timeouts.                       *)
THEOREM TypeCorrect == Spec => []TypeOK
  <1>1. Init => TypeInv
    BY InitType
  <1>2. TypeInv /\ [Next]_vars => TypeInv'
    BY NextType
  <1>3. TypeInv => TypeOK
    BY DEF TypeInv
  <1> QED
    BY <1>1, <1>2, <1>3, PTL DEF Spec
=============================================================================
