----------------------------- MODULE ScanProofs -----------------------------
(***************************************************************************)
(* The scan machine never waits for nothing, and nobody waits for it in    *)
(* vain: ScanAnswered and ScanClientHeard, for any number of stations,     *)
(* networks, keys and events.                                              *)
(*                                                                         *)
(* The argument is one relation, ScanKept, between the state a handler     *)
(* starts from and the state it leaves.  It is transitive, every function  *)
(* of the daemon satisfies it, and it is all that the two invariants need  *)
(* to know about a handler.  Most functions satisfy more: Kept says the    *)
(* same of the connection machine and of the handshake, for AuthProofs.    *)
(***************************************************************************)
EXTENDS WsuppProofs

SentIn(x, c) == \E i \in DOMAIN x.tx : x.tx[i].cmd = c

Told(x) == x.rep \cap {"SCAN_FAIL", "SCAN_DONE", "NET_DOWN"} # {}

(* A handler keeps the scan machine as it is; or it starts a scan or a     *)
(* dump and sends the command; or it ends the scan and says so.            *)
ScanKept(x, y) ==
  /\ \A c : SentIn(x, c) => SentIn(y, c)
  /\ x.rep \subseteq y.rep
  /\ \/ y.scanstate = x.scanstate /\ y.reseq = x.reseq
     \/ y.scanstate = "SCANNING" /\ SentIn(y, "TRIGGER_SCAN")
     \/ y.scanstate = "SCANDUMP" /\ SentIn(y, "GET_SCAN")
     \/ y.scanstate = "IDLE" /\ (x.scanstate = "IDLE" \/ Told(y))

(* The connection machine waits for the answer to a command of this very   *)
(* handler.                                                                *)
Asked(y) ==
  \/ y.authstate = "AUTHENTICATING" /\ SentIn(y, "AUTHENTICATE")
  \/ y.authstate = "ASSOCIATING" /\ SentIn(y, "ASSOCIATE")
  \/ y.authstate = "DISCONNECTING" /\ SentIn(y, "DISCONNECT")

(* No command that takes an attempt further is in the stream. *)
Free(x) == ~SentIn(x, "AUTHENTICATE") /\ ~SentIn(x, "ASSOCIATE")

(* A handler moves the connection machine once: it ends what there is, or  *)
(* begins an attempt out of IDLE, and once it has done so leaves it alone. *)
MovedOnce(x, y) ==
  /\ Free(x) =>
       \/ y.authstate = x.authstate /\ Free(y)
       \/ y.authstate = "DISCONNECTING" /\ SentIn(y, "DISCONNECT") /\ Free(y)
       \/ /\ x.authstate = "IDLE" /\ y.authstate = "AUTHENTICATING"
          /\ SentIn(y, "AUTHENTICATE") /\ ~SentIn(y, "ASSOCIATE")
  /\ ~Free(x) /\ x.authstate # "IDLE" =>
       /\ y.authstate = x.authstate
       /\ SentIn(y, "AUTHENTICATE") <=> SentIn(x, "AUTHENTICATE")
       /\ SentIn(y, "ASSOCIATE") <=> SentIn(x, "ASSOCIATE")

AuthKept(x, y) ==
  /\ y.authstate = x.authstate \/ Asked(y)
  /\ MovedOnce(x, y)

Driven(x, y) == ScanKept(x, y) /\ AuthKept(x, y)

(* Nor does the handshake move, but by its own frames. *)
EapolKept(x, y) ==
  y.eapolstate = x.eapolstate /\ y.eapolsends = x.eapolsends

Kept(x, y) == ScanKept(x, y) /\ AuthKept(x, y) /\ EapolKept(x, y)

(* Where a handler is left that has ended a scan: it does not wait for a   *)
(* dump, unless it is one it has just asked for.                           *)
Ended(y) == y.scanstate = "SCANDUMP" => SentIn(y, "GET_SCAN")

(* Functions that have nothing to do with either machine, nor with the     *)
(* state of the handshake.                                                 *)
SameMachines(x, y) ==
  /\ y.authstate = x.authstate
  /\ y.scanstate = x.scanstate /\ y.reseq = x.reseq
  /\ y.tx = x.tx /\ y.rep = x.rep

Same(x, y) == SameMachines(x, y) /\ EapolKept(x, y)

(* What does not touch the machines does not drive them. *)
LEMMA DrivenSame == \A x, y : SameMachines(x, y) => Driven(x, y)
  <1> SUFFICES ASSUME NEW x, NEW y, SameMachines(x, y) PROVE Driven(x, y)
    OBVIOUS
  <1>1. \A c : SentIn(x, c) <=> SentIn(y, c)
    BY DEF SameMachines, SentIn
  <1> QED
    BY <1>1 DEF SameMachines, Driven, ScanKept, AuthKept, MovedOnce, Free

(* What touches none of it keeps. *)
LEMMA KeptSame == \A x, y : Same(x, y) => Kept(x, y)
  BY DrivenSame DEF Same, Driven, Kept

(* Doing nothing keeps. *)
LEMMA KeptRefl == \A x : Kept(x, x)
  BY KeptSame DEF Same, SameMachines, EapolKept

(* A handler starts with nothing in the stream. *)
LEMMA EmptyFree == \A x : x.tx = <<>> => Free(x)
  BY DEF Free, SentIn

(* What does not touch the stream adds no command to it. *)
LEMMA FreeSame == \A x, y : Free(x) /\ Same(x, y) => Free(y)
  BY DEF Free, SentIn, Same, SameMachines

(* Handlers are compositions: the relations compose with them. *)
LEMMA ScanKeptTrans ==
  ASSUME NEW x, NEW y, NEW z, ScanKept(x, y), ScanKept(y, z)
  PROVE  ScanKept(x, z)
  <1>1. Told(y) => Told(z)
    BY DEF ScanKept, Told
  <1> QED
    BY <1>1 DEF ScanKept

(* So does the relation of both machines. *)
LEMMA DrivenTrans ==
  ASSUME NEW x, NEW y, NEW z, Driven(x, y), Driven(y, z)
  PROVE  Driven(x, z)
  <1>1. ScanKept(x, z)
    BY ScanKeptTrans DEF Driven
  <1>2. Asked(y) /\ z.authstate = y.authstate => Asked(z)
    BY DEF Driven, ScanKept, Asked
  <1>3. \A c : SentIn(y, c) => SentIn(z, c)
    BY DEF Driven, ScanKept
  <1>4. MovedOnce(x, y) /\ MovedOnce(y, z)
    BY DEF Driven, AuthKept
  <1>5. MovedOnce(x, z)
    <2>1. CASE Free(x) /\ Free(y)
      <3>1. \/ y.authstate = x.authstate
            \/ y.authstate = "DISCONNECTING" /\ SentIn(y, "DISCONNECT")
        BY <1>4, <2>1 DEF MovedOnce, Free
      <3>2. CASE y.authstate = x.authstate
        BY <1>4, <2>1, <3>2 DEF MovedOnce
      <3>3. CASE y.authstate = "DISCONNECTING" /\ SentIn(y, "DISCONNECT")
        BY <1>3, <1>4, <2>1, <3>3 DEF MovedOnce
      <3> QED
        BY <3>1, <3>2, <3>3
    <2>2. CASE Free(x) /\ ~Free(y)
      <3>1. /\ x.authstate = "IDLE" /\ y.authstate = "AUTHENTICATING"
            /\ SentIn(y, "AUTHENTICATE") /\ ~SentIn(y, "ASSOCIATE")
        BY <1>4, <2>2 DEF MovedOnce
      <3>2. /\ z.authstate = y.authstate
            /\ SentIn(z, "ASSOCIATE") <=> SentIn(y, "ASSOCIATE")
        BY <1>4, <2>2, <3>1 DEF MovedOnce
      <3> QED
        BY <1>3, <2>2, <3>1, <3>2 DEF MovedOnce
    <2>3. CASE ~Free(x) /\ x.authstate # "IDLE"
      BY <1>4, <2>3 DEF MovedOnce, Free
    <2> QED
      BY <2>1, <2>2, <2>3 DEF MovedOnce
  <1> QED
    BY <1>1, <1>2, <1>5 DEF Driven, AuthKept

(* And that of the handshake. *)
LEMMA KeptTrans ==
  ASSUME NEW x, NEW y, NEW z, Kept(x, y), Kept(y, z)
  PROVE  Kept(x, z)
  <1>1. Driven(x, z)
    BY DrivenTrans DEF Kept, Driven
  <1> QED
    BY <1>1 DEF Kept, Driven, EapolKept

(* An assignment to authstate is nothing to the scan machine. *)
LEMMA ScanKeptMoved ==
  ASSUME NEW x \in Daemon, NEW m
  PROVE  ScanKept(x, [x EXCEPT !.authstate = m])
  BY DEF ScanKept, SentIn, Daemon

(* A command added to the stream takes none away, and only those of the    *)
(* connection machine have to do with it.                                  *)
LEMMA KeptSend ==
  ASSUME NEW x \in Daemon, NEW c \in Commands
  PROVE  LET y == nl_send(x, c)
         IN /\ ScanKept(x, y) /\ EapolKept(x, y)
            /\ \A k : SentIn(y, k) <=> SentIn(x, k) \/ k = c.cmd
            /\ c.cmd \notin {"AUTHENTICATE", "ASSOCIATE"} => Kept(x, y)
  <1> DEFINE y == nl_send(x, c)
  <1>1. /\ y.authstate = x.authstate
        /\ y.scanstate = x.scanstate /\ y.reseq = x.reseq /\ y.rep = x.rep
        /\ y.tx = Append(x.tx, c)
        /\ EapolKept(x, y)
    BY DEF nl_send, Daemon, EapolKept
  <1>2. x.tx \in Seq(Commands)
    BY DEF Daemon
  <1> HIDE DEF y
  <1>3. /\ DOMAIN x.tx = 1 .. Len(x.tx)
        /\ DOMAIN y.tx = 1 .. Len(x.tx) + 1
        /\ \A i \in 1 .. Len(x.tx) : y.tx[i] = x.tx[i]
        /\ y.tx[Len(x.tx) + 1] = c
        /\ Len(x.tx) \in Nat
    BY <1>1, <1>2
  <1>4. \A k : SentIn(x, k) \/ k = c.cmd => SentIn(y, k)
    BY <1>3 DEF SentIn
  <1>5. \A k : SentIn(y, k) => SentIn(x, k) \/ k = c.cmd
    <2> SUFFICES ASSUME NEW i \in DOMAIN y.tx
                 PROVE  SentIn(x, y.tx[i].cmd) \/ y.tx[i].cmd = c.cmd
      BY DEF SentIn
    <2>1. i \in 1 .. Len(x.tx) \/ i = Len(x.tx) + 1
      BY <1>3
    <2> QED
      BY <1>3, <2>1 DEF SentIn
  <1>6. ScanKept(x, y)
    BY <1>1, <1>4 DEF ScanKept
  <1>7. c.cmd \notin {"AUTHENTICATE", "ASSOCIATE"} => MovedOnce(x, y)
    BY <1>1, <1>4, <1>5 DEF MovedOnce, Free
  <1>8. c.cmd \notin {"AUTHENTICATE", "ASSOCIATE"} => Kept(x, y)
    BY <1>1, <1>6, <1>7 DEF Kept, AuthKept
  <1> QED
    BY <1>1, <1>4, <1>5, <1>6, <1>8 DEF y

(* Reports are nothing to the connection machine. *)
LEMMA KeptReported ==
  ASSUME NEW x, NEW y, y.authstate = x.authstate, y.tx = x.tx,
         EapolKept(x, y), x.rep \subseteq y.rep,
         \/ y.scanstate = x.scanstate /\ y.reseq = x.reseq
         \/ y.scanstate = "IDLE" /\ Told(y)
  PROVE  Kept(x, y)
  <1>1. \A c : SentIn(x, c) <=> SentIn(y, c)
    BY DEF SentIn
  <1>2. ScanKept(x, y)
    BY <1>1 DEF ScanKept
  <1>3. MovedOnce(x, y)
    BY <1>1 DEF MovedOnce, Free
  <1> QED
    BY <1>2, <1>3 DEF Kept, AuthKept

(* A report takes none away. *)
LEMMA KeptReport ==
  ASSUME NEW x \in Daemon, NEW r
  PROVE  Kept(x, report(x, r)) /\ report(x, r).rep = x.rep \cup {r}
  <1> DEFINE y == report(x, r)
  <1>1. /\ y.authstate = x.authstate /\ y.tx = x.tx
        /\ y.scanstate = x.scanstate /\ y.reseq = x.reseq
        /\ y.rep = x.rep \cup {r}
        /\ EapolKept(x, y)
    BY DEF report, Daemon, EapolKept
  <1> HIDE DEF y
  <1>2. Kept(x, y)
    BY <1>1, KeptReported
  <1> QED
    BY <1>1, <1>2 DEF y

(* The scan machine waits for what has been asked of the card. *)
LEMMA KeptBegun ==
  ASSUME NEW x, NEW y, y.authstate = x.authstate, y.tx = x.tx, y.rep = x.rep,
         EapolKept(x, y),
         \/ y.scanstate = "SCANNING" /\ SentIn(x, "TRIGGER_SCAN")
         \/ y.scanstate = "SCANDUMP" /\ SentIn(x, "GET_SCAN")
  PROVE  Kept(x, y)
  <1>1. \A c : SentIn(x, c) <=> SentIn(y, c)
    BY DEF SentIn
  <1>2. ScanKept(x, y)
    BY <1>1 DEF ScanKept
  <1>3. MovedOnce(x, y)
    BY <1>1 DEF MovedOnce, Free
  <1> QED
    BY <1>2, <1>3 DEF Kept, AuthKept

(* start_scan triggers a scan, joins the one that runs, or is refused. *)
LEMMA KeptStartScan ==
  ASSUME NEW x \in Daemon, NEW f \in Int
  PROVE  /\ Kept(x, start_scan(x, f))
         /\ ~scan_busy(x) => start_scan(x, f).scanstate # "IDLE"
  <1> DEFINE c == [Command("TRIGGER_SCAN") EXCEPT !.freq = f]
             one == IF f > 0 THEN {"ONE_FREQ"} ELSE {}
             y == nl_send(x, c)
             z == [y EXCEPT !.scanstate = "SCANNING",
                            !.scanreq = @ \cup ScanPurpose(f) \cup one,
                            !.reseq = TRUE]
             w == [x EXCEPT !.scanreq = @ \cup ScanPurpose(f)]
  <1>1. c \in Commands /\ c.cmd = "TRIGGER_SCAN"
    BY DEF Command, Commands
  <1> HIDE DEF c, one
  <1>2. y \in Daemon /\ Kept(x, y) /\ SentIn(y, "TRIGGER_SCAN")
    BY <1>1, SendType, KeptSend
  <1> HIDE DEF y
  <1>3. /\ z.scanstate = "SCANNING" /\ z.tx = y.tx /\ z.rep = y.rep
        /\ z.authstate = y.authstate /\ EapolKept(y, z)
    BY <1>2 DEF Daemon, EapolKept
  <1>4. Kept(y, z)
    BY <1>2, <1>3, KeptBegun
  <1>5. Kept(x, z)
    BY <1>2, <1>4, KeptTrans
  <1>6. Same(x, w)
    BY DEF Same, SameMachines, EapolKept, Daemon
  <1> HIDE DEF z, w
  <1>7. CASE x.scanstate = "IDLE"
    BY <1>3, <1>5, <1>7 DEF start_scan, c, one, y, z
  <1>8. CASE x.scanstate # "IDLE"
    BY <1>6, <1>8, KeptRefl, KeptSame
       DEF start_scan, scan_busy, w, Same, SameMachines
  <1> QED
    BY <1>7, <1>8

(* The two ways of asking for a scan of everything. *)
LEMMA KeptVoidFull ==
  ASSUME NEW x \in Daemon
  PROVE  Kept(x, start_void_scan(x)) /\ Kept(x, start_full_scan(x))
  BY KeptStartScan DEF start_void_scan, start_full_scan

(* The dump is awaited and the command for it is sent. *)
LEMMA KeptScanDump ==
  ASSUME NEW x \in Daemon
  PROVE  Kept(x, trigger_scan_dump(x))
  <1> DEFINE y == nl_send(x, Command("GET_SCAN"))
             z == trigger_scan_dump(x)
  <1>1. Command("GET_SCAN") \in Commands /\ Command("GET_SCAN").cmd = "GET_SCAN"
    BY CommandType DEF Command
  <1>2. y \in Daemon /\ Kept(x, y) /\ SentIn(y, "GET_SCAN")
    BY <1>1, SendType, KeptSend
  <1>3. z = [y EXCEPT !.scanstate = "SCANDUMP", !.reseq = TRUE]
    BY DEF trigger_scan_dump
  <1> HIDE DEF y, z
  <1>4. /\ z.scanstate = "SCANDUMP" /\ z.tx = y.tx /\ z.rep = y.rep
        /\ z.authstate = y.authstate /\ EapolKept(y, z)
    BY <1>2, <1>3 DEF Daemon, EapolKept
  <1>5. Kept(y, z)
    BY <1>2, <1>4, KeptBegun
  <1> QED
    BY <1>2, <1>5, KeptTrans DEF z

(* Commands of the connection machine leave scanstate alone. *)
LEMMA ScanKeptSetAuth ==
  ASSUME NEW x \in Daemon, NEW c \in Commands, NEW as,
         <<c.cmd, as>> \in {<<"AUTHENTICATE", "AUTHENTICATING">>,
                           <<"ASSOCIATE", "ASSOCIATING">>,
                           <<"DISCONNECT", "DISCONNECTING">>}
  PROVE  LET y == send_set_authstate(x, c, as)
         IN /\ ScanKept(x, y) /\ EapolKept(x, y)
            /\ Asked(y) /\ y.authstate = as
            /\ \A k : SentIn(y, k) <=> SentIn(x, k) \/ k = c.cmd
  <1> DEFINE y == nl_send(x, c)
             z == [y EXCEPT !.authstate = as]
  <1>1. /\ y \in Daemon /\ ScanKept(x, y) /\ EapolKept(x, y)
        /\ \A k : SentIn(y, k) <=> SentIn(x, k) \/ k = c.cmd
    BY SendType, KeptSend
  <1> HIDE DEF y
  <1>2. ScanKept(x, z)
    BY <1>1, ScanKeptMoved, ScanKeptTrans
  <1>3. z.authstate = as /\ z.tx = y.tx /\ EapolKept(x, z)
    BY <1>1 DEF Daemon, EapolKept
  <1> HIDE DEF z
  <1>4. \A k : SentIn(z, k) <=> SentIn(y, k)
    BY <1>3 DEF SentIn
  <1>5. Asked(z)
    BY <1>1, <1>3, <1>4 DEF Asked
  <1> QED
    BY <1>1, <1>2, <1>3, <1>4, <1>5 DEF send_set_authstate, y, z

(* The three of them, one by one. *)
LEMMA KeptTriggers ==
  ASSUME NEW x \in Daemon
  PROVE  /\ x.authstate = "IDLE" => Kept(x, trigger_authentication(x))
         /\ ScanKept(x, trigger_associaction(x))
         /\ EapolKept(x, trigger_associaction(x))
         /\ trigger_associaction(x).authstate = "ASSOCIATING"
         /\ Asked(trigger_associaction(x))
         /\ ~SentIn(x, "AUTHENTICATE")
              => ~SentIn(trigger_associaction(x), "AUTHENTICATE")
         /\ Asked(trigger_disconnect(x))
         /\ Free(x) => Kept(x, trigger_disconnect(x))
  <1> DEFINE c == ToAp("AUTHENTICATE", x.ap)
             s == ToAp("ASSOCIATE", x.ap)
             t == trigger_authentication(x)
             a == trigger_associaction(x)
             b == trigger_disconnect(x)
  <1>0. /\ x.ap.freq \in Int /\ x.ap.bssid \in BSSIDs \cup {NoBssid}
        /\ x.ap.ssid \in SSIDs \cup {NoSsid}
    BY DEF Daemon, Ap
  <1>1. /\ c \in Commands /\ c.cmd = "AUTHENTICATE"
        /\ s \in Commands /\ s.cmd = "ASSOCIATE"
    BY <1>0 DEF ToAp, Commands
  <1>2. t = send_set_authstate(x, c, "AUTHENTICATING")
    BY DEF trigger_authentication
  <1>a. a = send_set_authstate(x, s, "ASSOCIATING")
    BY DEF trigger_associaction
  <1> HIDE DEF c, s, t
  <1>3. /\ ScanKept(x, t) /\ EapolKept(x, t)
        /\ Asked(t) /\ t.authstate = "AUTHENTICATING"
        /\ \A k : SentIn(t, k) <=> SentIn(x, k) \/ k = "AUTHENTICATE"
    BY <1>1, <1>2, ScanKeptSetAuth
  <1>4. x.authstate = "IDLE" => MovedOnce(x, t)
    BY <1>3 DEF MovedOnce, Free
  <1>5. x.authstate = "IDLE" => Kept(x, t)
    BY <1>3, <1>4 DEF Kept, AuthKept
  <1>6. /\ Command("DISCONNECT").cmd = "DISCONNECT"
        /\ b = send_set_authstate(x, Command("DISCONNECT"), "DISCONNECTING")
    BY DEF Command, trigger_disconnect
  <1> HIDE DEF a, b
  <1>7. /\ ScanKept(x, a) /\ EapolKept(x, a)
        /\ Asked(a) /\ a.authstate = "ASSOCIATING"
        /\ \A k : SentIn(a, k) <=> SentIn(x, k) \/ k = "ASSOCIATE"
    BY <1>1, <1>a, ScanKeptSetAuth
  <1>8. /\ ScanKept(x, b) /\ EapolKept(x, b)
        /\ Asked(b) /\ b.authstate = "DISCONNECTING"
        /\ \A k : SentIn(b, k) <=> SentIn(x, k) \/ k = "DISCONNECT"
    BY <1>6, CommandType, ScanKeptSetAuth
  <1>9. Free(x) => MovedOnce(x, b)
    BY <1>8 DEF MovedOnce, Free
  <1>10. Free(x) => Kept(x, b)
    BY <1>8, <1>9 DEF Kept, AuthKept
  <1> QED
    BY <1>5, <1>7, <1>8, <1>10 DEF t, a, b

(* Connecting and disconnecting, refused or not. *)
LEMMA KeptStartConnection ==
  ASSUME NEW x \in Daemon
  PROVE  /\ Kept(x, start_connection(x))
         /\ Free(x) => Kept(x, start_disconnect(x))
  BY KeptTriggers, KeptRefl DEF start_connection, start_disconnect, can_connect

(* Both keys of a handshake. *)
LEMMA KeptUpload ==
  ASSUME NEW x \in Daemon
  PROVE  Kept(x, upload_ptk(x)) /\ Kept(x, upload_gtk(x))
  <1>1. Command("NEW_KEY") \in Commands /\ Command("NEW_KEY").cmd = "NEW_KEY"
    BY CommandType DEF Command
  <1> QED
    BY <1>1, KeptSend DEF upload_ptk, upload_gtk

-----------------------------------------------------------------------------
(* wsupp_apsel.c.  Most of it works on ap, scans and PSK alone. *)

(* Assignments and helpers that leave the machines alone. *)
LEMMA SameSimple ==
  ASSUME NEW x \in Daemon
  PROVE  /\ Same(x, clr_timer(x)) /\ Same(x, set_timer(x))
         /\ Same(x, clear_ap_bssid(x)) /\ Same(x, clear_ap_ssid(x))
         /\ Same(x, reset_scan_counters(x)) /\ Same(x, end_rescan(x))
         /\ Same(x, check_new_scan_results(x))
         /\ \A S : Same(x, PassBy(x, S))
         /\ \A s : Same(x, load_psk(x, s))
         /\ \A s, k : Same(x, save_psk(x, s, k))
         /\ \A m : Same(x, [x EXCEPT !.opermode = m])
         /\ \A v : Same(x, [x EXCEPT !.ap.unsaved = v])
  <1> USE DEF Same, SameMachines, EapolKept, Daemon
  <1>1. Same(x, clr_timer(x)) /\ Same(x, set_timer(x))
    BY DEF clr_timer, set_timer
  <1>2. Same(x, clear_ap_bssid(x))
    BY DEF clear_ap_bssid
  <1>3. Same(x, clear_ap_ssid(x))
    BY DEF clear_ap_ssid
  <1>4. Same(x, reset_scan_counters(x)) /\ Same(x, end_rescan(x))
    BY DEF reset_scan_counters, end_rescan
  <1>5. Same(x, check_new_scan_results(x))
    BY DEF check_new_scan_results
  <1>6. \A S : Same(x, PassBy(x, S))
    BY DEF PassBy
  <1>7. \A s : Same(x, load_psk(x, s))
    BY DEF load_psk
  <1>8. \A s, k : Same(x, save_psk(x, s, k))
    BY DEF save_psk
  <1>9. \A m : Same(x, [x EXCEPT !.opermode = m])
    OBVIOUS
  <1>10. \A v : Same(x, [x EXCEPT !.ap.unsaved = v])
    OBVIOUS
  <1> HIDE DEF Same, SameMachines, EapolKept, Daemon
  <1> QED
    BY <1>1, <1>2, <1>3, <1>4, <1>5, <1>6, <1>7, <1>8, <1>9, <1>10

(* Functions that leave the machines alone compose. *)
LEMMA SameTrans ==
  ASSUME NEW x, NEW y, NEW z, Same(x, y), Same(y, z)
  PROVE  Same(x, z)
  BY DEF Same, SameMachines, EapolKept

(* Choosing and forgetting stations, networks and keys. *)
LEMMA SameStation ==
  ASSUME NEW x \in Daemon
  PROVE  /\ Same(x, reset_station(x))
         /\ \A b \in BSSIDs : Same(x, set_current_ap(x, b))
         /\ \A s \in SSIDs : Same(x, set_fixed(x, s))
         /\ \A s \in SSIDs : Same(x, set_fixed_saved(x, s))
         /\ \A s \in SSIDs, k \in PSKs : Same(x, set_fixed_given(x, s, k))
  <1>1. Same(x, reset_station(x))
    BY SameSimple, ClearApType, SameTrans DEF reset_station
  <1>2. ASSUME NEW b \in BSSIDs PROVE Same(x, set_current_ap(x, b))
    <2> DEFINE e == [x EXCEPT !.scans[b] = @ \cup {"TRIED"},
                              !.ap.success = FALSE,
                              !.ap.freq = Freq[b],
                              !.ap.bssid = b]
               f == [e EXCEPT !.ap.ssid = SsidOf(x, b)]
    <2>1. Same(x, e)
      BY DEF Same, SameMachines, EapolKept, Daemon
    <2>2. Same(x, f)
      BY DEF Same, SameMachines, EapolKept, Daemon
    <2>3. Same(f, load_psk(f, SsidOf(x, b)))
      <3>1. DOMAIN f = DOMAIN x
        BY DEF Daemon
      <3> QED
        BY <3>1 DEF Same, SameMachines, EapolKept, Daemon, load_psk
    <2> HIDE DEF e, f
    <2>4. Same(x, load_psk(f, SsidOf(x, b)))
      BY <2>2, <2>3, SameTrans
    <2> QED
      BY <2>1, <2>4 DEF set_current_ap, e, f
  <1>3. ASSUME NEW y \in Daemon, NEW s \in SSIDs PROVE Same(y, set_fixed(y, s))
    <2> DEFINE e == [y EXCEPT !.ap.ssid = s, !.ap.fixed = TRUE]
    <2>1. Same(y, e)
      BY DEF Same, SameMachines, EapolKept, Daemon
    <2>2. e \in Daemon
      <3>1. [y.ap EXCEPT !.ssid = s, !.fixed = TRUE] \in Ap
        BY DEF Daemon, Ap
      <3> QED
        BY <3>1 DEF Daemon
    <2> HIDE DEF e
    <2>3. Same(e, reset_scan_counters(clear_ap_bssid(e)))
      BY <2>2, ClearApType, SameSimple, SameTrans
    <2> QED
      BY <2>1, <2>3, SameTrans DEF set_fixed, e
  <1>4. ASSUME NEW s \in SSIDs PROVE Same(x, set_fixed_saved(x, s))
    <2>1. load_psk(x, s) \in Daemon /\ Same(x, load_psk(x, s))
      BY LoadPskType, SameSimple
    <2> DEFINE y == set_fixed(load_psk(x, s), s)
    <2>2. y \in Daemon /\ Same(x, y)
      BY <2>1, <1>3, SetFixedType, SameTrans
    <2> HIDE DEF y
    <2>3. Same(x, [y EXCEPT !.ap.unsaved = FALSE])
      BY <2>2, SameSimple, SameTrans
    <2> QED
      BY <2>1, <2>3 DEF set_fixed_saved, y
  <1>5. ASSUME NEW s \in SSIDs, NEW k \in PSKs
        PROVE  Same(x, set_fixed_given(x, s, k))
    <2> DEFINE y == set_fixed(x, s)
    <2>1. y \in Daemon /\ Same(x, y)
      BY <1>3, SetFixedType
    <2> HIDE DEF y
    <2>2. Same(y, [y EXCEPT !.psk = k, !.ap.unsaved = TRUE])
      BY <2>1 DEF Same, SameMachines, EapolKept, Daemon
    <2> QED
      BY <2>1, <2>2, SameTrans DEF set_fixed_given, y
  <1> QED
    BY <1>1, <1>2, <1>3, <1>4, <1>5

(* The loop over the candidates, whichever station it stops at. *)
LEMMA KeptConnectSomething ==
  ASSUME NEW x \in Daemon
  PROVE  Kept(x, connect_to_something(x))
  <1> DEFINE A == Acceptable(x)
             C == Candidates(x)
             N == Secure(x)
             better == {c \in C : Beats(c, Best(A))}
             named == IF N = {} THEN x ELSE set_current_ap(x, Last(N))
             failed == PassBy(set_current_ap(named, Last(C)), C)
  <1>1. C \in SUBSET BSSIDs /\ A \in SUBSET BSSIDs /\ N \in SUBSET BSSIDs
    BY AcceptableAreCandidates
  <1> HIDE DEF A, C, N
  <1>2. CASE A # {}
    <2> DEFINE p == PassBy(x, better)
               q == set_current_ap(p, Best(A))
    <2>1. Best(A) \in BSSIDs
      BY <1>1, <1>2, BestInSet
    <2>2. p \in Daemon /\ Same(x, p)
      BY PassByType, SameSimple
    <2> HIDE DEF p
    <2>3. q \in Daemon /\ Same(x, q)
      BY <2>1, <2>2, SetCurrentType, SameStation, SameTrans
    <2> HIDE DEF q
    <2>4. Kept(x, start_connection(q))
      BY <2>3, KeptStartConnection, KeptSame, KeptTrans
    <2> QED
      BY <1>2, <2>4 DEF connect_to_something, A, C, p, q
  <1>3. CASE A = {} /\ C # {}
    <2> DEFINE p == set_current_ap(named, Last(C))
    <2>1. Last(C) \in BSSIDs
      BY <1>1, <1>3, BestInSet
    <2>n. named \in Daemon /\ Same(x, named)
      BY <1>1, BestInSet, SetCurrentType, SameStation
         DEF Same, SameMachines, EapolKept
    <2> HIDE DEF named
    <2>2. p \in Daemon /\ Same(x, p)
      BY <2>1, <2>n, SetCurrentType, SameStation, SameTrans
    <2> HIDE DEF p
    <2>3. failed \in Daemon /\ Same(x, failed)
      BY <2>2, PassByType, SameSimple, SameTrans DEF p
    <2> HIDE DEF failed
    <2>4. Same(x, [failed EXCEPT !.psk = BadPsk])
      BY <2>3 DEF Same, SameMachines, EapolKept, Daemon
    <2> QED
      BY <1>3, <2>3, <2>4, KeptSame
         DEF connect_to_something, A, C, N, named, failed
  <1>4. CASE A = {} /\ C = {}
    BY <1>4, KeptRefl DEF connect_to_something, A, C
  <1> QED
    BY <1>2, <1>3, <1>4

(* reassess_wifi_situation may start a scan, with the command for it. *)
LEMMA KeptReassess ==
  ASSUME NEW x \in Daemon
  PROVE  Kept(x, reassess_wifi_situation(x))
  <1> DEFINE e == connect_to_something(x)
             f == report(e, "NO_CONNECT")
  <1>1. e \in Daemon /\ Kept(x, e)
    BY ConnectSomethingType, KeptConnectSomething
  <1> HIDE DEF e
  <1>2. f \in Daemon /\ Kept(x, f)
    BY <1>1, ReportType, KeptReport, KeptTrans DEF Reports
  <1> HIDE DEF f
  <1>3. reset_station(f) \in Daemon /\ Same(f, reset_station(f))
    BY <1>2, ResetStationType, SameStation
  <1>4. Same(f, snap_to_neutral(f))
    BY <1>3, SameSimple, SameTrans DEF snap_to_neutral
  <1>5. Same(f, idle_then_rescan(f))
    BY <1>2, SameSimple DEF idle_then_rescan
  <1> QED
    BY <1>1, <1>2, <1>4, <1>5, KeptRefl, KeptSame, KeptTrans
       DEF reassess_wifi_situation, e, f

(* A connection attempt that timed out. *)
LEMMA KeptAbort ==
  ASSUME NEW x \in Daemon, Free(x)
  PROVE  Kept(x, abort_connection(x))
  BY KeptTriggers, KeptReassess DEF abort_connection

(* The end of a handshake. *)
LEMMA KeptHandleConnect ==
  ASSUME NEW x \in Daemon
  PROVE  Kept(x, handle_connect(x))
  <1> DEFINE found == find_current_ap(x)
             e == [x EXCEPT
                     !.ap.success = TRUE,
                     !.ap.fixed = TRUE,
                     !.opermode = IF @ \in {"RESCAN", "ONESHOT"}
                                  THEN "ACTIVE" ELSE @,
                     !.scans = [b \in BSSIDs |->
                        IF found /\ b = x.ap.bssid
                        THEN (@[b] \ {"TRIED"})
                               \cup (IF x.ap.unsaved THEN {"PASS"} ELSE {})
                        ELSE @[b]],
                     !.ap.unsaved = FALSE]
             g == set_timer(e)
             h == save_psk(g, x.ap.ssid, x.psk)
             y == IF x.ap.unsaved THEN h ELSE g
             z == report(y, "CONNECTED")
  <1> HIDE DEF found
  <1>1. Same(x, g)
    BY DEF Same, SameMachines, EapolKept, Daemon, set_timer
  <1>2. Same(x, h)
    BY DEF Same, SameMachines, EapolKept, Daemon, set_timer, save_psk
  <1>3. DOMAIN g = DOMAIN x /\ DOMAIN h = DOMAIN x
    BY DEF Daemon, set_timer, save_psk
  <1> HIDE DEF g, h
  <1>4. Same(x, y) /\ DOMAIN y = DOMAIN x
    BY <1>1, <1>2, <1>3
  <1> HIDE DEF y
  <1>5. Kept(y, z)
    <2>1. /\ z.authstate = y.authstate /\ z.tx = y.tx
          /\ z.scanstate = y.scanstate /\ z.reseq = y.reseq
          /\ y.rep \subseteq z.rep /\ EapolKept(y, z)
      BY <1>4 DEF report, Daemon, EapolKept
    <2> HIDE DEF z
    <2> QED
      BY <2>1, KeptReported
  <1> HIDE DEF z
  <1>6. Kept(x, z)
    BY <1>4, <1>5, KeptSame, KeptTrans
  <1> QED
    BY <1>6 DEF handle_connect, z, y, h, g, found

(* rescan_current_ap starts a scan, with the command for it. *)
LEMMA KeptRescan ==
  ASSUME NEW x \in Daemon
  PROVE  Kept(x, rescan_current_ap(x))
  <1> DEFINE y == [x EXCEPT !.ap.success = FALSE, !.opermode = "RESCAN"]
  <1>0. x.ap \in Ap
    BY DEF Daemon
  <1>1. [x.ap EXCEPT !.success = FALSE] \in Ap
    BY <1>0 DEF Ap
  <1>2. x.ap.freq \in Int
    BY <1>0 DEF Ap
  <1>3. y \in Daemon
    BY <1>1 DEF Daemon, OperModes
  <1>4. Same(x, y)
    BY DEF Same, SameMachines, EapolKept, Daemon
  <1> HIDE DEF y
  <1> QED
    BY <1>2, <1>3, <1>4, KeptStartScan, KeptSame, KeptTrans
       DEF rescan_current_ap, y

(* The lost station was found again. *)
LEMMA KeptReconnect ==
  ASSUME NEW x \in Daemon
  PROVE  Kept(x, reconnect_to_current_ap(x))
  <1> DEFINE y == end_rescan(x)
  <1>1. y \in Daemon /\ Kept(x, y)
    BY EndRescanType, SameSimple, KeptSame
  <1> HIDE DEF y
  <1> QED
    BY <1>1, KeptStartConnection, KeptReassess, KeptTrans
       DEF reconnect_to_current_ap, y

(* The lost station was not found. *)
LEMMA KeptTryOther ==
  ASSUME NEW x \in Daemon
  PROVE  Kept(x, try_some_other_ap(x))
  <1>1. clear_ap_bssid(x) \in Daemon /\ Kept(x, clear_ap_bssid(x))
    BY ClearApType, SameSimple, KeptSame
  <1>2. reset_station(x) \in Daemon /\ Kept(x, reset_station(x))
    BY ResetStationType, SameStation, KeptSame
  <1> QED
    BY <1>1, <1>2, KeptReassess, KeptTrans DEF try_some_other_ap

(* The end of a link, in each of the modes. *)
LEMMA KeptHandleDisconnect ==
  ASSUME NEW x \in Daemon
  PROVE  Kept(x, handle_disconnect(x))
  <1> DEFINE e == clr_timer(x)
             r == report(e, "DISCONNECT")
             f == end_rescan(r)
             g == reset_station(f)
  <1>1. e \in Daemon /\ Kept(x, e)
    BY TimerType, SameSimple, KeptSame
  <1> HIDE DEF e
  <1>2. r \in Daemon /\ Kept(x, r)
    BY <1>1, ReportType, KeptReport, KeptTrans DEF Reports
  <1> HIDE DEF r
  <1>3. f \in Daemon /\ Kept(x, f)
    BY <1>2, EndRescanType, SameSimple, KeptSame, KeptTrans
  <1> HIDE DEF f
  <1>4. g \in Daemon /\ Kept(x, g)
    BY <1>3, ResetStationType, SameStation, KeptSame, KeptTrans
  <1> HIDE DEF g
  <1>5. Kept(x, report(g, "NO_CONNECT"))
    BY <1>4, KeptReport, KeptTrans
  <1>6. Kept(x, [e EXCEPT !.opermode = "EXIT"])
    BY <1>1, SameSimple, KeptSame, KeptTrans
  <1>7. Kept(x, rescan_current_ap(f)) /\ Kept(x, try_some_other_ap(f))
    BY <1>3, KeptRescan, KeptTryOther, KeptTrans
  <1>8. x.opermode \in OperModes
    BY DEF Daemon
  <1> QED
    BY <1>5, <1>6, <1>7, <1>8 DEF handle_disconnect, e, r, f, g, OperModes

(* The radio is back. *)
LEMMA KeptRfRestored ==
  ASSUME NEW x \in Daemon
  PROVE  ScanKept(x, handle_rfrestored(x))
  <1> DEFINE e == [x EXCEPT !.authstate = "IDLE"]
  <1>1. e \in Daemon /\ ScanKept(x, e)
    BY AuthstateType, ScanKeptMoved DEF AuthStates
  <1> HIDE DEF e
  <1>2. ScanKept(e, rescan_current_ap(e)) /\ ScanKept(e, reassess_wifi_situation(e))
    BY <1>1, KeptRescan, KeptReassess DEF Kept
  <1> QED
    BY <1>1, <1>2, KeptRefl, ScanKeptTrans DEF handle_rfrestored, Kept, e

(* Scans started by the timer. *)
LEMMA KeptRoutineScan ==
  ASSUME NEW x \in Daemon
  PROVE  Kept(x, routine_bg_scan(x)) /\ Kept(x, routine_fg_scan(x))
  <1>1. Kept(x, routine_bg_scan(x))
    BY VoidFullScanType, KeptVoidFull, SameSimple, KeptSame, KeptTrans
       DEF routine_bg_scan
  <1> DEFINE n == x.ap.rescans + 1
             e == set_timer(x)
             q == IF n % RescanCycle # 0 THEN x.ap.freq ELSE -1
             f == start_scan(e, q)
  <1>2. n \in Nat /\ q \in Int
    BY DEF Daemon, Ap
  <1>3. e \in Daemon /\ Kept(x, e)
    BY TimerType, SameSimple, KeptSame
  <1> HIDE DEF n, e, q
  <1>4. f \in Daemon /\ Kept(x, f)
    BY <1>2, <1>3, StartScanType, KeptStartScan, KeptTrans
  <1> HIDE DEF f
  <1>5. /\ Same(f, [f EXCEPT !.ap.freq = 0, !.ap.rescans = 0])
        /\ Same(f, [f EXCEPT !.ap.rescans = n])
    BY <1>4 DEF Same, SameMachines, EapolKept, Daemon
  <1>6. Kept(x, start_void_scan(e)) /\ Kept(x, start_full_scan(e))
    BY <1>3, KeptVoidFull, KeptTrans
  <1>7. Kept(x, routine_fg_scan(x))
    BY <1>4, <1>5, <1>6, KeptSame, KeptTrans DEF routine_fg_scan, n, e, q, f
  <1> QED
    BY <1>1, <1>7

-----------------------------------------------------------------------------
(* wsupp_eapol.c: a handshake may abort the connection, and the abort may  *)
(* start another one, but none of it touches the scan machine.             *)

(* The fields of the handshake. *)
LEMMA SameEapol ==
  ASSUME NEW x \in Daemon
  PROVE  /\ Same(x, reset_eapol_state(x))
         /\ \A f : Same(x, send_packet(x, f))
         /\ \A m : Same(x, pmk_to_ptk(x, m))
         /\ SameMachines(x, prime_eapol_state(x))
         /\ \A v : SameMachines(x, [x EXCEPT !.eapolstate = v])
         /\ \A v : SameMachines(x, [x EXCEPT !.eapolsends = v])
  BY DEF Same, SameMachines, EapolKept, Daemon, reset_eapol_state,
         prime_eapol_state, send_packet, pmk_to_ptk

(* Messages 2/4, 4/4 and 2/2, sent or not.  Only 4/4 ends a handshake. *)
LEMMA KeptSendPackets ==
  ASSUME NEW x \in Daemon, Free(x), NEW ok \in BOOLEAN
  PROVE  /\ Driven(x, send_packet_2(x, ok))
         /\ send_packet_2(x, ok).eapolstate \in {x.eapolstate, "WAITING_3_4"}
         /\ Driven(x, send_packet_4(x, ok))
         /\ Kept(x, send_group_2(x, ok))
  <1>1. /\ send_packet(x, "P2") \in Daemon /\ Same(x, send_packet(x, "P2"))
        /\ send_packet(x, "P4") \in Daemon /\ Same(x, send_packet(x, "P4"))
        /\ send_packet(x, "G2") \in Daemon /\ Same(x, send_packet(x, "G2"))
    BY SendPacketType, SameEapol DEF EapolSent
  <1>2. Kept(x, abort_connection(x))
    BY KeptAbort
  <1> DEFINE w == [send_packet(x, "P2") EXCEPT !.eapolstate = "WAITING_3_4"]
  <1>3. SameMachines(x, w)
    BY <1>1, SameEapol DEF Same, SameMachines
  <1>4. w.eapolstate = "WAITING_3_4"
    BY <1>1 DEF Daemon
  <1> HIDE DEF w
  <1>5. Driven(x, send_packet_2(x, ok))
    BY <1>2, <1>3, DrivenSame DEF send_packet_2, Kept, Driven, w
  <1>6. send_packet_2(x, ok).eapolstate \in {x.eapolstate, "WAITING_3_4"}
    BY <1>2, <1>4 DEF send_packet_2, Kept, EapolKept, w
  <1> DEFINE y == [send_packet(x, "P4") EXCEPT !.eapolstate = "NEGOTIATED"]
             z == upload_gtk(upload_ptk(y))
  <1>7. y \in Daemon /\ Driven(x, y)
    <2>1. y \in Daemon
      BY <1>1, EapolStateType DEF EapolStates
    <2>2. SameMachines(x, y)
      BY <1>1, SameEapol DEF Same, SameMachines
    <2> QED
      BY <2>1, <2>2, DrivenSame
  <1> HIDE DEF y
  <1>8. z \in Daemon /\ Kept(y, z)
    BY <1>7, UploadType, KeptUpload, KeptTrans
  <1> HIDE DEF z
  <1>9. Driven(x, handle_connect(z))
    <2>1. Kept(y, handle_connect(z))
      BY <1>8, KeptHandleConnect, KeptTrans
    <2>2. Driven(y, handle_connect(z))
      BY <2>1 DEF Kept, Driven
    <2> QED
      BY <1>7, <2>2, DrivenTrans
  <1>10. Driven(x, send_packet_4(x, ok))
    BY <1>2, <1>9 DEF send_packet_4, Kept, Driven, z, y
  <1>11. Kept(x, send_group_2(x, ok))
    BY <1>1, <1>2, KeptSame, KeptUpload, KeptTrans DEF send_group_2
  <1> QED
    BY <1>5, <1>6, <1>10, <1>11

(* A message 1/4 that came before the association is answered. *)
LEMMA KeptAllowSends ==
  ASSUME NEW x \in Daemon, Free(x), NEW ok \in BOOLEAN
  PROVE  /\ Driven(x, allow_eapol_sends(x, ok))
         /\ allow_eapol_sends(x, ok).eapolstate
              \in {x.eapolstate, "WAITING_3_4"}
  <1>1. [x EXCEPT !.eapolsends = TRUE].eapolstate = x.eapolstate
    BY DEF Daemon
  <1> QED
    BY <1>1, KeptSendPackets, SameEapol, DrivenSame DEF allow_eapol_sends

(* Any frame, in any state of the handshake. *)
LEMMA KeptRawsock ==
  ASSUME NEW x \in Daemon, Free(x), NEW m \in Frames, NEW ok \in BOOLEAN
  PROVE  Driven(x, handle_rawsock(x, m, ok))
  <1> DEFINE e == pmk_to_ptk(x, m)
  <1>1. e \in Daemon
    BY DEF pmk_to_ptk, Daemon, Keys
  <1>2. SameMachines(x, e)
    BY SameEapol DEF Same
  <1> HIDE DEF e
  <1>3. Free(e)
    BY <1>2 DEF SameMachines, Free, SentIn
  <1>4. Driven(x, send_packet_2(e, ok))
    BY <1>1, <1>2, <1>3, DrivenSame, KeptSendPackets, DrivenTrans
  <1>5. Driven(x, [e EXCEPT !.eapolstate = "WAITING_2_4"])
    <2>1. SameMachines(e, [e EXCEPT !.eapolstate = "WAITING_2_4"])
      BY <1>1, SameEapol
    <2> QED
      BY <1>2, <2>1, DrivenSame, DrivenTrans
  <1>6. Driven(x, x)
    BY KeptRefl DEF Kept, Driven
  <1>7. Driven(x, recv_packet_1(x, m, ok))
    BY <1>4, <1>5, <1>6 DEF recv_packet_1, e
  <1>8. Driven(x, recv_packet_3(x, m, ok))
    BY KeptSendPackets, KeptAbort DEF recv_packet_3, Kept, Driven
  <1>9. Driven(x, recv_group_1(x, m, ok))
    BY <1>6, KeptSendPackets DEF recv_group_1, Kept, Driven
  <1>10. x.eapolstate \in EapolStates
    BY DEF Daemon
  <1> QED
    BY <1>6, <1>7, <1>8, <1>9, <1>10 DEF handle_rawsock, EapolStates

-----------------------------------------------------------------------------
(* wsupp_netlink.c: events and errors *)

(* The two ways to end a scan: both reset the machine and report. *)
LEMMA KeptReset ==
  ASSUME NEW x \in Daemon, NEW r \in {"SCAN_FAIL", "SCAN_DONE", "NET_DOWN"},
         NEW y, y.scanstate = "IDLE", y.tx = x.tx, x.rep \cup {r} \subseteq y.rep
  PROVE  ScanKept(x, y)
  BY DEF ScanKept, SentIn, Told

(* Messages about scans, and the two ways a scan fails. *)
LEMMA KeptScanEvents ==
  ASSUME NEW x \in Daemon, NEW m \in Messages
  PROVE  /\ Kept(x, cmd_trigger_scan(x, m))
         /\ Kept(x, cmd_scan_results(x, m))
         /\ Kept(x, cmd_scan_aborted(x))
         /\ Kept(x, handle_scan_error(x))
         /\ ScanKept(x, snap_to_netdown(x))
  <1>1. Kept(x, cmd_trigger_scan(x, m))
    <2> DEFINE y == mark_stale_scan_slots(x, m.freq)
    <2>1. m.freq \in Int
      BY DEF Messages
    <2>2. y \in Daemon
      BY <2>1, StaleType
    <2>3. Same(x, y)
      BY DEF Same, SameMachines, EapolKept, Daemon, mark_stale_scan_slots
    <2> HIDE DEF y
    <2> QED
      BY <2>2, <2>3, KeptSame, KeptReport, KeptTrans, KeptRefl
         DEF cmd_trigger_scan, y
  <1>2. Kept(x, cmd_scan_results(x, m))
    <2>1. Same(x, parse_scan_result(x, m.bss))
      BY DEF Same, SameMachines, EapolKept, Daemon, parse_scan_result
    <2> QED
      BY <2>1, KeptSame, KeptScanDump, KeptRefl DEF cmd_scan_results
  <1>3. Kept(x, cmd_scan_aborted(x))
    <2> DEFINE y == reset_scan_state(report(x, "SCAN_FAIL"))
    <2>1. /\ y.scanstate = "IDLE" /\ y.tx = x.tx
          /\ x.rep \cup {"SCAN_FAIL"} \subseteq y.rep
          /\ y.authstate = x.authstate /\ EapolKept(x, y)
      BY DEF Daemon, reset_scan_state, report, EapolKept
    <2> HIDE DEF y
    <2>2. Kept(x, y)
      BY <2>1, KeptReported DEF Told
    <2> QED
      BY <2>2, KeptRefl DEF cmd_scan_aborted, y
  <1>4. Kept(x, handle_scan_error(x))
    <2> DEFINE y == report(reset_scan_state(x), "SCAN_FAIL")
    <2>1. /\ y.scanstate = "IDLE" /\ y.tx = x.tx
          /\ x.rep \cup {"SCAN_FAIL"} \subseteq y.rep
          /\ y.authstate = x.authstate /\ EapolKept(x, y)
      BY DEF Daemon, reset_scan_state, report, EapolKept
    <2> HIDE DEF y
    <2>2. Kept(x, y)
      BY <2>1, KeptReported DEF Told
    <2> QED
      BY <2>2 DEF handle_scan_error, y
  <1>5. ScanKept(x, snap_to_netdown(x))
    <2> DEFINE y == snap_to_netdown(x)
    <2>1. /\ y.scanstate = "IDLE" /\ y.tx = x.tx
          /\ x.rep \cup {"NET_DOWN"} \subseteq y.rep
      BY DEF Daemon, snap_to_netdown, reset_scan_state, report, set_timer
    <2> HIDE DEF y
    <2> QED
      BY <2>1, KeptReset DEF y
  <1> QED
    BY <1>1, <1>2, <1>3, <1>4, <1>5

(* The end of a dump: IDLE and SCAN_DONE, then whatever the requests that  *)
(* were joined ask for.  Reconnecting starts no scan by itself.            *)
LEMMA KeptDone ==
  ASSUME NEW x \in Daemon
  PROVE  /\ Kept(x, genl_done(x))
         /\ x.scanstate = "SCANDUMP" => Ended(genl_done(x))
  <1> DEFINE a == reset_scan_state(x)
             b == drop_stale_scan_slots(a)
             c == check_new_scan_results(b)
             e == report(c, "SCAN_DONE")
  <1>1. /\ a \in Daemon /\ a.scanstate = "IDLE" /\ a.tx = x.tx /\ a.rep = x.rep
        /\ a.authstate = x.authstate /\ EapolKept(x, a)
    BY ResetScanType DEF reset_scan_state, Daemon, EapolKept
  <1> HIDE DEF a
  <1>2. /\ b \in Daemon /\ b.scanstate = "IDLE" /\ b.tx = x.tx /\ b.rep = x.rep
        /\ b.authstate = x.authstate /\ EapolKept(x, b)
    <2>1. Same(a, b)
      BY <1>1 DEF Same, SameMachines, EapolKept, Daemon, drop_stale_scan_slots
    <2> QED
      BY <1>1, <2>1, StaleType DEF Same, SameMachines, EapolKept
  <1> HIDE DEF b
  <1>3. /\ c \in Daemon /\ c.scanstate = "IDLE" /\ c.tx = x.tx /\ c.rep = x.rep
        /\ c.authstate = x.authstate /\ EapolKept(x, c)
    <2>1. Same(b, c)
      BY <1>2, SameSimple
    <2> QED
      BY <1>2, <2>1, NewResultsType DEF Same, SameMachines, EapolKept
  <1> HIDE DEF c
  <1>4. /\ e \in Daemon /\ e.scanstate = "IDLE" /\ e.tx = x.tx
        /\ x.rep \cup {"SCAN_DONE"} \subseteq e.rep
        /\ e.authstate = x.authstate /\ EapolKept(x, e)
    <2>1. e \in Daemon
      BY <1>3, ReportType DEF Reports
    <2> QED
      BY <1>3, <2>1 DEF report, Daemon, EapolKept
  <1> HIDE DEF e
  <1>5. Kept(x, e)
    BY <1>4, KeptReported DEF Told
  <1>6. Kept(x, genl_done(x))
    BY <1>4, <1>5, KeptReconnect, KeptReassess, KeptTrans, KeptRefl
       DEF genl_done, e, c, b, a
  <1>7. \A y : Kept(e, y) => Ended(y)
    BY <1>4 DEF Kept, ScanKept, Ended
  <1>8. x.scanstate = "SCANDUMP" => Ended(genl_done(x))
    BY <1>4, <1>7, KeptReconnect, KeptReassess, KeptRefl
       DEF genl_done, e, c, b, a
  <1> QED
    BY <1>6, <1>8

(* Another supplicant has taken the card. *)
LEMMA KeptDisabled ==
  ASSUME NEW x \in Daemon
  PROVE  ScanKept(x, snap_to_disabled(x))
  <1> DEFINE y == [x EXCEPT !.opermode = "NEUTRAL", !.authstate = "EXTERNAL"]
             z == reset_eapol_state(y)
  <1>1. y \in Daemon /\ ScanKept(x, y)
    BY DEF Daemon, OperModes, AuthStates, ScanKept, SentIn
  <1> HIDE DEF y
  <1>2. z \in Daemon /\ Kept(y, z)
    BY <1>1, EapolResetType, SameEapol, KeptSame
  <1> HIDE DEF z
  <1>3. Kept(z, handle_disconnect(z))
    BY <1>2, KeptHandleDisconnect
  <1> QED
    BY <1>1, <1>2, <1>3, ScanKeptTrans DEF snap_to_disabled, Kept, z, y

(* Messages about the connection. *)
LEMMA KeptAuthEvents ==
  ASSUME NEW x \in Daemon, Free(x), NEW ok \in BOOLEAN
  PROVE  /\ ScanKept(x, cmd_authenticate(x))
         /\ ScanKept(x, cmd_associate(x, ok))
         /\ ScanKept(x, cmd_connect(x))
         /\ ScanKept(x, cmd_disconnect(x))
  <1> DEFINE p == prime_eapol_state(x)
             a == allow_eapol_sends(x, ok)
             y == reset_eapol_state(x)
             z == [y EXCEPT !.authstate = "IDLE"]
             e == IF x.authstate = "CONNECTING" THEN x ELSE snap_to_disabled(x)
  <1>1. ScanKept(x, trigger_associaction(p))
    <2>1. p \in Daemon /\ ScanKept(x, p)
      BY EapolResetType, SameEapol, DrivenSame DEF Driven
    <2> QED
      BY <2>1, KeptTriggers, ScanKeptTrans
  <1>2. ScanKept(x, cmd_authenticate(x))
    BY <1>1, KeptDisabled, KeptRefl DEF cmd_authenticate, Kept
  <1>3. a \in Daemon /\ ScanKept(x, a)
    BY AllowSendsType, KeptAllowSends DEF Driven
  <1> HIDE DEF a
  <1>4. ScanKept(x, [a EXCEPT !.authstate = "CONNECTING"])
    BY <1>3, ScanKeptMoved, ScanKeptTrans
  <1>5. ScanKept(x, cmd_associate(x, ok))
    BY <1>4, KeptDisabled, KeptRefl DEF cmd_associate, Kept, a
  <1>6. e \in Daemon /\ ScanKept(x, e)
    BY DisabledType, KeptDisabled, KeptRefl DEF Kept
  <1> HIDE DEF e
  <1>7. ScanKept(x, [e EXCEPT !.authstate = "CONNECTED"])
    BY <1>6, ScanKeptMoved, ScanKeptTrans
  <1>8. ScanKept(x, cmd_connect(x))
    BY <1>7, KeptRefl DEF cmd_connect, Kept, e
  <1>9. y \in Daemon /\ Kept(x, y)
    BY EapolResetType, SameEapol, KeptSame
  <1> HIDE DEF y
  <1>10. z \in Daemon /\ ScanKept(x, z)
    BY <1>9, AuthstateType, ScanKeptMoved, ScanKeptTrans DEF AuthStates, Kept
  <1> HIDE DEF z
  <1>11. Kept(z, handle_disconnect(z))
    BY <1>10, KeptHandleDisconnect
  <1>12. ScanKept(x, cmd_disconnect(x))
    BY <1>10, <1>11, ScanKeptTrans, KeptRefl DEF cmd_disconnect, Kept, y, z
  <1> QED
    BY <1>2, <1>5, <1>8, <1>12

(* An error, for each of the commands that can cause it. *)
LEMMA KeptError ==
  ASSUME NEW x \in Daemon, Free(x), NEW m \in Messages
  PROVE  ScanKept(x, genl_error(x, m))
  <1> DEFINE e == [x EXCEPT !.authstate = "IDLE"]
  <1>0. x.ap \in Ap
    BY DEF Daemon
  <1>1. x.ap.freq \in Int
    BY <1>0 DEF Ap
  <1>2. e \in Daemon /\ ScanKept(x, e)
    BY AuthstateType, ScanKeptMoved DEF AuthStates
  <1> HIDE DEF e
  <1>3. ScanKept(e, reassess_wifi_situation(e)) /\ ScanKept(e, start_scan(e, x.ap.freq))
    BY <1>1, <1>2, KeptReassess, KeptStartScan DEF Kept
  <1>4. ScanKept(x, abort_connection(x))
    BY KeptAbort DEF Kept
  <1>5. ScanKept(x, handle_auth_error(x, m.err))
    BY <1>2, <1>3, <1>4, ScanKeptTrans DEF handle_auth_error, e
  <1> QED
    BY <1>5, KeptScanEvents, KeptRefl DEF genl_error, Kept

(* A message that answers the scan machine is not wasted on it. *)
LEMMA AnswerEnds ==
  ASSUME NEW x \in Daemon, NEW m \in Messages, NEW ok \in BOOLEAN
  PROVE  /\ x.scanstate = "SCANNING" /\ EndsScan(m)
              => handle_netlink(x, m, ok).scanstate # "SCANNING"
         /\ x.scanstate = "SCANDUMP" /\ EndsDump(m)
              => Ended(handle_netlink(x, m, ok))
  <1>1. /\ snap_to_netdown(x).scanstate = "IDLE"
        /\ handle_scan_error(x).scanstate = "IDLE"
    BY DEF snap_to_netdown, handle_scan_error, reset_scan_state, report,
           set_timer, Daemon
  <1>2. x.scanstate = "SCANNING" => cmd_scan_aborted(x).scanstate = "IDLE"
    BY DEF cmd_scan_aborted, reset_scan_state, report, Daemon
  <1>3. trigger_scan_dump(x).scanstate = "SCANDUMP"
    BY DEF trigger_scan_dump, nl_send, Daemon
  <1>4. CASE m.type = "ERROR"
    <2>1. handle_netlink(x, m, ok) = genl_error(x, m)
      BY <1>4 DEF handle_netlink
    <2> QED
      BY <1>1, <1>4, <2>1 DEF genl_error, EndsScan, EndsDump, Ended
  <1>5. CASE m.type = "NEW_SCAN_RESULTS"
    <2>1. handle_netlink(x, m, ok) = cmd_scan_results(x, m)
      BY <1>5 DEF handle_netlink
    <2> QED
      BY <1>3, <1>5, <2>1 DEF cmd_scan_results, EndsDump
  <1>6. CASE m.type = "SCAN_ABORTED"
    <2>1. handle_netlink(x, m, ok) = cmd_scan_aborted(x)
      BY <1>6 DEF handle_netlink
    <2> QED
      BY <1>2, <1>6, <2>1 DEF EndsDump
  <1>7. CASE m.type = "DONE"
    <2>1. handle_netlink(x, m, ok) = genl_done(x)
      BY <1>7 DEF handle_netlink
    <2> QED
      BY <1>7, <2>1, KeptDone DEF EndsScan
  <1> QED
    BY <1>4, <1>5, <1>6, <1>7 DEF EndsScan, EndsDump

(* So any netlink message keeps the scan machine. *)
LEMMA KeptNetlink ==
  ASSUME NEW x \in Daemon, Free(x), NEW m \in Messages, NEW ok \in BOOLEAN
  PROVE  ScanKept(x, handle_netlink(x, m, ok))
  <1>1. m.type \in Events \cup {"MULTI", "DONE", "ERROR"}
    BY DEF Messages
  <1> QED
    BY <1>1, KeptScanEvents, KeptDone, KeptAuthEvents, KeptError
       DEF handle_netlink, Events, Kept

-----------------------------------------------------------------------------
(* The control socket, rfkill, the timer and signals.  quit() drops what   *)
(* the handler was about to send, which is nothing: it is the first thing  *)
(* these handlers do.                                                      *)

(* A fatal error, before anything was sent. *)
LEMMA KeptQuit ==
  ASSUME NEW x \in Daemon, x.tx = <<>>
  PROVE  Kept(x, quit(x))
  <1>1. Same(x, quit(x))
    BY DEF Same, SameMachines, EapolKept, Daemon, quit
  <1> QED
    BY <1>1, KeptSame

(* Commands of wifi(1); a scan that is not refused is under way. *)
LEMMA KeptCommands ==
  ASSUME NEW x \in Daemon, Free(x)
  PROVE  /\ Kept(x, cmd_scan(x))
         /\ ~scan_busy(x) => cmd_scan(x).scanstate # "IDLE"
         /\ Kept(x, cmd_neutral(x))
         /\ \A s \in SSIDs : Kept(x, cmd_forget(x, s))
  <1>1. /\ Kept(x, cmd_scan(x))
        /\ ~scan_busy(x) => cmd_scan(x).scanstate # "IDLE"
    BY KeptStartScan DEF cmd_scan, start_void_scan
  <1> DEFINE e == [x EXCEPT !.opermode = "NEUTRAL"]
  <1>2. e \in Daemon /\ Kept(x, e) /\ Free(e)
    <2>1. e \in Daemon /\ Same(x, e)
      BY OpermodeType, SameSimple DEF OperModes
    <2> QED
      BY <2>1, KeptSame, FreeSame
  <1> HIDE DEF e
  <1>3. start_disconnect(e) \in Daemon /\ Kept(x, start_disconnect(e))
    BY <1>2, StartConnectionType, KeptStartConnection, KeptTrans
  <1>4. Kept(x, clr_timer(start_disconnect(e)))
    BY <1>3, SameSimple, KeptSame, KeptTrans
  <1>5. Kept(x, cmd_neutral(x))
    BY <1>2, <1>4 DEF cmd_neutral, e
  <1>6. ASSUME NEW s \in SSIDs PROVE Kept(x, cmd_forget(x, s))
    <2>1. Same(x, cmd_forget(x, s))
      BY DEF Same, SameMachines, EapolKept, Daemon, cmd_forget, drop_psk
    <2> QED
      BY <2>1, KeptSame
  <1> QED
    BY <1>1, <1>5, <1>6

(* wifi connect, with and without network and key. *)
LEMMA KeptCtlConnect ==
  ASSUME NEW x \in Daemon, NEW s \in SSIDs \cup {NoSsid}, NEW k \in Keys
  PROVE  Kept(x, ctl_connect(x, s, k))
  <1> DEFINE r == reset_station(x)
             e == configure_station(x, s, k)
             o == [e EXCEPT !.opermode = "ONESHOT"]
             f == clr_timer(o)
  <1>1. r \in Daemon /\ Same(x, r)
    BY ResetStationType, SameStation
  <1> HIDE DEF r
  <1>2. /\ s \in SSIDs => Same(x, set_fixed_saved(r, s))
        /\ s \in SSIDs /\ k \in PSKs => Same(x, set_fixed_given(r, s, k))
    BY <1>1, SameStation, SameTrans
  <1>3. e \in Daemon
    BY ResetStationType, SetFixedSavedType, SetFixedGivenType
       DEF configure_station
  <1>4. Same(x, e)
    BY <1>1, <1>2 DEF configure_station, r
  <1> HIDE DEF e
  <1>5. o \in Daemon /\ Same(x, o)
    BY <1>3, <1>4, OpermodeType, SameSimple, SameTrans DEF OperModes
  <1> HIDE DEF o
  <1>6. f \in Daemon /\ Kept(x, f)
    BY <1>5, TimerType, SameSimple, SameTrans, KeptSame
  <1> HIDE DEF f
  <1>7. Kept(x, reassess_wifi_situation(f))
    BY <1>6, KeptReassess, KeptTrans
  <1> QED
    BY <1>4, <1>7, KeptRefl, KeptSame DEF ctl_connect, f, o, e

(* The switch, and a failure to bring the interface up. *)
LEMMA KeptRfkill ==
  ASSUME NEW x \in Daemon, x.tx = <<>>, NEW blocked \in BOOLEAN,
         NEW up \in BOOLEAN
  PROVE  ScanKept(x, rfkill_event(x, blocked, up))
  <1> DEFINE y == [x EXCEPT !.rfkilled = TRUE]
             z == [x EXCEPT !.rfkilled = FALSE]
  <1>1. y \in Daemon /\ Same(x, y) /\ z \in Daemon /\ Same(x, z) /\ z.tx = <<>>
    BY DEF Daemon, Same, SameMachines, EapolKept
  <1> HIDE DEF y, z
  <1>2. Kept(x, clr_timer(y))
    BY <1>1, SameSimple, SameTrans, KeptSame
  <1>3. Kept(x, z) /\ Kept(x, quit(z))
    BY <1>1, KeptQuit, KeptSame, KeptTrans
  <1>4. ScanKept(x, handle_rfrestored(z))
    BY <1>1, <1>3, KeptRfRestored, ScanKeptTrans DEF Kept
  <1> QED
    BY <1>2, <1>3, <1>4 DEF rfkill_event, Kept, y, z

(* A timeout in each of the states that can have one. *)
LEMMA KeptTimer ==
  ASSUME NEW x \in Daemon, Free(x)
  PROVE  ScanKept(x, timer_expired(x))
  <1> DEFINE e == clr_timer(x)
  <1>1. e \in Daemon /\ Kept(x, e) /\ Free(e)
    BY TimerType, SameSimple, KeptSame, FreeSame
  <1> HIDE DEF e
  <1>2. ScanKept(x, [e EXCEPT !.authstate = "IDLE"])
    BY <1>1, ScanKeptMoved, ScanKeptTrans DEF Kept
  <1>3. Kept(x, [e EXCEPT !.opermode = "EXIT"])
    BY <1>1, SameSimple, KeptSame, KeptTrans
  <1>4. /\ Kept(x, routine_bg_scan(e)) /\ Kept(x, routine_fg_scan(e))
        /\ Kept(x, abort_connection(e))
    BY <1>1, KeptRoutineScan, KeptAbort, KeptTrans
  <1> QED
    BY <1>2, <1>3, <1>4 DEF timer_expired, Kept, e

(* SIGTERM, with and without a connection. *)
LEMMA KeptShutdown ==
  ASSUME NEW x \in Daemon, x.tx = <<>>
  PROVE  Kept(x, xshutdown(x))
  <1>1. Kept(x, [start_disconnect(x) EXCEPT !.opermode = "EXITREQ"])
    BY StartConnectionType, KeptStartConnection, SameSimple, KeptSame, KeptTrans,
       EmptyFree
  <1> QED
    BY <1>1, KeptQuit, SameSimple, KeptSame DEF xshutdown

(* main() enters the loop with a scan it has triggered. *)
LEMMA KeptStarted ==
  ASSUME NEW cfg \in [SSIDs -> Keys], NEW s \in SSIDs \cup {NoSsid}
  PROVE  Kept(Zeroed(cfg), Started(cfg, s))
  <1> DEFINE z == Zeroed(cfg)
             l == load_state(z, s)
  <1>1. z \in Daemon
    BY ZeroedType
  <1> HIDE DEF z
  <1>2. s \in SSIDs => /\ set_fixed_saved(z, s) \in Daemon
                       /\ Same(z, set_fixed_saved(z, s))
    BY <1>1, SetFixedSavedType, SameStation
  <1>3. l \in Daemon
    BY <1>1, <1>2, OpermodeType DEF load_state, OperModes
  <1>4. Same(z, l)
    <2>1. Same(z, z)
      BY DEF Same, SameMachines, EapolKept
    <2>2. s \in SSIDs =>
            Same(z, [set_fixed_saved(z, s) EXCEPT !.opermode = "ACTIVE"])
      BY <1>2, SameSimple, SameTrans
    <2> QED
      BY <1>2, <2>1, <2>2 DEF load_state
  <1> HIDE DEF l
  <1> QED
    BY <1>3, <1>4, KeptRoutineScan, KeptSame, KeptTrans DEF Started, l, z

-----------------------------------------------------------------------------
(* The invariant.  ScanAnswered is inductive with two additions: the types *)
(* and the fact that between two steps the daemon's scratch fields are     *)
(* clear, so that a resequenced queue means a scan of this very step.      *)
Rested == d.tx = <<>> /\ d.reseq = FALSE

ScanInv == TypeInv /\ Rested /\ ScanAnswered

(* What is in a queue stays when something is appended to it. *)
LEMMA AppendedEnding ==
  ASSUME TypeInv, NEW q \in Seq(Messages), nlq' = nlq \o q
  PROVE  /\ ScanEnding => ScanEnding'
         /\ DumpEnding => DumpEnding'
         /\ \A j \in DOMAIN q : /\ EndsScan(q[j]) => ScanEnding'
                                /\ EndsDump(q[j]) => DumpEnding'
  <1>1. nlq \in Seq(Messages)
    BY DEF TypeInv, TypeOK
  <1>2. /\ DOMAIN nlq = 1 .. Len(nlq) /\ DOMAIN q = 1 .. Len(q)
        /\ Len(nlq) \in Nat /\ Len(q) \in Nat
        /\ DOMAIN nlq' = 1 .. Len(nlq) + Len(q)
    BY <1>1
  <1>3. \A i \in DOMAIN nlq : i \in DOMAIN nlq' /\ nlq'[i] = nlq[i]
    BY <1>1, <1>2
  <1>4. \A j \in DOMAIN q : /\ Len(nlq) + j \in DOMAIN nlq'
                            /\ nlq'[Len(nlq) + j] = q[j]
    BY <1>1, <1>2
  <1> QED
    BY <1>3, <1>4 DEF ScanEnding, DumpEnding

(* The same for a single message. *)
LEMMA AppendedOne ==
  ASSUME TypeInv, NEW m \in Messages, nlq' = Append(nlq, m)
  PROVE  /\ ScanEnding \/ EndsScan(m) => ScanEnding'
         /\ DumpEnding \/ EndsDump(m) => DumpEnding'
  <1>1. nlq' = nlq \o << m >> /\ << m >> \in Seq(Messages)
    BY DEF TypeInv, TypeOK
  <1>2. 1 \in DOMAIN << m >> /\ << m >>[1] = m
    OBVIOUS
  <1> QED
    BY <1>1, <1>2, AppendedEnding

(* Executing or refusing a command takes that one from the stream. *)
LEMMA TailSent ==
  ASSUME TypeInv, tx # <<>>, tx' = Tail(tx), NEW c, Sent(c), Head(tx).cmd # c
  PROVE  Sent(c)'
  <1>1. tx \in Seq(Commands)
    BY DEF TypeInv, TypeOK
  <1>2. PICK i \in DOMAIN tx : tx[i].cmd = c
    BY DEF Sent
  <1>3. i \in 1 .. Len(tx) /\ Len(tx) \in Nat /\ i # 1
    BY <1>1, <1>2
  <1>4. i - 1 \in DOMAIN Tail(tx) /\ Tail(tx)[i - 1] = tx[i]
    BY <1>1, <1>3
  <1> QED
    BY <1>2, <1>4 DEF Sent

(* An empty command stream holds no command. *)
LEMMA EmptyNotSent == tx = <<>> => \A c : ~Sent(c)
  BY DEF Sent

(* The step of any handler that leaves the scan machine and the queue as   *)
(* the two invariants need them; gone is the message it has consumed.      *)
LEMMA HandlerAnswered ==
  ASSUME ScanInv, tx = <<>>, NEW e \in Daemon, ScanKept(d, e),
         NEW c \in Card, c.scanning = card.scanning,
         NEW W, Leaves(e, c, W),
         e.scanstate = "SCANNING" /\ e.scanstate = d.scanstate
           /\ e.reseq = FALSE /\ ScanEnding
             => ScanEnding' \/ SentIn(e, "TRIGGER_SCAN"),
         e.scanstate = "SCANDUMP" /\ e.scanstate = d.scanstate
           /\ e.reseq = FALSE /\ DumpEnding
             => DumpEnding' \/ SentIn(e, "GET_SCAN")
  PROVE  Rested' /\ ScanAnswered'
  <1>1. d'.scanstate = e.scanstate /\ d'.tx = <<>> /\ d'.reseq = FALSE
    BY DEF Leaves, Daemon
  <1>2. tx' = e.tx /\ card' = ApHears(c, e)
    BY DEF Leaves
  <1>3. card'.scanning = card.scanning
    BY <1>2 DEF ApHears, Card
  <1>4. \A k : SentIn(e, k) => Sent(k)'
    BY <1>2 DEF SentIn, Sent
  <1>5. \A k : ~Sent(k)
    BY EmptyNotSent
  <1>6. CASE e.scanstate = d.scanstate /\ e.reseq = d.reseq
    BY <1>1, <1>3, <1>4, <1>5, <1>6 DEF ScanInv, Rested, ScanAnswered
  <1>7. CASE \/ e.scanstate = "SCANNING" /\ SentIn(e, "TRIGGER_SCAN")
             \/ e.scanstate = "SCANDUMP" /\ SentIn(e, "GET_SCAN")
             \/ e.scanstate = "IDLE"
    BY <1>1, <1>4, <1>7 DEF Rested, ScanAnswered
  <1> QED
    BY <1>6, <1>7 DEF ScanKept

(* A handler that consumes no netlink message. *)
LEMMA OtherAnswered ==
  ASSUME ScanInv, tx = <<>>, NEW e \in Daemon, ScanKept(d, e),
         NEW c \in Card, c.scanning = card.scanning,
         NEW W, Leaves(e, c, W), nlq' = Resequenced(nlq, e)
  PROVE  Rested' /\ ScanAnswered'
  <1>1. e.reseq = FALSE => nlq' = nlq
    BY DEF Resequenced
  <1>2. e.reseq = FALSE => (ScanEnding => ScanEnding') /\ (DumpEnding => DumpEnding')
    BY <1>1 DEF ScanEnding, DumpEnding
  <1> QED
    BY <1>2, HandlerAnswered

(* main() enters the loop with the answer to its scan under way. *)
LEMMA InitAnswered == Init => ScanInv
  <1> SUFFICES ASSUME Init PROVE ScanInv
    OBVIOUS
  <1> PICK cfg \in InitCfg, s \in InitState :
        /\ d = [Started(cfg, s) EXCEPT !.tx = <<>>, !.reseq = FALSE]
        /\ tx = Started(cfg, s).tx
    BY DEF Init
  <1> DEFINE z == Zeroed(cfg)
             e == Started(cfg, s)
  <1>1. e \in Daemon /\ Kept(z, e)
    BY EnvAssumption, StartedType, KeptStarted
  <1>2. z.scanstate = "IDLE"
    BY DEF Zeroed
  <1> HIDE DEF e, z
  <1>3. d.tx = <<>> /\ d.reseq = FALSE /\ d.scanstate = e.scanstate
    BY <1>1 DEF Daemon, e
  <1>4. \A k : SentIn(e, k) => Sent(k)
    BY DEF SentIn, Sent, e
  <1> QED
    BY <1>1, <1>2, <1>3, <1>4, InitType
       DEF Kept, ScanKept, ScanInv, Rested, ScanAnswered

(* Steps of the environment that leave d alone: the answer moves from the  *)
(* command stream to the card and from there to the queue, never away.     *)
LEMMA CardAnswered ==
  ASSUME ScanInv, CardStep
  PROVE  Rested' /\ ScanAnswered'
  <1> USE DEF ScanInv
  <1>0. TypeInv /\ d' = d /\ tx # <<>> /\ tx' = Tail(tx)
    BY DEF CardStep, CardScan, CardDump, CardAuth, CardAssoc, CardDisconnect,
           CardKey, CardRefuse, Executes
  <1>1. Rested'
    BY <1>0 DEF Rested
  <1>2. \A c : Sent(c) /\ Head(tx).cmd # c => Sent(c)'
    BY <1>0, TailSent
  <1>3. CASE CardScan
    <2> DEFINE m == [Event("TRIGGER_SCAN") EXCEPT !.freq = Head(tx).freq]
    <2>1. m \in Messages
      <3>1. Event("TRIGGER_SCAN") \in Messages
        BY EventType DEF Events
      <3>2. Head(tx) \in Commands
        BY <1>0 DEF TypeInv, TypeOK
      <3>3. Head(tx).freq \in Int
        BY <3>2 DEF Commands
      <3> QED
        BY <3>1, <3>3 DEF Messages
    <2>2. Head(tx).cmd = "TRIGGER_SCAN" /\ card'.scanning /\ nlq' = Append(nlq, m)
      BY <1>3 DEF CardScan, Executes, TypeInv, TypeOK, Card
    <2> HIDE DEF m
    <2>3. DumpEnding => DumpEnding'
      BY <1>0, <2>1, <2>2, AppendedOne
    <2> QED
      BY <1>0, <1>1, <1>2, <2>2, <2>3 DEF ScanAnswered
  <1>4. CASE CardDump
    <2> PICK S \in SUBSET BSSIDs : \E found \in [S -> Looks] :
          nlq' = nlq \o << [Event("MULTI") EXCEPT !.bss = found],
                           Event("DONE") >>
      BY <1>4 DEF CardDump
    <2> PICK found \in [S -> Looks] :
          nlq' = nlq \o << [Event("MULTI") EXCEPT !.bss = found],
                           Event("DONE") >>
      OBVIOUS
    <2> DEFINE q == << [Event("MULTI") EXCEPT !.bss = found], Event("DONE") >>
    <2>0. found \in Dumps
      BY DEF Dumps
    <2>1. Event("MULTI") \in Messages /\ Event("DONE") \in Messages
      BY EventType
    <2>2. [Event("MULTI") EXCEPT !.bss = found] \in Messages
      BY <2>0, <2>1 DEF Messages
    <2>3. q \in Seq(Messages) /\ 2 \in DOMAIN q /\ q[2] = Event("DONE")
      BY <2>1, <2>2
    <2> HIDE DEF q
    <2>4. EndsDump(q[2])
      BY <2>3 DEF EndsDump, Event
    <2>5. (ScanEnding => ScanEnding') /\ DumpEnding'
      BY <1>0, <2>3, <2>4, AppendedEnding DEF q
    <2>6. Head(tx).cmd = "GET_SCAN" /\ card' = card
      BY <1>4 DEF CardDump, Executes
    <2> QED
      BY <1>0, <1>1, <1>2, <2>5, <2>6 DEF ScanAnswered
  <1>5. CASE CardAuth \/ CardAssoc \/ CardKey
    <2>1. nlq' = nlq /\ Head(tx).cmd \notin ScanCommands
            /\ card'.scanning = card.scanning
      BY <1>5 DEF CardAuth, CardAssoc, CardKey, Executes, ScanCommands,
                  TypeInv, TypeOK, Card
    <2>2. (ScanEnding => ScanEnding') /\ (DumpEnding => DumpEnding')
      BY <2>1 DEF ScanEnding, DumpEnding
    <2> QED
      BY <1>0, <1>1, <1>2, <2>1, <2>2 DEF ScanAnswered, ScanCommands
  <1>6. CASE CardDisconnect
    <2>1. Head(tx).cmd = "DISCONNECT" /\ card'.scanning = card.scanning
            /\ nlq' = Append(nlq, Event("DISCONNECT"))
      BY <1>6 DEF CardDisconnect, Executes, Unlinked, TypeInv, TypeOK, Card
    <2>2. Event("DISCONNECT") \in Messages
      BY EventType DEF Events
    <2>3. (ScanEnding => ScanEnding') /\ (DumpEnding => DumpEnding')
      BY <1>0, <2>1, <2>2, AppendedOne
    <2> QED
      BY <1>0, <1>1, <1>2, <2>1, <2>3 DEF ScanAnswered
  <1>7. CASE CardRefuse
    <2> DEFINE sq == IF Head(tx).cmd \in ScanCommands THEN "SCANSEQ" ELSE "OTHER"
    <2>1. PICK err \in Errors : Fails(err)
      BY <1>7 DEF CardRefuse, Errors
    <2> DEFINE m == [Event("ERROR") EXCEPT !.err = err, !.seq = sq]
    <2>2. Event("ERROR") \in Messages /\ sq \in {"SCANSEQ", "OTHER"}
      BY EventType
    <2>3. nlq' = Append(nlq, m)
      BY <2>1 DEF Fails
    <2>4. Head(tx).cmd \in ScanCommands => sq = "SCANSEQ"
      OBVIOUS
    <2> HIDE DEF sq
    <2>5. m \in Messages /\ m.type = "ERROR" /\ m.seq = sq
      BY <2>2 DEF Messages, Event
    <2> HIDE DEF m
    <2>6. /\ ScanEnding => ScanEnding'
          /\ DumpEnding => DumpEnding'
          /\ Head(tx).cmd \in ScanCommands => ScanEnding' /\ DumpEnding'
      BY <1>0, <2>3, <2>4, <2>5, AppendedOne DEF EndsScan, EndsDump
    <2>7. card' = card
      BY <1>7 DEF CardRefuse
    <2> QED
      BY <1>0, <1>1, <1>2, <2>6, <2>7 DEF ScanAnswered, ScanCommands
  <1> QED
    BY <1>3, <1>4, <1>5, <1>6, <1>7 DEF CardStep

(* A scan leaves the card only with the message that ends it. *)
LEMMA AirAnswered ==
  ASSUME ScanInv, AirStep \/ FaultStep
  PROVE  Rested' /\ ScanAnswered'
  <1> USE DEF ScanInv
  <1>0. TypeInv /\ d' = d /\ tx' = tx
    BY DEF AirStep, FaultStep, ScanDone, AuthDone, AssocDone, ApMessage1,
           ApMessage3, ApResend, ApRekey, ApSend, LinkLost, LinkDown, RadioOff,
           RadioOn, OtherSupplicant, Silently
  <1>1. Rested'
    BY <1>0 DEF Rested
  <1>2. \A c : Sent(c) => Sent(c)'
    BY <1>0 DEF Sent
  <1>3. ASSUME card'.scanning = card.scanning, NEW q \in Seq(Messages),
               nlq' = nlq \o q
        PROVE  ScanAnswered'
    <2>1. (ScanEnding => ScanEnding') /\ (DumpEnding => DumpEnding')
      BY <1>0, <1>3, AppendedEnding
    <2> QED
      BY <1>0, <1>2, <1>3, <2>1 DEF ScanAnswered
  <1>4. ASSUME card'.scanning = card.scanning, nlq' = nlq PROVE ScanAnswered'
    BY <1>0, <1>2, <1>4 DEF ScanAnswered, ScanEnding, DumpEnding
  <1>5. ASSUME card'.scanning = card.scanning, NEW m \in Messages,
               nlq' = Append(nlq, m)
        PROVE  ScanAnswered'
    <2>1. (ScanEnding => ScanEnding') /\ (DumpEnding => DumpEnding')
      BY <1>0, <1>5, AppendedOne
    <2> QED
      BY <1>0, <1>2, <1>5, <2>1 DEF ScanAnswered
  <1>6. card \in Card /\ \A t \in Events : Event(t) \in Messages
    BY <1>0, EventType DEF TypeInv, TypeOK
  <1>7. CASE ScanDone
    <2>1. PICK t \in {"NEW_SCAN_RESULTS", "SCAN_ABORTED"} :
            nlq' = Append(nlq, Event(t))
      BY <1>7 DEF ScanDone
    <2>2. Event(t) \in Messages /\ EndsScan(Event(t))
      BY <1>6 DEF Events, EndsScan, Event
    <2>3. ScanEnding' /\ (DumpEnding => DumpEnding')
      BY <1>0, <2>1, <2>2, AppendedOne
    <2> QED
      BY <1>0, <1>1, <1>2, <2>3 DEF ScanAnswered
  <1>8. CASE AuthDone
    BY <1>1, <1>5, <1>6, <1>8 DEF AuthDone, Unlinked, Card, Events
  <1>9. CASE AssocDone
    <2>1. card'.scanning = card.scanning
      BY <1>6, <1>9 DEF AssocDone, Unlinked, Card
    <2>2. /\ Event("ASSOCIATE") \in Messages /\ Event("CONNECT") \in Messages
          /\ Failed("ASSOCIATE") \in Messages /\ Failed("CONNECT") \in Messages
      BY EventType DEF Events
    <2>3. /\ << Event("ASSOCIATE"), Event("CONNECT") >> \in Seq(Messages)
          /\ << Failed("ASSOCIATE"), Failed("CONNECT") >> \in Seq(Messages)
      BY <2>2
    <2> QED
      BY <1>1, <1>3, <1>5, <1>9, <2>1, <2>2, <2>3 DEF AssocDone
  <1>10. CASE ApMessage1 \/ ApMessage3 \/ ApResend \/ ApRekey
    <2>1. card'.scanning = card.scanning /\ nlq' = nlq
      BY <1>6, <1>10 DEF ApMessage1, ApMessage3, ApResend, ApRekey, ApSend, Card
    <2> QED
      BY <1>1, <1>4, <2>1
  <1>11. CASE LinkLost
    BY <1>1, <1>5, <1>6, <1>11 DEF LinkLost, Unlinked, Card, Events
  <1>12. ASSUME NEW c \in Card, IfaceDown(c) PROVE ScanAnswered'
    <2> DEFINE q1 == IF card.scanning THEN << Event("SCAN_ABORTED") >> ELSE <<>>
               q2 == IF card.link # "NONE" THEN << Event("DISCONNECT") >>
                     ELSE <<>>
               q == q1 \o q2
    <2>1. q1 \in Seq(Messages) /\ q2 \in Seq(Messages)
      BY <1>6 DEF Events
    <2>2. card.scanning => /\ q1 = << Event("SCAN_ABORTED") >>
                           /\ EndsScan(Event("SCAN_ABORTED"))
      BY DEF EndsScan, Event
    <2>3. nlq' = (nlq \o q1) \o q2
      BY <1>12 DEF IfaceDown
    <2> HIDE DEF q1, q2
    <2>4. nlq \in Seq(Messages)
      BY <1>0 DEF TypeInv, TypeOK
    <2>5. q \in Seq(Messages) /\ nlq' = nlq \o q
      BY <2>1, <2>3, <2>4
    <2>6. card.scanning => 1 \in DOMAIN q /\ EndsScan(q[1])
      <3> SUFFICES ASSUME card.scanning PROVE 1 \in DOMAIN q /\ EndsScan(q[1])
        OBVIOUS
      <3>1. Event("SCAN_ABORTED") \in Messages
        BY <1>6 DEF Events
      <3> DEFINE m == Event("SCAN_ABORTED")
      <3>2. q = << m >> \o q2
        BY <2>2
      <3> HIDE DEF m, q
      <3>3. 1 \in DOMAIN (<< m >> \o q2) /\ (<< m >> \o q2)[1] = m
        BY <2>1, <3>1 DEF m
      <3> QED
        BY <2>2, <3>2, <3>3 DEF m
    <2> HIDE DEF q
    <2>7. /\ ScanEnding \/ card.scanning => ScanEnding'
          /\ DumpEnding => DumpEnding'
      BY <1>0, <2>5, <2>6, AppendedEnding
    <2> QED
      BY <1>0, <1>2, <2>7 DEF ScanAnswered
  <1>13. CASE LinkDown \/ RadioOff
    <2>1. [card EXCEPT !.blocked = TRUE] \in Card
      BY <1>6 DEF Card
    <2> QED
      BY <1>1, <1>6, <1>12, <1>13, <2>1 DEF LinkDown, RadioOff
  <1>14. CASE RadioOn
    BY <1>1, <1>4, <1>6, <1>14 DEF RadioOn, Card
  <1>15. CASE OtherSupplicant
    <2>1. card'.scanning = card.scanning
      BY <1>6, <1>15 DEF OtherSupplicant, Card
    <2>2. << Event("AUTHENTICATE"), Event("ASSOCIATE"), Event("CONNECT") >>
            \in Seq(Messages)
      BY <1>6 DEF Events
    <2> QED
      BY <1>1, <1>3, <1>15, <2>1, <2>2 DEF OtherSupplicant
  <1> QED
    BY <1>7, <1>8, <1>9, <1>10, <1>11, <1>13, <1>14, <1>15
       DEF AirStep, FaultStep

-----------------------------------------------------------------------------
(* A client that still waits was told nothing, so the scan it waits for    *)
(* goes on: it ends only with a report.  Only `wifi scan` adds such        *)
(* a client, and only with a scan running.                                 *)
LEMMA HandlerHeard ==
  ASSUME ScanClientHeard, NEW e \in Daemon, ScanKept(d, e), NEW c, NEW W,
         Leaves(e, c, W), "scan" \in W => "scan" \in wait \/ e.scanstate # "IDLE"
  PROVE  ScanClientHeard'
  <1> SUFFICES ASSUME "scan" \in wait' PROVE d'.scanstate # "IDLE"
    BY DEF ScanClientHeard
  <1>1. d'.scanstate = e.scanstate
    BY DEF Leaves, Daemon
  <1>2. "scan" \in W /\ Ends("scan") \cap e.rep = {}
    BY DEF Leaves, Waiting
  <1>3. ~Told(e)
    BY <1>2 DEF Told, Ends
  <1> QED
    BY <1>1, <1>2, <1>3 DEF ScanKept, ScanClientHeard

(* handle_netlink consumes one message.  If the machine still waits after  *)
(* it, that message was not the answer: the answer is behind it.           *)
LEMMA NetlinkAnswered ==
  ASSUME ScanInv, HandleNetlink
  PROVE  /\ Rested' /\ ScanAnswered'
         /\ ScanClientHeard => ScanClientHeard'
  <1> PICK ok \in BOOLEAN :
        /\ Becomes(handle_netlink(d, Head(nlq), ok), card)
        /\ nlq' = Resequenced(Tail(nlq), handle_netlink(d, Head(nlq), ok))
    BY DEF HandleNetlink
  <1> DEFINE m == Head(nlq)
             e == handle_netlink(d, m, ok)
  <1>1. /\ d \in Daemon /\ card \in Card /\ nlq \in Seq(Messages) /\ nlq # <<>>
        /\ tx = <<>> /\ m \in Messages /\ Free(d)
    BY EmptyFree DEF ScanInv, Rested, TypeInv, TypeOK, HandleNetlink, Alive
  <1>2. /\ e \in Daemon /\ ScanKept(d, e)
        /\ d.scanstate = "SCANNING" /\ EndsScan(m) => e.scanstate # "SCANNING"
        /\ d.scanstate = "SCANDUMP" /\ EndsDump(m) => Ended(e)
    BY <1>1, HandleNetlinkType, KeptNetlink, AnswerEnds
  <1>3. Leaves(e, card, wait) /\ (e.reseq = FALSE => nlq' = Tail(nlq))
    BY DEF Becomes, Resequenced
  <1> HIDE DEF e
  <1>4. \A i \in DOMAIN nlq :
          \/ nlq[i] = m
          \/ i - 1 \in DOMAIN Tail(nlq) /\ Tail(nlq)[i - 1] = nlq[i]
    BY <1>1
  <1> HIDE DEF m
  <1>5. e.reseq = FALSE => /\ ScanEnding /\ ~EndsScan(m) => ScanEnding'
                           /\ DumpEnding /\ ~EndsDump(m) => DumpEnding'
    BY <1>3, <1>4 DEF ScanEnding, DumpEnding
  <1>6. Rested' /\ ScanAnswered'
    BY <1>1, <1>2, <1>3, <1>5, HandlerAnswered DEF Ended
  <1>7. ScanClientHeard => ScanClientHeard'
    BY <1>2, <1>3, HandlerHeard
  <1> QED
    BY <1>6, <1>7

(* Every other handler of the daemon: it leaves e, with the clients W, and *)
(* takes nothing from the netlink queue.                                   *)
LEMMA OtherStep ==
  ASSUME ScanInv, tx = <<>>, NEW e \in Daemon, ScanKept(d, e),
         NEW c \in Card, c.scanning = card.scanning,
         NEW W, Leaves(e, c, W), nlq' = Resequenced(nlq, e),
         "scan" \in W => "scan" \in wait \/ e.scanstate # "IDLE"
  PROVE  /\ Rested' /\ ScanAnswered'
         /\ ScanClientHeard => ScanClientHeard'
  BY OtherAnswered, HandlerHeard

(* Commands and SIGTERM. *)
LEMMA UserAnswered ==
  ASSUME ScanInv, UserStep
  PROVE  /\ Rested' /\ ScanAnswered'
         /\ ScanClientHeard => ScanClientHeard'
  <1>1. d \in Daemon /\ d.tx = <<>> /\ card \in Card /\ tx = <<>> /\ Free(d)
    BY EmptyFree
       DEF ScanInv, Rested, TypeInv, TypeOK, UserStep, UserScan, UserNeutral,
           UserConnect, UserForget, Sigterm, Request, Alive
  <1>2. ASSUME NEW e \in Daemon, ScanKept(d, e), NEW w, Request(e, w),
               "scan" \in w => e.scanstate # "IDLE"
        PROVE  /\ Rested' /\ ScanAnswered'
               /\ ScanClientHeard => ScanClientHeard'
    <2>1. Leaves(e, card, wait \cup w) /\ nlq' = Resequenced(nlq, e)
      BY <1>2 DEF Request
    <2> QED
      BY <1>1, <1>2, <2>1, OtherStep
  <1>3. CASE UserScan
    BY <1>1, <1>2, <1>3, CommandsType, KeptCommands DEF UserScan, Kept
  <1>4. CASE UserNeutral
    BY <1>1, <1>2, <1>4, CommandsType, KeptCommands DEF UserNeutral, Kept
  <1>5. CASE UserConnect
    BY <1>1, <1>2, <1>5, CtlConnectType, KeptCtlConnect DEF UserConnect, Kept
  <1>6. CASE UserForget
    BY <1>1, <1>2, <1>6, CommandsType, KeptCommands DEF UserForget, Kept
  <1>7. CASE Sigterm
    BY <1>1, <1>2, <1>7, ShutdownType, KeptShutdown DEF Sigterm, Kept
  <1> QED
    BY <1>3, <1>4, <1>5, <1>6, <1>7 DEF UserStep

(* The invariant is inductive: one case per kind of step. *)
LEMMA NextAnswered ==
  ASSUME ScanInv, ScanClientHeard, [Next]_vars
  PROVE  ScanInv' /\ ScanClientHeard'
  <1>1. TypeInv'
    BY NextType DEF ScanInv
  <1>2. d \in Daemon /\ d.tx = <<>> /\ card \in Card /\ rawq \in Seq(Frames)
          /\ rfq \in Seq(BOOLEAN)
    BY DEF ScanInv, Rested, TypeInv, TypeOK
  <1> SUFFICES Rested' /\ ScanAnswered' /\ ScanClientHeard'
    BY <1>1 DEF ScanInv
  <1>3. CASE HandleNetlink
    BY <1>3, NetlinkAnswered
  <1>4. CASE HandleRawsock
    <2> PICK ok \in BOOLEAN :
          /\ Becomes(handle_rawsock(d, Head(rawq), ok), card)
          /\ nlq' = Resequenced(nlq, handle_rawsock(d, Head(rawq), ok))
      BY <1>4 DEF HandleRawsock
    <2> DEFINE e == handle_rawsock(d, Head(rawq), ok)
    <2>1. Head(rawq) \in Frames /\ tx = <<>> /\ Free(d)
      BY <1>2, <1>4, EmptyFree DEF HandleRawsock, Alive
    <2>2. e \in Daemon /\ ScanKept(d, e) /\ Leaves(e, card, wait)
      BY <1>2, <2>1, HandleRawsockType, KeptRawsock DEF Becomes, Driven
    <2> HIDE DEF e
    <2> QED
      BY <1>2, <2>1, <2>2, OtherStep DEF e
  <1>5. CASE HandleRfkill
    <2> DEFINE up == card.up \/ ~card.blocked
               e == rfkill_event(d, Head(rfq), up)
               c == IF Head(rfq) \/ ~up THEN card ELSE [card EXCEPT !.up = TRUE]
    <2>1. /\ Head(rfq) \in BOOLEAN /\ tx = <<>> /\ up \in BOOLEAN
          /\ Leaves(e, c, wait) /\ nlq' = Resequenced(nlq, e)
      BY <1>2, <1>5, HeadTailProperties DEF HandleRfkill, Alive, Becomes
    <2>2. c \in Card /\ c.scanning = card.scanning
      BY <1>2 DEF Card
    <2> HIDE DEF up, c
    <2>3. e \in Daemon /\ ScanKept(d, e)
      BY <1>2, <2>1, RfkillType, KeptRfkill
    <2> HIDE DEF e
    <2> QED
      BY <2>1, <2>2, <2>3, OtherStep
  <1>6. CASE TimerExpired
    <2> DEFINE e == timer_expired(d)
    <2>1. e \in Daemon /\ ScanKept(d, e)
      BY <1>2, EmptyFree, TimerExpiredType, KeptTimer
    <2>2. /\ tx = <<>> /\ Leaves(e, card, wait)
          /\ nlq = <<>> /\ nlq' = nlq
      BY <1>6 DEF TimerExpired, Running, Alive, Becomes
    <2> HIDE DEF e
    <2>3. (ScanEnding => ScanEnding') /\ (DumpEnding => DumpEnding')
      BY <2>2 DEF ScanEnding, DumpEnding
    <2> QED
      BY <1>2, <2>1, <2>2, <2>3, HandlerAnswered, HandlerHeard
  <1>7. CASE LeaveLoop
    <2>1. /\ d'.scanstate = d.scanstate /\ d'.tx = d.tx /\ d'.reseq = d.reseq
          /\ tx' = tx /\ nlq' = nlq /\ card' = card /\ wait' = {}
      BY <1>2, <1>7 DEF LeaveLoop, Daemon
    <2> QED
      BY <2>1 DEF ScanInv, Rested, ScanAnswered, ScanClientHeard, ScanEnding,
                  DumpEnding, Sent
  <1>8. CASE UserStep
    BY <1>8, UserAnswered
  <1>9. CASE CardStep
    <2>1. d' = d /\ wait' = wait
      BY <1>9 DEF CardStep, CardScan, CardDump, CardAuth, CardAssoc,
                  CardDisconnect, CardKey, CardRefuse, Executes
    <2> QED
      BY <1>9, <2>1, CardAnswered DEF ScanClientHeard
  <1>10. CASE AirStep \/ FaultStep
    <2>1. d' = d /\ wait' = wait
      BY <1>10 DEF AirStep, FaultStep, ScanDone, AuthDone, AssocDone,
           ApMessage1, ApMessage3, ApResend, ApRekey, ApSend, LinkLost,
           LinkDown, RadioOff, RadioOn, OtherSupplicant, Silently
    <2> QED
      BY <1>10, <2>1, AirAnswered DEF ScanClientHeard
  <1>11. CASE UNCHANGED vars
    BY <1>11 DEF vars, ScanInv, Rested, ScanAnswered, ScanClientHeard,
                 ScanEnding, DumpEnding, Sent
  <1> QED
    BY <1>3, <1>4, <1>5, <1>6, <1>7, <1>8, <1>9, <1>10, <1>11
       DEF Next, DaemonStep

-----------------------------------------------------------------------------
(* Whatever the number of stations, commands, signals and faults: when the *)
(* scan machine waits, what it waits for is in the card, in the command    *)
(* stream or in the netlink queue.                                         *)
THEOREM ScanMachineAnswered == Spec => []ScanAnswered
  <1>1. Init => ScanInv /\ ScanClientHeard
    <2>1. Init => ScanClientHeard
      BY DEF Init, ScanClientHeard
    <2> QED
      BY <2>1, InitAnswered
  <1>2. ScanInv /\ ScanClientHeard /\ [Next]_vars => (ScanInv /\ ScanClientHeard)'
    BY NextAnswered
  <1>3. ScanInv => ScanAnswered
    BY DEF ScanInv
  <1> QED
    BY <1>1, <1>2, <1>3, PTL DEF Spec

(* `wifi scan` has no timeout: as long as a client waits for its report,   *)
(* the scan machine is at work, in every behaviour of the daemon.          *)
THEOREM ScanClientServed == Spec => []ScanClientHeard
  <1>1. Init => ScanInv /\ ScanClientHeard
    <2>1. Init => ScanClientHeard
      BY DEF Init, ScanClientHeard
    <2> QED
      BY <2>1, InitAnswered
  <1>2. ScanInv /\ ScanClientHeard /\ [Next]_vars => (ScanInv /\ ScanClientHeard)'
    BY NextAnswered
  <1> QED
    BY <1>1, <1>2, PTL DEF Spec
=============================================================================
