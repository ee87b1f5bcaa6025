------------------------------- MODULE Wsupp -------------------------------
(***************************************************************************)
(* The wsupp daemon, the card it drives over nl80211, the AP it shakes     *)
(* hands with, the rfkill switch and the user.                             *)
(*                                                                         *)
(* The daemon is a single-threaded poll loop, so a handler is one step; a  *)
(* step takes one message off one of the sockets.  Netlink, the EAPOL      *)
(* socket and /dev/rfkill are separate descriptors: each is a FIFO queue,  *)
(* and nothing orders one against another.                                 *)
(***************************************************************************)
EXTENDS Handlers

CONSTANTS
  Beacons,     \* what each station may be found to be in a scan
  RightPsk,    \* the key each network really uses
  InitCfg,     \* config files the daemon may find when it starts
  InitState,   \* SSIDs (or NoSsid) the state file may name
  AlwaysOn,    \* stations every scan finds
  MaxEvents,   \* how many commands, signals, faults and losses a run has
  Kinds,       \* which of those kinds occur in it
  Externals,   \* how often another supplicant may take the card
  Prompt       \* the card and the AP answer before any timer runs out

AllKinds == {"scan", "neutral", "connect", "forget", "sigterm", "rfkill",
             "ifdown", "lost", "fault", "stuck", "resend", "rekey"}

ASSUME EnvAssumption ==
  /\ Beacons \in [BSSIDs -> (SUBSET Looks) \ {{}}]
  /\ RightPsk \in [SSIDs -> PSKs]
  /\ InitCfg \in SUBSET [SSIDs -> Keys]
  /\ InitState \in SUBSET (SSIDs \cup {NoSsid})
  /\ AlwaysOn \in SUBSET BSSIDs
  /\ MaxEvents \in Nat
  /\ Kinds \in SUBSET AllKinds
  /\ Externals \in Nat
  /\ Prompt \in BOOLEAN

VARIABLES
  d,      \* the daemon
  tx,     \* netlink commands it has sent and the kernel has not executed
  nlq,    \* netlink messages not read yet
  rawq,   \* EAPOL frames not read yet
  rfq,    \* rfkill events not read yet: TRUE is blocked
  card,   \* the interface, the radio and the AP on its other end
  wait,   \* commands whose wifi(1) is still waiting for a notification
  left,   \* events that may still happen
  others  \* times another supplicant may still take the card

vars == <<d, tx, nlq, rawq, rfq, card, wait, left, others>>

-----------------------------------------------------------------------------
(* link follows a connection through the card and the AP: authentication,  *)
(* association, the AP's side of the handshake (1/4 sent, 2/4 accepted or  *)
(* refused, 3/4 sent, traffic open), or another supplicant's session.  net *)
(* is the network it is asked to be with; failed says how the last       *)
(* attempt that got as far as its association ended, when that failed: the *)
(* AP refused it, or did not answer.                                       *)
Associated == {"ASSOCED", "M1SENT", "M2GOT", "BADKEY", "M3SENT", "OPEN"}
Links == {"NONE", "AUTHING", "AUTHED", "ASSOCING", "FOREIGN"} \cup Associated

Card == [up : BOOLEAN, blocked : BOOLEAN, scanning : BOOLEAN,
         link : Links, peer : BSSIDs \cup {NoBssid},
         net : SSIDs \cup {NoSsid}, failed : {"NO", "REFUSED", "TIMEDOUT"}]

Unlinked(c) == [c EXCEPT !.link = "NONE", !.peer = NoBssid, !.net = NoSsid]

(* The AP forgets an association together with its nonces. *)
Outdated(q) == [i \in DOMAIN q |-> [q[i] EXCEPT !.cur = FALSE]]

Init ==
  \E cfg \in InitCfg, s \in InitState :
    LET e == Started(cfg, s)
    IN /\ d = [e EXCEPT !.tx = <<>>, !.reseq = FALSE]
       /\ wait = {}
       /\ tx = e.tx
       /\ nlq = <<>> /\ rawq = <<>> /\ rfq = <<>>
       /\ card = [up |-> TRUE, blocked |-> FALSE, scanning |-> FALSE,
                  link |-> "NONE", peer |-> NoBssid, net |-> NoSsid,
                  failed |-> "NO"]
       /\ left = MaxEvents
       /\ others = Externals

-----------------------------------------------------------------------------
(* Daemon steps.  Sending is a system call, so the daemon does nothing     *)
(* else until tx is executed.  main() looks at opermode at the top of its  *)
(* loop only: once it is OP_EXIT there is no other poll, but what the last *)
(* one found readable is still handled.                                    *)
Alive   == d.opermode # "QUIT" /\ tx = <<>>
Running == Alive /\ d.opermode # "EXIT"

ApHears(c, e) ==
  CASE e.sent = "P2" /\ c.link = "M1SENT" ->
         [c EXCEPT !.link = IF e.kck = RightPsk[c.net] THEN "M2GOT" ELSE "BADKEY"]
    [] e.sent = "P4" /\ c.link = "M3SENT" -> [c EXCEPT !.link = "OPEN"]
    [] OTHER -> c

(* When scanseq changes, queued errors no longer match it. *)
Resequenced(q, e) ==
  IF e.reseq THEN [i \in DOMAIN q |-> [q[i] EXCEPT !.seq = "OTHER"]] ELSE q

(* The notifications on which wifi(1) stops waiting.  It also stops when   *)
(* the daemon is gone and the connection with it.                          *)
Clients == {"scan", "disconnect", "connect"}

Ends(w) ==
  CASE w = "scan"       -> {"SCAN_FAIL", "SCAN_DONE", "NET_DOWN"}
    [] w = "disconnect" -> {"DISCONNECT", "NET_DOWN"}
    [] w = "connect"    -> {"CONNECTED", "NO_CONNECT", "NET_DOWN"}

Waiting(W, e) == {w \in W : e.opermode # "QUIT" /\ Ends(w) \cap e.rep = {}}

Leaves(e, c, W) ==
  /\ d' = [e EXCEPT !.tx = <<>>, !.reseq = FALSE, !.sent = "NONE", !.rep = {}]
  /\ tx' = e.tx
  /\ card' = ApHears(c, e)
  /\ wait' = Waiting(W, e)

Becomes(e, c) == Leaves(e, c, wait)

(* Sending to the AP fails when the interface is down, and may fail when   *)
(* it is up.                                                               *)
SendOutcome(ok, e) ==
  /\ ok => card.up \/ e.sent = "NONE"
  /\ ~ok => e.sent # "NONE"
  /\ ~ok /\ card.up => left > 0 /\ "fault" \in Kinds
  /\ left' = IF ~ok /\ card.up THEN left - 1 ELSE left

HandleNetlink ==
  /\ Alive /\ nlq # <<>>
  /\ \E ok \in BOOLEAN :
       LET e == handle_netlink(d, Head(nlq), ok)
       IN /\ SendOutcome(ok, handle_netlink(d, Head(nlq), TRUE))
          /\ Becomes(e, card)
          /\ nlq' = Resequenced(Tail(nlq), e)
  /\ UNCHANGED <<rawq, rfq, others>>

HandleRawsock ==
  /\ Alive /\ rawq # <<>>
  /\ \E ok \in BOOLEAN :
       LET e == handle_rawsock(d, Head(rawq), ok)
       IN /\ SendOutcome(ok, handle_rawsock(d, Head(rawq), TRUE))
          /\ Becomes(e, card)
          /\ nlq' = Resequenced(nlq, e)
  /\ rawq' = Tail(rawq)
  /\ UNCHANGED <<rfq, others>>

HandleRfkill ==
  /\ Alive /\ rfq # <<>>
  /\ LET up == card.up \/ ~card.blocked
         e  == rfkill_event(d, Head(rfq), up)
     IN /\ Becomes(e, IF Head(rfq) \/ ~up THEN card
                      ELSE [card EXCEPT !.up = TRUE])
        /\ nlq' = Resequenced(nlq, e)
  /\ rfq' = Tail(rfq)
  /\ UNCHANGED <<rawq, left, others>>

(* ppoll times out only when nothing is readable. *)
Busy == card.scanning \/ card.link \notin {"NONE", "OPEN", "FOREIGN"}

TimerExpired ==
  /\ Running /\ d.timerset
  /\ nlq = <<>> /\ rawq = <<>> /\ rfq = <<>>
  /\ Prompt => ~Busy
  /\ Becomes(timer_expired(d), card)
  /\ UNCHANGED <<nlq, rawq, rfq, left, others>>

Spend(k) == k \in Kinds /\ left > 0 /\ left' = left - 1

(* A command that is not refused leaves a client of kind w waiting. *)
Request(e, w) ==
  /\ Alive
  /\ Leaves(e, card, wait \cup w)
  /\ nlq' = Resequenced(nlq, e)
  /\ UNCHANGED <<rawq, rfq, others>>

UserScan ==
  /\ Running /\ Spend("scan")
  /\ Request(cmd_scan(d), IF scan_busy(d) THEN {} ELSE {"scan"})

UserNeutral ==
  /\ Running /\ Spend("neutral")
  /\ Request(cmd_neutral(d), IF can_disconnect(d) THEN {"disconnect"} ELSE {})

UserConnect ==
  /\ Running /\ Spend("connect")
  /\ \E s \in SSIDs \cup {NoSsid}, k \in Keys :
       Request(ctl_connect(d, s, k),
               IF can_connect(d) /\ configured(d, s, k)
               THEN {"connect"} ELSE {})

UserForget ==
  /\ Running /\ Spend("forget")
  /\ \E s \in SSIDs : Request(cmd_forget(d, s), {})

(* The handler sets a flag that main() looks at once per round, after the  *)
(* descriptors: the flag may have been set while one of them was served.   *)
Sigterm == Spend("sigterm") /\ Request(xshutdown(d), {})

(* main() returns. *)
LeaveLoop ==
  /\ Alive /\ d.opermode = "EXIT"
  /\ d' = [d EXCEPT !.opermode = "QUIT"]
  /\ wait' = {}
  /\ UNCHANGED <<tx, nlq, rawq, rfq, card, left, others>>

DaemonStep == HandleNetlink \/ HandleRawsock \/ HandleRfkill \/ LeaveLoop
UserStep == UserScan \/ UserNeutral \/ UserConnect \/ UserForget \/ Sigterm

-----------------------------------------------------------------------------
(* The kernel executes a command and answers on the netlink socket.        *)
ScanCommands == {"TRIGGER_SCAN", "GET_SCAN"}

Fails(err) ==
  nlq' = Append(nlq, [Event("ERROR") EXCEPT
           !.err = err,
           !.seq = IF Head(tx).cmd \in ScanCommands THEN "SCANSEQ" ELSE "OTHER"])

(* Is there such a station, or may there be one? *)
OnAir(c) == /\ c.bssid \in BSSIDs /\ c.freq = Freq[c.bssid]
            /\ c.ssid \in SSIDs
            /\ \E l \in Beacons[c.bssid] : l.ssid = c.ssid

(* Could the card do what the command asks? *)
Able(c) ==
  CASE c.cmd = "TRIGGER_SCAN" -> ~card.scanning
    [] c.cmd = "GET_SCAN"     -> TRUE
    [] c.cmd = "AUTHENTICATE" -> card.link = "NONE" /\ OnAir(c)
    [] c.cmd = "ASSOCIATE"    -> card.link = "AUTHED" /\ OnAir(c)
                                 /\ c.bssid = card.peer
    [] c.cmd = "DISCONNECT"   -> card.link # "NONE"
    [] c.cmd = "NEW_KEY"      -> card.link \in Associated

Executes(c) ==
  /\ tx # <<>> /\ Head(tx).cmd = c
  /\ card.up \/ c = "GET_SCAN"
  /\ Able(Head(tx))
  /\ tx' = Tail(tx)
  /\ UNCHANGED <<d, rfq, wait, left, others>>

CardScan ==
  /\ Executes("TRIGGER_SCAN")
  /\ card' = [card EXCEPT !.scanning = TRUE]
  /\ nlq' = Append(nlq, [Event("TRIGGER_SCAN") EXCEPT !.freq = Head(tx).freq])
  /\ UNCHANGED rawq

CardDump ==
  /\ Executes("GET_SCAN")
  /\ \E S \in SUBSET BSSIDs : \E found \in [S -> Looks] :
       /\ AlwaysOn \subseteq S
       /\ \A b \in S : found[b] \in Beacons[b]
       /\ nlq' = nlq \o << [Event("MULTI") EXCEPT !.bss = found],
                            Event("DONE") >>
  /\ UNCHANGED <<rawq, card>>

CardAuth ==
  /\ Executes("AUTHENTICATE")
  /\ card' = [card EXCEPT !.link = "AUTHING", !.peer = Head(tx).bssid,
                           !.net = Head(tx).ssid, !.failed = "NO"]
  /\ UNCHANGED <<rawq, nlq>>

CardAssoc ==
  /\ Executes("ASSOCIATE")
  /\ card' = [card EXCEPT !.link = "ASSOCING", !.net = Head(tx).ssid]
  /\ UNCHANGED <<rawq, nlq>>

CardDisconnect ==
  /\ Executes("DISCONNECT")
  /\ card' = Unlinked(card)
  /\ rawq' = Outdated(rawq)
  /\ nlq' = Append(nlq, Event("DISCONNECT"))

CardKey ==
  /\ Executes("NEW_KEY")
  /\ UNCHANGED <<rawq, nlq, card>>

CardRefuse ==
  /\ tx # <<>>
  /\ \/ /\ ~card.up /\ Head(tx).cmd # "GET_SCAN"
        /\ Fails("ENETDOWN")
        /\ UNCHANGED left
     \/ /\ card.up /\ ~Able(Head(tx))
        /\ Fails("EBUSY")
        /\ UNCHANGED left
     \/ /\ card.up /\ Able(Head(tx))
        /\ Spend(IF Head(tx).cmd = "DISCONNECT" THEN "stuck" ELSE "fault")
        /\ \E err \in {"EBUSY"} \cup
                (IF Head(tx).cmd = "AUTHENTICATE" THEN {"ENOENT"} ELSE {}) :
             Fails(err)
  /\ tx' = Tail(tx)
  /\ UNCHANGED <<d, rawq, rfq, card, wait, others>>

CardStep == \/ CardScan \/ CardDump \/ CardAuth \/ CardAssoc
            \/ CardDisconnect \/ CardKey \/ CardRefuse

-----------------------------------------------------------------------------
(* What the card and the AP do in their own time. *)
Silently == UNCHANGED <<d, tx, rfq, wait, others>>

ScanDone ==
  /\ card.scanning
  /\ card' = [card EXCEPT !.scanning = FALSE]
  /\ \/ nlq' = Append(nlq, Event("NEW_SCAN_RESULTS")) /\ UNCHANGED left
     \/ nlq' = Append(nlq, Event("SCAN_ABORTED")) /\ Spend("fault")
  /\ Silently /\ UNCHANGED rawq

(* A timed out authentication is reported with the same event. *)
AuthDone ==
  /\ card.link = "AUTHING"
  /\ nlq' = Append(nlq, Event("AUTHENTICATE"))
  /\ \/ card' = [card EXCEPT !.link = "AUTHED"] /\ UNCHANGED left
     \/ card' = Unlinked(card) /\ Spend("fault")
  /\ Silently /\ UNCHANGED rawq

(* A refused association is reported with the same two events as one that  *)
(* succeeds, a timed out one with the first of them.                       *)
AssocDone ==
  /\ card.link = "ASSOCING"
  /\ \/ /\ card' = [card EXCEPT !.link = "ASSOCED"]
        /\ nlq' = nlq \o << Event("ASSOCIATE"), Event("CONNECT") >>
        /\ UNCHANGED left
     \/ /\ card' = [Unlinked(card) EXCEPT !.failed = "REFUSED"]
        /\ nlq' = nlq \o << Failed("ASSOCIATE"), Failed("CONNECT") >>
        /\ Spend("fault")
     \/ /\ card' = [Unlinked(card) EXCEPT !.failed = "TIMEDOUT"]
        /\ nlq' = Append(nlq, Failed("ASSOCIATE"))
        /\ Spend("fault")
  /\ Silently /\ UNCHANGED rawq

Frame(t) == [src |-> card.peer, type |-> t,
             key |-> RightPsk[card.net], cur |-> TRUE]

ApSend(t, from, to) ==
  /\ card.link \in from
  /\ rawq' = Append(rawq, Frame(t))
  /\ card' = [card EXCEPT !.link = to]
  /\ Silently /\ UNCHANGED nlq

ApMessage1 == ApSend("M1", {"ASSOCED"}, "M1SENT") /\ UNCHANGED left
ApMessage3 == ApSend("M3", {"M2GOT"}, "M3SENT") /\ UNCHANGED left
ApResend   == /\ Spend("resend")
              /\ \/ ApSend("M1", {"M1SENT"}, "M1SENT")
                 \/ ApSend("M3", {"M3SENT"}, "M3SENT")
ApRekey    == Spend("rekey") /\ ApSend("G1", {"OPEN"}, "OPEN")

(* The AP drops a client whose 2/4 fails its check, and may drop any. *)
LinkLost ==
  /\ card.link # "NONE"
  /\ \/ card.link = "BADKEY" /\ UNCHANGED left
     \/ Spend("lost")
  /\ card' = Unlinked(card)
  /\ rawq' = Outdated(rawq)
  /\ nlq' = Append(nlq, Event("DISCONNECT"))
  /\ Silently

IfaceDown(c) ==
  /\ card' = [Unlinked(c) EXCEPT !.up = FALSE, !.scanning = FALSE]
  /\ rawq' = Outdated(rawq)
  /\ nlq' = nlq \o (IF card.scanning THEN << Event("SCAN_ABORTED") >> ELSE <<>>)
                \o (IF card.link # "NONE" THEN << Event("DISCONNECT") >> ELSE <<>>)

LinkDown ==
  /\ Spend("ifdown") /\ card.up
  /\ IfaceDown(card)
  /\ Silently

RadioOff ==
  /\ Spend("rfkill") /\ ~card.blocked
  /\ IfaceDown([card EXCEPT !.blocked = TRUE])
  /\ rfq' = Append(rfq, TRUE)
  /\ UNCHANGED <<d, tx, wait, others>>

(* The switch goes back without being counted: a blocked radio is not left *)
(* blocked because the run is out of events.                               *)
RadioOn ==
  /\ card.blocked
  /\ card' = [card EXCEPT !.blocked = FALSE]
  /\ rfq' = Append(rfq, FALSE)
  /\ UNCHANGED <<d, tx, nlq, rawq, wait, left, others>>

OtherSupplicant ==
  /\ others > 0 /\ others' = others - 1
  /\ card.up /\ card.link = "NONE"
  /\ card' = [card EXCEPT !.link = "FOREIGN"]
  /\ nlq' = nlq \o << Event("AUTHENTICATE"), Event("ASSOCIATE"),
                     Event("CONNECT") >>
  /\ UNCHANGED <<d, tx, rawq, rfq, wait, left>>

AirStep == \/ ScanDone \/ AuthDone \/ AssocDone \/ ApMessage1 \/ ApMessage3
           \/ ApResend \/ ApRekey \/ LinkLost
FaultStep == LinkDown \/ RadioOff \/ RadioOn \/ OtherSupplicant

Next == \/ DaemonStep \/ TimerExpired \/ UserStep
        \/ CardStep \/ AirStep \/ FaultStep

(* The link goes on by itself; one of these is possible at a time. *)
LinkProgress == \/ AuthDone \/ AssocDone \/ ApMessage1 \/ ApMessage3
                \/ card.link = "BADKEY" /\ LinkLost

(* The daemon serves every readable descriptor (poll returns them all),    *)
(* the kernel executes what it is sent, scans end, the card and the AP go  *)
(* on with a connection, timers run out, a radio is not blocked for ever.  *)
(* Losses, faults, signals and users owe nothing.                          *)
Progress ==
  /\ WF_vars(HandleNetlink) /\ WF_vars(HandleRawsock) /\ WF_vars(HandleRfkill)
  /\ WF_vars(TimerExpired) /\ WF_vars(LeaveLoop)
  /\ WF_vars(CardStep)
  /\ WF_vars(ScanDone) /\ WF_vars(LinkProgress)
  /\ WF_vars(RadioOn)

Spec == Init /\ [][Next]_vars
FairSpec == Spec /\ Progress

-----------------------------------------------------------------------------
(* Every handler leaves the daemon's globals, the card and the queues in   *)
(* their ranges: no handler meets an opermode, a state of a machine or a   *)
(* message its switch statements do not know, and no counter wraps.        *)
TypeOK ==
  /\ d \in Daemon
  /\ tx \in Seq(Commands)
  /\ nlq \in Seq(Messages)
  /\ rawq \in Seq(Frames)
  /\ rfq \in Seq(BOOLEAN)
  /\ card \in Card
  /\ wait \in SUBSET Clients
  /\ left \in 0..MaxEvents
  /\ others \in 0..Externals

-----------------------------------------------------------------------------
(* Messages that end a scan, a dump, a wait of the connection machine. *)
EndsScan(m) ==
  \/ m.type \in {"NEW_SCAN_RESULTS", "SCAN_ABORTED"}
  \/ m.type = "ERROR" /\ (m.seq = "SCANSEQ" \/ m.err = "ENETDOWN")

EndsDump(m) ==
  \/ m.type = "DONE"
  \/ m.type = "ERROR" /\ (m.seq = "SCANSEQ" \/ m.err = "ENETDOWN")

MovesAuth(m) ==
  \/ m.type \in {"AUTHENTICATE", "ASSOCIATE", "CONNECT", "DISCONNECT"}
  \/ m.type = "ERROR" /\ (m.seq = "OTHER" \/ m.err = "ENETDOWN")

ScanEnding  == \E i \in DOMAIN nlq : EndsScan(nlq[i])
DumpEnding  == \E i \in DOMAIN nlq : EndsDump(nlq[i])
AuthMoving  == \E i \in DOMAIN nlq : MovesAuth(nlq[i])
Sent(c)     == \E i \in DOMAIN tx : tx[i].cmd = c

(* scanstate leaves SCANNING and SCANDUMP only through a message, and      *)
(* no timer watches over a scan.  So whenever the scan machine waits, what *)
(* it waits for is in the card, in the command stream or in the queue; a   *)
(* reset or a new request on the way never leaves it waiting for nothing.  *)
ScanAnswered ==
  /\ d.scanstate = "SCANNING" =>
       card.scanning \/ Sent("TRIGGER_SCAN") \/ ScanEnding
  /\ d.scanstate = "SCANDUMP" => Sent("GET_SCAN") \/ DumpEnding

(* The same for the connection machine.  DISCONNECTING has no timeout      *)
(* (cmd_neutral clears the timer), so an unanswered wait would be final.   *)
(* There is one: cmd_associate takes an association that timed out for one *)
(* that is made, and waits for its CONNECT.                                *)
AuthAnswered ==
  /\ d.authstate = "AUTHENTICATING" =>
       card.link = "AUTHING" \/ Sent("AUTHENTICATE") \/ AuthMoving
  /\ d.authstate = "ASSOCIATING" =>
       card.link = "ASSOCING" \/ Sent("ASSOCIATE") \/ AuthMoving
  /\ d.authstate = "CONNECTING" => AuthMoving \/ card.failed = "TIMEDOUT"
  /\ d.authstate = "DISCONNECTING" => Sent("DISCONNECT") \/ AuthMoving

(* `wifi scan` waits for SCAN_DONE, SCAN_FAIL or NET_DOWN, with no timeout. *)
(* Its scan may be one that was running, be joined by others, be aborted,  *)
(* or end with the interface: while a client waits a scan is under way, so *)
(* no path that resets the scan machine forgets to report.                 *)
ScanClientHeard == "scan" \in wait => d.scanstate # "IDLE"

(* What the daemon reports as CONNECTED is an association the card has, or *)
(* a message that will tell it otherwise is already queued: rfkill, link   *)
(* loss and the out-of-order branch of cmd_connect never leave it          *)
(* believing in a link that is gone.  What does is an association the AP   *)
(* refused: its CONNECT has a status that cmd_connect does not look at.    *)
ConnectedIsReal ==
  d.authstate = "CONNECTED" =>
    card.link \in Associated \/ AuthMoving \/ card.failed = "REFUSED"

(* handle_connect saves ap's key for ap's SSID.  It must have been proved  *)
(* by a handshake with that network, however commands, losses and late     *)
(* frames interleave; wifi(1): "If the connection is successful, the PSK   *)
(* will be saved".                                                         *)
SavedKeysWork ==
  \A s \in SSIDs : d.cfg[s] \in {NoPsk, BadPsk, RightPsk[s]}

(* SF_PASS offers a station for automatic connection.  It is set when a    *)
(* scan ends or a connection succeeds, and cmd_forget has to take it back  *)
(* from every station of the network: a flag without a saved key would     *)
(* make connect_to_something spend the station (TRIED, no longer GOOD).    *)
(* A station comes to have the flag without a key in one way only: a dump  *)
(* in which it has another name, parse_scan_result keeping its flags.      *)
Unkeyed(e, b) == "PASS" \in e.scans[b] /\ ~got_psk_for(e, SsidOf(e, b))

OffersHaveKeys ==
  [][\A b \in BSSIDs :
       Unkeyed(d', b) => Unkeyed(d, b) \/ SsidOf(d', b) # SsidOf(d, b)]_vars

(* A daemon in fixed mode comes back to ap.ssid with PSK, possibly hours   *)
(* later, whatever configure_station, set_current_ap and the clearing of   *)
(* ap have done to them in between: both must be there.                    *)
FixedHasKey == d.ap.fixed => d.ap.ssid \in SSIDs /\ d.psk \in PSKs

(* ap.success makes the daemon rescan for this very station when the link  *)
(* drops.  It means that the key in PSK is the one this network uses.      *)
SuccessIsProven ==
  d.ap.success =>
    /\ d.ap.bssid \in BSSIDs
    /\ d.ap.ssid \in SSIDs
    /\ d.psk = RightPsk[d.ap.ssid]

(* Together: what ap and PSK say of the current network can be relied on   *)
(* when the daemon comes back to it, and when it comes back to the station. *)
CurrentKeyWorks == FixedHasKey /\ SuccessIsProven

(* 4/4 goes out, and the key is taken for proved, only while the daemon    *)
(* holds the attempt the frames are about.  Nothing in the code sees to    *)
(* it: the raw socket and the netlink socket are read independently, and   *)
(* eapolstate and eapolsends of one attempt stay until the next one primes *)
(* them.  It is what the theorems about proved keys assume.                *)
InOrder ==
  d.eapolstate # "NEGOTIATED" /\ d'.eapolstate = "NEGOTIATED"
    => /\ d.authstate \in {"CONNECTING", "CONNECTED"}
       /\ card.net = d.ap.ssid

HandshakeInOrder == [][InOrder]_vars

-----------------------------------------------------------------------------
Exited == d.opermode = "QUIT"

(* Every scan ends: by its results, an abort, an error or the interface    *)
(* going down.                                                             *)
ScanEnds == d.scanstate # "IDLE" ~> d.scanstate = "IDLE" \/ Exited

(* No attempt to connect or to disconnect hangs, but one whose association *)
(* timed out.                                                              *)
AuthSettles ==
  d.authstate \in {"AUTHENTICATING", "ASSOCIATING", "CONNECTING",
                   "DISCONNECTING"}
    ~> \/ Exited
       \/ d.authstate \in {"IDLE", "CONNECTED", "NETDOWN", "EXTERNAL"}
       \/ d.authstate = "CONNECTING" /\ card.failed = "TIMEDOUT"

(* A connection that was lost is re-established if the AP stays on air:    *)
(* rescan_current_ap, reconnect_to_current_ap and a second handshake.      *)
Reconnects == d.opermode = "RESCAN" ~> d.ap.success \/ Exited

(* SIGTERM on an established connection, no other event of the connection  *)
(* machine being under way, ends the daemon.                               *)
ExitHappens ==
  d.opermode = "EXITREQ" /\ d.ap.success /\ ~AuthMoving ~> Exited

-----------------------------------------------------------------------------
(* Statements of the repository's comments and manual that the code does   *)
(* not live up to; each is refuted by a run.                               *)

(* wsupp_netlink.c, on snap_to_disabled: "This is not a normal operation,  *)
(* and should only happen in response to another supplicant trying to work *)
(* on the same device."  Without one, authstate never becomes EXTERNAL.    *)
NoFalseExternal == others = Externals => d.authstate # "EXTERNAL"

Idle == d.authstate = "IDLE" /\ d.scanstate = "IDLE"
Quiet == tx = <<>> /\ nlq = <<>> /\ rawq = <<>> /\ rfq = <<>>

(* wsupp_rfkill.c: "effectively `ifconfig (iface) up` done each time some  *)
(* managed link gets un-killed, followed by attempt to re-establish        *)
(* connection."  OP_RESCAN is the mode of a daemon whose live connection   *)
(* was lost: when the radio is back and all is read, it must be at work or *)
(* have a timer set.                                                       *)
RestoredIsRetried ==
  d.opermode = "RESCAN" /\ Idle /\ Quiet /\ card.up => d.timerset

(* wifi(1): "wifi disconnect: Disconnect from current AP, but keep the     *)
(* service running."  Once neutral, the daemon does not start connecting   *)
(* until it is told to.                                                    *)
NeutralIsIdle ==
  [][d.opermode = "NEUTRAL" /\ d'.opermode = "NEUTRAL"
       => ~(d.authstate = "IDLE" /\ d'.authstate = "AUTHENTICATING")]_vars
=============================================================================
