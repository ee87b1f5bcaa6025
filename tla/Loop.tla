-------------------------------- MODULE Loop --------------------------------
(***************************************************************************)
(* wsupp.c, the sockets of wsupp_cntrl.c, wifi(1) at their other end and    *)
(* wsupp_ifmon.c: one round of the event loop is a ppoll, the handlers of   *)
(* what it returned in a fixed order, and a test of sigterm.  Signals,      *)
(* clients, the card and the AP act between any two of its steps.           *)
(*                                                                         *)
(* What handlers do to the machines is in Wsupp.  Here it is reduced to     *)
(* what descriptors and clients depend on: whether there is an attempt to   *)
(* connect, and whether a notification is written.                          *)
(***************************************************************************)
EXTENDS Integers, Sequences, FiniteSets

CONSTANTS
  Clients,    \* wifi processes
  NCONNS,     \* size of conns[]
  NoFd,       \* an entry that is zero, or -1
  MaxKids,    \* DHCP children
  MaxInbox,   \* messages a client may leave unread
  Budgets     \* how many clients, events, frames and SIGTERMs there may be

ASSUME LoopAssumption ==
  /\ NCONNS \in Nat \ {0} /\ MaxKids \in Nat /\ MaxInbox \in Nat
  /\ NoFd \notin Clients
  /\ Budgets \subseteq [clients : Nat, events : Nat, frames : Nat, terms : Nat]

Slots == 1..NCONNS
Pids  == 1..MaxKids

VARIABLES
  pc,        \* where the daemon is
  mode,      \* opermode: running, EXITREQ or EXIT
  sigterm,
  late,      \* history: SIGTERM came after the test and before ppoll
  pollset,
  pfds,      \* what ppoll waits for besides netlink, control and rfkill
  room,      \* writing behind the end of pfds[] does no harm
  rev,       \* revents of this round, not yet looked at
  rawsock,   \* and its state: FAILED is open, after its interface was down
  tainted,   \* history: the attempt was begun with a socket that had failed
  attempt,   \* authstate
  nlq,       \* netlink messages not yet read
  frames,    \* EAPOL frames not yet read
  rfevent,   \* an rfkill event not yet read
  conns, nconns,
  backlog,   \* clients that accept has not returned yet
  cl,        \* the clients
  kids,      \* the children
  chld,      \* SIGCHLD is pending
  dhcpid,
  early,     \* history: children reaped before their pid was stored
  left       \* what is left of the budget

daemon == <<mode, pollset, pfds, rev, rawsock, tainted, attempt, conns, nconns>>
wire   == <<nlq, frames, rfevent>>
procs  == <<kids, chld, dhcpid, early>>
vars   == <<pc, sigterm, late, room, backlog, cl, left, daemon, wire, procs>>

-----------------------------------------------------------------------------
(* AUTHENTICATING is AUTH; ASSOCIATING and CONNECTING, when frames of the  *)
(* handshake are due, are LINK; UP is after 4/4; DISC is DISCONNECTING;     *)
(* NONE is everything else.                                                *)
Attempts == {"NONE", "AUTH", "LINK", "UP", "DISC"}

Messages == {"AUTHENTICATE", "DISCONNECT", "ERROR", "SCAN_DONE"}

(* connect with a key is what the tool sends after ENOKEY. *)
Commands == {"STATUS", "SCAN", "NEUTRAL", "CONNECT", "CONNECT_PSK"}

Process == [st : {"OFF", "ASK", "LISTEN", "ASK_STATUS", "END"},
            cmd : Commands,
            sock : {"NONE", "BACKLOG", "OPEN", "CLOSED"},
            req : BOOLEAN,                          \* a command not yet read
            inbox : Seq({"OK", "ERR", "NOKEY", "NOTE"})]

Off == [st |-> "OFF", cmd |-> "STATUS", sock |-> "NONE", req |-> FALSE,
        inbox |-> <<>>]

FreeConn == [fd |-> NoFd, rep |-> FALSE]

Hup(c) == cl[c].st = "END"

(* A write to a client that has gone fails and is not looked at again.     *)
Sent(x, m) == IF x.st = "END" THEN x ELSE [x EXCEPT !.inbox = Append(@, m)]

(* send_report *)
Listening(cs) == {cs[i].fd : i \in {j \in 1..nconns : cs[j].rep /\ cs[j].fd # NoFd}}

Told(k, cs) == [c \in Clients |-> IF c \in Listening(cs) THEN Sent(k[c], "NOTE")
                                  ELSE k[c]]

Hears(k, cs) == \A c \in Listening(cs) : Len(k[c].inbox) < MaxInbox

(* A handler that may write a notification, at the end of what it does.     *)
MayReport ==
  /\ UNCHANGED <<conns, nconns>>
  /\ \/ cl' = cl
     \/ Hears(cl, conns) /\ cl' = Told(cl, conns)

-----------------------------------------------------------------------------
(* wsupp_ifmon.c.  A child is NEW until execv, and LIVE after it.  SIGTERM  *)
(* ends it, but a new one has the daemon's handler yet: it notes the signal *)
(* in its copy of sigterm and is DEAF, and after execv it is a STRAY.       *)
ChildStates == {"NONE", "NEW", "LIVE", "DEAF", "STRAY", "TERM", "ZOMBIE", "REAPED"}

Signalled(st) == CASE st = "NEW" -> "DEAF" [] st \in {"LIVE", "STRAY"} -> "TERM"
              [] OTHER -> st

Killed(k) == IF dhcpid > 0 THEN [k EXCEPT ![dhcpid] = Signalled(@)] ELSE k

kill_dhcp == kids' = Killed(kids)

(* Mutant: the old child is left alone. *)
BeforeFork_Alone(k) == k

BeforeFork(k) == Killed(k)

NewPid == CHOOSE p \in Pids : kids[p] = "NONE" /\ \A q \in Pids :
                                kids[q] = "NONE" => p <= q

(* trigger_dhcp up to the return of fork. *)
fork == /\ \E p \in Pids : kids[p] = "NONE"
        /\ kids' = [BeforeFork(kids) EXCEPT ![NewPid] = "NEW"]

Forked == CHOOSE p \in Pids : kids[p] # "NONE" /\ \A q \in Pids :
                                kids[q] # "NONE" => q <= p

(* Mutant: dhcpid is kept. *)
Forgotten_Kept(p) == dhcpid

Forgotten(p) == IF p = dhcpid THEN 0 ELSE dhcpid

(* SIGCHLD runs reap_dhcp at once, wherever the daemon is; it takes one    *)
(* child, and one signal may stand for several.                            *)
Sigchld ==
  /\ chld /\ pc # "gone" /\ chld' = FALSE
  /\ \E p \in Pids :
       /\ kids[p] = "ZOMBIE" /\ kids' = [kids EXCEPT ![p] = "REAPED"]
       /\ dhcpid' = Forgotten(p)
       /\ early' = IF pc = "fork" /\ p = Forked THEN early \cup {p} ELSE early
  /\ pc' = IF pc = "poll" THEN "round" ELSE pc          \* EINTR
  /\ UNCHANGED <<sigterm, late, room, backlog, cl, left, daemon, wire>>

ChildExecs(p) ==
  /\ kids[p] \in {"NEW", "DEAF"} /\ pc # "gone"
  /\ kids' = [kids EXCEPT ![p] = IF @ = "NEW" THEN "LIVE" ELSE "STRAY"]
  /\ UNCHANGED <<pc, sigterm, late, room, backlog, cl, left, daemon, wire, chld,
                 dhcpid, early>>

ChildExits(p) ==
  /\ kids[p] \notin {"NONE", "ZOMBIE", "REAPED"} /\ pc # "gone"
  /\ kids' = [kids EXCEPT ![p] = "ZOMBIE"] /\ chld' = TRUE
  /\ UNCHANGED <<pc, sigterm, late, room, backlog, cl, left, daemon, wire,
                 dhcpid, early>>

-----------------------------------------------------------------------------
(* ppoll *)
NoRev == [conns |-> {}, hup |-> {}, fds |-> {}]

(* update_pollfds fills 4+nconns entries of the 3+NCONNS there are: the last *)
(* slot of a full table has none, and only if the memory behind the array   *)
(* is nobody's does it work as one.                                         *)
Outside(i) == i = NCONNS /\ ~room

update_pollfds ==
  pfds' = [raw |-> rawsock # "CLOSED",
           conns |-> [i \in Slots |-> IF i <= nconns /\ ~Outside(i)
                                      THEN conns[i].fd ELSE NoFd]]

Readable(i) ==
  /\ pfds.conns[i] # NoFd
  /\ cl[pfds.conns[i]].req \/ Hup(pfds.conns[i])

ReadyConns == {i \in Slots : Readable(i)}

ReadyFds ==
  {f \in {"netlink", "rawsock", "rawerr", "accept", "rfkill"} :
     CASE f = "netlink" -> nlq # <<>>
       [] f = "rawsock" -> pfds.raw /\ frames > 0
       [] f = "rawerr"  -> pfds.raw /\ rawsock = "FAILED"
       [] f = "accept"  -> backlog # <<>>
       [] f = "rfkill"  -> rfevent}

Quiet == ReadyConns = {} /\ ReadyFds = {}

EnterPoll ==
  /\ pc = "ready" /\ mode # "EXIT" /\ pc' = "poll"
  /\ IF pollset THEN UNCHANGED pfds ELSE update_pollfds
  /\ pollset' = TRUE
  /\ UNCHANGED <<sigterm, late, room, backlog, cl, left, mode, rev, rawsock,
                 tainted, attempt, conns, nconns, wire, procs>>

(* What is behind the last entry may be anything. *)
PollReturns ==
  /\ pc = "poll" /\ ~Quiet /\ pc' = "round"
  /\ \E stray \in SUBSET {i \in 1..nconns : Outside(i)} :
       rev' = [conns |-> ReadyConns \cup stray,
               hup |-> stray \cup {i \in ReadyConns : Hup(pfds.conns[i])},
               fds |-> ReadyFds \cup {"control"}]
  /\ UNCHANGED <<sigterm, late, room, backlog, cl, left, mode, pollset, pfds,
                 rawsock, tainted, attempt, conns, nconns, wire, procs>>

(* check_polled_fds: conns in the order of their slots, then the rest.     *)
ConnTurn(i) == pc = "round" /\ i \in rev.conns /\ \A j \in rev.conns : i <= j

Rank == [netlink |-> 1, rawsock |-> 2, rawerr |-> 3, accept |-> 4,
         control |-> 5, rfkill |-> 6]

Turn(f) == /\ pc = "round" /\ rev.conns = {} /\ f \in rev.fds
           /\ \A g \in rev.fds : Rank[f] <= Rank[g]

Checked(f) == rev' = [rev EXCEPT !.fds = @ \ {f}]

(* start_connection, which opens the socket if it was closed.              *)
start_connection ==
  /\ attempt' = "AUTH"
  /\ rawsock' = IF rawsock = "CLOSED" THEN "OPEN" ELSE rawsock
  /\ tainted' = (rawsock = "FAILED")

NoConnection == UNCHANGED <<attempt, rawsock, tainted>>

Becomes(a) == attempt' = a /\ UNCHANGED <<rawsock, tainted>>

(* What a machine that has come to rest may do. *)
MayConnect == attempt = "NONE" /\ start_connection

-----------------------------------------------------------------------------
(* handle_conn with one command, and the reply of dispatch_cmd.  A scan    *)
(* may be running, which refuses a connect, and the card may refuse one.   *)
Ack(k, c, m) == [k EXCEPT ![c] = Sent([@ EXCEPT !.req = FALSE], m)]

(* Mutant: the station is looked for before the reply is written. *)
Acked_Late(k, c, cs) == Ack(Told(k, cs), c, "OK")

(* cmd_connect replies before it looks for a station, and there is none.   *)
Acked(k, c, cs) == Told(Ack(k, c, "OK"), cs)

Wants(i) == [conns EXCEPT ![i].rep = TRUE]

Closed(cs, i) == [cs EXCEPT ![i] = FreeConn]

(* check_conn, after handle_conn: a client that had gone when ppoll        *)
(* returned is closed.                                                     *)
After(i, cs, k) ==
  IF i \in rev.hup
  THEN /\ conns' = Closed(cs, i) /\ pollset' = FALSE
       /\ cl' = [k EXCEPT ![conns[i].fd].sock = "CLOSED",
                          ![conns[i].fd].req = FALSE]
  ELSE conns' = cs /\ cl' = k /\ UNCHANGED pollset

(* cmd_neutral sets opermode before it looks whether there is a connection, *)
(* cmd_connect when it has a key.                                          *)
Obey(i, c) ==
  LET cmd == cl[c].cmd IN
  \/ /\ cmd = "STATUS" /\ NoConnection /\ UNCHANGED mode
     /\ After(i, [conns EXCEPT ![i].rep = FALSE], Ack(cl, c, "OK"))
  \/ /\ cmd = "NEUTRAL" /\ mode' = "RUN"
     /\ IF attempt \in {"NONE", "DISC"}
        THEN NoConnection /\ After(i, conns, Ack(cl, c, "ERR"))
        ELSE Becomes("DISC") /\ After(i, Wants(i), Ack(cl, c, "OK"))
  \/ /\ cmd = "SCAN" /\ NoConnection /\ UNCHANGED mode
     /\ \/ After(i, conns, Ack(cl, c, "ERR"))
        \/ After(i, Wants(i), Ack(cl, c, "OK"))
  \/ /\ cmd \in {"CONNECT", "CONNECT_PSK"} /\ NoConnection /\ UNCHANGED mode
     /\ \/ After(i, conns, Ack(cl, c, "ERR"))
        \/ cmd = "CONNECT" /\ After(i, conns, Ack(cl, c, "NOKEY"))
  \/ /\ cmd \in {"CONNECT", "CONNECT_PSK"} /\ attempt = "NONE" /\ mode' = "RUN"
     /\ \/ start_connection /\ After(i, Wants(i), Ack(cl, c, "OK"))
        \/ NoConnection /\ After(i, Wants(i), Acked(cl, c, Wants(i)))

CheckConn(i) ==
  /\ ConnTurn(i)
  /\ rev' = [rev EXCEPT !.conns = @ \ {i}]
  /\ LET c == conns[i].fd IN
     IF c = NoFd THEN UNCHANGED <<conns, cl, pollset, mode>> /\ NoConnection
     ELSE IF cl[c].req THEN Obey(i, c)
     ELSE UNCHANGED mode /\ NoConnection /\ After(i, conns, cl)
  /\ UNCHANGED <<pc, sigterm, late, room, backlog, left, pfds, nconns, wire,
                 procs>>

-----------------------------------------------------------------------------
(* handle_netlink, one datagram in a round: what comes behind it waits for  *)
(* the next.                                                               *)
Exits == mode' = IF mode = "EXITREQ" THEN "EXIT" ELSE mode

(* A lost link, a finished scan and a refused disconnect may be followed   *)
(* by a new attempt at once; the rest is what they do to this one.  An      *)
(* AUTHENTICATE nobody asked for goes through snap_to_disabled; NETDOWN      *)
(* and EXTERNAL are NONE here, and a DISCONNECT is not lost on them.        *)
Lost == (Becomes("NONE") \/ (mode = "RUN" /\ start_connection)) /\ kill_dhcp /\ Exits

OnMessage(m) ==
  CASE m = "AUTHENTICATE" ->
         IF attempt = "AUTH"
         THEN (Becomes("LINK") \/ Becomes("DISC")) /\ UNCHANGED <<kids, mode>>
         ELSE Becomes("NONE") /\ kill_dhcp /\ mode' = "RUN"
    [] m = "DISCONNECT" ->
         \/ Lost
         \/ attempt = "NONE" /\ NoConnection /\ UNCHANGED <<kids, mode>>
    [] m = "ERROR" ->
         /\ \/ Becomes("NONE")                             \* ENETDOWN, ENOENT
            \/ attempt = "DISC" /\ start_connection
            \/ attempt \in {"AUTH", "LINK", "UP"} /\ Becomes("DISC")
         /\ UNCHANGED <<kids, mode>>
    [] m = "SCAN_DONE" ->
         (NoConnection \/ MayConnect) /\ UNCHANGED <<kids, mode>>

CheckNetlink ==
  /\ Turn("netlink")
  /\ OnMessage(Head(nlq)) /\ nlq' = Tail(nlq)
  /\ Checked("netlink")
  /\ MayReport
  /\ UNCHANGED <<pc, sigterm, late, room, backlog, left, pollset, pfds, frames,
                 rfevent, chld, dhcpid, early>>

(* handle_rawsock: a frame of the handshake brings the link up, moves it    *)
(* on, or ends it.  A frame that comes too late may start a new attempt.    *)
CheckRawsock ==
  /\ Turn("rawsock") /\ Checked("rawsock")
  /\ frames' = frames - 1
  /\ \/ NoConnection /\ UNCHANGED <<pc, kids>>
     \/ attempt = "LINK" /\ Becomes("UP") /\ fork /\ pc' = "fork"
     \/ attempt \in {"LINK", "UP"} /\ Becomes("DISC") /\ UNCHANGED <<pc, kids>>
     \/ MayConnect /\ UNCHANGED <<pc, kids>>
  /\ UNCHANGED <<sigterm, late, room, backlog, left, mode, pollset, pfds, conns,
                 nconns, cl, nlq, rfevent, chld, dhcpid, early>>

(* trigger_dhcp stores the pid, and report_connected follows. *)
StorePid ==
  /\ pc = "fork" /\ pc' = "round"
  /\ dhcpid' = Forked
  /\ MayReport
  /\ UNCHANGED <<sigterm, late, room, backlog, left, mode, pollset, pfds, rev,
                 rawsock, tainted, attempt, wire, kids, chld, early>>

CheckRawError ==
  /\ Turn("rawerr") /\ Checked("rawerr")
  /\ rawsock' = "CLOSED" /\ frames' = 0
  /\ pfds' = [pfds EXCEPT !.raw = FALSE]
  /\ UNCHANGED <<pc, sigterm, late, room, backlog, cl, left, mode, pollset,
                 tainted, attempt, conns, nconns, nlq, rfevent, procs>>

(* handle_control accepts clients one after the other.  A connection that  *)
(* gets no slot is closed.                                                 *)
FreeSlots == {i \in 1..nconns : conns[i] = FreeConn}

FirstFree == {i \in FreeSlots : \A j \in FreeSlots : i <= j}

(* Mutant: a new slot is taken behind the last one of the table. *)
Grabbed_Beyond == IF FreeSlots # {} THEN FirstFree ELSE {nconns + 1}

Grabbed == IF FreeSlots # {} THEN FirstFree
           ELSE IF nconns < NCONNS THEN {nconns + 1} ELSE {}

Accept ==
  /\ Turn("accept")
  /\ LET c == Head(backlog) IN
     \/ \E i \in Grabbed :
          /\ conns' = [conns EXCEPT ![i].fd = c]
          /\ nconns' = IF i > nconns THEN i ELSE nconns
          /\ cl' = [cl EXCEPT ![c].sock = "OPEN"]
     \/ /\ Grabbed = {} /\ UNCHANGED <<conns, nconns>>
        /\ cl' = [cl EXCEPT ![c].sock = "CLOSED", ![c].req = FALSE]
  /\ backlog' = Tail(backlog)
  /\ IF Len(backlog) > 1 THEN UNCHANGED rev ELSE Checked("accept")
  /\ UNCHANGED <<pc, sigterm, late, room, left, mode, pollset, pfds, rawsock,
                 tainted, attempt, wire, procs>>

(* Mutant: check_control leaves pollset alone when nobody connects. *)
Unset_Idle == IF \E i \in 1..nconns : conns[i].fd # pfds.conns[i] THEN FALSE
              ELSE pollset

(* Mutant: check_control never asks for a new pollfd array. *)
Unset_Never == pollset

Unset == FALSE

(* The end of check_control, with or without a client. *)
CheckControl ==
  /\ Turn("control") /\ Checked("control")
  /\ pollset' = Unset
  /\ UNCHANGED <<pc, sigterm, late, room, backlog, cl, left, mode, pfds, rawsock,
                 tainted, attempt, conns, nconns, wire, procs>>

CheckRfkill ==
  /\ Turn("rfkill") /\ Checked("rfkill") /\ rfevent' = FALSE
  /\ NoConnection \/ MayConnect
  /\ UNCHANGED <<pc, sigterm, late, room, backlog, cl, left, mode, pollset, pfds,
                 conns, nconns, nlq, frames, procs>>

(* An attempt that takes too long is given up; CONNECTED without a          *)
(* handshake is not.  A device that stays down ends the daemon.            *)
TimerExpired ==
  /\ pc = "poll" /\ Quiet /\ pc' = "round"
  /\ \/ NoConnection /\ UNCHANGED mode
     \/ attempt \in {"AUTH", "LINK"} /\ Becomes("DISC") /\ UNCHANGED mode
     \/ attempt = "NONE" /\ NoConnection /\ mode' = "EXIT"
  /\ UNCHANGED <<sigterm, late, room, backlog, cl, left, pollset, pfds, rev,
                 conns, nconns, wire, procs>>

-----------------------------------------------------------------------------
Hangs(k) == [c \in Clients |-> IF k[c].sock \in {"BACKLOG", "OPEN"}
                               THEN [k[c] EXCEPT !.sock = "CLOSED", !.req = FALSE]
                               ELSE k[c]]

Leave == /\ pc' = "gone" /\ cl' = Hangs(cl)
         /\ UNCHANGED <<mode, attempt>>

(* Mutant: sigterm is tested only after a ppoll that returned nothing. *)
TermSeen_Idle == sigterm /\ pollset

TermSeen == sigterm

xshutdown ==
  IF mode # "RUN" THEN Leave
  ELSE /\ pc' = "ready" /\ UNCHANGED cl
       /\ IF attempt \in {"NONE", "DISC"}
          THEN mode' = "EXIT" /\ UNCHANGED attempt
          ELSE mode' = "EXITREQ" /\ attempt' = "DISC"

(* The end of a round. *)
EndRound ==
  /\ pc = "round" /\ rev.conns = {} /\ rev.fds = {}
  /\ rev' = NoRev
  /\ IF TermSeen THEN xshutdown /\ sigterm' = FALSE /\ late' = FALSE
     ELSE pc' = "ready" /\ UNCHANGED <<cl, mode, attempt, sigterm, late>>
  /\ UNCHANGED <<room, backlog, left, pollset, pfds, rawsock, tainted, conns,
                 nconns, wire, procs>>

LeaveLoop ==
  /\ pc = "ready" /\ mode = "EXIT" /\ Leave
  /\ UNCHANGED <<sigterm, late, room, backlog, left, pollset, pfds, rev, rawsock,
                 tainted, conns, nconns, wire, procs>>

Spend(k) == left[k] > 0 /\ left' = [left EXCEPT ![k] = @ - 1]

(* Signals are blocked nowhere: one that comes before ppoll does not end it. *)
Sigterm ==
  /\ Spend("terms") /\ pc # "gone"
  /\ sigterm' = TRUE
  /\ late' = (late \/ pc = "ready")
  /\ pc' = IF pc = "poll" THEN "round" ELSE pc
  /\ UNCHANGED <<room, backlog, cl, daemon, wire, procs>>

-----------------------------------------------------------------------------
(* wifi *)
Connects(c) ==
  /\ Spend("clients") /\ cl[c].st = "OFF"
  /\ \E cmd \in Commands \ {"CONNECT_PSK"} :
       cl' = [cl EXCEPT ![c] =
                [st |-> "ASK", cmd |-> cmd, req |-> pc # "gone", inbox |-> <<>>,
                 sock |-> IF pc = "gone" THEN "CLOSED" ELSE "BACKLOG"]]
  /\ backlog' = IF pc = "gone" THEN backlog ELSE Append(backlog, c)
  /\ UNCHANGED <<pc, sigterm, late, room, daemon, wire, procs>>

Asks(x, cmd, st) == [x EXCEPT !.cmd = cmd, !.st = st, !.req = x.sock # "CLOSED"]

Ends(x) == [x EXCEPT !.st = "END", !.inbox = <<>>]

(* recv_reply: send_recv_msg passes notifications over, the loops that      *)
(* wait for one look at those that concern them.                           *)
Given(x, m) ==
  CASE m = "NOTE" ->
         IF x.st # "LISTEN" THEN {x}
         ELSE {x, IF x.cmd = "SCAN" THEN Asks(x, "STATUS", "ASK_STATUS") ELSE Ends(x)}
    [] m = "NOKEY" -> {Asks(x, "CONNECT_PSK", "ASK"), Ends(x)}
    [] m = "ERR"   -> {Ends(x)}
    [] m = "OK"    -> {IF x.cmd = "STATUS" THEN Ends(x)
                       ELSE [x EXCEPT !.st = "LISTEN"]}

Receives(c) ==
  /\ cl[c].st \notin {"OFF", "END"} /\ cl[c].inbox # <<>>
  /\ \E x \in Given([cl[c] EXCEPT !.inbox = Tail(@)], Head(cl[c].inbox)) :
       cl' = [cl EXCEPT ![c] = x]
  /\ UNCHANGED <<pc, sigterm, late, room, backlog, left, daemon, wire, procs>>

(* The connection is lost, *)
LosesDaemon(c) ==
  /\ cl[c].st \notin {"OFF", "END"} /\ cl[c].sock = "CLOSED" /\ cl[c].inbox = <<>>
  /\ cl' = [cl EXCEPT ![c] = Ends(@)]
  /\ UNCHANGED <<pc, sigterm, late, room, backlog, left, daemon, wire, procs>>

(* or the user gives up. *)
Stops(c) ==
  /\ cl[c].st \notin {"OFF", "END"} /\ cl[c].sock # "CLOSED"
  /\ cl' = [cl EXCEPT ![c] = Ends(@)]
  /\ UNCHANGED <<pc, sigterm, late, room, backlog, left, daemon, wire, procs>>

-----------------------------------------------------------------------------
(* The card, the access point, the radio.                                  *)
Arrives(m) ==
  /\ nlq' = Append(nlq, m)
  /\ UNCHANGED <<pc, sigterm, late, room, backlog, cl, daemon, frames, rfevent, procs>>

Due(m) == m \in {nlq[i] : i \in DOMAIN nlq}

CardAnswers ==
  /\ pc # "gone"
  /\ \/ attempt = "AUTH" /\ ~Due("AUTHENTICATE") /\ Arrives("AUTHENTICATE")
     \/ attempt = "DISC" /\ Arrives("DISCONNECT")
  /\ ~Due("DISCONNECT")
  /\ UNCHANGED left

CardReports ==
  /\ pc # "gone" /\ Spend("events")
  /\ \/ \E m \in {"ERROR", "SCAN_DONE"} : Arrives(m)
     \/ attempt \in {"LINK", "UP"} /\ ~Due("DISCONNECT") /\ Arrives("DISCONNECT")

(* The interface goes down and up again. *)
IfaceBounces ==
  /\ pc # "gone" /\ Spend("events")
  /\ rawsock' = IF rawsock = "OPEN" THEN "FAILED" ELSE rawsock
  /\ nlq' = IF attempt = "NONE" \/ Due("DISCONNECT") THEN nlq
            ELSE Append(nlq, "DISCONNECT")
  /\ UNCHANGED <<pc, sigterm, late, room, backlog, cl, mode, pollset, pfds, rev,
                 tainted, attempt, conns, nconns, frames, rfevent, procs>>

RadioOn ==
  /\ pc # "gone" /\ Spend("events") /\ ~rfevent /\ rfevent' = TRUE
  /\ UNCHANGED <<pc, sigterm, late, room, backlog, cl, daemon, nlq, frames, procs>>

ApSends ==
  /\ pc # "gone" /\ Spend("frames")
  /\ attempt \in {"LINK", "UP"} /\ rawsock = "OPEN"
  /\ frames' = frames + 1
  /\ UNCHANGED <<pc, sigterm, late, room, backlog, cl, daemon, nlq, rfevent, procs>>

Init ==
  /\ pc = "ready" /\ mode = "RUN" /\ sigterm = FALSE /\ late = FALSE
  /\ pollset = FALSE /\ rev = NoRev /\ room \in BOOLEAN
  /\ pfds = [raw |-> FALSE, conns |-> [i \in Slots |-> NoFd]]
  /\ rawsock = "OPEN" /\ tainted = FALSE /\ attempt = "NONE"
  /\ nlq = <<>> /\ frames = 0 /\ rfevent = FALSE
  /\ conns = [i \in Slots |-> FreeConn] /\ nconns = 0
  /\ backlog = <<>> /\ cl = [c \in Clients |-> Off]
  /\ kids = [p \in Pids |-> "NONE"] /\ chld = FALSE /\ dhcpid = 0 /\ early = {}
  /\ left \in Budgets

DaemonStep ==
  \/ EnterPoll \/ PollReturns \/ EndRound \/ LeaveLoop
  \/ \E i \in Slots : CheckConn(i)
  \/ CheckNetlink \/ CheckRawsock \/ StorePid \/ CheckRawError
  \/ Accept \/ CheckControl \/ CheckRfkill

Signals == Sigchld \/ Sigterm \/ \E p \in Pids : ChildExecs(p) \/ ChildExits(p)

UserStep == \E c \in Clients : Connects(c) \/ Receives(c) \/ LosesDaemon(c) \/ Stops(c)

WorldStep == CardAnswers \/ CardReports \/ IfaceBounces \/ RadioOn \/ ApSends

Next == DaemonStep \/ TimerExpired \/ Signals \/ UserStep \/ WorldStep

Spec == Init /\ [][Next]_vars

(* The loop goes on, and clients read what they are sent, or that they are *)
(* alone.                                                                  *)
FairSpec ==
  /\ Spec /\ WF_vars(DaemonStep)
  /\ \A c \in Clients : WF_vars(Receives(c)) /\ WF_vars(LosesDaemon(c))

-----------------------------------------------------------------------------
TypeOK ==
  /\ pc \in {"ready", "poll", "round", "fork", "gone"}
  /\ mode \in {"RUN", "EXITREQ", "EXIT"}
  /\ sigterm \in BOOLEAN /\ late \in BOOLEAN /\ pollset \in BOOLEAN
  /\ room \in BOOLEAN /\ tainted \in BOOLEAN /\ rfevent \in BOOLEAN /\ chld \in BOOLEAN
  /\ pfds \in [raw : BOOLEAN, conns : [Slots -> Clients \cup {NoFd}]]
  /\ rev.conns \subseteq 1..nconns /\ rev.hup \subseteq 1..nconns
  /\ rev.fds \subseteq DOMAIN Rank
  /\ rawsock \in {"OPEN", "FAILED", "CLOSED"} /\ attempt \in Attempts
  /\ nlq \in Seq(Messages) /\ frames \in Nat
  /\ conns \in [Slots -> [fd : Clients \cup {NoFd}, rep : BOOLEAN]]
  /\ nconns \in 0..NCONNS /\ backlog \in Seq(Clients) /\ cl \in [Clients -> Process]
  /\ kids \in [Pids -> ChildStates]
  /\ dhcpid \in 0..MaxKids /\ early \subseteq Pids

(* Once frames of the handshake are due ppoll waits for the raw socket,     *)
(* although reopen_rawsock never asks for a new pollfd array: that is left  *)
(* to check_control.  The exception is the attempt begun in the round in    *)
(* which the socket's error was still to be looked at, which check_rawsock  *)
(* then leaves without one.                                                *)
RawPolled ==
  pc = "poll" /\ attempt \in {"LINK", "UP"}
    => (rawsock # "CLOSED" /\ pfds.raw) \/ tainted \/ Due("DISCONNECT")

(* ppoll waits for every client that holds a slot, but for the one in the   *)
(* last slot of a full table, whose entry is behind the end of pfds[]; and  *)
(* no entry stands for a client that is no longer in its slot: check_conn   *)
(* pairs them by position only.                                            *)
ConnsPolled ==
  pc = "poll" => \A i \in Slots :
    pfds.conns[i] = IF Outside(i) THEN NoFd ELSE conns[i].fd

(* A client that waits for the reply to a command that makes it a listener  *)
(* is sent no notification before it: "ACK to the command should preceed    *)
(* any notifications caused by the command".                               *)
AckFirst ==
  \A c \in Clients : cl[c].st = "ASK" /\ cl[c].inbox # <<>>
                       => Head(cl[c].inbox) # "NOTE"

(* The daemon does not go to sleep on a SIGTERM, but for one that came      *)
(* between its test and ppoll: no signal is blocked there.                  *)
TermNoticed == pc = "poll" /\ sigterm => late

(* A DHCP child that runs and was not told to end is the one kill_dhcp      *)
(* knows of.  Beside it there may be some that were told, and are dying or  *)
(* were not listening yet.                                                 *)
DhcpKnown ==
  \A p \in Pids : kids[p] \in {"NEW", "LIVE"}
                    => p = dhcpid \/ (pc = "fork" /\ p = Forked)

(* kill_dhcp signals a child of the daemon's, never a pid that was reaped   *)
(* and may be another process by now, but for the child that was reaped     *)
(* before trigger_dhcp had stored its pid.                                 *)
KillsOwn ==
  dhcpid # 0 => kids[dhcpid] \notin {"NONE", "REAPED"} \/ dhcpid \in early

(* A frame that reaches the socket is read: nothing that closes, opens or    *)
(* forgets the socket leaves ppoll waiting without it.                      *)
FrameRead == frames > 0 ~> (frames = 0 \/ pc = "gone")

(* A client that has asked something is told something, or that it is       *)
(* alone, if the last connection's entry of pfds[] is its own.             *)
Served ==
  \A c \in Clients :
    room /\ cl[c].st \in {"ASK", "ASK_STATUS"}
      ~> cl[c].st \notin {"ASK", "ASK_STATUS"}
=============================================================================
