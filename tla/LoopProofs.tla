----------------------------- MODULE LoopProofs -----------------------------
(***************************************************************************)
(* Theorems about Loop, for any clients, numbers of slots and of children,  *)
(* and any mix of events.                                                  *)
(***************************************************************************)
EXTENDS Loop, SequenceTheorems, TLAPS

(* What a round finds ready is there until its turn comes.                 *)
Revents ==
  /\ rev \in [conns : SUBSET (1..nconns), hup : SUBSET (1..nconns),
              fds : SUBSET DOMAIN Rank]
  /\ "netlink" \in rev.fds => nlq # <<>>
  /\ "accept" \in rev.fds => backlog # <<>>
  /\ "rawsock" \in rev.fds => frames > 0
  /\ "rawerr" \in rev.fds => rawsock = "FAILED"
  /\ pc \in {"ready", "poll"} => rev = NoRev

(* No entry beyond the count is in use, or waited for. *)
Unused ==
  \A i \in Slots : i > nconns => conns[i] = FreeConn /\ pfds.conns[i] = NoFd

(* What is looked at before the control socket, and may open, take or free a *)
(* descriptor that ppoll does not know of.                                 *)
BeforeControl == {"netlink", "rawsock", "rawerr", "accept"}

(* A pollfd array is out of date only until the round looks at the control  *)
(* socket, or it is known to be.                                           *)
PollArray ==
  /\ pc = "poll" => pollset
  /\ rev.conns # {} \/ rev.fds \cap BeforeControl # {} => "control" \in rev.fds
  /\ "rfkill" \in rev.fds /\ "control" \notin rev.fds => ~pollset
  /\ pollset /\ "control" \notin rev.fds =>
       /\ \A i \in Slots : pfds.conns[i] = IF Outside(i) THEN NoFd ELSE conns[i].fd
       /\ rawsock # "CLOSED" => pfds.raw

(* The socket of an attempt that began with a good one fails only with the  *)
(* interface, and then the connection is about to be lost.                 *)
Socket ==
  attempt \in {"AUTH", "LINK", "UP"} /\ ~tainted
    => rawsock = "OPEN" \/ Due("DISCONNECT")

Holds(cs, c)   == \E i \in Slots : cs[i].fd = c
Listens(cs, c) == \E i \in Slots : cs[i].fd = c /\ cs[i].rep

(* A client that asks is sent nothing before the reply, and after ENOKEY    *)
(* nothing before the reply to what it asks then.                          *)
Proper(x, holds, listens) ==
  /\ x.st = "OFF" => ~holds /\ x.inbox = <<>>
  /\ x.req /\ x.st # "END" => \/ x.st = "ASK" /\ x.inbox = <<>>
                              \/ x.st = "ASK_STATUS" /\ x.cmd = "STATUS"
  /\ x.st = "ASK" /\ x.inbox = <<>> => ~listens
  /\ \A k \in DOMAIN x.inbox : x.inbox[k] = "NOKEY" =>
       x.st = "ASK" /\ Len(x.inbox) = 1 /\ ~listens
  /\ x.st = "ASK" /\ x.inbox # <<>> => Head(x.inbox) # "NOTE"

Asking == \A c \in Clients : Proper(cl[c], Holds(conns, c), Listens(conns, c))

InBacklog == \A k \in DOMAIN backlog : cl[backlog[k]].st # "OFF"

(* A SIGTERM that came before the test is seen by it.                      *)
Termed == pc \in {"ready", "poll"} /\ sigterm => late

(* Children that nothing told to end. *)
Untold == {"NEW", "LIVE"}

(* Pids are given out in their order. *)
Children ==
  /\ \E n \in 0..MaxKids :
       /\ \A p \in Pids : kids[p] = "NONE" <=> p > n
       /\ pc = "fork" => n > 0
  /\ pc = "fork" =>
       /\ \A p \in Pids : kids[p] \in Untold => p = Forked
       /\ kids[Forked] = "REAPED" => Forked \in early

IInv ==
  /\ TypeOK /\ Revents /\ Unused /\ PollArray /\ Socket /\ Asking /\ InBacklog
  /\ Termed /\ Children /\ DhcpKnown /\ KillsOwn

-----------------------------------------------------------------------------
LEMMA Ranks == DOMAIN Rank = {"netlink", "rawsock", "rawerr", "accept", "control",
                              "rfkill"}
  BY DEF Rank

(* The order in which check_polled_fds looks at what is ready.             *)
LEMMA TurnOrder ==
  ASSUME rev.fds \subseteq DOMAIN Rank
  PROVE  /\ Turn("rawerr") => "rawsock" \notin rev.fds
         /\ Turn("control") => rev.fds \subseteq {"control", "rfkill"}
         /\ Turn("rfkill") => rev.fds = {"rfkill"}
  <1>1. ASSUME Turn("rawerr"), "rawsock" \in rev.fds
        PROVE  FALSE
    BY <1>1 DEF Turn, Rank
  <1>2. ASSUME Turn("control"), NEW f \in rev.fds
        PROVE  f \in {"control", "rfkill"}
    <2>1. Rank["control"] <= Rank[f]
      BY <1>2 DEF Turn
    <2> QED
      BY <1>2, <2>1, Ranks DEF Rank
  <1>3. ASSUME Turn("rfkill"), NEW f \in rev.fds
        PROVE  f = "rfkill"
    <2>1. Rank["rfkill"] <= Rank[f]
      BY <1>3 DEF Turn
    <2> QED
      BY <1>3, <2>1, Ranks DEF Rank
  <1> QED
    BY <1>1, <1>2, <1>3 DEF Turn

Kinds == {"OK", "ERR", "NOKEY", "NOTE"}

LEMMA SentType ==
  ASSUME NEW x \in Process, NEW m \in Kinds
  PROVE  Sent(x, m) \in Process
  BY DEF Sent, Process, Kinds

LEMMA ToldType ==
  ASSUME NEW k \in [Clients -> Process], NEW cs
  PROVE  Told(k, cs) \in [Clients -> Process]
  <1>1. \A c \in Clients : Sent(k[c], "NOTE") \in Process
    BY SentType DEF Kinds
  <1> QED
    BY <1>1 DEF Told

LEMMA AckType ==
  ASSUME NEW k \in [Clients -> Process], NEW c \in Clients, NEW m \in Kinds
  PROVE  Ack(k, c, m) \in [Clients -> Process]
  <1>1. [k[c] EXCEPT !.req = FALSE] \in Process
    BY DEF Process
  <1>2. Sent([k[c] EXCEPT !.req = FALSE], m) \in Process
    BY <1>1, SentType
  <1> QED
    BY <1>2 DEF Ack

LEMMA HangsType ==
  ASSUME NEW k \in [Clients -> Process]
  PROVE  Hangs(k) \in [Clients -> Process]
  <1>1. \A c \in Clients : [k[c] EXCEPT !.sock = "CLOSED", !.req = FALSE] \in Process
    BY DEF Process
  <1> QED
    BY <1>1 DEF Hangs

(* What recv_reply makes of a message. *)
LEMMA GivenType ==
  ASSUME NEW x \in Process, NEW m \in Kinds, NEW y \in Given(x, m)
  PROVE  y \in Process
  <1>1. Ends(x) \in Process /\ [x EXCEPT !.st = "LISTEN"] \in Process
    <2>1. <<>> \in Seq({"OK", "ERR", "NOKEY", "NOTE"})
      OBVIOUS
    <2>2. [x EXCEPT !.st = "END", !.inbox = <<>>] \in Process
      BY <2>1 DEF Process
    <2>3. [x EXCEPT !.st = "LISTEN"] \in Process
      BY DEF Process
    <2> QED
      BY <2>2, <2>3 DEF Ends
  <1>2. /\ Asks(x, "STATUS", "ASK_STATUS") \in Process
        /\ Asks(x, "CONNECT_PSK", "ASK") \in Process
    BY DEF Asks, Process, Commands
  <1> QED
    BY <1>1, <1>2 DEF Given, Kinds

-----------------------------------------------------------------------------
LEMMA InitIInv == Init => IInv
  <1> SUFFICES ASSUME Init
               PROVE  IInv
    OBVIOUS
  <1> USE LoopAssumption DEF Init, FreeConn, NoRev, Slots, Pids
  <1>1. TypeOK
    <2>1. <<>> \in Seq({"OK", "ERR", "NOKEY", "NOTE"})
      OBVIOUS
    <2>2. Off \in Process
      BY <2>1 DEF Off, Process, Commands
    <2>3. cl \in [Clients -> Process]
      BY <2>2
    <2>4. conns \in [Slots -> [fd : Clients \cup {NoFd}, rep : BOOLEAN]]
      OBVIOUS
    <2>5. nlq \in Seq(Messages) /\ backlog \in Seq(Clients)
      OBVIOUS
    <2>6. /\ pfds \in [raw : BOOLEAN, conns : [Slots -> Clients \cup {NoFd}]]
          /\ kids \in [Pids -> ChildStates]
      BY DEF ChildStates
    <2>7. /\ rev.conns \subseteq 1..nconns /\ rev.hup \subseteq 1..nconns
          /\ rev.fds \subseteq DOMAIN Rank
      OBVIOUS
    <2>8. frames \in Nat /\ nconns \in 0..NCONNS /\ dhcpid \in 0..MaxKids /\ early \subseteq Pids
      OBVIOUS
    <2>9. /\ pc \in {"ready", "poll", "round", "fork", "gone"}
          /\ mode \in {"RUN", "EXITREQ", "EXIT"} /\ attempt \in Attempts
          /\ rawsock \in {"OPEN", "FAILED", "CLOSED"}
          /\ room \in BOOLEAN
      BY DEF Attempts
    <2> QED
      BY <2>3, <2>4, <2>5, <2>6, <2>7, <2>8, <2>9 DEF TypeOK
  <1>2. Revents /\ Unused /\ PollArray /\ Socket
    BY DEF Revents, Unused, PollArray, Socket
  <1>3. Asking /\ InBacklog
    <2>1. \A c \in Clients : ~Holds(conns, c) /\ ~Listens(conns, c)
      BY DEF Holds, Listens
    <2>2. ASSUME NEW c \in Clients
          PROVE  Proper(cl[c], Holds(conns, c), Listens(conns, c))
      <3>1. cl[c] = Off
        OBVIOUS
      <3> HIDE DEF Init
      <3> QED
        BY <2>1, <3>1 DEF Proper, Off
    <2>3. Asking
      BY <2>2 DEF Asking
    <2> QED
      BY <2>3 DEF InBacklog
  <1>4. Termed /\ DhcpKnown /\ KillsOwn
    BY DEF Termed, DhcpKnown, KillsOwn
  <1>5. Children
    <2>1. 0 \in 0..MaxKids /\ \A p \in Pids : kids[p] = "NONE" <=> p > 0
      OBVIOUS
    <2> QED
      BY <2>1 DEF Children
  <1> QED
    BY <1>1, <1>2, <1>3, <1>4, <1>5 DEF IInv

-----------------------------------------------------------------------------
(* The children.                                                           *)
AllKids == [Pids -> ChildStates]

LEMMA KidsType ==
  ASSUME TypeOK
  PROVE  /\ kids \in AllKids /\ early \subseteq Pids
         /\ dhcpid \in Nat /\ (dhcpid # 0 => dhcpid \in Pids)
         /\ \A p \in Pids : p \in Nat /\ p > 0
  BY LoopAssumption DEF TypeOK, AllKids, Pids

(* Which pid comes next, and which came last. *)
LEMMA NextPid ==
  ASSUME NEW n \in 0..MaxKids, kids \in AllKids,
         \A p \in Pids : kids[p] = "NONE" <=> p > n
  PROVE  /\ (\E p \in Pids : kids[p] = "NONE") => n + 1 \in Pids /\ NewPid = n + 1
         /\ n > 0 => n \in Pids /\ Forked = n
  <1> USE LoopAssumption DEF Pids
  <1>1. ASSUME NEW p \in Pids, kids[p] = "NONE"
        PROVE  n + 1 \in Pids /\ NewPid = n + 1
    <2>1. n + 1 \in Pids
      BY <1>1
    <2>2. kids[n + 1] = "NONE" /\ \A q \in Pids : kids[q] = "NONE" => n + 1 <= q
      BY <2>1
    <2>3. ASSUME NEW r \in Pids,
                 kids[r] = "NONE" /\ \A q \in Pids : kids[q] = "NONE" => r <= q
          PROVE  r = n + 1
      BY <2>1, <2>2, <2>3
    <2> QED
      BY <2>1, <2>2, <2>3 DEF NewPid
  <1>2. ASSUME n > 0
        PROVE  n \in Pids /\ Forked = n
    <2>1. n \in Pids
      BY <1>2
    <2>2. kids[n] # "NONE" /\ \A q \in Pids : kids[q] # "NONE" => q <= n
      BY <2>1
    <2>3. ASSUME NEW r \in Pids,
                 kids[r] # "NONE" /\ \A q \in Pids : kids[q] # "NONE" => q <= r
          PROVE  r = n
      BY <2>1, <2>2, <2>3
    <2> QED
      BY <2>1, <2>2, <2>3 DEF Forked
  <1> QED
    BY <1>1, <1>2

LEMMA NextMessage ==
  ASSUME IInv, CheckNetlink
  PROVE  /\ nlq # <<>> /\ nlq \in Seq(Messages)
         /\ Head(nlq) \in Messages /\ nlq' \in Seq(Messages)
  <1>1. nlq # <<>> /\ nlq \in Seq(Messages)
    BY DEF IInv, TypeOK, Revents, CheckNetlink, Turn
  <1> QED
    BY <1>1 DEF CheckNetlink

(* Steps that neither fork, reap nor store a pid: they tell the child that  *)
(* is known to end, if any.                                                *)
Spares == /\ (pc = "fork" <=> pc' = "fork") /\ UNCHANGED <<dhcpid, early>>
          /\ (UNCHANGED kids \/ (kill_dhcp /\ pc # "fork"))

LEMMA SparingSteps ==
  ASSUME IInv, [Next]_vars
  PROVE  \/ Spares
         \/ Sigchld \/ (\E p \in Pids : ChildExecs(p) \/ ChildExits(p)) \/ StorePid
         \/ CheckRawsock /\ fork /\ pc = "round" /\ pc' = "fork"
  <1> USE DEF Spares, procs
  <1>1. CASE EnterPoll \/ PollReturns \/ EndRound \/ LeaveLoop
    BY <1>1 DEF EnterPoll, PollReturns, EndRound, LeaveLoop, Leave, xshutdown
  <1>2. CASE \E i \in Slots : CheckConn(i)
    BY <1>2 DEF CheckConn, ConnTurn
  <1>3. CASE CheckNetlink
    <2>1. UNCHANGED kids \/ kill_dhcp
      BY <1>3, NextMessage DEF CheckNetlink, OnMessage, Messages, Lost, kill_dhcp
    <2> QED
      BY <1>3, <2>1 DEF CheckNetlink, Turn
  <1>4. CASE CheckRawsock
    BY <1>4 DEF CheckRawsock, Turn
  <1>5. CASE CheckRawError \/ Accept \/ CheckControl \/ CheckRfkill
    BY <1>5 DEF CheckRawError, Accept, CheckControl, CheckRfkill, Turn
  <1>6. CASE TimerExpired \/ Sigterm
    BY <1>6 DEF TimerExpired, Sigterm
  <1>7. CASE UserStep
    BY <1>7 DEF UserStep, Connects, Receives, LosesDaemon, Stops
  <1>8. CASE WorldStep
    BY <1>8 DEF WorldStep, CardAnswers, CardReports, IfaceBounces, RadioOn, ApSends, Arrives
  <1>9. CASE UNCHANGED vars
    BY <1>9 DEF vars
  <1> QED
    BY <1>1, <1>2, <1>3, <1>4, <1>5, <1>6, <1>7, <1>8, <1>9
    DEF Next, DaemonStep, Signals

(* What SIGTERM makes of a child, or leaves it. *)
Ended(st, st2) ==
  st2 = st \/ (st \notin {"NONE", "ZOMBIE", "REAPED"} /\ st2 \in {"DEAF", "TERM"})

LEMMA KillSpares ==
  ASSUME TypeOK, UNCHANGED kids \/ kill_dhcp
  PROVE  /\ kids' \in AllKids
         /\ \A p \in Pids : Ended(kids[p], kids'[p])
  <1>1. \A st \in ChildStates : Signalled(st) \in ChildStates /\ Ended(st, Signalled(st))
    BY DEF ChildStates, Signalled, Ended
  <1>2. \A p \in Pids : Ended(kids[p], kids[p])
    BY DEF Ended
  <1> QED
    BY <1>1, <1>2, KidsType DEF kill_dhcp, Killed, AllKids

(* Forked looks only at whether there ever was a child with this pid.      *)
LEMMA ForkedKept ==
  ASSUME \A p \in Pids : kids'[p] = "NONE" <=> kids[p] = "NONE"
  PROVE  Forked' = Forked
  BY DEF Forked

LEMMA ForkEffect ==
  ASSUME IInv, fork, UNCHANGED <<dhcpid, early>>, pc = "round", pc' = "fork"
  PROVE  /\ kids' \in AllKids /\ Forked' \in Pids /\ kids[Forked'] = "NONE"
         /\ kids'[Forked'] = "NEW"
         /\ \A p \in Pids : p # Forked' => Ended(kids[p], kids'[p])
         /\ \A p \in Pids : p # Forked' => kids'[p] \notin Untold
         /\ Children'
  <1> USE LoopAssumption DEF Pids
  <1>1. PICK n \in 0..MaxKids : \A p \in Pids : kids[p] = "NONE" <=> p > n
    BY DEF IInv, Children
  <1>2. n + 1 \in Pids /\ NewPid = n + 1
    BY <1>1, KidsType, NextPid DEF IInv, fork
  <1>3. kids' = [Killed(kids) EXCEPT ![n + 1] = "NEW"]
    BY <1>2 DEF fork, BeforeFork
  <1>4. /\ Killed(kids) \in AllKids
        /\ \A p \in Pids : Ended(kids[p], Killed(kids)[p])
        /\ dhcpid \in Pids => Killed(kids)[dhcpid] \notin Untold
    <2>1. /\ \A st \in ChildStates : /\ Signalled(st) \in ChildStates \ Untold
                                      /\ Ended(st, Signalled(st))
          /\ \A p \in Pids : Ended(kids[p], kids[p])
      BY DEF ChildStates, Signalled, Ended, Untold
    <2> QED
      BY <2>1, KidsType DEF IInv, Killed, AllKids
  <1>5. kids' \in AllKids /\ \A p \in Pids : kids'[p] = "NONE" <=> p > n + 1
    BY <1>1, <1>2, <1>3, <1>4 DEF AllKids, Ended, ChildStates
  <1>6. n + 1 \in 0..MaxKids /\ (\E p \in Pids : kids[p] = "NONE")
    BY <1>2 DEF fork
  <1>7. Forked' = n + 1
    <2>1. ASSUME NEW r \in Pids,
                 kids'[r] # "NONE" /\ \A q \in Pids : kids'[q] # "NONE" => q <= r
          PROVE  r = n + 1
      BY <1>2, <1>5, <2>1
    <2>2. kids'[n + 1] # "NONE" /\ \A q \in Pids : kids'[q] # "NONE" => q <= n + 1
      BY <1>2, <1>5
    <2> QED
      BY <1>2, <2>1, <2>2 DEF Forked
  <1>8. \A p \in Pids : p # n + 1 => kids'[p] \notin Untold
    <2> SUFFICES ASSUME NEW p \in Pids, p # n + 1
                 PROVE  kids'[p] \notin Untold
      OBVIOUS
    <2>1. kids'[p] = Killed(kids)[p]
      BY <1>2, <1>3, <1>4 DEF AllKids
    <2>2. kids[p] \in Untold => p = dhcpid \/ (pc = "fork" /\ p = Forked)
      BY DEF IInv, DhcpKnown, Untold
    <2>3. Killed(kids)[p] \in Untold => kids[p] \in Untold
      BY <1>4 DEF Ended, Untold
    <2> QED
      BY <1>4, <2>1, <2>2, <2>3
  <1>9. \A p \in Pids : p # n + 1 => kids'[p] = Killed(kids)[p]
    BY <1>2, <1>3, <1>4 DEF AllKids
  <1>10. kids'[n + 1] = "NEW"
    BY <1>2, <1>3, <1>4 DEF AllKids
  <1>11. Children'
    <2>1. /\ n + 1 \in 0..MaxKids /\ n + 1 > 0
          /\ \A p \in Pids : kids'[p] = "NONE" <=> p > n + 1
      BY <1>1, <1>5, <1>6
    <2>2. \A p \in Pids : kids'[p] \in Untold => p = Forked'
      BY <1>7, <1>8
    <2> QED
      BY <1>7, <1>10, <2>1, <2>2 DEF Children
  <1> QED
    BY <1>1, <1>2, <1>4, <1>5, <1>7, <1>8, <1>9, <1>10, <1>11

LEMMA ChildrenKept ==
  ASSUME IInv, [Next]_vars
  PROVE  Children' /\ DhcpKnown' /\ KillsOwn'
  <1> USE DEF IInv, AllKids
  <1>0. PICK n \in 0..MaxKids : /\ \A p \in Pids : kids[p] = "NONE" <=> p > n
                                /\ pc = "fork" => n > 0
    BY DEF Children
  <1>f. pc = "fork" => Forked = n /\ n \in Pids
    BY <1>0, KidsType, NextPid
  <1>1. CASE Spares
    <2>1. /\ kids' \in AllKids
          /\ \A p \in Pids : /\ Ended(kids[p], kids'[p])
                             /\ kids'[p] \in Untold => kids[p] \in Untold
                             /\ kids'[p] = "NONE" <=> kids[p] = "NONE"
      BY <1>1, KillSpares DEF Spares, Ended, Untold
    <2>2. Forked' = Forked
      BY <2>1, ForkedKept
    <2>3. Children'
      BY <1>0, <1>1, <1>f, <2>1, <2>2 DEF Children, Spares, Ended
    <2>4. DhcpKnown'
      BY <1>1, <2>1, <2>2 DEF DhcpKnown, Spares, Untold
    <2>5. KillsOwn'
      BY <1>1, <2>1, KidsType DEF KillsOwn, Spares, Ended
    <2> QED
      BY <2>3, <2>4, <2>5
  <1>2. CASE Sigchld
    <2>1. PICK p \in Pids : /\ kids[p] = "ZOMBIE" /\ kids' = [kids EXCEPT ![p] = "REAPED"]
                            /\ dhcpid' = Forgotten(p)
                            /\ early' = IF pc = "fork" /\ p = Forked THEN early \cup {p}
                                        ELSE early
      BY <1>2 DEF Sigchld
    <2>2. /\ \A q \in Pids : kids'[q] = IF q = p THEN "REAPED" ELSE kids[q]
          /\ \A q \in Pids : kids'[q] = "NONE" <=> kids[q] = "NONE"
      BY <2>1, KidsType
    <2>3. Forked' = Forked /\ (pc' = "fork" <=> pc = "fork")
      BY <1>2, <2>2, ForkedKept DEF Sigchld
    <2>4. Children'
      <3>1. pc' = "fork" =>
              /\ \A q \in Pids : kids'[q] \in Untold => q = Forked'
              /\ kids'[Forked'] = "REAPED" => Forked' \in early'
        BY <1>f, <2>1, <2>2, <2>3 DEF Children, Untold
      <3> QED
        BY <1>0, <2>2, <2>3, <3>1 DEF Children
    <2>5. DhcpKnown'
      BY <2>1, <2>2, <2>3 DEF DhcpKnown, Forgotten
    <2>6. KillsOwn'
      BY <2>1, <2>2, KidsType DEF KillsOwn, Forgotten
    <2> QED
      BY <2>4, <2>5, <2>6
  <1>3. CASE \E p \in Pids : ChildExecs(p) \/ ChildExits(p)
    <2>1. PICK p \in Pids : ChildExecs(p) \/ ChildExits(p)
      BY <1>3
    <2>2. /\ \A q \in Pids :
               \/ kids'[q] = kids[q]
               \/ kids[q] = "NEW" /\ kids'[q] = "LIVE"
               \/ kids[q] \notin {"NONE", "REAPED"} /\ kids'[q] \in {"STRAY", "ZOMBIE"}
          /\ UNCHANGED <<pc, dhcpid, early>>
      <3>1. CASE ChildExecs(p)
        BY <3>1, KidsType DEF ChildExecs
      <3>2. CASE ChildExits(p)
        BY <3>2, KidsType DEF ChildExits
      <3> QED
        BY <2>1, <3>1, <3>2
    <2>3. Forked' = Forked /\ \A q \in Pids : kids'[q] = "NONE" <=> kids[q] = "NONE"
      BY <2>2, ForkedKept
    <2>4. Children'
      BY <1>0, <1>f, <2>2, <2>3 DEF Children, Untold
    <2>5. DhcpKnown'
      BY <2>2, <2>3 DEF DhcpKnown
    <2>6. KillsOwn'
      BY <2>2, KidsType DEF KillsOwn
    <2> QED
      BY <2>4, <2>5, <2>6
  <1>4. CASE StorePid
    <2>1. /\ pc = "fork" /\ pc' = "round" /\ dhcpid' = n /\ n \in Pids
          /\ UNCHANGED <<kids, early>>
      BY <1>4, <1>f DEF StorePid
    <2>2. Children'
      BY <1>0, <2>1 DEF Children
    <2>3. DhcpKnown' /\ KillsOwn'
      BY <1>0, <1>f, <2>1, KidsType DEF DhcpKnown, KillsOwn, Children, Untold
    <2> QED
      BY <2>2, <2>3
  <1>5. CASE CheckRawsock /\ fork /\ pc = "round" /\ pc' = "fork"
    <2>1. UNCHANGED <<dhcpid, early>>
      BY <1>5 DEF CheckRawsock
    <2>2. Children' /\ DhcpKnown'
      BY <1>5, <2>1, ForkEffect DEF DhcpKnown, Untold
    <2>3. KillsOwn'
      BY <1>5, <2>1, ForkEffect, KidsType DEF KillsOwn, Ended
    <2> QED
      BY <2>2, <2>3
  <1> QED
    BY <1>1, <1>2, <1>3, <1>4, <1>5, SparingSteps

-----------------------------------------------------------------------------
(* Steps that have nothing to do with clients. *)
Clientless == UNCHANGED <<conns, nconns, backlog, cl>>

LEMMA ClientlessSteps ==
  ASSUME [Next]_vars
  PROVE  \/ Clientless
         \/ EndRound \/ LeaveLoop \/ (\E i \in Slots : CheckConn(i)) \/ CheckNetlink
         \/ StorePid \/ Accept \/ UserStep
  <1> USE DEF Clientless
  <1>1. CASE EnterPoll \/ PollReturns \/ CheckRawsock \/ CheckRawError
    BY <1>1 DEF EnterPoll, PollReturns, CheckRawsock, CheckRawError
  <1>2. CASE CheckControl \/ CheckRfkill \/ TimerExpired \/ Sigterm
    BY <1>2 DEF CheckControl, CheckRfkill, TimerExpired, Sigterm, daemon
  <1>3. CASE Sigchld \/ \E p \in Pids : ChildExecs(p) \/ ChildExits(p)
    BY <1>3 DEF Sigchld, ChildExecs, ChildExits, daemon
  <1>4. CASE WorldStep
    BY <1>4 DEF WorldStep, CardAnswers, CardReports, IfaceBounces, RadioOn, ApSends,
                Arrives, daemon
  <1>5. CASE UNCHANGED vars
    BY <1>5 DEF vars, daemon
  <1> QED
    BY <1>1, <1>2, <1>3, <1>4, <1>5 DEF Next, DaemonStep, Signals

(* The replies and notifications that one command brings: cs and k are the  *)
(* slots and clients as check_conn finds them after it.                    *)
Commanded(i, c, cs, k) ==
  \/ cs = conns /\ k = cl
  \/ /\ cl[c].req
     /\ \/ cs = [conns EXCEPT ![i].rep = FALSE] /\ k = Ack(cl, c, "OK")
        \/ cs = conns /\ k = Ack(cl, c, "ERR")
        \/ cl[c].cmd = "CONNECT" /\ cs = conns /\ k = Ack(cl, c, "NOKEY")
        \/ cs = Wants(i) /\ k = Ack(cl, c, "OK")
        \/ cs = Wants(i) /\ k = Acked(cl, c, Wants(i))

LEMMA CommandEffect ==
  ASSUME IInv, NEW i \in Slots, CheckConn(i)
  PROVE  /\ UNCHANGED <<nconns, backlog>> /\ i \in 1..nconns
         /\ \/ UNCHANGED <<conns, cl>>
            \/ /\ conns[i].fd \in Clients
               /\ \E cs, k : Commanded(i, conns[i].fd, cs, k) /\ After(i, cs, k)
  <1>1. i \in 1..nconns
    BY DEF IInv, TypeOK, CheckConn, ConnTurn
  <1>2. conns[i].fd \in Clients \cup {NoFd}
    BY DEF IInv, TypeOK
  <1>3. CASE conns[i].fd = NoFd
    BY <1>1, <1>3 DEF CheckConn
  <1>4. CASE conns[i].fd # NoFd /\ cl[conns[i].fd].req
    <2>1. Obey(i, conns[i].fd)
      BY <1>4 DEF CheckConn
    <2>2. \E cs, k : Commanded(i, conns[i].fd, cs, k) /\ After(i, cs, k)
      BY <1>4, <2>1 DEF Obey, Commanded
    <2> QED
      BY <1>1, <1>2, <1>4, <2>2 DEF CheckConn
  <1>5. CASE conns[i].fd # NoFd /\ ~cl[conns[i].fd].req
    <2>1. After(i, conns, cl)
      BY <1>5 DEF CheckConn
    <2>2. Commanded(i, conns[i].fd, conns, cl)
      BY DEF Commanded
    <2> QED
      BY <1>1, <1>2, <1>5, <2>1, <2>2 DEF CheckConn
  <1> QED
    BY <1>3, <1>4, <1>5

AllConns == [Slots -> [fd : Clients \cup {NoFd}, rep : BOOLEAN]]
AllCl    == [Clients -> Process]

LEMMA CommandedType ==
  ASSUME TypeOK, NEW i \in Slots, NEW c \in Clients, NEW cs, NEW k,
         Commanded(i, c, cs, k)
  PROVE  cs \in AllConns /\ k \in AllCl
  <1>1. conns \in AllConns /\ cl \in AllCl
    BY DEF TypeOK, AllConns, AllCl
  <1>2. Wants(i) \in AllConns /\ [conns EXCEPT ![i].rep = FALSE] \in AllConns
    BY <1>1 DEF Wants, AllConns
  <1>3. \A m \in Kinds : Ack(cl, c, m) \in AllCl
    BY <1>1, AckType DEF AllCl
  <1>4. Acked(cl, c, Wants(i)) \in AllCl
    BY <1>3, ToldType DEF Acked, AllCl, Kinds
  <1> QED
    BY <1>1, <1>2, <1>3, <1>4 DEF Commanded, Kinds

HungUp(x) == [x EXCEPT !.sock = "CLOSED", !.req = FALSE]

(* A slot that is given up is as good as one that was never used.          *)
LEMMA AfterEffect ==
  ASSUME NEW i \in Slots, NEW cs \in AllConns, NEW k \in AllCl,
         conns \in AllConns, conns[i].fd \in Clients, After(i, cs, k)
  PROVE  /\ conns' \in AllConns /\ cl' \in AllCl
         /\ \A j \in Slots : conns'[j] = cs[j] \/ (j = i /\ conns'[j] = FreeConn)
         /\ \A c \in Clients : cl'[c] = k[c]
                                   \/ cl'[c] = HungUp(k[c])
  <1>1. CASE i \in rev.hup
    <2> DEFINE c == conns[i].fd
    <2>1. /\ conns' = [cs EXCEPT ![i] = FreeConn]
          /\ cl' = [k EXCEPT ![c].sock = "CLOSED", ![c].req = FALSE]
      BY <1>1 DEF After, Closed
    <2>2. k[c] \in Process /\ HungUp(k[c]) \in Process
      BY DEF Process, AllCl, HungUp
    <2>3. cl' = [k EXCEPT ![c] = HungUp(k[c])]
      BY <2>1 DEF AllCl, HungUp
    <2>4. FreeConn \in [fd : Clients \cup {NoFd}, rep : BOOLEAN]
      BY DEF FreeConn
    <2>5. conns' \in AllConns /\ \A j \in Slots : conns'[j] = IF j = i THEN FreeConn ELSE cs[j]
      BY <2>1, <2>4 DEF AllConns
    <2> HIDE DEF HungUp, c
    <2>6. cl' \in AllCl /\ \A e \in Clients : cl'[e] = IF e = c THEN HungUp(k[c]) ELSE k[e]
      BY <2>2, <2>3 DEF AllCl
    <2> QED
      BY <2>5, <2>6
  <1>2. CASE i \notin rev.hup
    BY <1>2 DEF After
  <1> QED
    BY <1>1, <1>2

-----------------------------------------------------------------------------
LEMMA MayReportType ==
  ASSUME TypeOK, MayReport
  PROVE  cl' \in AllCl /\ UNCHANGED <<conns, nconns>>
  BY ToldType DEF MayReport, TypeOK, AllCl

LEMMA AcceptEffect ==
  ASSUME IInv, Accept
  PROVE  /\ backlog # <<>> /\ backlog \in Seq(Clients) /\ Head(backlog) \in Clients
         /\ backlog' = Tail(backlog) /\ backlog' \in Seq(Clients)
         /\ \A i \in Grabbed : i \in Slots /\ conns[i] = FreeConn /\ i <= nconns + 1
  <1> USE LoopAssumption DEF IInv
  <1>1. backlog # <<>> /\ backlog \in Seq(Clients)
    BY DEF TypeOK, Revents, Accept, Turn
  <1>2. nconns \in 0..NCONNS /\ NCONNS \in Nat
    BY DEF TypeOK
  <1>3. ASSUME NEW i \in FreeSlots
        PROVE  i \in Slots /\ conns[i] = FreeConn /\ i <= nconns + 1
    BY <1>2, <1>3 DEF FreeSlots, Slots
  <1>4. ASSUME nconns < NCONNS
        PROVE  nconns + 1 \in Slots /\ conns[nconns + 1] = FreeConn
    BY <1>2, <1>4 DEF Unused, Slots
  <1>5. \A i \in Grabbed : i \in Slots /\ conns[i] = FreeConn /\ i <= nconns + 1
    BY <1>2, <1>3, <1>4 DEF Grabbed, FirstFree
  <1>6. backlog' = Tail(backlog)
    BY DEF Accept
  <1> QED
    BY <1>1, <1>5, <1>6

(* A step of a wifi process concerns that process only. *)
LEMMA UserEffect ==
  ASSUME IInv, UserStep
  PROVE  /\ UNCHANGED <<conns, nconns>> /\ cl' \in AllCl /\ backlog' \in Seq(Clients)
         /\ \E c \in Clients :
              /\ Connects(c) \/ Receives(c) \/ LosesDaemon(c) \/ Stops(c)
              /\ \A e \in Clients : e # c => cl'[e] = cl[e]
  <1> USE DEF IInv, AllCl
  <1>1. PICK c \in Clients : Connects(c) \/ Receives(c) \/ LosesDaemon(c) \/ Stops(c)
    BY DEF UserStep
  <1>2. cl \in AllCl /\ cl[c] \in Process /\ backlog \in Seq(Clients)
    BY DEF TypeOK
  <1>n. <<>> \in Seq(Kinds)
    OBVIOUS
  <1>3. ASSUME NEW x \in Process, cl' = [cl EXCEPT ![c] = x],
               backlog' = backlog \/ backlog' = Append(backlog, c)
        PROVE  /\ cl' \in AllCl /\ backlog' \in Seq(Clients)
               /\ \A e \in Clients : e # c => cl'[e] = cl[e]
    BY <1>2, <1>3
  <1>4. CASE Connects(c)
    <2>1. PICK cmd \in Commands \ {"CONNECT_PSK"} :
            cl' = [cl EXCEPT ![c] =
                [st |-> "ASK", cmd |-> cmd, req |-> pc # "gone", inbox |-> <<>>,
                 sock |-> IF pc = "gone" THEN "CLOSED" ELSE "BACKLOG"]]
      BY <1>4 DEF Connects
    <2>2. [st |-> "ASK", cmd |-> cmd, req |-> pc # "gone", inbox |-> <<>>,
           sock |-> IF pc = "gone" THEN "CLOSED" ELSE "BACKLOG"] \in Process
      BY <1>n, <2>1 DEF Process, Kinds
    <2>3. backlog' = backlog \/ backlog' = Append(backlog, c)
      BY <1>4 DEF Connects
    <2>4. UNCHANGED <<conns, nconns>>
      BY <1>4 DEF Connects, daemon
    <2> QED
      BY <1>1, <1>3, <2>1, <2>2, <2>3, <2>4
  <1>5. CASE Receives(c)
    <2>1. PICK x \in Given([cl[c] EXCEPT !.inbox = Tail(@)], Head(cl[c].inbox)) :
            cl' = [cl EXCEPT ![c] = x]
      BY <1>5 DEF Receives
    <2>2. cl[c].inbox \in Seq(Kinds) /\ cl[c].inbox # <<>>
      BY <1>2, <1>5 DEF Receives, Process, Kinds
    <2>3. Head(cl[c].inbox) \in Kinds /\ Tail(cl[c].inbox) \in Seq(Kinds)
      BY <2>2
    <2>4. [cl[c] EXCEPT !.inbox = Tail(@)] \in Process
      BY <1>2, <2>3 DEF Process, Kinds
    <2>5. x \in Process
      BY <2>1, <2>3, <2>4, GivenType
    <2> QED
      BY <1>1, <1>3, <1>5, <2>1, <2>5 DEF Receives, daemon
  <1>6. CASE LosesDaemon(c) \/ Stops(c)
    <2>1. Ends(cl[c]) \in Process
      BY <1>2, <1>n DEF Ends, Process, Kinds
    <2>2. cl' = [cl EXCEPT ![c] = Ends(cl[c])] /\ UNCHANGED <<conns, nconns, backlog>>
      BY <1>6 DEF LosesDaemon, Stops, daemon
    <2> QED
      BY <1>1, <1>3, <2>1, <2>2
  <1> QED
    BY <1>1, <1>4, <1>5, <1>6

LEMMA LeaveEffect ==
  ASSUME IInv, EndRound \/ LeaveLoop
  PROVE  UNCHANGED <<conns, nconns, backlog>> /\ (cl' = cl \/ cl' = Hangs(cl))
  BY DEF EndRound, LeaveLoop, Leave, xshutdown

LEMMA ClientsType ==
  ASSUME IInv, [Next]_vars
  PROVE  /\ conns' \in AllConns /\ cl' \in AllCl
         /\ nconns' \in 0..NCONNS /\ nconns <= nconns' /\ backlog' \in Seq(Clients)
         /\ \A i \in Slots : i > nconns' => conns'[i] = FreeConn
  <1> USE LoopAssumption DEF IInv
  <1>0. /\ conns \in AllConns /\ cl \in AllCl /\ backlog \in Seq(Clients)
        /\ nconns \in 0..NCONNS /\ NCONNS \in Nat
        /\ \A i \in Slots : i > nconns => conns[i] = FreeConn
    BY DEF TypeOK, AllConns, AllCl, Unused
  <1>1. CASE Clientless
    BY <1>0, <1>1 DEF Clientless
  <1>2. CASE EndRound \/ LeaveLoop
    BY <1>0, <1>2, LeaveEffect, HangsType DEF AllCl
  <1>3. ASSUME NEW i \in Slots, CheckConn(i)
        PROVE  /\ conns' \in AllConns /\ cl' \in AllCl /\ UNCHANGED <<nconns, backlog>>
               /\ \A j \in Slots : j > nconns => conns'[j] = FreeConn
    <2>1. CASE UNCHANGED <<conns, cl>>
      BY <1>0, <1>3, <2>1, CommandEffect
    <2>2. ASSUME conns[i].fd \in Clients, NEW cs, NEW k,
                 Commanded(i, conns[i].fd, cs, k), After(i, cs, k)
          PROVE  /\ conns' \in AllConns /\ cl' \in AllCl
                 /\ \A j \in Slots : j > nconns => conns'[j] = FreeConn
      <3>1. cs \in AllConns /\ k \in AllCl
        BY <2>2, CommandedType
      <3>2. \A j \in Slots : j # i => cs[j] = conns[j]
        BY <1>0, <2>2 DEF Commanded, Wants, AllConns
      <3>3. i <= nconns
        BY <1>0, <1>3, CommandEffect
      <3>4. /\ conns' \in AllConns /\ cl' \in AllCl
            /\ \A j \in Slots : j # i => conns'[j] = cs[j]
        BY <1>0, <1>3, <2>2, <3>1, AfterEffect
      <3> QED
        BY <1>0, <3>2, <3>3, <3>4 DEF Slots
    <2> QED
      BY <1>3, <2>1, <2>2, CommandEffect
  <1>4. CASE CheckNetlink \/ StorePid
    BY <1>0, <1>4, MayReportType DEF CheckNetlink, StorePid
  <1>5. CASE Accept
    <2> DEFINE c == Head(backlog)
    <2>1. c \in Clients
      BY <1>5, AcceptEffect
    <2>2. /\ [cl[c] EXCEPT !.sock = "OPEN"] \in Process
          /\ [cl[c] EXCEPT !.sock = "CLOSED", !.req = FALSE] \in Process
      BY <1>0, <2>1 DEF AllCl, Process
    <2>3. ASSUME NEW i \in Grabbed, conns' = [conns EXCEPT ![i].fd = c],
                 nconns' = IF i > nconns THEN i ELSE nconns,
                 cl' = [cl EXCEPT ![c].sock = "OPEN"]
          PROVE  /\ conns' \in AllConns /\ cl' \in AllCl
                 /\ nconns' \in 0..NCONNS /\ nconns <= nconns'
                 /\ \A j \in Slots : j > nconns' => conns'[j] = FreeConn
      <3>1. i \in Slots /\ i <= nconns + 1
        BY <1>5, AcceptEffect
      <3>2. cl' \in AllCl
        BY <1>0, <2>1, <2>2, <2>3 DEF AllCl
      <3>3. conns' \in AllConns
        BY <1>0, <2>1, <2>3, <3>1 DEF AllConns
      <3> QED
        BY <1>0, <2>3, <3>1, <3>2, <3>3 DEF Slots, AllConns
    <2>5. backlog' \in Seq(Clients)
      BY <1>5, AcceptEffect
    <2>4. CASE /\ UNCHANGED <<conns, nconns>>
               /\ cl' = [cl EXCEPT ![c].sock = "CLOSED", ![c].req = FALSE]
      <3>1. cl' = [cl EXCEPT ![c] = [cl[c] EXCEPT !.sock = "CLOSED", !.req = FALSE]]
        BY <1>0, <2>4 DEF AllCl
      <3>2. cl' \in AllCl
        BY <1>0, <2>1, <2>2, <3>1 DEF AllCl
      <3> QED
        BY <1>0, <2>4, <2>5, <3>2
    <2>6. \/ \E i \in Grabbed :
             /\ conns' = [conns EXCEPT ![i].fd = c]
             /\ nconns' = IF i > nconns THEN i ELSE nconns
             /\ cl' = [cl EXCEPT ![c].sock = "OPEN"]
          \/ /\ UNCHANGED <<conns, nconns>>
             /\ cl' = [cl EXCEPT ![c].sock = "CLOSED", ![c].req = FALSE]
      BY <1>5 DEF Accept
    <2>7. CASE \E i \in Grabbed :
                 /\ conns' = [conns EXCEPT ![i].fd = c]
                 /\ nconns' = IF i > nconns THEN i ELSE nconns
                 /\ cl' = [cl EXCEPT ![c].sock = "OPEN"]
      BY <2>3, <2>5, <2>7
    <2> HIDE DEF c
    <2> QED
      BY <2>4, <2>6, <2>7
  <1>6. CASE UserStep
    BY <1>0, <1>6, UserEffect
  <1> QED
    BY <1>0, <1>1, <1>2, <1>3, <1>4, <1>5, <1>6, ClientlessSteps

-----------------------------------------------------------------------------
(* The attempt to connect, and its socket: what handlers do.               *)
Moves ==
  \/ NoConnection
  \/ start_connection
  \/ UNCHANGED <<rawsock, tainted>> /\ attempt' \in {"NONE", "DISC"}
  \/ /\ UNCHANGED <<rawsock, tainted>>
     /\ attempt \in {"AUTH", "LINK"} /\ attempt' \in {"LINK", "UP"}

Modes == {"RUN", "EXITREQ", "EXIT"}

LEMMA CommandMoves ==
  ASSUME IInv, NEW i \in Slots, CheckConn(i)
  PROVE  Moves /\ mode' \in Modes /\ (pollset' = pollset \/ pollset' = FALSE)
  <1> USE DEF Moves, Modes, IInv
  <1>1. mode \in Modes /\ pollset \in BOOLEAN
    BY DEF TypeOK
  <1>2. CASE conns[i].fd = NoFd
    BY <1>1, <1>2 DEF CheckConn
  <1>3. CASE conns[i].fd # NoFd /\ ~cl[conns[i].fd].req
    BY <1>1, <1>3 DEF CheckConn, After
  <1>4. CASE conns[i].fd # NoFd /\ cl[conns[i].fd].req
    <2>1. Obey(i, conns[i].fd)
      BY <1>4 DEF CheckConn
    <2>2. Moves /\ mode' \in Modes
      BY <1>1, <2>1 DEF Obey, Becomes
    <2>3. pollset' = pollset \/ pollset' = FALSE
      BY <1>1, <2>1 DEF Obey, After
    <2> QED
      BY <2>2, <2>3
  <1> QED
    BY <1>2, <1>3, <1>4

LEMMA MessageMoves ==
  ASSUME IInv, CheckNetlink
  PROVE  /\ Moves /\ mode' \in Modes
         /\ Head(nlq) = "DISCONNECT" =>
              \/ start_connection
              \/ UNCHANGED <<rawsock, tainted>> /\ attempt' = "NONE"
  <1> USE DEF Moves, Modes
  <1>1. Head(nlq) \in Messages /\ OnMessage(Head(nlq)) /\ mode \in Modes
    BY NextMessage DEF CheckNetlink, IInv, TypeOK
  <1>2. CASE Head(nlq) = "AUTHENTICATE"
    BY <1>1, <1>2 DEF OnMessage, Becomes
  <1>3. CASE Head(nlq) = "DISCONNECT"
    <2>1. \/ Lost
          \/ attempt = "NONE" /\ NoConnection /\ UNCHANGED <<kids, mode>>
      BY <1>1, <1>3 DEF OnMessage
    <2> QED
      BY <1>1, <2>1 DEF Lost, Becomes, NoConnection, Exits
  <1>4. CASE Head(nlq) = "ERROR"
    BY <1>1, <1>4 DEF OnMessage, Becomes
  <1>5. CASE Head(nlq) = "SCAN_DONE"
    BY <1>1, <1>5 DEF OnMessage, MayConnect
  <1> QED
    BY <1>1, <1>2, <1>3, <1>4, <1>5 DEF Messages

LEMMA AllMoves ==
  ASSUME IInv, [Next]_vars
  PROVE  mode' \in Modes /\ (Moves \/ CheckRawError \/ IfaceBounces)
  <1> USE DEF Modes, Moves
  <1>0. mode \in Modes
    BY DEF IInv, TypeOK
  <1>1. CASE EnterPoll \/ PollReturns \/ EndRound \/ LeaveLoop
    BY <1>0, <1>1 DEF EnterPoll, PollReturns, EndRound, LeaveLoop, Leave, xshutdown,
                      NoConnection
  <1>2. CASE \E i \in Slots : CheckConn(i)
    BY <1>2, CommandMoves
  <1>3. CASE CheckNetlink
    BY <1>3, MessageMoves
  <1>4. CASE CheckRawsock
    BY <1>0, <1>4 DEF CheckRawsock, Becomes, MayConnect
  <1>5. CASE CheckRawError
    BY <1>0, <1>5 DEF CheckRawError
  <1>6. CASE StorePid \/ Accept \/ CheckControl
    BY <1>0, <1>6 DEF StorePid, Accept, CheckControl, NoConnection
  <1>7. CASE CheckRfkill
    BY <1>0, <1>7 DEF CheckRfkill, MayConnect
  <1>8. CASE TimerExpired
    BY <1>0, <1>8 DEF TimerExpired, Becomes, NoConnection
  <1>9. CASE Signals \/ UserStep
    BY <1>0, <1>9 DEF Signals, Sigchld, Sigterm, ChildExecs, ChildExits, UserStep,
                      Connects, Receives, LosesDaemon, Stops, daemon, NoConnection
  <1>10. CASE WorldStep
    BY <1>0, <1>10 DEF WorldStep, CardAnswers, CardReports, IfaceBounces, RadioOn,
                       ApSends, Arrives, daemon, NoConnection
  <1>11. CASE UNCHANGED vars
    BY <1>0, <1>11 DEF vars, daemon, NoConnection
  <1> QED
    BY <1>1, <1>2, <1>3, <1>4, <1>5, <1>6, <1>7, <1>8, <1>9, <1>10, <1>11
    DEF Next, DaemonStep

-----------------------------------------------------------------------------
(* What is queued. *)
LEMMA DueAppended ==
  ASSUME nlq \in Seq(Messages), NEW m \in Messages, nlq' = Append(nlq, m)
  PROVE  /\ nlq' \in Seq(Messages) /\ nlq' # <<>>
         /\ Due("DISCONNECT") => Due("DISCONNECT")'
         /\ m = "DISCONNECT" => Due("DISCONNECT")'
  <1>1. /\ \A i \in DOMAIN nlq : i \in DOMAIN nlq' /\ nlq'[i] = nlq[i]
        /\ Len(nlq) + 1 \in DOMAIN nlq' /\ nlq'[Len(nlq) + 1] = m
        /\ Len(nlq') = Len(nlq) + 1
    OBVIOUS
  <1> QED
    BY <1>1 DEF Due

LEMMA DueTaken ==
  ASSUME nlq \in Seq(Messages), nlq # <<>>, nlq' = Tail(nlq), Head(nlq) # "DISCONNECT",
         Due("DISCONNECT")
  PROVE  Due("DISCONNECT")'
  <1>1. PICK i \in 1..Len(nlq) : nlq[i] = "DISCONNECT"
    BY DEF Due
  <1>2. i # 1
    BY <1>1
  <1>3. /\ Len(nlq') = Len(nlq) - 1 /\ DOMAIN nlq' = 1..Len(nlq')
        /\ \A j \in 1..Len(nlq') : nlq'[j] = nlq[j + 1]
    OBVIOUS
  <1>4. i - 1 \in DOMAIN nlq' /\ nlq'[i - 1] = "DISCONNECT"
    BY <1>1, <1>2, <1>3
  <1> QED
    BY <1>4 DEF Due

(* Who reads and who writes. *)
WireSteps ==
  \/ UNCHANGED <<nlq, frames>>
  \/ CheckNetlink
  \/ CheckRawsock
  \/ CheckRawError
  \/ frames' = frames /\ nlq # nlq' /\ \E m \in Messages : nlq' = Append(nlq, m)
  \/ nlq' = nlq /\ frames' = frames + 1

LEMMA WireEffect ==
  ASSUME IInv, [Next]_vars
  PROVE  WireSteps
  <1> USE DEF WireSteps, wire
  <1>0. nlq \in Seq(Messages)
    BY DEF IInv, TypeOK
  <1>1. CASE EnterPoll \/ PollReturns \/ EndRound \/ LeaveLoop \/ \E i \in Slots : CheckConn(i)
    BY <1>1 DEF EnterPoll, PollReturns, EndRound, LeaveLoop, CheckConn
  <1>2. CASE StorePid \/ Accept \/ CheckControl \/ CheckRfkill \/ TimerExpired
    BY <1>2 DEF StorePid, Accept, CheckControl, CheckRfkill, TimerExpired
  <1>3. CASE Signals \/ UserStep
    BY <1>3 DEF Signals, Sigchld, Sigterm, ChildExecs, ChildExits, UserStep, Connects,
                Receives, LosesDaemon, Stops
  <1>4. ASSUME NEW m \in Messages, nlq' = Append(nlq, m)
        PROVE  nlq # nlq'
    BY <1>0, <1>4
  <1>5. CASE CardAnswers \/ CardReports
    <2>1. /\ frames' = frames
          /\ \E m \in {"AUTHENTICATE", "DISCONNECT", "ERROR", "SCAN_DONE"} :
               nlq' = Append(nlq, m)
      BY <1>5 DEF CardAnswers, CardReports, Arrives
    <2> QED
      BY <1>4, <2>1 DEF Messages
  <1>6. CASE IfaceBounces
    <2>1. frames' = frames /\ (nlq' = nlq \/ nlq' = Append(nlq, "DISCONNECT"))
      BY <1>6 DEF IfaceBounces
    <2> QED
      BY <1>4, <2>1 DEF Messages
  <1>7. CASE RadioOn \/ ApSends
    BY <1>7 DEF RadioOn, ApSends
  <1>8. CASE UNCHANGED vars
    BY <1>8 DEF vars
  <1> QED
    BY <1>1, <1>2, <1>3, <1>5, <1>6, <1>7, <1>8 DEF Next, DaemonStep, WorldStep

LEMMA WireType ==
  ASSUME IInv, [Next]_vars
  PROVE  nlq' \in Seq(Messages) /\ frames' \in Nat
  <1>0. nlq \in Seq(Messages) /\ frames \in Nat
    BY DEF IInv, TypeOK
  <1>1. CASE CheckNetlink
    BY <1>0, <1>1, NextMessage DEF CheckNetlink
  <1>2. CASE CheckRawsock
    <2>1. frames > 0
      BY <1>2 DEF CheckRawsock, Turn, IInv, Revents
    <2> QED
      BY <1>0, <1>2, <2>1 DEF CheckRawsock
  <1>3. CASE CheckRawError
    BY <1>0, <1>3 DEF CheckRawError
  <1> QED
    BY <1>0, <1>1, <1>2, <1>3, WireEffect DEF WireSteps

LEMMA SocketKept ==
  ASSUME IInv, [Next]_vars
  PROVE  Socket'
  <1> USE DEF IInv, Socket
  <1>0. /\ nlq \in Seq(Messages) /\ rawsock \in {"OPEN", "FAILED", "CLOSED"}
        /\ attempt \in Attempts
    BY DEF TypeOK
  <1>1. CASE CheckNetlink
    <2>1. nlq # <<>> /\ nlq' = Tail(nlq)
      BY <1>1, NextMessage DEF CheckNetlink
    <2>2. CASE Head(nlq) = "DISCONNECT"
      BY <1>0, <1>1, <2>2, MessageMoves DEF start_connection
    <2>3. CASE Head(nlq) # "DISCONNECT"
      <3>1. Due("DISCONNECT") => Due("DISCONNECT")'
        BY <1>0, <2>1, <2>3, DueTaken
      <3> QED
        BY <1>0, <1>1, <3>1, MessageMoves DEF Moves, NoConnection, start_connection
    <2> QED
      BY <2>2, <2>3
  <1>2. CASE CheckRawError
    <2>1. rawsock = "FAILED" /\ UNCHANGED <<attempt, tainted, nlq>>
      BY <1>2 DEF CheckRawError, Turn, Revents
    <2> QED
      BY <2>1 DEF Due
  <1>3. CASE IfaceBounces
    <2>1. UNCHANGED <<attempt, tainted>>
      BY <1>3 DEF IfaceBounces
    <2>2. CASE attempt = "NONE"
      BY <2>1, <2>2
    <2>3. CASE attempt # "NONE" /\ Due("DISCONNECT")
      BY <1>3, <2>1, <2>3 DEF IfaceBounces, Due
    <2>4. CASE attempt # "NONE" /\ ~Due("DISCONNECT")
      <3>1. nlq' = Append(nlq, "DISCONNECT")
        BY <1>3, <2>4 DEF IfaceBounces
      <3> QED
        BY <1>0, <3>1, DueAppended DEF Messages
    <2> QED
      BY <2>2, <2>3, <2>4
  <1>4. CASE Moves /\ ~CheckNetlink /\ ~CheckRawError
    <2>1. Due("DISCONNECT") => Due("DISCONNECT")'
      <3>1. CASE UNCHANGED nlq
        BY <3>1 DEF Due
      <3>2. ASSUME NEW m \in Messages, nlq' = Append(nlq, m)
            PROVE  Due("DISCONNECT") => Due("DISCONNECT")'
        BY <1>0, <3>2, DueAppended
      <3> QED
        BY <1>4, <3>1, <3>2, WireEffect DEF WireSteps, CheckRawsock
    <2>2. CASE start_connection
      BY <1>0, <2>2 DEF start_connection
    <2>3. CASE /\ UNCHANGED <<rawsock, tainted>>
               /\ \/ attempt' \in {"NONE", "DISC", attempt}
                  \/ attempt \in {"AUTH", "LINK"} /\ attempt' \in {"LINK", "UP"}
      BY <1>0, <2>1, <2>3
    <2> QED
      BY <1>4, <2>2, <2>3 DEF Moves, NoConnection
  <1> QED
    BY <1>1, <1>2, <1>3, <1>4, AllMoves

-----------------------------------------------------------------------------
(* What is ready. *)
RevType(n) == [conns : SUBSET (1..n), hup : SUBSET (1..n), fds : SUBSET DOMAIN Rank]

(* A step of the round looks at something, and only takes away. *)
Looks ==
  /\ pc = "round"
  /\ rev' = [conns |-> rev'.conns, hup |-> rev.hup, fds |-> rev'.fds]
  /\ rev'.conns \subseteq rev.conns /\ rev'.fds \subseteq rev.fds

LEMMA LooksOne ==
  ASSUME IInv, pc = "round", NEW f, Checked(f)
  PROVE  Looks /\ rev'.fds = rev.fds \ {f} /\ rev'.conns = rev.conns
  BY DEF Checked, Looks, IInv, Revents

LEMMA RevSteps ==
  ASSUME IInv, [Next]_vars
  PROVE  UNCHANGED rev \/ PollReturns \/ EndRound \/ Looks
  <1>1. CASE EnterPoll \/ LeaveLoop \/ StorePid \/ TimerExpired
    BY <1>1 DEF EnterPoll, LeaveLoop, StorePid, TimerExpired
  <1>2. CASE \E i \in Slots : CheckConn(i)
    BY <1>2 DEF CheckConn, ConnTurn, Looks, IInv, Revents
  <1>3. CASE CheckNetlink \/ CheckRawsock \/ CheckRawError \/ Accept
    BY <1>3, LooksOne DEF CheckNetlink, CheckRawsock, CheckRawError, Accept, Turn
  <1>4. CASE CheckControl \/ CheckRfkill
    BY <1>4, LooksOne DEF CheckControl, CheckRfkill, Turn
  <1>5. CASE Signals \/ UserStep
    BY <1>5 DEF Signals, Sigchld, Sigterm, ChildExecs, ChildExits, UserStep, Connects,
                Receives, LosesDaemon, Stops, daemon
  <1>6. CASE WorldStep
    BY <1>6 DEF WorldStep, CardAnswers, CardReports, IfaceBounces, RadioOn, ApSends,
                Arrives, daemon
  <1>7. CASE UNCHANGED vars
    BY <1>7 DEF vars, daemon
  <1> QED
    BY <1>1, <1>2, <1>3, <1>4, <1>5, <1>6, <1>7 DEF Next, DaemonStep

LEMMA ReadySets ==
  ASSUME IInv, PollReturns
  PROVE  /\ rev' \in RevType(nconns) /\ "control" \in rev'.fds
         /\ "netlink" \in rev'.fds => nlq # <<>>
         /\ "accept" \in rev'.fds => backlog # <<>>
         /\ "rawsock" \in rev'.fds => frames > 0
         /\ "rawerr" \in rev'.fds => rawsock = "FAILED"
  <1>1. PICK stray \in SUBSET {i \in 1..nconns : Outside(i)} :
          rev' = [conns |-> ReadyConns \cup stray,
                  hup |-> stray \cup {i \in ReadyConns : Hup(pfds.conns[i])},
                  fds |-> ReadyFds \cup {"control"}]
    BY DEF PollReturns
  <1>2. ReadyConns \subseteq 1..nconns
    <2>1. ASSUME NEW i \in Slots, Readable(i)
          PROVE  i \in 1..nconns
      BY <2>1, LoopAssumption DEF Readable, IInv, Unused, TypeOK, Slots
    <2> QED
      BY <2>1 DEF ReadyConns
  <1>3. /\ ReadyFds \subseteq DOMAIN Rank
        /\ "netlink" \in ReadyFds => nlq # <<>>
        /\ "accept" \in ReadyFds => backlog # <<>>
        /\ "rawsock" \in ReadyFds => frames > 0
        /\ "rawerr" \in ReadyFds => rawsock = "FAILED"
    BY Ranks DEF ReadyFds
  <1> QED
    BY <1>1, <1>2, <1>3, Ranks DEF RevType

(* Only ppoll finds something ready. *)
LEMMA ReadyKept ==
  ASSUME IInv, [Next]_vars, ~PollReturns
  PROVE  rev'.fds \subseteq rev.fds /\ rev'.conns \subseteq rev.conns
  <1>1. CASE EndRound
    <2>1. rev' = NoRev
      BY <1>1 DEF EndRound
    <2> QED
      BY <2>1 DEF NoRev
  <1>2. CASE Looks
    BY <1>2 DEF Looks
  <1> QED
    BY <1>1, <1>2, RevSteps

LEMMA TailLeft ==
  ASSUME NEW S, NEW q \in Seq(S), Len(q) > 1
  PROVE  Tail(q) # <<>>
  <1> DEFINE t == Tail(q)
  <1>1. Len(t) > 0
    OBVIOUS
  <1>2. Len(<<>>) = 0
    OBVIOUS
  <1> HIDE DEF t
  <1>3. t # <<>>
    BY <1>1, <1>2
  <1> QED
    BY <1>3 DEF t

LEMMA BacklogSteps ==
  ASSUME IInv, [Next]_vars
  PROVE  UNCHANGED backlog \/ Accept \/ \E c \in Clients : backlog' = Append(backlog, c)
  <1>1. CASE Clientless
    BY <1>1 DEF Clientless
  <1>2. CASE EndRound \/ LeaveLoop \/ CheckNetlink \/ StorePid \/ \E i \in Slots : CheckConn(i)
    BY <1>2 DEF EndRound, LeaveLoop, CheckNetlink, StorePid, CheckConn
  <1>3. CASE UserStep
    BY <1>3 DEF UserStep, Connects, Receives, LosesDaemon, Stops
  <1> QED
    BY <1>1, <1>2, <1>3, ClientlessSteps

(* Only the end of a round makes the daemon ready for another one.         *)
LEMMA PcSteps ==
  ASSUME IInv, [Next]_vars, pc' \in {"ready", "poll"}
  PROVE  \/ EndRound
         \/ EnterPoll
         \/ pc' = pc /\ UNCHANGED <<rev, pollset, pfds, conns>>
  <1>1. CASE PollReturns \/ LeaveLoop \/ StorePid \/ TimerExpired
    BY <1>1 DEF PollReturns, LeaveLoop, Leave, StorePid, TimerExpired
  <1>2. CASE \E i \in Slots : CheckConn(i)
    BY <1>2 DEF CheckConn, ConnTurn
  <1>3. CASE CheckNetlink \/ CheckRawsock \/ CheckRawError \/ Accept
    BY <1>3 DEF CheckNetlink, CheckRawsock, CheckRawError, Accept, Turn
  <1>4. CASE CheckControl \/ CheckRfkill
    BY <1>4 DEF CheckControl, CheckRfkill, Turn
  <1>5. CASE Signals \/ UserStep
    BY <1>5 DEF Signals, Sigchld, Sigterm, ChildExecs, ChildExits, UserStep, Connects,
                Receives, LosesDaemon, Stops, daemon
  <1>6. CASE WorldStep
    BY <1>6 DEF WorldStep, CardAnswers, CardReports, IfaceBounces, RadioOn, ApSends,
                Arrives, daemon
  <1>7. CASE UNCHANGED vars
    BY <1>7 DEF vars, daemon
  <1> QED
    BY <1>1, <1>2, <1>3, <1>4, <1>5, <1>6, <1>7 DEF Next, DaemonStep

LEMMA ReventsKept ==
  ASSUME IInv, [Next]_vars
  PROVE  Revents'
  <1>0. /\ rev \in RevType(nconns) /\ NoRev \in RevType(nconns)
        /\ nlq \in Seq(Messages) /\ backlog \in Seq(Clients) /\ frames \in Nat
        /\ nconns \in Nat /\ nconns' \in Nat /\ nconns <= nconns'
    BY ClientsType, LoopAssumption DEF IInv, TypeOK, Revents, RevType, NoRev
  <1>1. rev' \in RevType(nconns')
    <2>1. rev' \in RevType(nconns)
      <3>1. CASE Looks
        BY <1>0, <3>1 DEF RevType, Looks
      <3>2. CASE EndRound
        BY <1>0, <3>2 DEF EndRound
      <3> QED
        BY <1>0, <3>1, <3>2, ReadySets, RevSteps
    <2> QED
      BY <1>0, <2>1 DEF RevType
  <1>2. "netlink" \in rev'.fds => nlq' # <<>>
    <2>1. CASE PollReturns
      BY <2>1, ReadySets DEF PollReturns, wire
    <2>2. CASE CheckNetlink
      <3>1. Checked("netlink") /\ pc = "round"
        BY <2>2 DEF CheckNetlink, Turn
      <3>2. rev'.fds = rev.fds \ {"netlink"}
        BY <3>1, LooksOne
      <3> QED
        BY <3>2
    <2>3. CASE ~PollReturns /\ ~CheckNetlink
      <3>1. nlq # <<>> => nlq' # <<>>
        BY <1>0, <2>3, WireEffect DEF WireSteps, CheckRawsock, CheckRawError
      <3>2. "netlink" \in rev'.fds => "netlink" \in rev.fds
        BY <2>3, ReadyKept
      <3> QED
        BY <3>1, <3>2 DEF IInv, Revents
    <2> QED
      BY <2>1, <2>2, <2>3
  <1>3. "accept" \in rev'.fds => backlog' # <<>>
    <2>1. CASE PollReturns
      BY <2>1, ReadySets DEF PollReturns
    <2>2. CASE Accept
      <3>1. CASE Len(backlog) > 1
        <4>1. backlog' = Tail(backlog) /\ Tail(backlog) # <<>>
          BY <1>0, <2>2, <3>1, TailLeft DEF Accept
        <4> QED
          BY <4>1
      <3>2. CASE ~(Len(backlog) > 1)
        <4>1. Checked("accept") /\ pc = "round"
          BY <2>2, <3>2 DEF Accept, Turn
        <4>2. rev'.fds = rev.fds \ {"accept"}
          BY <4>1, LooksOne
        <4> QED
          BY <4>2
      <3> QED
        BY <3>1, <3>2
    <2>3. CASE ~PollReturns /\ ~Accept
      <3>1. backlog # <<>> => backlog' # <<>>
        BY <1>0, <2>3, BacklogSteps
      <3>2. "accept" \in rev'.fds => "accept" \in rev.fds
        BY <2>3, ReadyKept
      <3> QED
        BY <3>1, <3>2 DEF IInv, Revents
    <2> QED
      BY <2>1, <2>2, <2>3
  <1>4. "rawsock" \in rev'.fds => frames' > 0
    <2>1. CASE PollReturns
      BY <2>1, ReadySets DEF PollReturns, wire
    <2>2. CASE CheckRawsock
      BY <2>2, LooksOne DEF CheckRawsock, Turn
    <2>3. CASE CheckRawError
      BY <2>3, LooksOne, TurnOrder DEF CheckRawError, Turn, IInv, TypeOK
    <2>4. CASE ~PollReturns /\ ~CheckRawsock /\ ~CheckRawError
      <3>1. frames > 0 => frames' > 0
        BY <1>0, <2>4, WireEffect DEF WireSteps, CheckNetlink
      <3>2. "rawsock" \in rev'.fds => "rawsock" \in rev.fds
        BY <2>4, ReadyKept
      <3> QED
        BY <3>1, <3>2 DEF IInv, Revents
    <2> QED
      BY <2>1, <2>2, <2>3, <2>4
  <1>5. "rawerr" \in rev'.fds => rawsock' = "FAILED"
    <2>1. CASE PollReturns
      BY <2>1, ReadySets DEF PollReturns
    <2>2. CASE CheckRawError
      BY <2>2, LooksOne DEF CheckRawError, Turn
    <2>3. CASE ~PollReturns /\ ~CheckRawError
      <3>1. rawsock = "FAILED" => rawsock' = "FAILED"
        BY <2>3, AllMoves DEF Moves, NoConnection, start_connection, IfaceBounces
      <3>2. "rawerr" \in rev'.fds => "rawerr" \in rev.fds
        BY <2>3, ReadyKept
      <3> QED
        BY <3>1, <3>2 DEF IInv, Revents
    <2> QED
      BY <2>1, <2>2, <2>3
  <1>6. pc' \in {"ready", "poll"} => rev' = NoRev
    <2>1. CASE EndRound
      BY <2>1 DEF EndRound
    <2>2. CASE pc \in {"ready", "poll"} /\ UNCHANGED rev
      BY <2>2 DEF IInv, Revents
    <2>3. CASE EnterPoll
      BY <2>3 DEF EnterPoll, IInv, Revents
    <2> QED
      BY <2>1, <2>2, <2>3, PcSteps
  <1> QED
    BY <1>1, <1>2, <1>3, <1>4, <1>5, <1>6 DEF Revents, RevType

-----------------------------------------------------------------------------
(* The pollfd array. *)
RoundSteps ==
  \/ \E i \in Slots : CheckConn(i)
  \/ CheckNetlink \/ CheckRawsock \/ CheckRawError \/ Accept \/ CheckControl \/ CheckRfkill

LEMMA StillSteps ==
  ASSUME IInv, [Next]_vars, ~RoundSteps, ~EnterPoll
  PROVE  /\ UNCHANGED <<pfds, conns, pollset>>
         /\ rawsock' = rawsock \/ (rawsock = "OPEN" /\ rawsock' = "FAILED")
         /\ rev' = rev \/ PollReturns \/ EndRound
  <1>1. CASE PollReturns \/ EndRound \/ LeaveLoop \/ StorePid
    BY <1>1 DEF PollReturns, EndRound, LeaveLoop, StorePid, MayReport
  <1>2. CASE TimerExpired
    BY <1>2 DEF TimerExpired, Becomes, NoConnection
  <1>3. CASE Signals \/ UserStep
    BY <1>3 DEF Signals, Sigchld, Sigterm, ChildExecs, ChildExits, UserStep, Connects,
                Receives, LosesDaemon, Stops, daemon
  <1>4. CASE WorldStep
    BY <1>4 DEF WorldStep, CardAnswers, CardReports, IfaceBounces, RadioOn, ApSends,
                Arrives, daemon
  <1>5. CASE UNCHANGED vars
    BY <1>5 DEF vars, daemon
  <1> QED
    BY <1>1, <1>2, <1>3, <1>4, <1>5 DEF Next, DaemonStep, RoundSteps

(* In a round, the array is done with once the control socket was looked at. *)
LEMMA RoundEffect ==
  ASSUME IInv, RoundSteps
  PROVE  /\ pc = "round" /\ Looks /\ (pollset' => pollset)
         /\ \/ CheckControl /\ ~pollset' /\ rev'.conns = {} /\ rev'.fds \subseteq {"rfkill"}
            \/ CheckRfkill /\ rev.conns = {} /\ rev.fds = {"rfkill"}
            \/ /\ rev.conns # {} \/ rev.fds \cap BeforeControl # {}
               /\ "control" \in rev.fds => "control" \in rev'.fds
  <1>0. pollset \in BOOLEAN /\ rev.fds \subseteq DOMAIN Rank
    BY DEF IInv, TypeOK
  <1>1. ASSUME NEW i \in Slots, CheckConn(i)
        PROVE  /\ pc = "round" /\ Looks /\ (pollset' => pollset)
               /\ rev.conns # {} /\ rev'.fds = rev.fds
    BY <1>1, CommandMoves DEF CheckConn, ConnTurn, Looks, IInv, Revents
  <1>2. CASE CheckNetlink
    <2>1. Checked("netlink")
      BY <1>2 DEF CheckNetlink
    <2>2. /\ pc = "round" /\ "netlink" \in rev.fds /\ pollset' = pollset
      BY <1>2 DEF CheckNetlink, Turn
    <2>3. Looks /\ ("control" \in rev.fds => "control" \in rev'.fds)
      BY <2>1, <2>2, LooksOne DEF Looks, IInv, Revents
    <2> QED
      BY <2>2, <2>3 DEF BeforeControl
  <1>3. CASE CheckRawsock
    BY <1>3, LooksOne DEF CheckRawsock, Turn, BeforeControl
  <1>4. CASE CheckRawError
    BY <1>4, LooksOne DEF CheckRawError, Turn, BeforeControl
  <1>5. CASE Accept
    <2>1. rev' = rev \/ Checked("accept")
      BY <1>5 DEF Accept
    <2>2. /\ pc = "round" /\ "accept" \in rev.fds /\ pollset' = pollset
      BY <1>5 DEF Accept, Turn
    <2>3. Looks /\ ("control" \in rev.fds => "control" \in rev'.fds)
      BY <2>1, <2>2, LooksOne DEF Looks, IInv, Revents
    <2> QED
      BY <2>2, <2>3 DEF BeforeControl
  <1>6. CASE CheckControl
    <2>1. pc = "round" /\ Looks /\ ~pollset'
      BY <1>6, LooksOne DEF CheckControl, Turn, Unset
    <2>2. rev'.conns = {} /\ rev'.fds = rev.fds \ {"control"}
      BY <1>6, LooksOne DEF CheckControl, Turn
    <2>3. rev.fds \subseteq {"control", "rfkill"}
      BY <1>0, <1>6, TurnOrder DEF CheckControl
    <2> QED
      BY <1>6, <2>1, <2>2, <2>3
  <1>7. CASE CheckRfkill
    BY <1>0, <1>7, LooksOne, TurnOrder DEF CheckRfkill, Turn
  <1> QED
    BY <1>1, <1>2, <1>3, <1>4, <1>5, <1>6, <1>7 DEF RoundSteps

LEMMA LooseEnd ==
  ASSUME IInv
  PROVE  \A i \in Slots : i <= nconns \/ (conns[i].fd = NoFd /\ pfds.conns[i] = NoFd)
  BY LoopAssumption DEF IInv, Unused, TypeOK, Slots, FreeConn

LEMMA RoomKept ==
  ASSUME [Next]_vars
  PROVE  room' = room /\ \A i : Outside(i)' = Outside(i)
  <1> SUFFICES room' = room
    BY DEF Outside
  <1>1. CASE EnterPoll \/ PollReturns \/ EndRound \/ LeaveLoop \/ StorePid \/ TimerExpired
    BY <1>1 DEF EnterPoll, PollReturns, EndRound, LeaveLoop, StorePid, TimerExpired
  <1>2. CASE RoundSteps
    BY <1>2 DEF RoundSteps, CheckConn, CheckNetlink, CheckRawsock, CheckRawError, Accept,
                CheckControl, CheckRfkill
  <1>3. CASE Signals \/ UserStep
    BY <1>3 DEF Signals, Sigchld, Sigterm, ChildExecs, ChildExits, UserStep, Connects,
                Receives, LosesDaemon, Stops
  <1>4. CASE WorldStep
    BY <1>4 DEF WorldStep, CardAnswers, CardReports, IfaceBounces, RadioOn, ApSends, Arrives
  <1>5. CASE UNCHANGED vars
    BY <1>5 DEF vars
  <1> QED
    BY <1>1, <1>2, <1>3, <1>4, <1>5 DEF Next, DaemonStep, RoundSteps

LEMMA PollArrayKept ==
  ASSUME IInv, [Next]_vars
  PROVE  PollArray'
  <1> USE DEF PollArray
  <1>0. pollset \in BOOLEAN /\ IInv
    BY DEF IInv, TypeOK
  <1>1. CASE EnterPoll
    <2>1. rev = NoRev /\ rev' = rev /\ pollset' /\ UNCHANGED <<conns, rawsock>>
      BY <1>1 DEF EnterPoll, IInv, Revents
    <2>2. /\ \A i \in Slots :
               pfds'.conns[i] = IF Outside(i)' THEN NoFd ELSE conns'[i].fd
          /\ rawsock' # "CLOSED" => pfds'.raw
      <3>1. CASE pollset
        BY <1>1, <2>1, <3>1, RoomKept DEF EnterPoll, IInv, NoRev
      <3>2. CASE ~pollset
        <4>1. /\ pfds'.raw = (rawsock # "CLOSED")
              /\ \A i \in Slots :
                   pfds'.conns[i] = IF i <= nconns /\ ~Outside(i) THEN conns[i].fd ELSE NoFd
          BY <1>1, <3>2 DEF EnterPoll, update_pollfds
        <4>2. \A i \in Slots : i <= nconns \/ conns[i].fd = NoFd
          BY LooseEnd
        <4> QED
          BY <2>1, <4>1, <4>2, RoomKept
      <3> QED
        BY <3>1, <3>2
    <2> QED
      BY <2>1, <2>2 DEF NoRev, BeforeControl
  <1>2. CASE RoundSteps
    <2>1. /\ pc = "round" /\ Looks /\ (pollset' => pollset)
      BY <1>2, RoundEffect
    <2>p. pc' # "poll"
      BY <2>1, PcSteps DEF EndRound, EnterPoll, xshutdown, Leave
    <2>2. CASE CheckControl /\ ~pollset' /\ rev'.conns = {} /\ rev'.fds \subseteq {"rfkill"}
      BY <2>2, <2>p DEF BeforeControl
    <2>3. CASE CheckRfkill /\ rev.conns = {} /\ rev.fds = {"rfkill"}
      <3>1. ~pollset
        BY <2>3 DEF IInv
      <3>2. rev'.conns = {} /\ rev'.fds \subseteq {"rfkill"}
        BY <2>1, <2>3 DEF Looks
      <3> QED
        BY <2>1, <2>p, <3>1, <3>2 DEF BeforeControl
    <2>4. CASE /\ rev.conns # {} \/ rev.fds \cap BeforeControl # {}
               /\ "control" \in rev.fds => "control" \in rev'.fds
      <3>1. "control" \in rev'.fds
        BY <2>4 DEF IInv
      <3> QED
        BY <2>p, <3>1
    <2> QED
      BY <1>2, <2>2, <2>3, <2>4, RoundEffect
  <1>3. CASE PollReturns
    <2>1. "control" \in rev'.fds /\ pc' = "round"
      BY <1>3, ReadySets DEF PollReturns
    <2> QED
      BY <2>1
  <1>4. CASE EndRound
    <2>1. rev' = NoRev /\ rev.fds = {} /\ pc' # "poll" /\ UNCHANGED <<pollset, pfds, conns, rawsock>>
      BY <1>4 DEF EndRound, xshutdown, Leave
    <2> QED
      BY <2>1, RoomKept DEF IInv, NoRev, BeforeControl
  <1>5. CASE ~EnterPoll /\ ~RoundSteps /\ ~PollReturns /\ ~EndRound
    <2>1. /\ UNCHANGED <<pfds, conns, pollset, rev>>
          /\ rawsock' = rawsock \/ (rawsock = "OPEN" /\ rawsock' = "FAILED")
      BY <1>5, StillSteps
    <2>2. pc' = "poll" => pollset'
      BY <1>5, <2>1, PcSteps DEF IInv
    <2> QED
      BY <2>1, <2>2, RoomKept DEF IInv
  <1> QED
    BY <1>1, <1>2, <1>3, <1>4, <1>5

PfdsType == [raw : BOOLEAN, conns : [Slots -> Clients \cup {NoFd}]]

LEMMA PfdsKept ==
  ASSUME IInv, [Next]_vars
  PROVE  /\ pfds' \in PfdsType /\ pollset' \in BOOLEAN
         /\ \A i \in Slots : i > nconns => pfds'.conns[i] = NoFd
  <1>0. /\ pfds \in PfdsType /\ pollset \in BOOLEAN /\ conns \in AllConns /\ nconns \in Nat
        /\ \A i \in Slots : i > nconns => pfds.conns[i] = NoFd
    BY DEF IInv, TypeOK, Unused, PfdsType, AllConns
  <1>1. CASE EnterPoll
    <2>1. CASE pollset
      BY <1>0, <1>1, <2>1 DEF EnterPoll
    <2>2. CASE ~pollset
      <3>1. pfds' = [raw |-> rawsock # "CLOSED",
                     conns |-> [i \in Slots |-> IF i <= nconns /\ ~Outside(i)
                                                THEN conns[i].fd ELSE NoFd]]
        BY <1>1, <2>2 DEF EnterPoll, update_pollfds
      <3>2. \A i \in Slots : conns[i].fd \in Clients \cup {NoFd}
        BY <1>0 DEF AllConns
      <3> QED
        BY <1>0, <1>1, <3>1, <3>2 DEF PfdsType, EnterPoll, Slots
    <2> QED
      BY <2>1, <2>2
  <1>2. CASE CheckRawError
    BY <1>0, <1>2 DEF CheckRawError, PfdsType
  <1>3. CASE RoundSteps /\ ~CheckRawError
    <2>1. pfds' = pfds
      BY <1>3 DEF RoundSteps, CheckConn, CheckNetlink, CheckRawsock, Accept, CheckControl,
                  CheckRfkill
    <2>2. pollset' \in BOOLEAN
      <3>1. ASSUME NEW i \in Slots, CheckConn(i)
            PROVE  pollset' \in BOOLEAN
        BY <1>0, <3>1, CommandMoves
      <3> QED
        BY <1>0, <1>3, <3>1
        DEF RoundSteps, CheckNetlink, CheckRawsock, Accept, CheckControl, CheckRfkill, Unset
    <2> QED
      BY <1>0, <2>1, <2>2
  <1>4. CASE ~EnterPoll /\ ~RoundSteps
    BY <1>0, <1>4, StillSteps
  <1> QED
    BY <1>1, <1>2, <1>3, <1>4 DEF RoundSteps

LEMMA UnusedKept ==
  ASSUME IInv, [Next]_vars
  PROVE  Unused'
  <1>1. nconns \in Nat /\ nconns' \in Nat /\ nconns <= nconns'
    BY ClientsType, LoopAssumption DEF IInv, TypeOK
  <1> QED
    BY <1>1, ClientsType, PfdsKept, LoopAssumption DEF Unused, Slots

LEMMA FlagsType ==
  ASSUME IInv, [Next]_vars
  PROVE  /\ pc' \in {"ready", "poll", "round", "fork", "gone"}
         /\ sigterm' \in BOOLEAN /\ late' \in BOOLEAN /\ room' \in BOOLEAN
         /\ rfevent' \in BOOLEAN /\ chld' \in BOOLEAN
         /\ Termed'
  <1> USE DEF IInv, Termed, procs, wire
  <1>0. /\ pc \in {"ready", "poll", "round", "fork", "gone"}
        /\ sigterm \in BOOLEAN /\ late \in BOOLEAN /\ room \in BOOLEAN
        /\ rfevent \in BOOLEAN /\ chld \in BOOLEAN
    BY DEF TypeOK
  <1>1. CASE EnterPoll \/ PollReturns \/ LeaveLoop \/ StorePid \/ TimerExpired
    BY <1>0, <1>1 DEF EnterPoll, PollReturns, LeaveLoop, Leave, StorePid, TimerExpired
  <1>2. CASE EndRound
    BY <1>0, <1>2 DEF EndRound, xshutdown, Leave, TermSeen
  <1>3. CASE RoundSteps
    BY <1>0, <1>3 DEF RoundSteps, CheckConn, ConnTurn, CheckNetlink, CheckRawsock,
                      CheckRawError, Accept, CheckControl, CheckRfkill, Turn
  <1>4. CASE Signals
    <2>1. CASE Sigchld
      BY <1>0, <2>1 DEF Sigchld
    <2>2. CASE Sigterm
      <3>1. late' = (late \/ pc = "ready") /\ sigterm' = TRUE /\ pc' # "poll"
        BY <1>0, <2>2 DEF Sigterm
      <3>2. late' \in BOOLEAN /\ (pc = "ready" => late')
        BY <3>1
      <3>3. pc' = pc \/ pc' = "round"
        BY <2>2 DEF Sigterm
      <3> QED
        BY <1>0, <2>2, <3>1, <3>2, <3>3 DEF Sigterm
    <2>3. CASE \E p \in Pids : ChildExecs(p) \/ ChildExits(p)
      <3>1. UNCHANGED <<pc, sigterm, late, room, rfevent>>
        BY <2>3 DEF ChildExecs, ChildExits
      <3>2. chld' = chld \/ chld' = TRUE
        BY <2>3 DEF ChildExecs, ChildExits
      <3> QED
        BY <1>0, <3>1, <3>2
    <2> QED
      BY <1>4, <2>1, <2>2, <2>3 DEF Signals
  <1>5. CASE UserStep
    BY <1>0, <1>5 DEF UserStep, Connects, Receives, LosesDaemon, Stops
  <1>6. CASE WorldStep
    <2>1. UNCHANGED <<pc, sigterm, late, room, chld>>
      BY <1>6 DEF WorldStep, CardAnswers, CardReports, IfaceBounces, RadioOn, ApSends,
                  Arrives
    <2>2. rfevent' = rfevent \/ rfevent' = TRUE
      BY <1>6 DEF WorldStep, CardAnswers, CardReports, IfaceBounces, RadioOn, ApSends,
                  Arrives
    <2> QED
      BY <1>0, <2>1, <2>2
  <1>7. CASE UNCHANGED vars
    BY <1>0, <1>7 DEF vars
  <1> QED
    BY <1>1, <1>2, <1>3, <1>4, <1>5, <1>6, <1>7 DEF Next, DaemonStep, RoundSteps

LEMMA AttemptType ==
  ASSUME IInv, [Next]_vars
  PROVE  /\ rawsock' \in {"OPEN", "FAILED", "CLOSED"} /\ attempt' \in Attempts
         /\ tainted' \in BOOLEAN
  <1>0. /\ rawsock \in {"OPEN", "FAILED", "CLOSED"} /\ attempt \in Attempts
        /\ tainted \in BOOLEAN
    BY DEF IInv, TypeOK
  <1> USE DEF Attempts
  <1>1. CASE Moves
    BY <1>0, <1>1 DEF Moves, NoConnection, start_connection
  <1>2. CASE CheckRawError \/ IfaceBounces
    BY <1>0, <1>2 DEF CheckRawError, IfaceBounces
  <1> QED
    BY <1>1, <1>2, AllMoves

LEMMA KidsKept ==
  ASSUME IInv, [Next]_vars
  PROVE  kids' \in AllKids /\ dhcpid' \in 0..MaxKids /\ early' \subseteq Pids
  <1>0. kids \in AllKids /\ dhcpid \in 0..MaxKids /\ early \subseteq Pids
    BY DEF IInv, TypeOK, AllKids
  <1>1. CASE Spares
    BY <1>0, <1>1, KillSpares DEF Spares, IInv
  <1>2. CASE Sigchld
    BY <1>0, <1>2, LoopAssumption DEF Sigchld, Forgotten, AllKids, ChildStates
  <1>3. CASE \E p \in Pids : ChildExecs(p) \/ ChildExits(p)
    BY <1>0, <1>3 DEF ChildExecs, ChildExits, AllKids, ChildStates
  <1>4. CASE StorePid
    <2>1. PICK n \in 0..MaxKids : /\ \A p \in Pids : kids[p] = "NONE" <=> p > n
                                  /\ pc = "fork" => n > 0
      BY DEF IInv, Children
    <2> QED
      BY <1>0, <1>4, <2>1, NextPid DEF StorePid
  <1>5. CASE CheckRawsock /\ fork /\ pc = "round" /\ pc' = "fork"
    BY <1>0, <1>5, ForkEffect DEF CheckRawsock
  <1> QED
    BY <1>1, <1>2, <1>3, <1>4, <1>5, SparingSteps

LEMMA TypeKept ==
  ASSUME IInv, [Next]_vars
  PROVE  TypeOK'
  <1>1. /\ rev'.conns \subseteq 1..nconns' /\ rev'.hup \subseteq 1..nconns'
        /\ rev'.fds \subseteq DOMAIN Rank
    BY ReventsKept DEF Revents
  <1> QED
    BY <1>1, ClientsType, AllMoves, WireType, PfdsKept, FlagsType, AttemptType, KidsKept
    DEF TypeOK, AllConns, AllCl, Modes, PfdsType, AllKids

-----------------------------------------------------------------------------
(* What clients are sent. *)
LEMMA Appended ==
  ASSUME NEW q \in Seq(Kinds), NEW m \in Kinds
  PROVE  /\ Append(q, m) \in Seq(Kinds) /\ Append(q, m) # <<>>
         /\ q = <<>> => Append(q, m) = <<m>>
         /\ q # <<>> => Head(Append(q, m)) = Head(q) /\ Len(Append(q, m)) > 1
         /\ \A k \in DOMAIN Append(q, m) :
              Append(q, m)[k] = m \/ (k \in DOMAIN q /\ Append(q, m)[k] = q[k])
  <1> DEFINE r == Append(q, m)
  <1>1. /\ r \in Seq(Kinds) /\ Len(r) = Len(q) + 1 /\ Len(q) \in Nat
        /\ \A k \in 1..Len(q) : r[k] = q[k]
        /\ r[Len(q) + 1] = m
    OBVIOUS
  <1>2. r # <<>>
    BY AppendProperties
  <1>3. q = <<>> => r = <<m>>
    OBVIOUS
  <1>4. q # <<>> => Head(r) = Head(q)
    BY HeadTailAppend
  <1>5. q # <<>> => Len(r) > 1
    BY <1>1, EmptySeq
  <1>6. \A k \in DOMAIN r : r[k] = m \/ (k \in DOMAIN q /\ r[k] = q[k])
    OBVIOUS
  <1> QED
    BY <1>1, <1>2, <1>3, <1>4, <1>5, <1>6

LEMMA ProperType ==
  ASSUME NEW x \in Process
  PROVE  /\ x.inbox \in Seq(Kinds) /\ x.st \in {"OFF", "ASK", "LISTEN", "ASK_STATUS", "END"}
         /\ x.req \in BOOLEAN
  BY DEF Process, Kinds

(* Who has lost its slot, or no longer listens, is in order if it was.      *)
LEMMA ProperLess ==
  ASSUME NEW x \in Process, NEW h, NEW l, NEW h2, NEW l2,
         Proper(x, h, l), h2 => h, l2 => l
  PROVE  Proper(x, h2, l2) /\ Proper(HungUp(x), h2, l2)
  <1>1. Proper(x, h2, l2)
    BY DEF Proper
  <1>2. /\ HungUp(x).st = x.st /\ HungUp(x).inbox = x.inbox /\ HungUp(x).cmd = x.cmd
        /\ HungUp(x).req = FALSE
    BY DEF HungUp, Process
  <1>3. Proper(HungUp(x), h2, l2)
    BY <1>1, <1>2 DEF Proper
  <1> QED
    BY <1>1, <1>3

(* A notification for one that listens. *)
LEMMA ProperNoted ==
  ASSUME NEW x \in Process, NEW h, Proper(x, h, TRUE), h = TRUE
  PROVE  Proper(Sent(x, "NOTE"), h, TRUE)
  <1>1. CASE x.st = "END"
    BY <1>1 DEF Sent
  <1>2. CASE x.st # "END"
    <2> DEFINE y == [x EXCEPT !.inbox = Append(@, "NOTE")]
    <2>1. /\ y.st = x.st /\ y.cmd = x.cmd /\ y.req = x.req
          /\ y.inbox = Append(x.inbox, "NOTE")
      BY DEF Process
    <2>2. x.inbox \in Seq(Kinds) /\ "NOTE" \in Kinds
      BY DEF Process, Kinds
    <2>3. \A k \in DOMAIN x.inbox : x.inbox[k] # "NOKEY"
      BY DEF Proper
    <2>4. /\ y.inbox # <<>> /\ (x.inbox # <<>> => Head(y.inbox) = Head(x.inbox))
          /\ \A k \in DOMAIN y.inbox : y.inbox[k] # "NOKEY"
      BY <2>1, <2>2, <2>3, Appended
    <2>5. x.st = "ASK" => x.inbox # <<>>
      BY DEF Proper
    <2> HIDE DEF y
    <2>6. Proper(y, h, TRUE)
      BY <1>2, <2>1, <2>4, <2>5 DEF Proper
    <2> QED
      BY <1>2, <2>6 DEF Sent, y
  <1> QED
    BY <1>1, <1>2

(* The reply. *)
Replied(x, m) == Sent([x EXCEPT !.req = FALSE], m)

LEMMA ProperReplied ==
  ASSUME NEW x \in Process, NEW h, NEW l, Proper(x, h, l), h = TRUE, x.req
  PROVE  /\ \A m \in {"OK", "ERR"}, g \in BOOLEAN : Proper(Replied(x, m), h, g)
         /\ x.cmd = "CONNECT" => Proper(Replied(x, "NOKEY"), h, l)
  <1>1. CASE x.st = "END"
    <2> DEFINE y == [x EXCEPT !.req = FALSE]
    <2>1. /\ y.st = x.st /\ y.cmd = x.cmd /\ y.req = FALSE /\ y.inbox = x.inbox
      BY DEF Process
    <2>2. \A m : Replied(x, m) = y
      BY <1>1, <2>1 DEF Replied, Sent
    <2>3. \A k \in DOMAIN x.inbox : x.inbox[k] # "NOKEY"
      BY <1>1 DEF Proper
    <2> HIDE DEF y
    <2>4. \A g \in BOOLEAN : Proper(y, h, g)
      BY <1>1, <2>1, <2>3 DEF Proper
    <2>5. Proper(y, h, l)
      BY <1>1, <2>1, <2>3 DEF Proper
    <2> QED
      BY <2>2, <2>4, <2>5
  <1>2. ASSUME x.st # "END", NEW m \in {"OK", "ERR", "NOKEY"},
               m = "NOKEY" => x.cmd = "CONNECT",
               NEW g, m = "NOKEY" => (g => l)
        PROVE  Proper(Replied(x, m), h, g)
    <2> DEFINE y == [[x EXCEPT !.req = FALSE] EXCEPT !.inbox = Append(@, m)]
    <2>1. /\ y.st = x.st /\ y.cmd = x.cmd /\ y.req = FALSE
          /\ y.inbox = Append(x.inbox, m)
      BY DEF Process
    <2>2. Replied(x, m) = y
      BY <1>2 DEF Replied, Sent, Process
    <2>3. x.inbox \in Seq(Kinds) /\ m \in Kinds
      BY DEF Process, Kinds
    <2> HIDE DEF y
    <2>4. CASE x.st = "ASK" /\ x.inbox = <<>>
      <3>1. y.inbox = <<m>> /\ ~l
        BY <2>1, <2>3, <2>4, Appended DEF Proper
      <3>2. Head(y.inbox) = m /\ Len(y.inbox) = 1
        BY <3>1
      <3>3. y.inbox # <<>> /\ \A k \in DOMAIN y.inbox : y.inbox[k] = m
        BY <2>3, <3>1
      <3> QED
        BY <1>2, <2>1, <2>2, <2>4, <3>1, <3>2, <3>3 DEF Proper
    <2>5. CASE x.st = "ASK_STATUS" /\ x.cmd = "STATUS"
      <3>1. \A k \in DOMAIN x.inbox : x.inbox[k] # "NOKEY"
        BY <2>5 DEF Proper
      <3>2. m # "NOKEY"
        BY <1>2, <2>5
      <3>3. \A k \in DOMAIN y.inbox : y.inbox[k] # "NOKEY"
        BY <2>1, <2>3, <3>1, <3>2, Appended
      <3> QED
        BY <2>1, <2>2, <2>5, <3>3 DEF Proper
    <2> QED
      BY <1>2, <2>4, <2>5 DEF Proper
  <1> QED
    BY <1>1, <1>2

(* All clients, as the slots cs and the clients k have them. *)
AllProper(cs, k) == \A c \in Clients : Proper(k[c], Holds(cs, c), Listens(cs, c))

LEMMA HoldersListen ==
  ASSUME NEW cs, NEW c
  PROVE  /\ Holds(cs, c) \in BOOLEAN /\ Listens(cs, c) \in BOOLEAN
         /\ Listens(cs, c) => Holds(cs, c)
  BY DEF Holds, Listens

LEMMA ToldProper ==
  ASSUME TypeOK, NEW cs, NEW k \in AllCl, AllProper(cs, k)
  PROVE  AllProper(cs, Told(k, cs))
  <1> SUFFICES ASSUME NEW c \in Clients
               PROVE  Proper(Told(k, cs)[c], Holds(cs, c), Listens(cs, c))
    BY DEF AllProper
  <1>1. k[c] \in Process /\ Proper(k[c], Holds(cs, c), Listens(cs, c))
    BY DEF AllProper, AllCl
  <1>2. CASE c \in Listening(cs)
    <2>1. Listens(cs, c)
      BY <1>2, LoopAssumption DEF Listening, Listens, Slots, TypeOK
    <2>2. Listens(cs, c) = TRUE /\ Holds(cs, c) = TRUE
      BY <2>1, HoldersListen
    <2>3. Told(k, cs)[c] = Sent(k[c], "NOTE")
      BY <1>2 DEF Told
    <2> QED
      BY <1>1, <2>2, <2>3, ProperNoted
  <1>3. CASE c \notin Listening(cs)
    BY <1>1, <1>3 DEF Told
  <1> QED
    BY <1>2, <1>3

LEMMA AckedProper ==
  ASSUME IInv, NEW i \in Slots, NEW c \in Clients, conns[i].fd = c, cl[c].req,
         NEW m \in {"OK", "ERR"}
  PROVE  /\ AllProper(conns, Ack(cl, c, m))
         /\ AllProper(Wants(i), Ack(cl, c, m))
         /\ AllProper([conns EXCEPT ![i].rep = FALSE], Ack(cl, c, m))
         /\ cl[c].cmd = "CONNECT" => AllProper(conns, Ack(cl, c, "NOKEY"))
  <1>0. conns \in AllConns /\ cl \in AllCl
    BY DEF IInv, TypeOK, AllConns, AllCl
  <1>1. \A n : Ack(cl, c, n) = [cl EXCEPT ![c] = Replied(cl[c], n)]
    BY <1>0 DEF Ack, Replied, AllCl
  <1>2. \A n : \A e \in Clients : e # c => Ack(cl, c, n)[e] = cl[e]
    BY <1>0, <1>1 DEF AllCl
  <1>3. \A n : Ack(cl, c, n)[c] = Replied(cl[c], n)
    BY <1>0, <1>1 DEF AllCl
  <1>4. \A e \in Clients : cl[e] \in Process /\ Proper(cl[e], Holds(conns, e), Listens(conns, e))
    BY <1>0 DEF IInv, Asking, AllCl
  <1>5. Holds(conns, c) = TRUE
    BY DEF Holds
  <1>6. /\ \A g \in BOOLEAN : Proper(Replied(cl[c], m), TRUE, g)
        /\ cl[c].cmd = "CONNECT" => Proper(Replied(cl[c], "NOKEY"), TRUE, Listens(conns, c))
    BY <1>4, <1>5, ProperReplied
  <1>7. ASSUME NEW cs \in AllConns, \A j \in Slots : cs[j].fd = conns[j].fd,
               \A j \in Slots : j # i => cs[j].rep = conns[j].rep
        PROVE  AllProper(cs, Ack(cl, c, m))
    <2> SUFFICES ASSUME NEW e \in Clients
                 PROVE  Proper(Ack(cl, c, m)[e], Holds(cs, e), Listens(cs, e))
      BY DEF AllProper
    <2>1. Holds(cs, e) = Holds(conns, e)
      BY <1>7 DEF Holds
    <2>2. CASE e = c
      <3>1. Proper(Replied(cl[c], m), TRUE, Listens(cs, c))
        BY <1>6, HoldersListen
      <3>2. Holds(cs, c) = TRUE
        BY <1>5, <2>1, <2>2
      <3>3. Proper(Replied(cl[c], m), Holds(cs, c), Listens(cs, c))
        BY <3>1, <3>2 DEF Proper
      <3> QED
        BY <1>3, <2>2, <3>3
    <2>3. CASE e # c
      <3>1. Listens(cs, e) = Listens(conns, e)
        BY <1>7, <2>3 DEF Listens
      <3> QED
        BY <1>2, <1>4, <2>1, <2>3, <3>1
    <2> QED
      BY <2>2, <2>3
  <1>8. AllProper(conns, Ack(cl, c, m))
    BY <1>0, <1>7
  <1>9. AllProper(Wants(i), Ack(cl, c, m))
    <2>1. /\ Wants(i) \in AllConns /\ \A j \in Slots : Wants(i)[j].fd = conns[j].fd
          /\ \A j \in Slots : j # i => Wants(i)[j].rep = conns[j].rep
      BY <1>0 DEF Wants, AllConns
    <2> QED
      BY <1>7, <2>1
  <1>10. AllProper([conns EXCEPT ![i].rep = FALSE], Ack(cl, c, m))
    <2> DEFINE cs == [conns EXCEPT ![i].rep = FALSE]
    <2>1. /\ cs \in AllConns /\ \A j \in Slots : cs[j].fd = conns[j].fd
          /\ \A j \in Slots : j # i => cs[j].rep = conns[j].rep
      BY <1>0 DEF AllConns
    <2> HIDE DEF cs
    <2>2. AllProper(cs, Ack(cl, c, m))
      BY <1>7, <2>1
    <2> QED
      BY <2>2 DEF cs
  <1>11. cl[c].cmd = "CONNECT" => AllProper(conns, Ack(cl, c, "NOKEY"))
    <2> SUFFICES ASSUME cl[c].cmd = "CONNECT", NEW e \in Clients
                 PROVE  Proper(Ack(cl, c, "NOKEY")[e], Holds(conns, e), Listens(conns, e))
      BY DEF AllProper
    <2>1. CASE e = c
      <3>1. Proper(Replied(cl[c], "NOKEY"), Holds(conns, c), Listens(conns, c))
        BY <1>5, <1>6 DEF Proper
      <3> QED
        BY <1>3, <2>1, <3>1
    <2>2. CASE e # c
      BY <1>2, <1>4, <2>2
    <2> QED
      BY <2>1, <2>2
  <1> QED
    BY <1>8, <1>9, <1>10, <1>11

LEMMA CommandProper ==
  ASSUME IInv, NEW i \in Slots, CheckConn(i)
  PROVE  Asking'
  <1>0. conns \in AllConns /\ cl \in AllCl /\ TypeOK
    BY DEF IInv, TypeOK, AllConns, AllCl
  <1>1. CASE UNCHANGED <<conns, cl>>
    <2>1. \A c : (Holds(conns', c) = Holds(conns, c)) /\ (Listens(conns', c) = Listens(conns, c))
      BY <1>1 DEF Holds, Listens
    <2> QED
      BY <1>1, <2>1 DEF IInv, Asking
  <1>2. ASSUME NEW cs, NEW k, conns[i].fd \in Clients,
               Commanded(i, conns[i].fd, cs, k), After(i, cs, k)
        PROVE  Asking'
    <2>1. cs \in AllConns /\ k \in AllCl
      BY <1>0, <1>2, CommandedType
    <2>2. AllProper(cs, k)
      <3>1. CASE cs = conns /\ k = cl
        BY <3>1 DEF IInv, Asking, AllProper
      <3>2. CASE cs = Wants(i) /\ k = Acked(cl, conns[i].fd, Wants(i)) /\ cl[conns[i].fd].req
        <4>1. AllProper(Wants(i), Ack(cl, conns[i].fd, "OK"))
          BY <1>2, <3>2, AckedProper
        <4>2. Ack(cl, conns[i].fd, "OK") \in AllCl
          BY <1>0, <1>2, AckType DEF Kinds, AllCl
        <4> QED
          BY <1>0, <3>2, <4>1, <4>2, ToldProper DEF Acked
      <3> QED
        BY <1>2, <3>1, <3>2, AckedProper DEF Commanded
    <2>3. /\ \A j \in Slots : conns'[j] = cs[j] \/ (j = i /\ conns'[j] = FreeConn)
          /\ \A c \in Clients : cl'[c] = k[c] \/ cl'[c] = HungUp(k[c])
      BY <1>0, <1>2, <2>1, AfterEffect
    <2>4. \A c \in Clients : /\ Holds(conns', c) => Holds(cs, c)
                             /\ Listens(conns', c) => Listens(cs, c)
      BY <2>3, LoopAssumption DEF Holds, Listens, FreeConn
    <2>5. ASSUME NEW c \in Clients
          PROVE  Proper(cl'[c], Holds(conns', c), Listens(conns', c))
      <3>1. k[c] \in Process /\ Proper(k[c], Holds(cs, c), Listens(cs, c))
        BY <2>1, <2>2 DEF AllCl, AllProper
      <3>2. /\ Proper(k[c], Holds(conns', c), Listens(conns', c))
            /\ Proper(HungUp(k[c]), Holds(conns', c), Listens(conns', c))
        BY <2>4, <3>1, ProperLess
      <3> QED
        BY <2>3, <3>2
    <2> QED
      BY <2>5 DEF Asking
  <1> QED
    BY <1>1, <1>2, CommandEffect

LEMMA SameHolders ==
  ASSUME UNCHANGED conns
  PROVE  \A c : (Holds(conns', c) = Holds(conns, c)) /\ (Listens(conns', c) = Listens(conns, c))
  BY DEF Holds, Listens

LEMMA AcceptProper ==
  ASSUME IInv, Accept
  PROVE  Asking'
  <1> DEFINE c == Head(backlog)
  <1>0. conns \in AllConns /\ cl \in AllCl
    BY DEF IInv, TypeOK, AllConns, AllCl
  <1>1. c \in Clients /\ cl[c] \in Process /\ cl[c].st # "OFF"
    <2>1. backlog # <<>> /\ backlog \in Seq(Clients) /\ c \in Clients
      BY AcceptEffect
    <2>2. 1 \in DOMAIN backlog /\ c = backlog[1]
      BY <2>1
    <2> QED
      BY <1>0, <2>1, <2>2 DEF IInv, InBacklog, AllCl
  <1>2. \A e \in Clients : cl[e] \in Process /\ Proper(cl[e], Holds(conns, e), Listens(conns, e))
    BY <1>0 DEF IInv, Asking, AllCl
  <1>3. ASSUME NEW i \in Grabbed, conns' = [conns EXCEPT ![i].fd = c],
               cl' = [cl EXCEPT ![c].sock = "OPEN"]
        PROVE  Asking'
    <2>1. i \in Slots /\ conns[i] = FreeConn
      BY <1>3, AcceptEffect
    <2>2. \A j \in Slots : j # i => conns'[j] = conns[j]
      BY <1>0, <1>3, <2>1 DEF AllConns
    <2>3. conns'[i].fd = c /\ conns'[i].rep = FALSE
      BY <1>0, <1>3, <2>1 DEF AllConns, FreeConn
    <2>4. \A e \in Clients : /\ e # c => (Holds(conns', e) => Holds(conns, e))
                             /\ Listens(conns', e) => Listens(conns, e)
      BY <2>2, <2>3 DEF Holds, Listens
    <2>5. ASSUME NEW e \in Clients
          PROVE  Proper(cl'[e], Holds(conns', e), Listens(conns', e))
      <3>1. CASE e = c
        <4>1. /\ cl'[c].st = cl[c].st /\ cl'[c].req = cl[c].req /\ cl'[c].cmd = cl[c].cmd
              /\ cl'[c].inbox = cl[c].inbox
          BY <1>0, <1>1, <1>3 DEF AllCl, Process
        <4> HIDE DEF c
        <4> QED
          BY <1>1, <1>2, <2>4, <3>1, <4>1 DEF Proper
      <3>2. CASE e # c
        <4>1. cl'[e] = cl[e]
          BY <1>0, <1>3, <3>2 DEF AllCl
        <4> QED
          BY <1>2, <2>4, <3>2, <4>1, ProperLess
      <3> QED
        BY <3>1, <3>2
    <2> QED
      BY <2>5 DEF Asking
  <1>4. CASE /\ UNCHANGED conns
             /\ cl' = [cl EXCEPT ![c].sock = "CLOSED", ![c].req = FALSE]
    <2>1. cl' = [cl EXCEPT ![c] = HungUp(cl[c])]
      BY <1>0, <1>1, <1>4 DEF AllCl, HungUp
    <2>2. \A e \in Clients : cl'[e] = cl[e] \/ cl'[e] = HungUp(cl[e])
      BY <1>0, <1>1, <2>1 DEF AllCl
    <2>3. ASSUME NEW e \in Clients
          PROVE  Proper(cl'[e], Holds(conns', e), Listens(conns', e))
      <3>1. Proper(HungUp(cl[e]), Holds(conns, e), Listens(conns, e))
        BY <1>2, ProperLess
      <3> QED
        BY <1>2, <1>4, <2>2, <3>1, SameHolders
    <2> QED
      BY <2>3 DEF Asking
  <1> QED
    BY <1>3, <1>4 DEF Accept

LEMMA LeaveProper ==
  ASSUME IInv, EndRound \/ LeaveLoop
  PROVE  Asking'
  <1>0. /\ cl \in AllCl
        /\ \A e \in Clients : cl[e] \in Process /\ Proper(cl[e], Holds(conns, e), Listens(conns, e))
    BY DEF IInv, Asking, AllCl, TypeOK
  <1>1. UNCHANGED conns /\ (cl' = cl \/ cl' = Hangs(cl))
    BY LeaveEffect
  <1>2. \A e \in Clients : Hangs(cl)[e] = cl[e] \/ Hangs(cl)[e] = HungUp(cl[e])
    BY DEF Hangs, HungUp
  <1>3. ASSUME NEW e \in Clients
        PROVE  Proper(cl'[e], Holds(conns', e), Listens(conns', e))
    <2>1. Proper(HungUp(cl[e]), Holds(conns, e), Listens(conns, e))
      BY <1>0, ProperLess
    <2> QED
      BY <1>0, <1>1, <1>2, <2>1, SameHolders
  <1> QED
    BY <1>3 DEF Asking

(* recv_reply. *)
LEMMA TailNoKey ==
  ASSUME NEW x \in Process, NEW h, NEW l, Proper(x, h, l), x.inbox # <<>>
  PROVE  /\ Tail(x.inbox) \in Seq(Kinds)
         /\ \A k \in DOMAIN Tail(x.inbox) : Tail(x.inbox)[k] # "NOKEY"
         /\ Head(x.inbox) = "NOKEY" => x.st = "ASK" /\ Tail(x.inbox) = <<>> /\ ~l
  <1> DEFINE q == x.inbox
             t == Tail(q)
  <1>1. q \in Seq(Kinds) /\ q # <<>>
    BY ProperType
  <1>2. \A k \in DOMAIN q : q[k] = "NOKEY" => x.st = "ASK" /\ Len(q) = 1 /\ ~l
    BY DEF Proper
  <1> HIDE DEF q
  <1>3. /\ t \in Seq(Kinds) /\ Len(t) = Len(q) - 1 /\ DOMAIN t = 1..Len(t)
        /\ \A k \in 1..Len(t) : t[k] = q[k + 1]
        /\ Len(q) \in Nat /\ DOMAIN q = 1..Len(q) /\ Len(q) > 0
    BY <1>1, HeadTailProperties, EmptySeq
  <1>4. \A k \in DOMAIN t : t[k] # "NOKEY"
    <2> SUFFICES ASSUME NEW k \in DOMAIN t, t[k] = "NOKEY"
                 PROVE  FALSE
      OBVIOUS
    <2>1. k + 1 \in DOMAIN q /\ q[k + 1] = "NOKEY"
      BY <1>3
    <2>2. Len(q) = 1
      BY <1>2, <2>1
    <2>3. k \in 1..Len(t) /\ Len(t) = 0
      BY <1>3, <2>2
    <2> QED
      BY <2>3
  <1>5. Head(q) = "NOKEY" => x.st = "ASK" /\ t = <<>> /\ ~l
    <2> SUFFICES ASSUME Head(q) = "NOKEY"
                 PROVE  x.st = "ASK" /\ t = <<>> /\ ~l
      OBVIOUS
    <2>1. 1 \in DOMAIN q /\ q[1] = "NOKEY"
      BY <1>1, <1>3
    <2>2. Len(t) = 0
      BY <1>2, <1>3, <2>1
    <2> QED
      BY <1>2, <1>3, <2>1, <2>2, EmptySeq
  <1> QED
    BY <1>3, <1>4, <1>5 DEF q

LEMMA GivenProper ==
  ASSUME NEW x \in Process, NEW h, NEW l, Proper(x, h, l), x.inbox # <<>>,
         x.st \notin {"OFF", "END"},
         NEW y \in Given([x EXCEPT !.inbox = Tail(@)], Head(x.inbox))
  PROVE  Proper(y, h, l) /\ y.st # "OFF"
  <1> DEFINE z == [x EXCEPT !.inbox = Tail(@)]
  <1>1. /\ z.st = x.st /\ z.cmd = x.cmd /\ z.req = x.req /\ z.sock = x.sock
        /\ z.inbox = Tail(x.inbox) /\ z \in Process
    BY TailNoKey DEF Process, Kinds
  <1>2. /\ \A k \in DOMAIN z.inbox : z.inbox[k] # "NOKEY"
        /\ Head(x.inbox) = "NOKEY" => x.st = "ASK" /\ z.inbox = <<>> /\ ~l
    BY <1>1, TailNoKey
  <1>3. Head(x.inbox) \in Kinds
    BY ProperType
  <1>4. Given(z, Head(x.inbox)) = Given([x EXCEPT !.inbox = Tail(@)], Head(x.inbox))
    OBVIOUS
  <1> HIDE DEF z
  <1>5. Proper(Ends(z), h, l) /\ Ends(z).st # "OFF"
    <2>1. Ends(z).st = "END" /\ Ends(z).inbox = <<>>
      BY <1>1 DEF Ends, Process
    <2> QED
      BY <2>1 DEF Proper
  <1>6. CASE Head(x.inbox) = "NOTE"
    <2>1. x.st # "ASK"
      BY <1>6 DEF Proper
    <2>2. Proper(z, h, l) /\ z.st # "OFF"
      BY <1>1, <1>2, <2>1 DEF Proper
    <2>3. Proper(Asks(z, "STATUS", "ASK_STATUS"), h, l)
          /\ Asks(z, "STATUS", "ASK_STATUS").st # "OFF"
      <3>1. /\ Asks(z, "STATUS", "ASK_STATUS").st = "ASK_STATUS"
            /\ Asks(z, "STATUS", "ASK_STATUS").cmd = "STATUS"
            /\ Asks(z, "STATUS", "ASK_STATUS").inbox = z.inbox
        BY <1>1 DEF Asks, Process
      <3> QED
        BY <1>2, <3>1 DEF Proper
    <2>4. y \in {z, Asks(z, "STATUS", "ASK_STATUS"), Ends(z)}
      BY <1>4, <1>6 DEF Given
    <2> QED
      BY <1>5, <2>2, <2>3, <2>4
  <1>7. CASE Head(x.inbox) = "NOKEY"
    <2>1. Proper(Asks(z, "CONNECT_PSK", "ASK"), h, l)
          /\ Asks(z, "CONNECT_PSK", "ASK").st # "OFF"
      <3>1. /\ Asks(z, "CONNECT_PSK", "ASK").st = "ASK"
            /\ Asks(z, "CONNECT_PSK", "ASK").inbox = <<>>
        BY <1>1, <1>2, <1>7 DEF Asks, Process
      <3> QED
        BY <1>2, <1>7, <3>1 DEF Proper
    <2>2. y \in {Asks(z, "CONNECT_PSK", "ASK"), Ends(z)}
      BY <1>4, <1>7 DEF Given
    <2> QED
      BY <1>5, <2>1, <2>2
  <1>8. CASE Head(x.inbox) = "ERR"
    BY <1>4, <1>5, <1>8 DEF Given
  <1>9. CASE Head(x.inbox) = "OK"
    <2>1. z.cmd # "STATUS" => ~z.req
      BY <1>1 DEF Proper
    <2>2. z.cmd # "STATUS" => /\ Proper([z EXCEPT !.st = "LISTEN"], h, l)
                              /\ [z EXCEPT !.st = "LISTEN"].st # "OFF"
      <3>1. /\ [z EXCEPT !.st = "LISTEN"].st = "LISTEN"
            /\ [z EXCEPT !.st = "LISTEN"].req = z.req
            /\ [z EXCEPT !.st = "LISTEN"].inbox = z.inbox
        BY <1>1 DEF Process
      <3> QED
        BY <1>2, <2>1, <3>1 DEF Proper
    <2>3. y = IF z.cmd = "STATUS" THEN Ends(z) ELSE [z EXCEPT !.st = "LISTEN"]
      BY <1>4, <1>9 DEF Given
    <2> QED
      BY <1>5, <2>2, <2>3
  <1> QED
    BY <1>3, <1>6, <1>7, <1>8, <1>9 DEF Kinds

LEMMA UserProper ==
  ASSUME IInv, UserStep
  PROVE  Asking' /\ InBacklog'
  <1>0. /\ cl \in AllCl /\ backlog \in Seq(Clients)
        /\ \A e \in Clients : cl[e] \in Process /\ Proper(cl[e], Holds(conns, e), Listens(conns, e))
        /\ \A k \in DOMAIN backlog : backlog[k] \in Clients /\ cl[backlog[k]].st # "OFF"
    BY DEF IInv, Asking, AllCl, TypeOK, InBacklog
  <1>1. PICK c \in Clients : /\ Connects(c) \/ Receives(c) \/ LosesDaemon(c) \/ Stops(c)
                             /\ \A e \in Clients : e # c => cl'[e] = cl[e]
    BY UserEffect
  <1>2. UNCHANGED conns
    BY UserEffect
  <1>3. /\ Proper(cl'[c], Holds(conns, c), Listens(conns, c)) /\ cl'[c].st # "OFF"
        /\ backlog' = backlog \/ backlog' = Append(backlog, c)
    <2>1. CASE Connects(c)
      <3>1. PICK cmd \in Commands : cl'[c] =
                [st |-> "ASK", cmd |-> cmd, req |-> pc # "gone", inbox |-> <<>>,
                 sock |-> IF pc = "gone" THEN "CLOSED" ELSE "BACKLOG"]
        BY <1>0, <2>1 DEF Connects, AllCl
      <3>2. ~Holds(conns, c) /\ ~Listens(conns, c)
        BY <1>0, <2>1, HoldersListen DEF Connects, Proper
      <3>3. cl'[c].st = "ASK" /\ cl'[c].inbox = <<>>
        BY <3>1
      <3> QED
        BY <2>1, <3>2, <3>3 DEF Connects, Proper
    <2>2. CASE Receives(c)
      <3>1. PICK x \in Given([cl[c] EXCEPT !.inbox = Tail(@)], Head(cl[c].inbox)) :
              cl' = [cl EXCEPT ![c] = x]
        BY <2>2 DEF Receives
      <3>2. Proper(x, Holds(conns, c), Listens(conns, c)) /\ x.st # "OFF"
        BY <1>0, <2>2, <3>1, GivenProper DEF Receives
      <3>3. cl'[c] = x
        BY <1>0, <3>1 DEF AllCl
      <3> QED
        BY <2>2, <3>2, <3>3 DEF Receives
    <2>3. CASE LosesDaemon(c) \/ Stops(c)
      <3>1. cl'[c] = Ends(cl[c]) /\ backlog' = backlog
        BY <1>0, <2>3 DEF LosesDaemon, Stops, AllCl
      <3>2. cl'[c].st = "END" /\ cl'[c].inbox = <<>>
        BY <1>0, <3>1 DEF Ends, Process
      <3> QED
        BY <3>1, <3>2 DEF Proper
    <2> QED
      BY <1>1, <2>1, <2>2, <2>3
  <1>4. Asking'
    <2>1. ASSUME NEW e \in Clients
          PROVE  Proper(cl'[e], Holds(conns', e), Listens(conns', e))
      <3>1. CASE e = c
        BY <1>2, <1>3, <3>1, SameHolders
      <3>2. CASE e # c
        BY <1>0, <1>1, <1>2, <3>2, SameHolders
      <3> QED
        BY <3>1, <3>2
    <2> QED
      BY <2>1 DEF Asking
  <1>5. InBacklog'
    <2>1. \A e \in Clients : cl[e].st # "OFF" => cl'[e].st # "OFF"
      BY <1>1, <1>3
    <2>2. CASE backlog' = backlog
      BY <1>0, <2>1, <2>2 DEF InBacklog
    <2>3. CASE backlog' = Append(backlog, c)
      <3>1. \A k \in DOMAIN backlog' : backlog'[k] = c
               \/ (k \in DOMAIN backlog /\ backlog'[k] = backlog[k])
        BY <1>0, <2>3
      <3> QED
        BY <1>0, <1>3, <2>1, <3>1 DEF InBacklog
    <2> QED
      BY <1>3, <2>2, <2>3
  <1> QED
    BY <1>4, <1>5

(* No process starts over. *)
LEMMA NeverOff ==
  ASSUME IInv, [Next]_vars, ~UserStep, NEW c \in Clients, cl[c].st # "OFF"
  PROVE  cl'[c].st # "OFF"
  <1>0. cl \in AllCl /\ cl[c] \in Process /\ conns \in AllConns
    BY DEF IInv, AllCl, TypeOK, AllConns
  <1>1. \A m : Sent(cl[c], m).st = cl[c].st
    BY <1>0 DEF Sent, Process
  <1>2. HungUp(cl[c]).st = cl[c].st
    BY <1>0 DEF HungUp, Process
  <1>3. CASE Clientless
    BY <1>3 DEF Clientless
  <1>4. CASE EndRound \/ LeaveLoop
    <2>1. Hangs(cl)[c] = cl[c] \/ Hangs(cl)[c] = HungUp(cl[c])
      BY DEF Hangs, HungUp
    <2> QED
      BY <1>2, <1>4, <2>1, LeaveEffect
  <1>5. CASE CheckNetlink \/ StorePid
    <2>1. cl'[c] = cl[c] \/ cl'[c] = Sent(cl[c], "NOTE")
      BY <1>5 DEF CheckNetlink, StorePid, MayReport, Told
    <2> QED
      BY <1>1, <2>1
  <1>6. CASE Accept
    <2>1. Head(backlog) \in Clients
      BY <1>6, AcceptEffect
    <2>2. \/ cl' = [cl EXCEPT ![Head(backlog)].sock = "OPEN"]
          \/ cl' = [cl EXCEPT ![Head(backlog)].sock = "CLOSED", ![Head(backlog)].req = FALSE]
      BY <1>6 DEF Accept
    <2> QED
      BY <1>0, <2>1, <2>2 DEF AllCl, Process
  <1>7. ASSUME NEW i \in Slots, CheckConn(i)
        PROVE  cl'[c].st # "OFF"
    <2>1. CASE UNCHANGED <<conns, cl>>
      BY <2>1
    <2>2. ASSUME NEW cs, NEW k, conns[i].fd \in Clients,
                 Commanded(i, conns[i].fd, cs, k), After(i, cs, k)
          PROVE  cl'[c].st # "OFF"
      <3>1. cs \in AllConns /\ k \in AllCl
        BY <2>2, CommandedType DEF IInv
      <3>2. cl'[c] = k[c] \/ cl'[c] = HungUp(k[c])
        BY <1>0, <1>7, <2>2, <3>1, AfterEffect
      <3>3. k[c].st = cl[c].st
        <4>1. \A m : Ack(cl, conns[i].fd, m)[c].st = cl[c].st
          BY <1>0, <2>2 DEF Ack, Sent, AllCl, Process
        <4>2. Acked(cl, conns[i].fd, Wants(i))[c].st = cl[c].st
          <5>1. Ack(cl, conns[i].fd, "OK")[c] \in Process
            BY <1>0, <2>2, AckType DEF Kinds, AllCl
          <5>2. Sent(Ack(cl, conns[i].fd, "OK")[c], "NOTE").st = Ack(cl, conns[i].fd, "OK")[c].st
            BY <5>1 DEF Sent, Process
          <5> QED
            BY <4>1, <5>2 DEF Acked, Told
        <4> QED
          BY <2>2, <4>1, <4>2 DEF Commanded
      <3>4. HungUp(k[c]).st = k[c].st
        BY <3>1 DEF HungUp, AllCl, Process
      <3> QED
        BY <3>2, <3>3, <3>4
    <2> QED
      BY <1>7, <2>1, <2>2, CommandEffect
  <1> QED
    BY <1>3, <1>4, <1>5, <1>6, <1>7, ClientlessSteps

LEMMA AskingKept ==
  ASSUME IInv, [Next]_vars
  PROVE  Asking' /\ InBacklog'
  <1>0. /\ cl \in AllCl /\ backlog \in Seq(Clients) /\ TypeOK
        /\ \A k \in DOMAIN backlog : backlog[k] \in Clients /\ cl[backlog[k]].st # "OFF"
    BY DEF IInv, AllCl, TypeOK, InBacklog
  <1>1. CASE UserStep
    BY <1>1, UserProper
  <1>2. CASE ~UserStep
    <2>1. Asking'
      <3>1. CASE Clientless
        BY <3>1, SameHolders DEF Clientless, IInv, Asking
      <3>2. CASE CheckNetlink \/ StorePid
        <4>1. UNCHANGED conns /\ (cl' = cl \/ cl' = Told(cl, conns))
          BY <3>2 DEF CheckNetlink, StorePid, MayReport
        <4>2. AllProper(conns, cl)
          BY DEF IInv, Asking, AllProper
        <4>3. AllProper(conns, Told(cl, conns))
          BY <1>0, <4>2, ToldProper
        <4> QED
          BY <4>1, <4>2, <4>3, SameHolders DEF AllProper, Asking
      <3> QED
        BY <1>2, <3>1, <3>2, AcceptProper, LeaveProper, CommandProper, ClientlessSteps
    <2>2. InBacklog'
      <3>1. \A k \in DOMAIN backlog : cl'[backlog[k]].st # "OFF"
        BY <1>0, <1>2, NeverOff
      <3>2. CASE backlog' = backlog
        BY <3>1, <3>2 DEF InBacklog
      <3>3. CASE Accept
        <4>1. backlog # <<>> /\ backlog' = Tail(backlog)
          BY <3>3, AcceptEffect
        <4>2. \A k \in DOMAIN backlog' : k + 1 \in DOMAIN backlog /\ backlog'[k] = backlog[k + 1]
          BY <1>0, <4>1
        <4> QED
          BY <3>1, <4>2 DEF InBacklog
      <3>4. CASE ~Accept
        <4>1. CASE Clientless
          BY <3>2, <4>1 DEF Clientless
        <4>2. CASE ~Clientless
          BY <1>2, <3>2, <3>4, <4>2, ClientlessSteps DEF EndRound, LeaveLoop, CheckNetlink,
             StorePid, CheckConn
        <4> QED
          BY <4>1, <4>2
      <3> QED
        BY <3>3, <3>4
    <2> QED
      BY <2>1, <2>2
  <1> QED
    BY <1>1, <1>2

-----------------------------------------------------------------------------
LEMMA Invariant == Spec => []IInv
  <1>1. IInv /\ [Next]_vars => IInv'
    <2> SUFFICES ASSUME IInv, [Next]_vars
                 PROVE  IInv'
      OBVIOUS
    <2>1. TypeOK' /\ Revents' /\ Unused'
      BY TypeKept, ReventsKept, UnusedKept
    <2>2. PollArray' /\ Socket' /\ Termed'
      BY PollArrayKept, SocketKept, FlagsType
    <2>3. Asking' /\ InBacklog'
      BY AskingKept
    <2>4. Children' /\ DhcpKnown' /\ KillsOwn'
      BY ChildrenKept
    <2> QED
      BY <2>1, <2>2, <2>3, <2>4 DEF IInv
  <1> QED
    BY <1>1, InitIInv, PTL DEF Spec

-----------------------------------------------------------------------------
(* Whatever order signals, clients, messages and frames come in, a round of  *)
(* ppoll and check_polled_fds keeps descriptors, counts and queues in range. *)
THEOREM TypeCorrect == Spec => []TypeOK
  <1>1. IInv => TypeOK
    BY DEF IInv
  <1> QED
    BY <1>1, Invariant, PTL

(* reopen_rawsock needs no pollset = 0 of its own: whenever frames of the    *)
(* handshake are due, ppoll waits for an open raw socket, except in the one  *)
(* order of events that RawPolled names.                                   *)
THEOREM HandshakeHeard == Spec => []RawPolled
  <1>1. IInv => RawPolled
    <2> SUFFICES ASSUME IInv, pc = "poll", attempt \in {"LINK", "UP"}, ~tainted,
                        ~Due("DISCONNECT")
                 PROVE  rawsock # "CLOSED" /\ pfds.raw
      BY DEF RawPolled
    <2>1. rawsock = "OPEN"
      BY DEF IInv, Socket
    <2>2. pollset /\ "control" \notin rev.fds
      BY DEF IInv, PollArray, Revents, NoRev
    <2> QED
      BY <2>1, <2>2 DEF IInv, PollArray
  <1> QED
    BY <1>1, Invariant, PTL

(* check_conn never pairs an entry of pfds[] with a client that took the     *)
(* slot after the array was filled, and only the last slot of a full table   *)
(* has no entry, for any number of slots.                                   *)
THEOREM ClientsPolled == Spec => []ConnsPolled
  <1>1. IInv => ConnsPolled
    BY DEF IInv, PollArray, Revents, NoRev, ConnsPolled
  <1> QED
    BY <1>1, Invariant, PTL

(* send_reply and send_report: a client that asks reads the reply first.    *)
THEOREM ReplyComesFirst == Spec => []AckFirst
  <1>1. IInv => AckFirst
    BY DEF IInv, Asking, Proper, AckFirst
  <1> QED
    BY <1>1, Invariant, PTL

(* The test of sigterm at the end of a round sees every SIGTERM that came    *)
(* before it.                                                              *)
THEOREM TermIsNoticed == Spec => []TermNoticed
  <1>1. IInv => TermNoticed
    BY DEF IInv, Termed, TermNoticed
  <1> QED
    BY <1>1, Invariant, PTL

(* trigger_dhcp, kill_dhcp and reap_dhcp never leave a child running that     *)
(* dhcpid does not name and that was not told to end.                       *)
THEOREM OneDhcpChild == Spec => []DhcpKnown
  <1>1. IInv => DhcpKnown
    BY DEF IInv
  <1> QED
    BY <1>1, Invariant, PTL

(* kill_dhcp signals nobody else's process, but for a child that was reaped  *)
(* before its pid was stored.                                              *)
THEOREM OwnChildKilled == Spec => []KillsOwn
  <1>1. IInv => KillsOwn
    BY DEF IInv
  <1> QED
    BY <1>1, Invariant, PTL
=============================================================================
