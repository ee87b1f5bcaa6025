----------------------------- MODULE AuthProofs -----------------------------
(***************************************************************************)
(* The connection machine never waits for nothing, and CONNECTED is never  *)
(* an illusion that nothing is going to end: AuthAnswered and              *)
(* ConnectedIsReal, for any number of stations, networks, keys, events and *)
(* of other supplicants, and for associations that fail.                   *)
(*                                                                         *)
(* What a handler does to authstate is Kept of ScanProofs, but for the     *)
(* messages that move the machine.  The difficulty is in the queue: a      *)
(* CONNECT that is not expected makes the daemon CONNECTED all the same,   *)
(* and it may come from another supplicant, from a link long lost, or say  *)
(* that the AP has refused.                                                *)
(***************************************************************************)
EXTENDS ScanProofs

-----------------------------------------------------------------------------
(* The netlink queue. *)

At(q, i, t) == i \in DOMAIN q /\ q[i].type = t

(* Errors the connection machine is charged with. *)
Barred(m) == m.type = "ERROR" /\ (m.seq = "OTHER" \/ m.err = "ENETDOWN")

Trouble(q) == \E i \in DOMAIN q : Barred(q[i])

Moving(q) == \E i \in DOMAIN q : MovesAuth(q[i])

(* The card reports an association and a connection together, and only an  *)
(* association that timed out without one.                                 *)
Paired(q) ==
  \A i \in DOMAIN q :
    /\ q[i].type = "ASSOCIATE" /\ q[i].status = "OK" => At(q, i + 1, "CONNECT")
    /\ q[i].type = "CONNECT" /\ i > 1 => At(q, i - 1, "ASSOCIATE")

(* The link a message is about was lost after it. *)
Dropped(q, i) == \E j \in DOMAIN q : j > i /\ q[j].type = "DISCONNECT"

(* Another supplicant's events are read AUTHENTICATE first. *)
Heralded(q, i) ==
  \/ At(q, i, "ASSOCIATE") /\ At(q, i - 1, "AUTHENTICATE")
  \/ /\ At(q, i, "CONNECT")
     /\ At(q, i - 1, "ASSOCIATE") /\ At(q, i - 2, "AUTHENTICATE")

AtHead(q, i) ==
  \/ i = 1
  \/ i = 2 /\ At(q, 1, "ASSOCIATE") /\ At(q, 2, "CONNECT")

(* What a queued ASSOCIATE or CONNECT claims is true, or is taken back     *)
(* later, or is about another supplicant: then the AUTHENTICATE is still to be    *)
(* read, or it was, and the daemon is disabled or has asked for what the   *)
(* card will refuse (c).                                                   *)
Claim(q, i, l, c) ==
  \/ l \in Associated
  \/ Dropped(q, i)
  \/ l = "FOREIGN" /\ Heralded(q, i)
  \/ l = "FOREIGN" /\ AtHead(q, i) /\ c

Claims(q, l, c) ==
  \A i \in DOMAIN q :
    q[i].type \in {"ASSOCIATE", "CONNECT"} /\ q[i].status = "OK"
      => Claim(q, i, l, c)

(* What follows a message still moves the machine. *)
Followed(q, i) == \E j \in DOMAIN q : j > i /\ MovesAuth(q[j])

(* A failed association, as the card remembers it. *)
Verdict(m) == IF m.type = "ASSOCIATE" THEN "TIMEDOUT" ELSE "REFUSED"

(* A queued message about a failed association is about the last one the   *)
(* card has made (f), or something follows it, or an attempt has begun     *)
(* since and has not been answered (l): then the daemon does not expect    *)
(* the ASSOCIATE (v), and once it has read it, nor the CONNECT (w).        *)
Excused(q, i, l, f, v, w) ==
  \/ Followed(q, i)
  \/ f = Verdict(q[i])
  \/ l = "AUTHING" /\ (i > 1 \/ q[i].type = "ASSOCIATE") /\ v
  \/ l = "AUTHING" /\ i = 1 /\ q[i].type = "CONNECT" /\ w

Excuses(q, l, f, v, w) ==
  \A i \in DOMAIN q :
    q[i].type \in {"ASSOCIATE", "CONNECT"} /\ q[i].status = "FAILED"
      => Excused(q, i, l, f, v, w)

(* The ASSOCIATE of a CONNECT that is read next has been read. *)
Unpaired == {"CONNECTING", "DISCONNECTING", "EXTERNAL"}

HeadConnect(q, a) == At(q, 1, "CONNECT") => a \in Unpaired

(* The card may be asked to associate without its being expected ...       *)
Unexpected(x) == x.authstate # "ASSOCIATING" \/ SentIn(x, "ASSOCIATE")

(* ... and a connection not to be believed.                                *)
Disbelieved(x) == x.authstate = "EXTERNAL" \/ SentIn(x, "DISCONNECT")

ContestedIn(x, q) ==
  \/ x.authstate = "EXTERNAL"
  \/ SentIn(x, "AUTHENTICATE") \/ SentIn(x, "ASSOCIATE")
  \/ SentIn(x, "DISCONNECT")
  \/ Trouble(q)

Contested ==
  \/ d.authstate = "EXTERNAL"
  \/ Sent("AUTHENTICATE") \/ Sent("ASSOCIATE") \/ Sent("DISCONNECT")
  \/ Trouble(nlq)

Surprised == d.authstate # "ASSOCIATING" \/ Sent("ASSOCIATE")

Disabled == d.authstate = "EXTERNAL" \/ Sent("DISCONNECT")

Doubts ==
  /\ Excuses(nlq, card.link, card.failed, Surprised, Disabled)
  /\ HeadConnect(nlq, d.authstate)
  /\ Sent("AUTHENTICATE") => d.authstate = "AUTHENTICATING"

(* A change of scanseq alters neither type nor error, and what was charged *)
(* to the connection machine still is.                                     *)
LEMMA Renumbered ==
  ASSUME NEW q \in Seq(Messages), NEW e
  PROVE  LET r == Resequenced(q, e)
         IN /\ DOMAIN r = DOMAIN q
            /\ \A i \in DOMAIN q : /\ r[i].type = q[i].type
                                   /\ r[i].err = q[i].err
                                   /\ r[i].status = q[i].status
                                   /\ MovesAuth(q[i]) => MovesAuth(r[i])
                                   /\ Barred(q[i]) => Barred(r[i])
  <1> DEFINE r == Resequenced(q, e)
  <1>1. DOMAIN r = DOMAIN q
    BY DEF Resequenced
  <1>2. ASSUME NEW i \in DOMAIN q
        PROVE  /\ r[i].type = q[i].type /\ r[i].err = q[i].err
               /\ r[i].status = q[i].status
               /\ r[i].seq = q[i].seq \/ r[i].seq = "OTHER"
    <2>1. q[i] \in Messages
      OBVIOUS
    <2>2. r[i] = q[i] \/ r[i] = [q[i] EXCEPT !.seq = "OTHER"]
      BY DEF Resequenced
    <2> QED
      BY <2>1, <2>2 DEF Messages
  <1> HIDE DEF r
  <1>3. ASSUME NEW i \in DOMAIN q
        PROVE  /\ MovesAuth(q[i]) => MovesAuth(r[i])
               /\ Barred(q[i]) => Barred(r[i])
    BY <1>2 DEF MovesAuth, Barred
  <1> QED
    BY <1>1, <1>2, <1>3 DEF r

(* So the queue keeps all that was said of it. *)
LEMMA RenumberedClaims ==
  ASSUME NEW q \in Seq(Messages), NEW e, NEW l, NEW c, NEW f, NEW v, NEW w, NEW a
  PROVE  LET r == Resequenced(q, e)
         IN /\ Paired(q) => Paired(r)
            /\ Claims(q, l, c) => Claims(r, l, c)
            /\ Excuses(q, l, f, v, w) => Excuses(r, l, f, v, w)
            /\ HeadConnect(q, a) => HeadConnect(r, a)
            /\ Moving(q) => Moving(r)
            /\ Trouble(q) => Trouble(r)
  <1> DEFINE r == Resequenced(q, e)
  <1>1. /\ DOMAIN r = DOMAIN q
        /\ \A i \in DOMAIN q : /\ r[i].type = q[i].type
                               /\ r[i].status = q[i].status
                               /\ MovesAuth(q[i]) => MovesAuth(r[i])
                               /\ Barred(q[i]) => Barred(r[i])
    BY Renumbered
  <1> HIDE DEF r
  <1>2. \A i, t : At(r, i, t) <=> At(q, i, t)
    BY <1>1 DEF At
  <1>3. Paired(q) => Paired(r)
    BY <1>1, <1>2 DEF Paired
  <1>4. \A i : Dropped(q, i) => Dropped(r, i)
    BY <1>1 DEF Dropped
  <1>5. \A i : Heralded(q, i) => Heralded(r, i)
    BY <1>2 DEF Heralded
  <1>6. \A i : AtHead(q, i) => AtHead(r, i)
    BY <1>2 DEF AtHead
  <1>7. Claims(q, l, c) => Claims(r, l, c)
    BY <1>1, <1>4, <1>5, <1>6 DEF Claims, Claim
  <1>8. (Moving(q) => Moving(r)) /\ (Trouble(q) => Trouble(r))
    BY <1>1 DEF Moving, Trouble
  <1>9. \A i : Followed(q, i) => Followed(r, i)
    BY <1>1 DEF Followed
  <1>10. \A i \in DOMAIN q : Verdict(r[i]) = Verdict(q[i])
    BY <1>1 DEF Verdict
  <1>11. Excuses(q, l, f, v, w) => Excuses(r, l, f, v, w)
    BY <1>1, <1>9, <1>10 DEF Excuses, Excused
  <1>12. HeadConnect(q, a) => HeadConnect(r, a)
    BY <1>2 DEF HeadConnect
  <1> QED
    BY <1>3, <1>7, <1>8, <1>11, <1>12 DEF r

(* A claim is about the link alone. *)
LEMMA ClaimsWeaken ==
  ASSUME NEW q, NEW l, NEW c, NEW k, NEW b, Claims(q, l, c),
         l \in Associated => k \in Associated,
         l = "FOREIGN" => k = "FOREIGN" /\ (c => b)
  PROVE  Claims(q, k, b)
  BY DEF Claims, Claim

(* Where the parts of a queue are in the whole. *)
LEMMA Appended ==
  ASSUME NEW q \in Seq(Messages), NEW p \in Seq(Messages)
  PROVE  /\ Len(q) \in Nat /\ DOMAIN q = 1 .. Len(q)
         /\ Len(p) \in Nat /\ DOMAIN p = 1 .. Len(p)
         /\ DOMAIN (q \o p) = 1 .. Len(q) + Len(p)
         /\ \A i \in DOMAIN q : (q \o p)[i] = q[i]
         /\ \A j \in DOMAIN p : (q \o p)[Len(q) + j] = p[j]
  OBVIOUS

(* Messages that are appended take nothing back, unless the link is lost;  *)
(* then there is a DISCONNECT among them.                                  *)
LEMMA AppendedClaims ==
  ASSUME NEW q \in Seq(Messages), NEW p \in Seq(Messages),
         NEW l, NEW c, NEW k, NEW b,
         Paired(q), Claims(q, l, c),
         \A j \in DOMAIN p : p[j].type \notin {"ASSOCIATE", "CONNECT"},
         \/ \E j \in DOMAIN p : p[j].type = "DISCONNECT"
         \/ /\ l \in Associated => k \in Associated
            /\ l = "FOREIGN" => k = "FOREIGN" /\ (c => b)
  PROVE  Paired(q \o p) /\ Claims(q \o p, k, b)
  <1> DEFINE r == q \o p
  <1>1. /\ DOMAIN q = 1 .. Len(q) /\ DOMAIN p = 1 .. Len(p)
        /\ Len(q) \in Nat /\ Len(p) \in Nat
        /\ DOMAIN r = 1 .. Len(q) + Len(p)
    BY Appended
  <1>2. \A i \in DOMAIN q : i \in DOMAIN r /\ r[i] = q[i]
    BY <1>1, Appended
  <1>3. \A j \in DOMAIN p : Len(q) + j \in DOMAIN r /\ r[Len(q) + j] = p[j]
    BY <1>1, Appended
  <1>4. \A i \in DOMAIN r : i \in DOMAIN q \/ i - Len(q) \in DOMAIN p
    BY <1>1
  <1>5. \A i \in DOMAIN r :
          r[i].type \in {"ASSOCIATE", "CONNECT"} => i \in DOMAIN q
    <2> SUFFICES ASSUME NEW i \in DOMAIN r, i \notin DOMAIN q
                 PROVE  r[i].type \notin {"ASSOCIATE", "CONNECT"}
      OBVIOUS
    <2>1. i - Len(q) \in DOMAIN p /\ Len(q) + (i - Len(q)) = i
      BY <1>1, <1>4
    <2> QED
      BY <1>3, <2>1
  <1> HIDE DEF r
  <1>6. \A i, t : At(q, i, t) => At(r, i, t)
    BY <1>2 DEF At
  <1>7. Paired(r)
    BY <1>2, <1>5, <1>6 DEF Paired
  <1>8. CASE \E j \in DOMAIN p : p[j].type = "DISCONNECT"
    <2> PICK j \in DOMAIN p : p[j].type = "DISCONNECT"
      BY <1>8
    <2>1. /\ Len(q) + j \in DOMAIN r /\ r[Len(q) + j].type = "DISCONNECT"
          /\ \A i \in DOMAIN q : Len(q) + j > i
      BY <1>1, <1>3
    <2>2. \A i \in DOMAIN q : Dropped(r, i)
      BY <2>1 DEF Dropped
    <2> QED
      BY <1>5, <1>7, <2>2 DEF Claims, Claim, r
  <1>9. CASE /\ l \in Associated => k \in Associated
             /\ l = "FOREIGN" => k = "FOREIGN" /\ (c => b)
    <2>1. \A i : Dropped(q, i) => Dropped(r, i)
      BY <1>2 DEF Dropped
    <2>2. \A i : Heralded(q, i) => Heralded(r, i)
      BY <1>6 DEF Heralded
    <2>3. \A i : AtHead(q, i) => AtHead(r, i)
      BY <1>6 DEF AtHead
    <2>4. Claims(r, k, b)
      BY <1>2, <1>5, <1>9, <2>1, <2>2, <2>3 DEF Claims, Claim
    <2> QED
      BY <1>7, <2>4 DEF r
  <1> QED
    BY <1>8, <1>9

(* Reading a message brings the next ones to the head. *)
LEMMA TailClaims ==
  ASSUME NEW q \in Seq(Messages), q # <<>>, NEW l, NEW c, NEW b,
         Paired(q), Claims(q, l, c),
         q[1].type = "AUTHENTICATE" /\ l = "FOREIGN" => b,
         q[1].type = "ASSOCIATE" /\ l = "FOREIGN" /\ c => b
  PROVE  Paired(Tail(q)) /\ Claims(Tail(q), l, b)
  <1> DEFINE r == Tail(q)
  <1>1. /\ DOMAIN q = 1 .. Len(q) /\ Len(q) \in Nat \ {0}
        /\ DOMAIN r = 1 .. Len(q) - 1
        /\ \A i \in DOMAIN r : i + 1 \in DOMAIN q /\ r[i] = q[i + 1]
    OBVIOUS
  <1> HIDE DEF r
  <1>2. \A i \in Int : \A t : i > 1 => (At(q, i, t) <=> At(r, i - 1, t))
    <2> SUFFICES ASSUME NEW i \in Int, NEW t, i > 1
                 PROVE  At(q, i, t) <=> At(r, i - 1, t)
      OBVIOUS
    <2>1. i \in DOMAIN q <=> i - 1 \in DOMAIN r
      BY <1>1
    <2>2. i - 1 \in DOMAIN r => r[i - 1] = q[i]
      BY <1>1
    <2> QED
      BY <2>1, <2>2 DEF At
  <1>3. Paired(r)
    <2> SUFFICES ASSUME NEW i \in DOMAIN r
                 PROVE  /\ r[i].type = "ASSOCIATE" /\ r[i].status = "OK"
                             => At(r, i + 1, "CONNECT")
                        /\ r[i].type = "CONNECT" /\ i > 1
                             => At(r, i - 1, "ASSOCIATE")
      BY DEF Paired
    <2>1. /\ i + 1 \in DOMAIN q /\ q[i + 1] = r[i] /\ i \in Int /\ i > 0
          /\ i + 1 > 1 /\ (i + 1) - 1 = i
      BY <1>1
    <2>2. r[i].type = "ASSOCIATE" /\ r[i].status = "OK"
            => At(q, (i + 1) + 1, "CONNECT")
      BY <2>1 DEF Paired
    <2>3. r[i].type = "CONNECT" => At(q, i, "ASSOCIATE")
      BY <2>1 DEF Paired
    <2> QED
      BY <1>2, <2>1, <2>2, <2>3
  <1>4. ASSUME NEW i \in DOMAIN r, r[i].type \in {"ASSOCIATE", "CONNECT"},
               r[i].status = "OK"
        PROVE  Claim(r, i, l, b)
    <2>1. /\ i + 1 \in DOMAIN q /\ q[i + 1] = r[i] /\ i \in Int /\ i >= 1
          /\ i + 1 \in Int /\ i + 1 > 1 /\ (i + 1) - 1 = i
          /\ (i + 1) - 2 = i - 1
      BY <1>1
    <2>2. Claim(q, i + 1, l, c)
      BY <1>4, <2>1 DEF Claims
    <2>3. Dropped(q, i + 1) => Dropped(r, i)
      <3> SUFFICES ASSUME NEW j \in DOMAIN q, j > i + 1,
                          q[j].type = "DISCONNECT"
                   PROVE  Dropped(r, i)
        BY DEF Dropped
      <3>1. j - 1 \in DOMAIN r /\ j - 1 > i /\ r[j - 1] = q[j]
        BY <1>1, <2>1
      <3> QED
        BY <3>1 DEF Dropped
    <2>4. ASSUME l = "FOREIGN", Heralded(q, i + 1) PROVE Claim(r, i, l, b)
      <3>1. CASE At(q, i + 1, "ASSOCIATE") /\ At(q, i, "AUTHENTICATE")
        <4>1. At(r, i, "ASSOCIATE")
          BY <1>2, <2>1, <3>1
        <4>2. CASE i = 1
          <5>1. b
            BY <2>4, <3>1, <4>2 DEF At
          <5> QED
            BY <2>4, <4>2, <5>1 DEF Claim, AtHead
        <4>3. CASE i > 1
          <5>1. At(r, i - 1, "AUTHENTICATE")
            BY <1>2, <2>1, <3>1, <4>3
          <5> QED
            BY <2>4, <4>1, <5>1 DEF Claim, Heralded
        <4> QED
          BY <2>1, <4>2, <4>3
      <3>2. CASE /\ At(q, i + 1, "CONNECT")
                 /\ At(q, i, "ASSOCIATE") /\ At(q, i - 1, "AUTHENTICATE")
        <4>1. At(r, i, "CONNECT")
          BY <1>2, <2>1, <3>2
        <4>2. i - 1 \in DOMAIN q
          BY <3>2 DEF At
        <4>3. i > 1 /\ i - 1 >= 1
          BY <1>1, <2>1, <4>2
        <4>4. At(r, i - 1, "ASSOCIATE")
          BY <1>2, <2>1, <3>2, <4>3
        <4>5. CASE i = 2
          <5>1. i - 1 = 1
            BY <4>5
          <5>2. b
            BY <2>4, <3>2, <5>1 DEF At
          <5> QED
            BY <2>4, <4>1, <4>4, <4>5, <5>1, <5>2 DEF Claim, AtHead
        <4>6. CASE i > 2
          <5>1. i - 1 > 1 /\ i - 1 \in Int /\ (i - 1) - 1 = i - 2
            BY <2>1, <4>6
          <5>2. At(r, i - 2, "AUTHENTICATE")
            BY <1>2, <3>2, <5>1
          <5> QED
            BY <2>4, <4>1, <4>4, <5>2 DEF Claim, Heralded
        <4> QED
          BY <2>1, <4>3, <4>5, <4>6
      <3> QED
        BY <2>1, <2>4, <3>1, <3>2 DEF Heralded
    <2>5. ASSUME l = "FOREIGN", AtHead(q, i + 1), c PROVE Claim(r, i, l, b)
      <3>1. i = 1 /\ At(q, 1, "ASSOCIATE")
        BY <2>1, <2>5 DEF AtHead
      <3>2. b
        BY <2>5, <3>1 DEF At
      <3> QED
        BY <2>5, <3>1, <3>2 DEF Claim, AtHead
    <2> QED
      BY <2>2, <2>3, <2>4, <2>5 DEF Claim
  <1> QED
    BY <1>3, <1>4 DEF Claims, r

(* Excuses are about the link and the last failure alone. *)
LEMMA ExcusesWeaken ==
  ASSUME NEW q, NEW l, NEW f, NEW v, NEW w, Excuses(q, l, f, v, w),
         NEW k, NEW v1, NEW w1,
         l = "AUTHING" => k = "AUTHING" /\ (v => v1) /\ (w => w1)
  PROVE  Excuses(q, k, f, v1, w1)
  BY DEF Excuses, Excused

(* Messages that are appended excuse all before them, if one of them moves *)
(* the machine; the others change nothing.                                 *)
LEMMA AppendedExcuses ==
  ASSUME NEW q \in Seq(Messages), NEW p \in Seq(Messages),
         NEW l, NEW f, NEW v, NEW w, Excuses(q, l, f, v, w),
         NEW k, NEW g, NEW v1, NEW w1, NEW a, HeadConnect(q, a),
         \A j \in DOMAIN p : p[j].type \notin {"ASSOCIATE", "CONNECT"},
         \/ Moving(p)
         \/ f = g /\ (l = "AUTHING" => k = "AUTHING" /\ (v => v1) /\ (w => w1))
  PROVE  Excuses(q \o p, k, g, v1, w1) /\ HeadConnect(q \o p, a)
  <1> DEFINE r == q \o p
  <1>1. /\ DOMAIN q = 1 .. Len(q) /\ DOMAIN p = 1 .. Len(p)
        /\ Len(q) \in Nat /\ Len(p) \in Nat
        /\ DOMAIN r = 1 .. Len(q) + Len(p)
    BY Appended
  <1>2. \A i \in DOMAIN q : i \in DOMAIN r /\ r[i] = q[i]
    BY <1>1, Appended
  <1>3. \A j \in DOMAIN p : Len(q) + j \in DOMAIN r /\ r[Len(q) + j] = p[j]
    BY <1>1, Appended
  <1>4. \A i \in DOMAIN r :
          r[i].type \in {"ASSOCIATE", "CONNECT"} => i \in DOMAIN q
    <2> SUFFICES ASSUME NEW i \in DOMAIN r, i \notin DOMAIN q
                 PROVE  r[i].type \notin {"ASSOCIATE", "CONNECT"}
      OBVIOUS
    <2>1. i - Len(q) \in DOMAIN p /\ Len(q) + (i - Len(q)) = i
      BY <1>1
    <2> QED
      BY <1>3, <2>1
  <1> HIDE DEF r
  <1>5. HeadConnect(r, a)
    BY <1>2, <1>4 DEF HeadConnect, At
  <1>6. CASE Moving(p)
    <2> PICK j \in DOMAIN p : MovesAuth(p[j])
      BY <1>6 DEF Moving
    <2>1. /\ Len(q) + j \in DOMAIN r /\ MovesAuth(r[Len(q) + j])
          /\ \A i \in DOMAIN q : Len(q) + j > i
      BY <1>1, <1>3
    <2>2. \A i \in DOMAIN q : Followed(r, i)
      BY <2>1 DEF Followed
    <2> QED
      BY <1>4, <1>5, <2>2 DEF Excuses, Excused, r
  <1>7. CASE f = g /\ (l = "AUTHING" => k = "AUTHING" /\ (v => v1) /\ (w => w1))
    <2>1. \A i : Followed(q, i) => Followed(r, i)
      BY <1>2 DEF Followed
    <2>2. Excuses(r, k, g, v1, w1)
      BY <1>2, <1>4, <1>7, <2>1 DEF Excuses, Excused
    <2> QED
      BY <1>5, <2>2 DEF r
  <1> QED
    BY <1>6, <1>7

(* An attempt that begins while no CONNECT is the next to be read.         *)
LEMMA SurpriseExcuses ==
  ASSUME NEW q \in Seq(Messages), ~At(q, 1, "CONNECT"), NEW f, NEW v, v, NEW w
  PROVE  Excuses(q, "AUTHING", f, v, w)
  <1>1. \A i \in DOMAIN q : i = 1 \/ i > 1
    OBVIOUS
  <1> QED
    BY <1>1 DEF Excuses, Excused, At

(* A CONNECT that comes to the head of the queue had its ASSOCIATE there.  *)
LEMMA TailConnect ==
  ASSUME NEW q \in Seq(Messages), q # <<>>, Paired(q),
         At(Tail(q), 1, "CONNECT")
  PROVE  q[1].type = "ASSOCIATE"
  <1> DEFINE r == Tail(q)
  <1>1. \A i \in DOMAIN r : i + 1 \in DOMAIN q /\ r[i] = q[i + 1]
    OBVIOUS
  <1> HIDE DEF r
  <1>2. 1 \in DOMAIN r /\ r[1].type = "CONNECT" /\ 1 + 1 = 2
    BY DEF At, r
  <1>3. 2 \in DOMAIN q /\ q[2].type = "CONNECT"
    BY <1>1, <1>2
  <1>4. At(q, 2 - 1, "ASSOCIATE")
    BY <1>3 DEF Paired
  <1> QED
    BY <1>4 DEF At

(* Reading a message: what the daemon does not expect it disbelieves.      *)
LEMMA TailExcuses ==
  ASSUME NEW q \in Seq(Messages), q # <<>>, Paired(q),
         NEW l, NEW f, NEW v, NEW w, Excuses(q, l, f, v, w),
         NEW u, q[1].type = "ASSOCIATE" /\ v => u
  PROVE  Excuses(Tail(q), l, f, v, u)
  <1> DEFINE r == Tail(q)
  <1>1. /\ DOMAIN q = 1 .. Len(q) /\ Len(q) \in Nat \ {0}
        /\ DOMAIN r = 1 .. Len(q) - 1
        /\ \A i \in DOMAIN r : i + 1 \in DOMAIN q /\ r[i] = q[i + 1]
        /\ \A i \in DOMAIN q : i > 1 => i - 1 \in DOMAIN r /\ r[i - 1] = q[i]
    OBVIOUS
  <1> HIDE DEF r
  <1>2. At(r, 1, "CONNECT") => q[1].type = "ASSOCIATE"
    BY TailConnect DEF r
  <1>3. ASSUME NEW i \in DOMAIN r, r[i].type \in {"ASSOCIATE", "CONNECT"},
               r[i].status = "FAILED"
        PROVE  Excused(r, i, l, f, v, u)
    <2>1. /\ i + 1 \in DOMAIN q /\ q[i + 1] = r[i] /\ i \in Int /\ i >= 1
          /\ i + 1 > 1 /\ i + 1 # 1
      BY <1>1
    <2>2. Excused(q, i + 1, l, f, v, w)
      BY <1>3, <2>1 DEF Excuses
    <2>3. Followed(q, i + 1) => Followed(r, i)
      <3> SUFFICES ASSUME NEW j \in DOMAIN q, j > i + 1, MovesAuth(q[j])
                   PROVE  Followed(r, i)
        BY DEF Followed
      <3>1. j - 1 \in DOMAIN r /\ j - 1 > i /\ r[j - 1] = q[j]
        BY <1>1, <2>1
      <3> QED
        BY <3>1 DEF Followed
    <2>4. i = 1 /\ r[i].type = "CONNECT" => q[1].type = "ASSOCIATE"
      BY <1>2 DEF At
    <2>5. i = 1 \/ i > 1
      BY <2>1
    <2> QED
      BY <1>3, <2>1, <2>2, <2>3, <2>4, <2>5 DEF Excused
  <1> QED
    BY <1>3 DEF Excuses, r

-----------------------------------------------------------------------------
(* What the handlers do to authstate that Kept does not say. *)

(* Where a message that moves the machine may leave it. *)
Settled(m, y) ==
  \/ y.authstate \in {"IDLE", "NETDOWN", "EXTERNAL"}
  \/ Asked(y)
  \/ m.type = "ASSOCIATE" /\ y.authstate = "CONNECTING"
  \/ m.type = "CONNECT" /\ y.authstate = "CONNECTED"

(* A state with a new authstate, and what Kept makes of it. *)
LEMMA Moved ==
  ASSUME NEW x \in Daemon, NEW m \in AuthStates
  PROVE  /\ [x EXCEPT !.authstate = m] \in Daemon
         /\ [x EXCEPT !.authstate = m].authstate = m
         /\ \A y : Kept([x EXCEPT !.authstate = m], y)
                   => y.authstate = m \/ Asked(y)
  BY AuthstateType DEF Daemon, Kept, AuthKept

(* Left to another supplicant, or asking the card to end it. *)
Out(y) ==
  \/ y.authstate = "EXTERNAL"
  \/ y.authstate = "DISCONNECTING" /\ SentIn(y, "DISCONNECT")

(* Another supplicant: the daemon is disabled. *)
LEMMA DisabledMoves ==
  ASSUME NEW x \in Daemon, Free(x)
  PROVE  Out(snap_to_disabled(x))
  <1> DEFINE y == [x EXCEPT !.opermode = "NEUTRAL", !.authstate = "EXTERNAL"]
             z == reset_eapol_state(y)
  <1>1. y \in Daemon /\ y.authstate = "EXTERNAL" /\ y.tx = x.tx
    BY DEF Daemon, OperModes, AuthStates
  <1> HIDE DEF y
  <1>2. z \in Daemon /\ Same(y, z)
    BY <1>1, EapolResetType, SameEapol
  <1> HIDE DEF z
  <1>3. Kept(z, handle_disconnect(z)) /\ z.authstate = "EXTERNAL" /\ Free(z)
    BY <1>1, <1>2, KeptHandleDisconnect DEF Same, SameMachines, Free, SentIn
  <1> QED
    BY <1>3 DEF snap_to_disabled, Kept, AuthKept, MovedOnce, Out, y, z

(* The events of the connection machine. *)
LEMMA EventMoves ==
  ASSUME NEW x \in Daemon, NEW ok \in BOOLEAN, Free(x)
  PROVE  /\ LET y == cmd_authenticate(x) IN y.authstate = "EXTERNAL" \/ Asked(y)
         /\ LET y == cmd_associate(x, ok)
            IN \/ y.authstate = "CONNECTING" /\ x.authstate = "ASSOCIATING"
               \/ Out(y)
         /\ x.authstate = "EXTERNAL" =>
              /\ cmd_associate(x, ok).authstate = "EXTERNAL"
              /\ cmd_connect(x).authstate = "EXTERNAL"
         /\ cmd_connect(x).authstate \in {"EXTERNAL", "CONNECTED"}
         /\ LET y == cmd_disconnect(x) IN y.authstate = "IDLE" \/ Asked(y)
  <1> DEFINE p == prime_eapol_state(x)
             a == allow_eapol_sends(x, ok)
             r == reset_eapol_state(x)
             z == [r EXCEPT !.authstate = "IDLE"]
             e == IF x.authstate = "CONNECTING" THEN x ELSE snap_to_disabled(x)
  <1>1. Asked(trigger_associaction(p))
    BY EapolResetType, KeptTriggers
  <1> HIDE DEF p
  <1>2. LET y == cmd_authenticate(x) IN y.authstate = "EXTERNAL" \/ Asked(y)
    BY <1>1, DisabledMoves DEF cmd_authenticate, Out, Asked, p
  <1>3. a \in Daemon
    BY AllowSendsType
  <1> HIDE DEF a
  <1>4. [a EXCEPT !.authstate = "CONNECTING"].authstate = "CONNECTING"
    BY <1>3 DEF Daemon
  <1>5. LET y == cmd_associate(x, ok)
        IN \/ y.authstate = "CONNECTING" /\ x.authstate = "ASSOCIATING"
           \/ Out(y)
    BY <1>4, DisabledMoves DEF cmd_associate, Out, a
  <1>6. e \in Daemon
    BY DisabledType
  <1> HIDE DEF e
  <1>7. [e EXCEPT !.authstate = "CONNECTED"].authstate = "CONNECTED"
    BY <1>6 DEF Daemon
  <1>8. cmd_connect(x).authstate \in {"EXTERNAL", "CONNECTED"}
    BY <1>7 DEF cmd_connect, e
  <1>9. x.authstate = "EXTERNAL" =>
          /\ cmd_associate(x, ok).authstate = "EXTERNAL"
          /\ cmd_connect(x).authstate = "EXTERNAL"
    BY DEF cmd_associate, cmd_connect
  <1>10. r \in Daemon
    BY EapolResetType
  <1> HIDE DEF r
  <1>11. z \in Daemon /\ z.authstate = "IDLE"
    BY <1>10, Moved DEF AuthStates
  <1> HIDE DEF z
  <1>12. Kept(z, handle_disconnect(z))
    BY <1>11, KeptHandleDisconnect
  <1>13. LET y == cmd_disconnect(x) IN y.authstate = "IDLE" \/ Asked(y)
    BY <1>11, <1>12 DEF cmd_disconnect, Kept, AuthKept, r, z
  <1> QED
    BY <1>2, <1>5, <1>8, <1>9, <1>13

(* An error that bars the machine ends the attempt, or starts the end of it. *)
LEMMA ErrorMoves ==
  ASSUME NEW x \in Daemon, NEW m \in Messages
  PROVE  LET y == genl_error(x, m)
         IN IF m.err = "ENETDOWN" \/ m.seq = "OTHER"
            THEN y.authstate \in {"IDLE", "NETDOWN"} \/ Asked(y)
            ELSE Kept(x, y)
  <1> DEFINE e == [x EXCEPT !.authstate = "IDLE"]
  <1>1. x.ap.freq \in Int
    BY DEF Daemon, Ap
  <1>2. e \in Daemon /\ e.authstate = "IDLE"
    BY Moved DEF AuthStates
  <1> HIDE DEF e
  <1>3. snap_to_netdown(x).authstate \in {"IDLE", "NETDOWN"}
    BY DEF snap_to_netdown, reset_scan_state, report, set_timer, Daemon
  <1>4. Kept(e, reassess_wifi_situation(e)) /\ Kept(e, start_scan(e, x.ap.freq))
    BY <1>1, <1>2, KeptReassess, KeptStartScan
  <1>5. LET y == abort_connection(x)
        IN x.authstate # "DISCONNECTING"
             => y.authstate \in {"IDLE", "NETDOWN"} \/ Asked(y)
    BY KeptTriggers, KeptReassess
       DEF abort_connection, can_disconnect, Kept, AuthKept
  <1>6. LET y == handle_auth_error(x, m.err)
        IN y.authstate \in {"IDLE", "NETDOWN"} \/ Asked(y)
    BY <1>2, <1>4, <1>5 DEF handle_auth_error, Kept, AuthKept, e
  <1>7. m.seq \in {"SCANSEQ", "OTHER"}
    BY DEF Messages
  <1> QED
    BY <1>3, <1>6, <1>7, KeptScanEvents DEF genl_error

(* Any message. *)
LEMMA NetlinkMoves ==
  ASSUME NEW x \in Daemon, NEW m \in Messages, NEW ok \in BOOLEAN, Free(x)
  PROVE  LET y == handle_netlink(x, m, ok)
         IN /\ IF MovesAuth(m) THEN Settled(m, y) ELSE Kept(x, y)
            /\ m.type = "AUTHENTICATE" => y.authstate = "EXTERNAL" \/ Asked(y)
            /\ m.type = "ASSOCIATE" =>
                 \/ y.authstate = "CONNECTING" /\ x.authstate = "ASSOCIATING"
                 \/ Out(y)
            /\ m.type \in {"ASSOCIATE", "CONNECT"} /\ x.authstate = "EXTERNAL"
                 => y.authstate = "EXTERNAL"
  <1> DEFINE y == handle_netlink(x, m, ok)
  <1>1. m.type \in Events \cup {"MULTI", "DONE", "ERROR"}
    BY DEF Messages
  <1>2. CASE m.type \in {"TRIGGER_SCAN", "NEW_SCAN_RESULTS", "MULTI",
                         "SCAN_ABORTED", "DONE"}
    <2>1. Kept(x, y)
      BY <1>2, KeptScanEvents, KeptDone DEF handle_netlink
    <2> QED
      BY <1>2, <2>1 DEF MovesAuth
  <1>3. CASE m.type = "ERROR"
    <2>1. y = genl_error(x, m)
      BY <1>3 DEF handle_netlink
    <2> QED
      BY <1>3, <2>1, ErrorMoves DEF MovesAuth, Settled
  <1>4. CASE m.type = "AUTHENTICATE"
    <2>1. y = cmd_authenticate(x)
      BY <1>4 DEF handle_netlink
    <2> QED
      BY <1>4, <2>1, EventMoves DEF MovesAuth, Settled
  <1>5. CASE m.type = "ASSOCIATE"
    <2>1. y = cmd_associate(x, ok)
      BY <1>5 DEF handle_netlink
    <2> QED
      BY <1>5, <2>1, EventMoves DEF MovesAuth, Settled, Out, Asked
  <1>6. CASE m.type = "CONNECT"
    <2>1. y = cmd_connect(x)
      BY <1>6 DEF handle_netlink
    <2> QED
      BY <1>6, <2>1, EventMoves DEF MovesAuth, Settled
  <1>7. CASE m.type = "DISCONNECT"
    <2>1. y = cmd_disconnect(x)
      BY <1>7 DEF handle_netlink
    <2> QED
      BY <1>7, <2>1, EventMoves DEF MovesAuth, Settled
  <1> QED
    BY <1>1, <1>2, <1>3, <1>4, <1>5, <1>6, <1>7 DEF Events

(* A handler ends what there is, or leaves it alone, and what it may start *)
(* it starts from there.                                                   *)
Turned(x, y) ==
  \E a \in {x.authstate, "IDLE", "NETDOWN", "EXTERNAL"} :
    AuthKept([x EXCEPT !.authstate = a], y)

(* AUTHENTICATE is sent in the state that waits for it. *)
Minds(x) == SentIn(x, "AUTHENTICATE") => x.authstate = "AUTHENTICATING"

(* A handler of that kind starts nothing behind the attempt's back. *)
LEMMA TurnedMinds ==
  ASSUME NEW x \in Daemon, Free(x), NEW y, Turned(x, y)
  PROVE  Minds(y)
  <1> PICK a \in {x.authstate, "IDLE", "NETDOWN", "EXTERNAL"} :
        AuthKept([x EXCEPT !.authstate = a], y)
    BY DEF Turned
  <1> DEFINE z == [x EXCEPT !.authstate = a]
  <1>1. z.authstate = a /\ Free(z) /\ AuthKept(z, y)
    BY DEF Daemon, Free, SentIn
  <1> HIDE DEF z
  <1>2. \/ y.authstate = a /\ Free(y)
        \/ y.authstate = "DISCONNECTING" /\ Free(y)
        \/ y.authstate = "AUTHENTICATING" /\ ~SentIn(y, "ASSOCIATE")
    BY <1>1 DEF AuthKept, MovedOnce
  <1> QED
    BY <1>2 DEF Turned, Minds, Free

(* What is Kept is such a handler's doing, from any of the states. *)
LEMMA KeptTurned ==
  ASSUME NEW x \in Daemon
  PROVE  /\ \A y : Kept(x, y) => Turned(x, y)
         /\ \A a \in {x.authstate, "IDLE", "NETDOWN", "EXTERNAL"} : \A z, y :
              Same(z, [x EXCEPT !.authstate = a]) /\ Kept(z, y) => Turned(x, y)
  <1>1. ASSUME NEW a \in {x.authstate, "IDLE", "NETDOWN", "EXTERNAL"},
               NEW z, NEW y, Same(z, [x EXCEPT !.authstate = a]), Kept(z, y)
        PROVE  Turned(x, y)
    <2> DEFINE w == [x EXCEPT !.authstate = a]
    <2>1. Same(w, z)
      BY <1>1 DEF Same, SameMachines, EapolKept, Daemon
    <2> HIDE DEF w
    <2>2. Kept(w, y)
      BY <1>1, <2>1, KeptSame, KeptTrans
    <2> QED
      BY <2>2 DEF Turned, Kept, w
  <1>2. Same(x, [x EXCEPT !.authstate = x.authstate])
    BY DEF Same, SameMachines, EapolKept, Daemon
  <1> QED
    BY <1>1, <1>2

(* So are the ways to give up: another supplicant, a lost link, an error. *)
LEMMA EndingsTurn ==
  ASSUME NEW x \in Daemon, Free(x), NEW m \in Messages
  PROVE  /\ Turned(x, x)
         /\ Turned(x, snap_to_disabled(x))
         /\ Turned(x, cmd_disconnect(x))
         /\ Turned(x, snap_to_netdown(x))
         /\ Turned(x, genl_error(x, m))
  <1> DEFINE i == [x EXCEPT !.authstate = "IDLE"]
             r == reset_eapol_state(x)
             ri == [r EXCEPT !.authstate = "IDLE"]
             n == [x EXCEPT !.opermode = "NEUTRAL", !.authstate = "EXTERNAL"]
             rn == reset_eapol_state(n)
  <1>0. x.ap.freq \in Int
    BY DEF Daemon, Ap
  <1>1. i \in Daemon /\ Same(i, i)
    BY Moved DEF AuthStates, Same, SameMachines, EapolKept
  <1>2. n \in Daemon /\ Same(n, [x EXCEPT !.authstate = "EXTERNAL"])
    BY DEF Daemon, OperModes, AuthStates, Same, SameMachines, EapolKept
  <1>3. rn \in Daemon /\ Same(rn, [x EXCEPT !.authstate = "EXTERNAL"])
    <2> HIDE DEF n
    <2> QED
      BY <1>2, EapolResetType, SameEapol DEF Same, SameMachines, EapolKept
  <1>4. r \in Daemon /\ Same(x, r)
    BY EapolResetType, SameEapol
  <1>5. ri \in Daemon /\ Same(ri, i)
    <2>1. ri \in Daemon
      BY <1>4, Moved DEF AuthStates
    <2> HIDE DEF r
    <2>2. /\ ri.authstate = "IDLE"
          /\ ri.scanstate = r.scanstate /\ ri.reseq = r.reseq
          /\ ri.tx = r.tx /\ ri.rep = r.rep /\ EapolKept(r, ri)
      BY <1>4 DEF Daemon, EapolKept
    <2>3. /\ i.authstate = "IDLE"
          /\ i.scanstate = x.scanstate /\ i.reseq = x.reseq
          /\ i.tx = x.tx /\ i.rep = x.rep /\ EapolKept(x, i)
      BY DEF Daemon, EapolKept
    <2> HIDE DEF i, ri
    <2> QED
      BY <1>4, <2>1, <2>2, <2>3 DEF Same, SameMachines, EapolKept
  <1>6. Turned(x, x)
    BY KeptRefl, KeptTurned
  <1>7. Turned(x, snap_to_disabled(x))
    <2> HIDE DEF rn
    <2>1. Kept(rn, handle_disconnect(rn))
      BY <1>3, KeptHandleDisconnect
    <2>2. Turned(x, handle_disconnect(rn))
      BY <1>3, <2>1, KeptTurned
    <2> QED
      BY <2>2 DEF snap_to_disabled, rn
  <1>8. Turned(x, cmd_disconnect(x))
    <2> HIDE DEF ri
    <2>1. Kept(ri, handle_disconnect(ri))
      BY <1>5, KeptHandleDisconnect
    <2>2. Turned(x, handle_disconnect(ri))
      BY <1>5, <2>1, KeptTurned
    <2> QED
      BY <1>6, <2>2 DEF cmd_disconnect, ri
  <1>9. Turned(x, snap_to_netdown(x))
    <2> DEFINE y == snap_to_netdown(x)
    <2>1. y.authstate \in {"IDLE", "NETDOWN"} /\ y.tx = x.tx
      BY DEF Daemon, snap_to_netdown, reset_scan_state, report, set_timer
    <2> HIDE DEF y
    <2>2. PICK a \in {"IDLE", "NETDOWN"} : y.authstate = a
      BY <2>1
    <2> DEFINE z == [x EXCEPT !.authstate = a]
    <2>3. z.authstate = y.authstate /\ (\A k : SentIn(z, k) <=> SentIn(y, k))
      BY <2>1, <2>2 DEF Daemon, SentIn
    <2> HIDE DEF z
    <2>4. AuthKept(z, y)
      BY <2>3 DEF AuthKept, MovedOnce, Free
    <2> QED
      BY <2>1, <2>4 DEF Turned, z, y
  <1> HIDE DEF i
  <1>10. Kept(i, reassess_wifi_situation(i)) /\ Kept(i, start_scan(i, x.ap.freq))
    BY <1>0, <1>1, KeptReassess, KeptStartScan
  <1>11. Turned(x, reassess_wifi_situation(i)) /\ Turned(x, start_scan(i, x.ap.freq))
    BY <1>1, <1>10, KeptTurned DEF i
  <1>12. Kept(x, abort_connection(x)) /\ Kept(x, handle_scan_error(x)) /\ Kept(x, x)
    BY KeptAbort, KeptScanEvents, KeptRefl
  <1>13. Turned(x, handle_auth_error(x, m.err))
    BY <1>11, <1>12, KeptTurned DEF handle_auth_error, i
  <1>14. Turned(x, genl_error(x, m))
    BY <1>6, <1>9, <1>12, <1>13, KeptTurned DEF genl_error
  <1> QED
    BY <1>6, <1>7, <1>8, <1>9, <1>14

(* So whatever the message, a handler that authenticates waits for the     *)
(* answer.                                                                 *)
LEMMA NetlinkMinds ==
  ASSUME NEW x \in Daemon, Free(x), NEW m \in Messages, NEW ok \in BOOLEAN
  PROVE  Minds(handle_netlink(x, m, ok))
  <1> DEFINE y == handle_netlink(x, m, ok)
  <1>1. m.type \in Events \cup {"MULTI", "DONE", "ERROR"}
    BY DEF Messages
  <1>2. CASE m.type \in {"TRIGGER_SCAN", "NEW_SCAN_RESULTS", "MULTI",
                         "SCAN_ABORTED", "DONE"}
    <2>1. Kept(x, y)
      BY <1>2, KeptScanEvents, KeptDone DEF handle_netlink
    <2> QED
      BY <2>1, KeptTurned, TurnedMinds
  <1>3. CASE m.type \in {"ERROR", "DISCONNECT"}
    BY <1>3, EndingsTurn, TurnedMinds DEF handle_netlink
  <1>4. CASE m.type = "AUTHENTICATE"
    <2>1. y = cmd_authenticate(x)
      BY <1>4 DEF handle_netlink
    <2>2. CASE x.authstate = "AUTHENTICATING"
      <3> DEFINE p == prime_eapol_state(x)
                 t == trigger_associaction(p)
      <3>1. p \in Daemon /\ ~SentIn(p, "AUTHENTICATE")
        <4>1. SameMachines(x, p) /\ p \in Daemon
          BY EapolResetType, SameEapol
        <4> QED
          BY <4>1 DEF SameMachines, Free, SentIn
      <3> HIDE DEF p
      <3>2. ~SentIn(t, "AUTHENTICATE")
        BY <3>1, KeptTriggers
      <3>3. y = t
        BY <2>1, <2>2 DEF cmd_authenticate, p
      <3> QED
        BY <3>2, <3>3 DEF Minds
    <2>3. CASE x.authstate # "AUTHENTICATING"
      <3>1. y = x \/ y = snap_to_disabled(x)
        BY <2>1, <2>3 DEF cmd_authenticate
      <3> QED
        BY <3>1, EndingsTurn, TurnedMinds
    <2> QED
      BY <2>2, <2>3
  <1>5. CASE m.type = "ASSOCIATE"
    <2>1. y = cmd_associate(x, ok)
      BY <1>5 DEF handle_netlink
    <2>2. CASE x.authstate = "ASSOCIATING"
      <3> DEFINE a == allow_eapol_sends(x, ok)
                 c == [a EXCEPT !.authstate = "CONNECTING"]
      <3>1. a \in Daemon /\ Free(a)
        <4>1. a \in Daemon /\ MovedOnce(x, a)
          BY AllowSendsType, KeptAllowSends DEF Driven, AuthKept
        <4> QED
          BY <2>2, <4>1 DEF MovedOnce
      <3> HIDE DEF a
      <3>2. ~SentIn(c, "AUTHENTICATE")
        BY <3>1 DEF Daemon, Free, SentIn
      <3>3. y = c
        BY <2>1, <2>2 DEF cmd_associate, a
      <3> QED
        BY <3>2, <3>3 DEF Minds
    <2>3. CASE x.authstate # "ASSOCIATING"
      <3>1. y = x \/ y = snap_to_disabled(x)
        BY <2>1, <2>3 DEF cmd_associate
      <3> QED
        BY <3>1, EndingsTurn, TurnedMinds
    <2> QED
      BY <2>2, <2>3
  <1>6. CASE m.type = "CONNECT"
    <2> DEFINE s == snap_to_disabled(x)
               e == IF x.authstate = "CONNECTING" THEN x ELSE s
               c == [e EXCEPT !.authstate = "CONNECTED"]
    <2>1. y = x \/ y = c
      BY <1>6 DEF handle_netlink, cmd_connect
    <2>2. s \in Daemon /\ ~SentIn(s, "AUTHENTICATE")
      <3> DEFINE n == [x EXCEPT !.opermode = "NEUTRAL",
                                !.authstate = "EXTERNAL"]
                 z == reset_eapol_state(n)
      <3>1. n \in Daemon /\ Free(n) /\ n.authstate = "EXTERNAL"
        BY DEF Daemon, OperModes, AuthStates, Free, SentIn
      <3> HIDE DEF n
      <3>2. z \in Daemon /\ Same(n, z)
        BY <3>1, EapolResetType, SameEapol
      <3> HIDE DEF z
      <3>3. Kept(n, handle_disconnect(z))
        BY <3>2, KeptHandleDisconnect, KeptSame, KeptTrans
      <3>4. s = handle_disconnect(z)
        BY DEF snap_to_disabled, z, n
      <3> HIDE DEF s
      <3>5. MovedOnce(n, s)
        BY <3>3, <3>4 DEF Kept, AuthKept
      <3>6. Free(s)
        BY <3>1, <3>5 DEF MovedOnce
      <3> QED
        BY <3>6, DisabledType DEF Free, s
    <2> HIDE DEF s
    <2>3. e \in Daemon /\ ~SentIn(e, "AUTHENTICATE")
      BY <2>2 DEF Free
    <2> HIDE DEF e
    <2>4. ~SentIn(c, "AUTHENTICATE")
      BY <2>3 DEF Daemon, SentIn
    <2> QED
      BY <2>1, <2>4, EndingsTurn, TurnedMinds DEF Minds
  <1> QED
    BY <1>1, <1>2, <1>3, <1>4, <1>5, <1>6 DEF Events

(* rfkill and the timer: the only other way out of a state is from NETDOWN, *)
(* to IDLE and from there as any handler moves the machine.                 *)
Woken(x, y) ==
  /\ x.authstate = "NETDOWN"
  /\ AuthKept([x EXCEPT !.authstate = "IDLE"], y)

(* Rfkill moves the machine only from NETDOWN, or as a handler does. *)
LEMMA RfkillMoves ==
  ASSUME NEW x \in Daemon, x.tx = <<>>, NEW blocked \in BOOLEAN,
         NEW up \in BOOLEAN
  PROVE  LET y == rfkill_event(x, blocked, up)
         IN (AuthKept(x, y) \/ Woken(x, y)) /\ EapolKept(x, y)
  <1> DEFINE y == [x EXCEPT !.rfkilled = TRUE]
             z == [x EXCEPT !.rfkilled = FALSE]
             i == [x EXCEPT !.authstate = "IDLE"]
             e == [z EXCEPT !.authstate = "IDLE"]
  <1>1. y \in Daemon /\ Same(x, y) /\ z \in Daemon /\ Same(x, z) /\ z.tx = <<>>
    BY DEF Daemon, Same, SameMachines, EapolKept
  <1>2. e \in Daemon /\ Same(i, e) /\ EapolKept(x, i)
    BY DEF Daemon, AuthStates, Same, SameMachines, EapolKept
  <1> HIDE DEF y, z
  <1>3. Kept(x, clr_timer(y))
    BY <1>1, SameSimple, SameTrans, KeptSame
  <1>4. Kept(x, quit(z))
    BY <1>1, KeptQuit, KeptSame, KeptTrans
  <1>5. Kept(x, z)
    BY <1>1, KeptSame
  <1> HIDE DEF e, i
  <1>6. Kept(i, rescan_current_ap(e)) /\ Kept(i, reassess_wifi_situation(e))
    BY <1>2, KeptRescan, KeptReassess, KeptSame, KeptTrans
  <1>7. LET r == handle_rfrestored(z)
        IN Kept(x, r) \/ (x.authstate = "NETDOWN" /\ Kept(i, r))
    BY <1>1, <1>5, <1>6 DEF handle_rfrestored, Same, SameMachines, e
  <1>8. \A r : Kept(i, r) => EapolKept(x, r)
    BY <1>2 DEF Kept, EapolKept
  <1> QED
    BY <1>3, <1>4, <1>7, <1>8 DEF rfkill_event, Kept, Woken, y, z, i

(* So does the timer. *)
LEMMA TimerMoves ==
  ASSUME NEW x \in Daemon, Free(x)
  PROVE  LET y == timer_expired(x)
         IN (AuthKept(x, y) \/ Woken(x, y)) /\ EapolKept(x, y)
  <1> DEFINE e == clr_timer(x)
             i == [x EXCEPT !.authstate = "IDLE"]
             n == [e EXCEPT !.authstate = "IDLE"]
  <1>1. e \in Daemon /\ Same(x, e)
    BY TimerType, SameSimple
  <1>2. Kept(x, e) /\ Free(e)
    BY <1>1, KeptSame, FreeSame
  <1>3. Same(i, n) /\ EapolKept(x, n)
    BY DEF clr_timer, Daemon, Same, SameMachines, EapolKept
  <1> HIDE DEF e, i, n
  <1>4. Kept(i, n)
    BY <1>3, KeptSame
  <1>5. Kept(x, [e EXCEPT !.opermode = "EXIT"])
    BY <1>1, SameSimple, SameTrans, KeptSame
  <1>6. /\ Kept(x, routine_bg_scan(e)) /\ Kept(x, routine_fg_scan(e))
        /\ Kept(x, abort_connection(e))
    BY <1>1, <1>2, KeptRoutineScan, KeptAbort, KeptTrans
  <1> QED
    BY <1>3, <1>4, <1>5, <1>6 DEF timer_expired, Kept, Woken, e, i, n

-----------------------------------------------------------------------------
(* The invariant: a queued CONNECT that will be believed is true or will   *)
(* be taken back, and no state waits for nothing.                          *)
AuthInv ==
  /\ TypeInv /\ Rested
  /\ Paired(nlq) /\ Claims(nlq, card.link, Contested) /\ Doubts
  /\ AuthAnswered /\ ConnectedIsReal

Connection ==
  /\ Paired(nlq) /\ Claims(nlq, card.link, Contested) /\ Doubts
  /\ AuthAnswered /\ ConnectedIsReal

(* A handler that leaves e, and of the queue what is in q. *)
LEMMA HandlerConnection ==
  ASSUME AuthInv, NEW e \in Daemon, NEW c \in Card, c.link = card.link,
         c.failed = card.failed, NEW W, Leaves(e, c, W),
         NEW q \in Seq(Messages), nlq' = Resequenced(q, e),
         Paired(q), Claims(q, card.link, ContestedIn(e, q)),
         Excuses(q, card.link, card.failed, Unexpected(e), Disbelieved(e)),
         HeadConnect(q, e.authstate), Minds(e),
         \/ e.authstate \in {"IDLE", "NETDOWN", "EXTERNAL"}
         \/ Asked(e)
         \/ e.authstate = "CONNECTING"
              /\ (Moving(q) \/ card.failed = "TIMEDOUT")
         \/ e.authstate = "CONNECTED"
              /\ \/ card.link \in Associated \/ Moving(q)
                 \/ card.failed = "REFUSED"
         \/ /\ tx = <<>> /\ e.authstate = d.authstate
            /\ Moving(nlq) => Moving(q)
  PROVE  Connection'
  <1>1. d'.authstate = e.authstate /\ tx' = e.tx /\ card' = ApHears(c, e)
    BY DEF Leaves, Daemon
  <1>2. \A k : SentIn(e, k) <=> Sent(k)'
    BY <1>1 DEF SentIn, Sent
  <1>3. /\ Paired(q) => Paired(nlq')
        /\ Claims(q, card.link, ContestedIn(e, q))
             => Claims(nlq', card.link, ContestedIn(e, q))
        /\ Moving(q) => Moving(nlq')
        /\ Trouble(q) => Trouble(nlq')
        /\ Excuses(nlq', card.link, card.failed, Unexpected(e), Disbelieved(e))
        /\ HeadConnect(nlq', e.authstate)
    BY RenumberedClaims
  <1>4. /\ card.link \in Associated => card'.link \in Associated
        /\ card.link \notin Associated => card'.link = card.link
        /\ card'.failed = card.failed
    <2>1. c \in Card
      OBVIOUS
    <2> QED
      BY <1>1, <2>1 DEF ApHears, Card, Associated
  <1>5. ContestedIn(e, q) => Contested'
    BY <1>1, <1>2, <1>3 DEF ContestedIn, Contested
  <1>6. Claims(nlq', card'.link, Contested')
    <2>1. card.link = "FOREIGN" => card'.link = "FOREIGN"
      BY <1>4 DEF Associated
    <2> QED
      BY <1>3, <1>4, <1>5, <2>1, ClaimsWeaken
  <1>d. Doubts'
    <2>1. card.link = "AUTHING" => card'.link = "AUTHING"
      BY <1>4 DEF Associated
    <2>2. /\ Unexpected(e) => Surprised'
          /\ Disbelieved(e) => Disabled'
      BY <1>1, <1>2 DEF Unexpected, Surprised, Disbelieved, Disabled
    <2>3. Excuses(nlq', card'.link, card'.failed, Surprised', Disabled')
      BY <1>3, <1>4, <2>1, <2>2, ExcusesWeaken
    <2> QED
      BY <1>1, <1>2, <1>3, <2>3 DEF Doubts, Minds
  <1>7. AuthMoving <=> Moving(nlq)
    BY DEF AuthMoving, Moving
  <1>8. AuthMoving' <=> Moving(nlq')
    BY DEF AuthMoving, Moving
  <1>9. CASE e.authstate \in {"IDLE", "NETDOWN", "EXTERNAL"}
    BY <1>1, <1>3, <1>6, <1>d, <1>9 DEF Connection, AuthAnswered, ConnectedIsReal
  <1>10. CASE Asked(e)
    BY <1>1, <1>2, <1>3, <1>6, <1>d, <1>10
       DEF Connection, AuthAnswered, ConnectedIsReal, Asked
  <1>11. CASE e.authstate = "CONNECTING"
               /\ (Moving(q) \/ card.failed = "TIMEDOUT")
    BY <1>1, <1>3, <1>4, <1>6, <1>8, <1>d, <1>11
       DEF Connection, AuthAnswered, ConnectedIsReal
  <1>12. CASE e.authstate = "CONNECTED"
               /\ \/ card.link \in Associated \/ Moving(q)
                  \/ card.failed = "REFUSED"
    BY <1>1, <1>3, <1>4, <1>6, <1>8, <1>d, <1>12
       DEF Connection, AuthAnswered, ConnectedIsReal
  <1>13. CASE /\ tx = <<>> /\ e.authstate = d.authstate
              /\ Moving(nlq) => Moving(q)
    <2>1. \A k : ~Sent(k)
      BY <1>13, EmptyNotSent
    <2>2. AuthMoving => AuthMoving'
      BY <1>3, <1>7, <1>8, <1>13
    <2>3. card.link \in {"AUTHING", "ASSOCING"} => card'.link = card.link
      BY <1>4 DEF Associated
    <2>4. AuthAnswered'
      BY <1>1, <1>4, <1>13, <2>1, <2>2, <2>3 DEF AuthInv, AuthAnswered
    <2>5. ConnectedIsReal'
      BY <1>1, <1>4, <1>13, <2>2 DEF AuthInv, ConnectedIsReal
    <2> QED
      BY <1>3, <1>6, <1>d, <2>4, <2>5 DEF Connection
  <1> QED
    BY <1>9, <1>10, <1>11, <1>12, <1>13

(* Every handler but that of netlink: the queue stays. *)
LEMMA OtherConnection ==
  ASSUME AuthInv, tx = <<>>, NEW e \in Daemon,
         AuthKept(d, e) \/ Woken(d, e),
         NEW c \in Card, c.link = card.link, c.failed = card.failed,
         NEW W, Leaves(e, c, W),
         nlq' = Resequenced(nlq, e)
  PROVE  Connection'
  <1>0. \/ AuthKept(d, e)
        \/ d.authstate = "NETDOWN" /\ (e.authstate = "IDLE" \/ Asked(e))
    <2>1. [d EXCEPT !.authstate = "IDLE"].authstate = "IDLE"
      BY DEF AuthInv, TypeInv, TypeOK, Daemon
    <2> QED
      BY <2>1 DEF Woken, AuthKept
  <1>1. nlq \in Seq(Messages) /\ Paired(nlq) /\ Claims(nlq, card.link, Contested)
    BY DEF AuthInv, TypeInv, TypeOK
  <1>2. Contested => ContestedIn(e, nlq)
    <2>1. d.authstate = "EXTERNAL" => e.authstate = "EXTERNAL" \/ Asked(e)
      BY <1>0 DEF AuthKept
    <2> QED
      BY <2>1, EmptyNotSent DEF Contested, ContestedIn, Asked
  <1>3. Claims(nlq, card.link, ContestedIn(e, nlq))
    BY <1>1, <1>2, ClaimsWeaken
  <1>4. \/ e.authstate = d.authstate /\ ~SentIn(e, "AUTHENTICATE")
        \/ e.authstate = "DISCONNECTING" /\ SentIn(e, "DISCONNECT")
             /\ ~SentIn(e, "AUTHENTICATE")
        \/ d.authstate \in {"IDLE", "NETDOWN"} /\ Minds(e)
             /\ e.authstate \in {"IDLE", "AUTHENTICATING"}
    <2> DEFINE i == [d EXCEPT !.authstate = "IDLE"]
    <2>1. Free(d) /\ Free(i) /\ i.authstate = "IDLE"
      BY EmptyFree DEF AuthInv, Rested, TypeInv, TypeOK, Daemon, Free, SentIn
    <2> HIDE DEF i
    <2>2. \/ MovedOnce(d, e)
          \/ d.authstate = "NETDOWN" /\ MovedOnce(i, e)
      BY DEF Woken, AuthKept, i
    <2> QED
      BY <2>1, <2>2 DEF MovedOnce, Free, Minds
  <1>5. Minds(e) /\ (d.authstate \in Unpaired => e.authstate \in Unpaired)
    BY <1>4 DEF Minds, Unpaired
  <1>6. (Surprised => Unexpected(e)) /\ (Disabled => Disbelieved(e))
    BY <1>4, EmptyNotSent DEF Surprised, Unexpected, Disabled, Disbelieved
  <1>7. /\ Excuses(nlq, card.link, card.failed, Unexpected(e), Disbelieved(e))
        /\ HeadConnect(nlq, e.authstate)
    BY <1>5, <1>6, ExcusesWeaken DEF AuthInv, Doubts, HeadConnect
  <1> QED
    BY <1>0, <1>1, <1>3, <1>5, <1>7, HandlerConnection DEF AuthKept

(* handle_netlink.  The CONNECT that makes the daemon CONNECTED is one the *)
(* invariant speaks of.                                                    *)
LEMMA NetlinkConnection ==
  ASSUME AuthInv, HandleNetlink
  PROVE  Connection'
  <1> PICK ok \in BOOLEAN :
        /\ Becomes(handle_netlink(d, Head(nlq), ok), card)
        /\ nlq' = Resequenced(Tail(nlq), handle_netlink(d, Head(nlq), ok))
    BY DEF HandleNetlink
  <1> DEFINE m == nlq[1]
             q == Tail(nlq)
             e == handle_netlink(d, m, ok)
  <1>1. /\ d \in Daemon /\ card \in Card /\ nlq \in Seq(Messages) /\ nlq # <<>>
        /\ tx = <<>> /\ Paired(nlq) /\ Claims(nlq, card.link, Contested)
    BY DEF AuthInv, TypeInv, TypeOK, HandleNetlink, Alive
  <1>2. /\ m \in Messages /\ q \in Seq(Messages) /\ Head(nlq) = m
        /\ 1 \in DOMAIN nlq
        /\ \A i \in DOMAIN nlq :
             i = 1 \/ (i > 1 /\ i - 1 \in DOMAIN q /\ q[i - 1] = nlq[i])
    BY <1>1
  <1>f. Free(d)
    BY <1>1, EmptyFree DEF AuthInv, Rested
  <1>3. /\ e \in Daemon
        /\ IF MovesAuth(m) THEN Settled(m, e) ELSE Kept(d, e)
        /\ m.type = "AUTHENTICATE" => e.authstate = "EXTERNAL" \/ Asked(e)
        /\ m.type = "ASSOCIATE" =>
             \/ e.authstate = "CONNECTING" /\ d.authstate = "ASSOCIATING"
             \/ Out(e)
        /\ m.type \in {"ASSOCIATE", "CONNECT"} /\ d.authstate = "EXTERNAL"
             => e.authstate = "EXTERNAL"
    BY <1>1, <1>2, <1>f, HandleNetlinkType, NetlinkMoves
  <1>m. Minds(e)
    BY <1>1, <1>2, <1>f, NetlinkMinds
  <1>4. Leaves(e, card, wait) /\ nlq' = Resequenced(q, e)
    BY <1>2 DEF Becomes
  <1> HIDE DEF e
  <1>5. \A k : ~Sent(k)
    BY <1>1, EmptyNotSent
  <1>6. Trouble(nlq) /\ ~Barred(m) => Trouble(q)
    BY <1>2 DEF Trouble
  <1>7. Moving(nlq) /\ ~MovesAuth(m) => Moving(q)
    BY <1>2 DEF Moving
  <1>8. m.type = "ASSOCIATE" /\ Contested => ContestedIn(e, q)
    BY <1>3, <1>5, <1>6 DEF Contested, ContestedIn, Barred
  <1>9. m.type = "AUTHENTICATE" => ContestedIn(e, q)
    BY <1>3 DEF ContestedIn, Asked
  <1> HIDE DEF q
  <1>10. Paired(q) /\ Claims(q, card.link, ContestedIn(e, q))
    BY <1>1, <1>8, <1>9, TailClaims DEF q
  <1>s. Surprised <=> d.authstate # "ASSOCIATING"
    BY <1>5 DEF Surprised
  <1>e. /\ Excuses(q, card.link, card.failed, Unexpected(e), Disbelieved(e))
        /\ HeadConnect(q, e.authstate)
    <2>1. e.authstate = "ASSOCIATING" => Asked(e) \/ d.authstate = "ASSOCIATING"
      BY <1>3 DEF Settled, Kept, AuthKept
    <2>2. Surprised => Unexpected(e)
      BY <1>s, <2>1 DEF Unexpected, Asked
    <2>3. m.type = "ASSOCIATE" /\ Surprised => Disbelieved(e)
      BY <1>3, <1>s DEF Out, Disbelieved
    <2>4. m.type = "ASSOCIATE" => e.authstate \in Unpaired
      BY <1>3 DEF Out, Unpaired
    <2>5. Excuses(nlq, card.link, card.failed, Surprised, Disabled)
      BY DEF AuthInv, Doubts
    <2> QED
      <3>1. Excuses(Tail(nlq), card.link, card.failed, Surprised, Disbelieved(e))
        BY <1>1, <2>3, <2>5, TailExcuses
      <3>2. Excuses(q, card.link, card.failed, Unexpected(e), Disbelieved(e))
        BY <2>2, <3>1, ExcusesWeaken DEF q
      <3>3. HeadConnect(q, e.authstate)
        BY <1>1, <2>4, TailConnect DEF HeadConnect, q
      <3> QED
        BY <3>2, <3>3
  <1>g. m.type \in {"ASSOCIATE", "CONNECT"} /\ m.status # "OK"
          => \/ Moving(q) \/ card.failed = Verdict(m)
             \/ m.type = "ASSOCIATE" /\ Surprised
             \/ m.type = "CONNECT" /\ Disabled
    <2> SUFFICES ASSUME m.type \in {"ASSOCIATE", "CONNECT"}, m.status # "OK"
                 PROVE  \/ Moving(q) \/ card.failed = Verdict(m)
                        \/ m.type = "ASSOCIATE" /\ Surprised
                        \/ m.type = "CONNECT" /\ Disabled
      OBVIOUS
    <2>1. m.status = "FAILED"
      BY <1>2 DEF Messages
    <2>2. Excused(nlq, 1, card.link, card.failed, Surprised, Disabled)
      BY <1>2, <2>1 DEF AuthInv, Doubts, Excuses
    <2>3. Followed(nlq, 1) => Moving(q)
      BY <1>2 DEF Followed, Moving
    <2>4. ~(1 > 1)
      OBVIOUS
    <2> QED
      BY <2>2, <2>3, <2>4 DEF Excused
  <1>11. m.type = "ASSOCIATE" /\ e.authstate = "CONNECTING"
           => Moving(q) \/ card.failed = "TIMEDOUT"
    <2> SUFFICES ASSUME m.type = "ASSOCIATE", e.authstate = "CONNECTING"
                 PROVE  Moving(q) \/ card.failed = "TIMEDOUT"
      OBVIOUS
    <2>1. CASE m.status = "OK"
      <3>1. At(nlq, 2, "CONNECT")
        BY <1>1, <1>2, <2>1 DEF Paired
      <3>2. 1 \in DOMAIN q /\ q[1].type = "CONNECT"
        BY <1>2, <3>1 DEF At
      <3> QED
        BY <3>2 DEF Moving, MovesAuth
    <2>2. CASE m.status # "OK"
      <3>1. ~Surprised
        BY <1>3, <1>s DEF Out
      <3> QED
        BY <1>g, <2>2, <3>1 DEF Verdict
    <2> QED
      BY <2>1, <2>2
  <1>12. m.type = "CONNECT" /\ d.authstate # "EXTERNAL"
           => card.link \in Associated \/ Moving(q) \/ card.failed = "REFUSED"
    <2> SUFFICES ASSUME m.type = "CONNECT", d.authstate # "EXTERNAL",
                        card.failed # "REFUSED"
                 PROVE  card.link \in Associated \/ Moving(q)
      OBVIOUS
    <2>0. m.status = "OK" \/ Moving(q)
      BY <1>5, <1>g DEF Verdict, Disabled
    <2> SUFFICES ASSUME m.status = "OK"
                 PROVE  card.link \in Associated \/ Moving(q)
      BY <2>0
    <2>1. Claim(nlq, 1, card.link, Contested)
      BY <1>1, <1>2 DEF Claims
    <2>2. Dropped(nlq, 1) => Moving(q)
      BY <1>2 DEF Dropped, Moving, MovesAuth
    <2>3. ~Heralded(nlq, 1)
      <3>1. 1 - 1 \notin DOMAIN nlq
        BY <1>1
      <3> QED
        BY <3>1 DEF Heralded, At
    <2>4. Contested => Trouble(q)
      BY <1>5, <1>6 DEF Contested, Barred
    <2>5. Trouble(q) => Moving(q)
      BY DEF Trouble, Moving, Barred, MovesAuth
    <2> QED
      BY <2>1, <2>2, <2>3, <2>4, <2>5 DEF Claim
  <1>13. CASE MovesAuth(m)
    <2>1. e.authstate = "CONNECTED" /\ ~Asked(e)
            => m.type = "CONNECT" /\ d.authstate # "EXTERNAL"
      BY <1>3, <1>13 DEF Settled
    <2> QED
      BY <1>1, <1>2, <1>3, <1>4, <1>10, <1>11, <1>12, <1>13, <1>m, <1>e, <2>1,
         HandlerConnection DEF Settled
  <1>14. CASE ~MovesAuth(m)
    BY <1>1, <1>2, <1>3, <1>4, <1>7, <1>10, <1>14, <1>m, <1>e,
       HandlerConnection DEF Kept, AuthKept
  <1> QED
    BY <1>13, <1>14

(* Commands and SIGTERM. *)
LEMMA UserConnection ==
  ASSUME AuthInv, UserStep
  PROVE  Connection'
  <1>1. d \in Daemon /\ d.tx = <<>> /\ card \in Card /\ tx = <<>> /\ Free(d)
    BY EmptyFree
       DEF AuthInv, Rested, TypeInv, TypeOK, UserStep, UserScan, UserNeutral,
           UserConnect, UserForget, Sigterm, Request, Alive
  <1>2. ASSUME NEW e \in Daemon, Kept(d, e), NEW w, Request(e, w)
        PROVE  Connection'
    <2>1. Leaves(e, card, wait \cup w) /\ nlq' = Resequenced(nlq, e)
      BY <1>2 DEF Request
    <2> QED
      BY <1>1, <1>2, <2>1, OtherConnection DEF Kept
  <1>3. CASE UserScan
    BY <1>1, <1>2, <1>3, CommandsType, KeptCommands DEF UserScan
  <1>4. CASE UserNeutral
    BY <1>1, <1>2, <1>4, CommandsType, KeptCommands DEF UserNeutral
  <1>5. CASE UserConnect
    BY <1>1, <1>2, <1>5, CtlConnectType, KeptCtlConnect DEF UserConnect
  <1>6. CASE UserForget
    BY <1>1, <1>2, <1>6, CommandsType, KeptCommands DEF UserForget
  <1>7. CASE Sigterm
    BY <1>1, <1>2, <1>7, ShutdownType, KeptShutdown DEF Sigterm
  <1> QED
    BY <1>3, <1>4, <1>5, <1>6, <1>7 DEF UserStep

-----------------------------------------------------------------------------
(* The card, the air and the other supplicant append to the queue and      *)
(* leave the daemon alone.                                                 *)
AuthCommands == {"AUTHENTICATE", "ASSOCIATE", "DISCONNECT"}

(* What is in the queue stays in it. *)
LEMMA StillMoving ==
  ASSUME TypeInv, NEW p \in Seq(Messages), nlq' = nlq \o p
  PROVE  /\ Moving(nlq) \/ Moving(p) => AuthMoving'
         /\ Trouble(nlq) \/ Trouble(p) => Trouble(nlq')
  <1>1. nlq \in Seq(Messages)
    BY DEF TypeInv, TypeOK
  <1>2. \A i \in DOMAIN nlq : i \in DOMAIN nlq' /\ nlq'[i] = nlq[i]
    BY <1>1
  <1>3. \A j \in DOMAIN p : /\ Len(nlq) + j \in DOMAIN nlq'
                            /\ nlq'[Len(nlq) + j] = p[j]
    BY <1>1
  <1> QED
    BY <1>2, <1>3 DEF Moving, AuthMoving, Trouble

(* Something is queued that the connection machine hears, and the link may *)
(* be another one: if it was lost, a DISCONNECT is among the messages.     *)
LEMMA Answered ==
  ASSUME AuthInv, d' = d, NEW p \in Seq(Messages), nlq' = nlq \o p,
         Moving(p), Sent("AUTHENTICATE")' => Sent("AUTHENTICATE"),
         \A j \in DOMAIN p : p[j].type \notin {"ASSOCIATE", "CONNECT"},
         \/ \E j \in DOMAIN p : p[j].type = "DISCONNECT"
         \/ card.link \notin Associated \cup {"FOREIGN"}
         \/ card'.link = card.link /\ Trouble(p)
  PROVE  Connection'
  <1>1. /\ TypeInv /\ nlq \in Seq(Messages)
        /\ Paired(nlq) /\ Claims(nlq, card.link, Contested)
    BY DEF AuthInv, TypeInv, TypeOK
  <1>2. AuthMoving' /\ (Trouble(p) => Contested')
    BY <1>1, StillMoving DEF Contested
  <1>3. Paired(nlq') /\ Claims(nlq', card'.link, Contested')
    BY <1>1, <1>2, AppendedClaims
  <1>4. Doubts'
    BY <1>1, AppendedExcuses DEF AuthInv, Doubts
  <1> QED
    BY <1>2, <1>3, <1>4 DEF Connection, AuthAnswered, ConnectedIsReal

(* Nothing the machine waits for is touched, but that a command may have   *)
(* become what the card is doing now.                                      *)
LEMMA Undisturbed ==
  ASSUME AuthInv, d' = d, NEW p \in Seq(Messages), nlq' = nlq \o p,
         \A j \in DOMAIN p : p[j].type \notin {"ASSOCIATE", "CONNECT"},
         card.link \in Associated => card'.link \in Associated,
         card.link = "FOREIGN" => /\ card'.link = "FOREIGN"
                                  /\ \A k \in AuthCommands : Sent(k) => Sent(k)',
         Sent("AUTHENTICATE") \/ card.link = "AUTHING"
           => Sent("AUTHENTICATE")' \/ card'.link = "AUTHING",
         Sent("ASSOCIATE") \/ card.link = "ASSOCING"
           => Sent("ASSOCIATE")' \/ card'.link = "ASSOCING",
         Sent("DISCONNECT") => Sent("DISCONNECT")',
         Sent("AUTHENTICATE")' => Sent("AUTHENTICATE"),
         \/ Sent("AUTHENTICATE") /\ card'.link = "AUTHING"
         \/ /\ card'.failed = card.failed
            /\ card.link = "AUTHING" =>
                 card'.link = "AUTHING" /\ (Sent("ASSOCIATE") => Sent("ASSOCIATE")')
  PROVE  Connection'
  <1>1. /\ TypeInv /\ nlq \in Seq(Messages)
        /\ Paired(nlq) /\ Claims(nlq, card.link, Contested)
    BY DEF AuthInv, TypeInv, TypeOK
  <1>2. (AuthMoving => AuthMoving') /\ (Trouble(nlq) => Trouble(nlq'))
    BY <1>1, StillMoving DEF AuthMoving, Moving
  <1>3. card.link = "FOREIGN" /\ Contested => Contested'
    BY <1>2 DEF Contested, AuthCommands
  <1>4. Paired(nlq') /\ Claims(nlq', card'.link, Contested')
    BY <1>1, <1>3, AppendedClaims
  <1>5. CASE Sent("AUTHENTICATE") /\ card'.link = "AUTHING"
    <2>1. d.authstate = "AUTHENTICATING"
      BY <1>5 DEF AuthInv, Doubts
    <2>2. /\ HeadConnect(nlq, d.authstate)
          /\ Excuses(nlq, card.link, card.failed, Surprised, Disabled)
      BY DEF AuthInv, Doubts
    <2>3. ~At(nlq, 1, "CONNECT") /\ Surprised'
      BY <2>1, <2>2 DEF HeadConnect, Unpaired, Surprised
    <2>4. Excuses(nlq, "AUTHING", card'.failed, Surprised', Disabled')
      BY <1>1, <2>3, SurpriseExcuses
    <2>5. Doubts'
      BY <1>1, <1>5, <2>1, <2>2, <2>4, AppendedExcuses DEF Doubts
    <2> QED
      BY <1>2, <1>4, <1>5, <2>1, <2>5
         DEF Connection, AuthAnswered, ConnectedIsReal
  <1>6. CASE /\ card'.failed = card.failed
             /\ card.link = "AUTHING" =>
                  /\ card'.link = "AUTHING"
                  /\ Sent("ASSOCIATE") => Sent("ASSOCIATE")'
    <2>1. /\ HeadConnect(nlq, d.authstate)
          /\ Excuses(nlq, card.link, card.failed, Surprised, Disabled)
      BY DEF AuthInv, Doubts
    <2>2. card.link = "AUTHING" =>
            /\ card'.link = "AUTHING" /\ (Surprised => Surprised')
            /\ (Disabled => Disabled')
      BY <1>6 DEF Surprised, Disabled
    <2>3. Doubts'
      BY <1>1, <1>6, <2>1, <2>2, AppendedExcuses DEF AuthInv, Doubts
    <2>4. AuthAnswered' /\ ConnectedIsReal'
      BY <1>2, <1>6 DEF AuthInv, AuthAnswered, ConnectedIsReal
    <2> QED
      BY <1>4, <2>3, <2>4 DEF Connection
  <1> QED
    BY <1>5, <1>6

(* One message, or none, as a sequence. *)
LEMMA OneMessage ==
  ASSUME NEW m \in Messages, NEW q \in Seq(Messages)
  PROVE  /\ << m >> \in Seq(Messages) /\ DOMAIN << m >> = {1} /\ << m >>[1] = m
         /\ Append(q, m) = q \o << m >>
         /\ <<>> \in Seq(Messages) /\ DOMAIN <<>> = {} /\ q = q \o <<>>
  OBVIOUS

(* A link is made, is refused, or is another supplicant's: the report says *)
(* of it what is true, and everything queued before is about another one.  *)
LEMMA Reported ==
  ASSUME AuthInv, d' = d, NEW p \in Seq(Messages), nlq' = nlq \o p,
         \A c : Sent(c) <=> Sent(c)',
         card.link \notin Associated \cup {"FOREIGN"},
         Moving(p), Paired(p), 1 \in DOMAIN p, p[1].type # "CONNECT",
         Claims(p, card'.link, FALSE),
         \A j \in DOMAIN p :
           p[j].type \in {"ASSOCIATE", "CONNECT"} /\ p[j].status = "FAILED"
             => Followed(p, j) \/ card'.failed = Verdict(p[j])
  PROVE  Connection'
  <1> DEFINE L == Len(nlq)
             r == nlq'
  <1>0. /\ nlq \in Seq(Messages) /\ Paired(nlq)
        /\ Claims(nlq, card.link, Contested) /\ HeadConnect(nlq, d.authstate)
    BY DEF AuthInv, TypeInv, TypeOK, Doubts
  <1>1. /\ DOMAIN nlq = 1 .. L /\ L \in Nat
        /\ DOMAIN p = 1 .. Len(p) /\ Len(p) \in Nat
        /\ DOMAIN r = 1 .. L + Len(p)
        /\ \A i \in DOMAIN nlq : r[i] = nlq[i]
        /\ \A j \in DOMAIN p : r[L + j] = p[j]
    BY <1>0, Appended
  <1> HIDE DEF L, r
  <1>2. \A i \in DOMAIN nlq : i \in DOMAIN r
    BY <1>1
  <1>3. \A j \in DOMAIN p : L + j \in DOMAIN r /\ j \in Int
    BY <1>1
  <1>4. \A i, t : At(nlq, i, t) => At(r, i, t)
    BY <1>1, <1>2 DEF At
  <1>5. \A j \in Int : \A t : At(p, j, t) => At(r, L + j, t)
    BY <1>1, <1>3 DEF At
  <1>6. \A i \in DOMAIN r : i \in DOMAIN nlq \/ \E j \in DOMAIN p : i = L + j
    <2> SUFFICES ASSUME NEW i \in DOMAIN r, i \notin DOMAIN nlq
                 PROVE  \E j \in DOMAIN p : i = L + j
      OBVIOUS
    <2>1. i - L \in DOMAIN p /\ i = L + (i - L)
      BY <1>1
    <2> QED
      BY <2>1
  <1>7. Paired(r)
    <2> SUFFICES ASSUME NEW i \in DOMAIN r
                 PROVE  /\ r[i].type = "ASSOCIATE" /\ r[i].status = "OK"
                             => At(r, i + 1, "CONNECT")
                        /\ r[i].type = "CONNECT" /\ i > 1
                             => At(r, i - 1, "ASSOCIATE")
      BY DEF Paired
    <2>1. CASE i \in DOMAIN nlq
      BY <1>0, <1>1, <1>4, <2>1 DEF Paired
    <2>2. CASE \E j \in DOMAIN p : i = L + j
      <3> PICK j \in DOMAIN p : i = L + j
        BY <2>2
      <3>0. r[i] = p[j] /\ L \in Int /\ j \in Int /\ j >= 1
        BY <1>1
      <3>1. /\ r[i] = p[j] /\ j \in Int /\ j + 1 \in Int /\ j - 1 \in Int
            /\ i + 1 = L + (j + 1) /\ i - 1 = L + (j - 1)
            /\ j = 1 \/ j > 1
        BY <3>0
      <3>2. r[i].type = "ASSOCIATE" /\ r[i].status = "OK"
              => At(p, j + 1, "CONNECT")
        BY <3>1 DEF Paired
      <3>3. r[i].type = "CONNECT" => At(p, j - 1, "ASSOCIATE")
        BY <3>1 DEF Paired
      <3> QED
        BY <1>5, <3>1, <3>2, <3>3
    <2> QED
      BY <1>6, <2>1, <2>2
  <1>8. Claims(r, card'.link, Contested')
    <2> SUFFICES ASSUME NEW i \in DOMAIN r,
                        r[i].type \in {"ASSOCIATE", "CONNECT"},
                        r[i].status = "OK"
                 PROVE  Claim(r, i, card'.link, Contested')
      BY DEF Claims
    <2>1. CASE i \in DOMAIN nlq
      <3>1. Claim(nlq, i, card.link, Contested)
        BY <1>0, <1>1, <2>1 DEF Claims
      <3>2. Dropped(nlq, i)
        BY <3>1 DEF Claim
      <3>3. Dropped(r, i)
        BY <1>1, <1>2, <3>2 DEF Dropped
      <3> QED
        BY <3>3 DEF Claim
    <2>2. CASE \E j \in DOMAIN p : i = L + j
      <3> PICK j \in DOMAIN p : i = L + j
        BY <2>2
      <3>1. r[i] = p[j] /\ j \in Int /\ j - 1 \in Int /\ j - 2 \in Int
              /\ i - 1 = L + (j - 1) /\ i - 2 = L + (j - 2)
        BY <1>1
      <3>2. Claim(p, j, card'.link, FALSE)
        BY <3>1 DEF Claims
      <3>3. Dropped(p, j) => Dropped(r, i)
        <4> SUFFICES ASSUME NEW k \in DOMAIN p, k > j, p[k].type = "DISCONNECT"
                     PROVE  Dropped(r, i)
          BY DEF Dropped
        <4>1. L + k \in DOMAIN r /\ L + k > i /\ r[L + k] = p[k]
          BY <1>1, <1>3, <3>1
        <4> QED
          BY <4>1 DEF Dropped
      <3>4. Heralded(p, j) => Heralded(r, i)
        BY <1>5, <3>1 DEF Heralded
      <3> QED
        BY <3>2, <3>3, <3>4 DEF Claim
    <2> QED
      BY <1>6, <2>1, <2>2
  <1>9. Excuses(r, card'.link, card'.failed, Surprised', Disabled')
    <2> SUFFICES ASSUME NEW i \in DOMAIN r,
                        r[i].type \in {"ASSOCIATE", "CONNECT"},
                        r[i].status = "FAILED"
                 PROVE  Followed(r, i) \/ card'.failed = Verdict(r[i])
      BY DEF Excuses, Excused
    <2>1. CASE i \in DOMAIN nlq
      <3>1. PICK j \in DOMAIN p : MovesAuth(p[j])
        BY DEF Moving
      <3>2. L + j \in DOMAIN r /\ L + j > i /\ r[L + j] = p[j]
        BY <1>1, <1>3, <2>1
      <3> QED
        BY <3>1, <3>2 DEF Followed
    <2>2. CASE \E j \in DOMAIN p : i = L + j
      <3> PICK j \in DOMAIN p : i = L + j
        BY <2>2
      <3>1. r[i] = p[j] /\ j \in Int
        BY <1>1
      <3>2. Followed(p, j) => Followed(r, i)
        <4> SUFFICES ASSUME NEW k \in DOMAIN p, k > j, MovesAuth(p[k])
                     PROVE  Followed(r, i)
          BY DEF Followed
        <4>1. L + k \in DOMAIN r /\ L + k > i /\ r[L + k] = p[k]
          BY <1>1, <1>3, <3>1
        <4> QED
          BY <4>1 DEF Followed
      <3> QED
        BY <3>1, <3>2
    <2> QED
      BY <1>6, <2>1, <2>2
  <1>10. HeadConnect(r, d.authstate)
    <2>1. 1 \in DOMAIN nlq => r[1] = nlq[1]
      BY <1>1
    <2>2. 1 \notin DOMAIN nlq => r[1] = p[1]
      <3>1. 1 \notin DOMAIN nlq => L = 0
        BY <1>1
      <3> QED
        BY <1>1, <3>1
    <2> QED
      BY <1>0, <2>1, <2>2 DEF HeadConnect, At
  <1>11. Doubts'
    BY <1>9, <1>10 DEF Doubts, AuthInv, r
  <1>12. AuthMoving'
    BY StillMoving DEF AuthInv
  <1> QED
    BY <1>7, <1>8, <1>11, <1>12
       DEF Connection, AuthAnswered, ConnectedIsReal, r

(* Commands are executed or refused. *)
LEMMA CardConnection ==
  ASSUME AuthInv, CardStep
  PROVE  Connection'
  <1>0. /\ TypeInv /\ nlq \in Seq(Messages) /\ card \in Card /\ tx \in Seq(Commands)
        /\ d' = d /\ tx # <<>> /\ tx' = Tail(tx) /\ Head(tx) \in Commands
    BY DEF AuthInv, TypeInv, TypeOK, CardStep, CardScan, CardDump, CardAuth,
           CardAssoc, CardDisconnect, CardKey, CardRefuse, Executes
  <1>1. \A c : Sent(c) /\ Head(tx).cmd # c => Sent(c)'
    BY <1>0, TailSent
  <1>s. \A c : Sent(c)' => Sent(c)
    <2>1. \A i \in DOMAIN tx' : i + 1 \in DOMAIN tx /\ tx'[i] = tx[i + 1]
      BY <1>0
    <2> QED
      BY <2>1 DEF Sent
  <1>2. \A t \in Events : Event(t) \in Messages /\ Event(t).type = t
    BY EventType DEF Event
  <1>3. CASE CardScan
    <2> DEFINE m == [Event("TRIGGER_SCAN") EXCEPT !.freq = Head(tx).freq]
    <2>1. m \in Messages /\ m.type = "TRIGGER_SCAN"
      BY <1>0, <1>2 DEF Events, Commands, Messages
    <2>2. /\ Head(tx).cmd = "TRIGGER_SCAN" /\ card'.link = card.link
          /\ card'.failed = card.failed /\ nlq' = Append(nlq, m)
      BY <1>0, <1>3 DEF CardScan, Executes, Card
    <2> HIDE DEF m
    <2>3. nlq' = nlq \o << m >> /\ << m >> \in Seq(Messages)
            /\ \A j \in DOMAIN << m >> : << m >>[j].type = "TRIGGER_SCAN"
      BY <1>0, <2>1, <2>2, OneMessage
    <2> QED
      BY <1>0, <1>1, <1>s, <2>2, <2>3, Undisturbed DEF AuthCommands
  <1>4. CASE CardDump
    <2> PICK S \in SUBSET BSSIDs : \E found \in [S -> Looks] :
          nlq' = nlq \o << [Event("MULTI") EXCEPT !.bss = found],
                           Event("DONE") >>
      BY <1>4 DEF CardDump
    <2> PICK found \in [S -> Looks] :
          nlq' = nlq \o << [Event("MULTI") EXCEPT !.bss = found],
                           Event("DONE") >>
      OBVIOUS
    <2> DEFINE m == [Event("MULTI") EXCEPT !.bss = found]
               n == Event("DONE")
               q == << m, n >>
    <2>0. found \in Dumps
      BY DEF Dumps
    <2>1. m \in Messages /\ m.type = "MULTI" /\ n \in Messages /\ n.type = "DONE"
      <3>1. Event("MULTI") \in Messages /\ n \in Messages
        BY EventType
      <3> QED
        BY <2>0, <3>1 DEF Event, Messages
    <2>2. Head(tx).cmd = "GET_SCAN" /\ card' = card /\ nlq' = nlq \o q
      BY <1>4 DEF CardDump, Executes
    <2> HIDE DEF m, n
    <2>3. q \in Seq(Messages)
            /\ \A j \in DOMAIN q : q[j].type \in {"MULTI", "DONE"}
      BY <2>1
    <2> HIDE DEF q
    <2> QED
      BY <1>0, <1>1, <1>s, <2>2, <2>3, Undisturbed DEF AuthCommands
  <1>5. CASE CardAuth \/ CardAssoc \/ CardKey
    <2>1. nlq' = nlq \o <<>> /\ <<>> \in Seq(Messages) /\ DOMAIN <<>> = {}
      BY <1>0, <1>5 DEF CardAuth, CardAssoc, CardKey
    <2>2. /\ CardAuth => /\ Head(tx).cmd = "AUTHENTICATE" /\ card.link = "NONE"
                          /\ card'.link = "AUTHING"
          /\ CardAssoc => /\ Head(tx).cmd = "ASSOCIATE" /\ card.link = "AUTHED"
                           /\ card'.link = "ASSOCING"
                           /\ card'.failed = card.failed
          /\ CardKey => Head(tx).cmd = "NEW_KEY" /\ card' = card
      BY <1>0 DEF CardAuth, CardAssoc, CardKey, Executes, Able, Card
    <2> DEFINE n == <<>>
    <2>3. nlq' = nlq \o n /\ n \in Seq(Messages) /\ DOMAIN n = {}
      BY <2>1
    <2> HIDE DEF n
    <2>4. CardAuth => Sent("AUTHENTICATE")
      <3>1. Head(tx) = tx[1] /\ 1 \in DOMAIN tx
        BY <1>0
      <3> QED
        BY <2>2, <3>1 DEF Sent
    <2> QED
      BY <1>0, <1>1, <1>s, <1>5, <2>2, <2>3, <2>4, Undisturbed
         DEF AuthCommands, Associated
  <1>6. CASE CardDisconnect
    <2> DEFINE m == Event("DISCONNECT")
    <2>1. m \in Messages /\ m.type = "DISCONNECT" /\ nlq' = Append(nlq, m)
      BY <1>2, <1>6 DEF CardDisconnect, Events
    <2> HIDE DEF m
    <2>2. /\ nlq' = nlq \o << m >> /\ << m >> \in Seq(Messages)
          /\ DOMAIN << m >> = {1} /\ << m >>[1].type = "DISCONNECT"
      BY <1>0, <2>1, OneMessage
    <2> DEFINE p == << m >>
    <2> HIDE DEF p
    <2>3. Moving(p)
      BY <2>2 DEF Moving, MovesAuth, p
    <2> QED
      BY <1>0, <1>s, <2>2, <2>3, Answered DEF p
  <1>7. CASE CardRefuse
    <2> DEFINE sq == IF Head(tx).cmd \in ScanCommands THEN "SCANSEQ" ELSE "OTHER"
    <2>1. PICK err \in Errors : Fails(err)
      BY <1>7 DEF CardRefuse, Errors
    <2> DEFINE m == [Event("ERROR") EXCEPT !.err = err, !.seq = sq]
               p == << m >>
    <2>2. Event("ERROR") \in Messages /\ sq \in {"SCANSEQ", "OTHER"}
      BY EventType
    <2>3. nlq' = Append(nlq, m) /\ card' = card
      BY <1>7, <2>1 DEF Fails, CardRefuse
    <2>4. Head(tx).cmd \in ScanCommands \/ sq = "OTHER"
      OBVIOUS
    <2> HIDE DEF sq
    <2>5. m \in Messages /\ m.type = "ERROR" /\ m.seq = sq
      BY <2>2 DEF Messages, Event
    <2> HIDE DEF m
    <2>6. /\ nlq' = nlq \o p /\ p \in Seq(Messages) /\ DOMAIN p = {1}
          /\ p[1].type = "ERROR" /\ p[1].seq = sq
      BY <1>0, <2>3, <2>5, OneMessage
    <2> HIDE DEF p
    <2>7. CASE sq = "OTHER"
      <3>1. Moving(p) /\ Trouble(p)
        BY <2>6, <2>7 DEF Moving, MovesAuth, Trouble, Barred
      <3> QED
        BY <1>0, <1>s, <2>3, <2>6, <3>1, Answered
    <2>8. CASE Head(tx).cmd \in ScanCommands
      BY <1>0, <1>1, <1>s, <2>3, <2>6, <2>8, Undisturbed
         DEF AuthCommands, ScanCommands
    <2> QED
      BY <2>4, <2>7, <2>8
  <1> QED
    BY <1>3, <1>4, <1>5, <1>6, <1>7 DEF CardStep

(* The link comes and goes, and another supplicant takes the card. *)
LEMMA AirConnection ==
  ASSUME AuthInv, AirStep \/ FaultStep
  PROVE  Connection'
  <1>0. /\ TypeInv /\ nlq \in Seq(Messages) /\ card \in Card
        /\ d' = d /\ tx' = tx
        /\ Paired(nlq) /\ Claims(nlq, card.link, Contested)
    BY DEF AuthInv, TypeInv, TypeOK, AirStep, FaultStep, ScanDone, AuthDone,
           AssocDone, ApMessage1, ApMessage3, ApResend, ApRekey, ApSend,
           LinkLost, LinkDown, RadioOff, RadioOn, OtherSupplicant, Silently
  <1>1. \A c : Sent(c) <=> Sent(c)'
    BY <1>0 DEF Sent
  <1>2. \A t \in Events : Event(t) \in Messages /\ Event(t).type = t
    BY EventType DEF Event
  <1>3. ASSUME NEW p \in Seq(Messages), nlq' = nlq \o p,
               \A j \in DOMAIN p : p[j].type \notin {"ASSOCIATE", "CONNECT"},
               card'.failed = card.failed,
               \/ card'.link = card.link
               \/ card.link \in Associated /\ card'.link \in Associated
        PROVE  Connection'
    <2>1. /\ card.link \in Associated => card'.link \in Associated
          /\ card.link \in {"FOREIGN", "AUTHING", "ASSOCING"}
               => card'.link = card.link
      BY <1>3 DEF Associated
    <2> QED
      BY <1>0, <1>1, <1>3, <2>1, Undisturbed
  <1>4. ASSUME NEW t \in {"NEW_SCAN_RESULTS", "SCAN_ABORTED"},
               nlq' = Append(nlq, Event(t)), card'.link = card.link,
               card'.failed = card.failed
        PROVE  Connection'
    <2> DEFINE m == Event(t)
    <2>1. m \in Messages /\ m.type = t
      BY <1>2 DEF Events
    <2> HIDE DEF m
    <2>2. /\ nlq' = nlq \o << m >> /\ << m >> \in Seq(Messages)
          /\ DOMAIN << m >> = {1} /\ << m >>[1].type = t
      BY <1>0, <1>4, <2>1, OneMessage DEF m
    <2> DEFINE p == << m >>
    <2> HIDE DEF p
    <2> QED
      BY <1>3, <1>4, <2>2 DEF p
  <1>5. CASE ScanDone
    <2>1. card'.link = card.link /\ card'.failed = card.failed
      BY <1>0, <1>5 DEF ScanDone, Card
    <2> QED
      BY <1>4, <1>5, <2>1 DEF ScanDone
  <1>6. ASSUME nlq' = nlq, card'.failed = card.failed,
               \/ card'.link = card.link
               \/ card.link \in Associated /\ card'.link \in Associated
        PROVE  Connection'
    <2> DEFINE n == <<>>
    <2>1. nlq' = nlq \o n /\ n \in Seq(Messages) /\ DOMAIN n = {}
      BY <1>0, <1>6
    <2> HIDE DEF n
    <2> QED
      BY <1>3, <1>6, <2>1
  <1>7. CASE AuthDone
    <2> DEFINE m == Event("AUTHENTICATE")
    <2>1. m \in Messages /\ m.type = "AUTHENTICATE" /\ nlq' = Append(nlq, m)
            /\ card.link = "AUTHING"
      BY <1>2, <1>7 DEF AuthDone, Events
    <2> HIDE DEF m
    <2> DEFINE p == << m >>
    <2>2. /\ nlq' = nlq \o p /\ p \in Seq(Messages)
          /\ DOMAIN p = {1} /\ p[1].type = "AUTHENTICATE"
      BY <1>0, <2>1, OneMessage
    <2> HIDE DEF p
    <2>3. Moving(p)
      BY <2>2 DEF Moving, MovesAuth
    <2>4. card.link \notin Associated \cup {"FOREIGN"}
      BY <2>1 DEF Associated
    <2> QED
      BY <1>0, <1>1, <2>2, <2>3, <2>4, Answered
  <1>8. CASE AssocDone
    <2> DEFINE m == Event("ASSOCIATE")
               n == Event("CONNECT")
               f == Failed("ASSOCIATE")
               g == Failed("CONNECT")
    <2>1. /\ m \in Messages /\ m.type = "ASSOCIATE" /\ m.status = "OK"
          /\ n \in Messages /\ n.type = "CONNECT" /\ n.status = "OK"
          /\ f \in Messages /\ f.type = "ASSOCIATE" /\ f.status = "FAILED"
          /\ g \in Messages /\ g.type = "CONNECT" /\ g.status = "FAILED"
      <3>1. \A t \in Events : /\ Event(t).type = t /\ Event(t).status = "OK"
                             /\ Failed(t).type = t /\ Failed(t).status = "FAILED"
        BY DEF Event, Failed
      <3>2. m \in Messages /\ n \in Messages /\ f \in Messages /\ g \in Messages
        BY EventType DEF Events
      <3> QED
        BY <3>1, <3>2 DEF Events
    <2>2. card.link = "ASSOCING"
      BY <1>8 DEF AssocDone
    <2>3. \/ card'.link = "ASSOCED" /\ nlq' = nlq \o << m, n >>
          \/ card'.failed = "REFUSED" /\ nlq' = nlq \o << f, g >>
          \/ card'.failed = "TIMEDOUT" /\ nlq' = Append(nlq, f)
      BY <1>0, <1>8 DEF AssocDone, Card, Unlinked
    <2> HIDE DEF m, n, f, g
    <2>4. CASE card'.link = "ASSOCED" /\ nlq' = nlq \o << m, n >>
      <3> DEFINE p == << m, n >>
      <3>1. /\ p \in Seq(Messages) /\ DOMAIN p = {1, 2} /\ p[1] = m /\ p[2] = n
            /\ nlq' = nlq \o p
        BY <2>1, <2>4
      <3> HIDE DEF p
      <3>2. Paired(p)
        BY <2>1, <3>1 DEF Paired, At
      <3>3. Moving(p)
        BY <2>1, <3>1 DEF Moving, MovesAuth
      <3>4. Claims(p, card'.link, FALSE)
        BY <2>4 DEF Claims, Claim, Associated
      <3> QED
        BY <1>0, <1>1, <2>1, <2>2, <3>1, <3>2, <3>3, <3>4, Reported DEF Associated
    <2>5. CASE card'.failed = "REFUSED" /\ nlq' = nlq \o << f, g >>
      <3> DEFINE p == << f, g >>
      <3>1. /\ p \in Seq(Messages) /\ DOMAIN p = {1, 2} /\ p[1] = f /\ p[2] = g
            /\ nlq' = nlq \o p
        BY <2>1, <2>5
      <3> HIDE DEF p
      <3>2. Paired(p)
        BY <2>1, <3>1 DEF Paired, At
      <3>3. Moving(p) /\ Followed(p, 1) /\ Verdict(p[2]) = "REFUSED"
        BY <2>1, <3>1 DEF Moving, MovesAuth, Followed, Verdict
      <3>4. Claims(p, card'.link, FALSE)
        BY <2>1, <3>1 DEF Claims
      <3> QED
        BY <1>0, <1>1, <2>1, <2>2, <2>5, <3>1, <3>2, <3>3, <3>4, Reported
           DEF Associated
    <2>6. CASE card'.failed = "TIMEDOUT" /\ nlq' = Append(nlq, f)
      <3> DEFINE p == << f >>
      <3>1. /\ p \in Seq(Messages) /\ DOMAIN p = {1} /\ p[1] = f
            /\ nlq' = nlq \o p
        BY <1>0, <2>1, <2>6, OneMessage
      <3> HIDE DEF p
      <3>2. Paired(p)
        BY <2>1, <3>1 DEF Paired, At
      <3>3. Moving(p) /\ Verdict(p[1]) = "TIMEDOUT"
        BY <2>1, <3>1 DEF Moving, MovesAuth, Verdict
      <3>4. Claims(p, card'.link, FALSE)
        BY <2>1, <3>1 DEF Claims
      <3> QED
        BY <1>0, <1>1, <2>1, <2>2, <2>6, <3>1, <3>2, <3>3, <3>4, Reported
           DEF Associated
    <2> QED
      BY <2>3, <2>4, <2>5, <2>6
  <1>9. CASE ApMessage1 \/ ApMessage3 \/ ApResend \/ ApRekey
    <2>1. /\ nlq' = nlq /\ card.link \in Associated
          /\ card'.link \in Associated /\ card'.failed = card.failed
      BY <1>0, <1>9 DEF ApMessage1, ApMessage3, ApResend, ApRekey, ApSend,
                        Card, Associated
    <2> QED
      BY <1>6, <2>1
  <1>10. CASE LinkLost
    <2> DEFINE m == Event("DISCONNECT")
               p == << m >>
    <2>1. m \in Messages /\ m.type = "DISCONNECT" /\ nlq' = Append(nlq, m)
      BY <1>2, <1>10 DEF LinkLost, Events
    <2> HIDE DEF m
    <2>2. /\ nlq' = nlq \o p /\ p \in Seq(Messages)
          /\ DOMAIN p = {1} /\ p[1].type = "DISCONNECT"
      BY <1>0, <2>1, OneMessage
    <2> HIDE DEF p
    <2>3. Moving(p)
      BY <2>2 DEF Moving, MovesAuth
    <2> QED
      BY <1>0, <1>1, <2>2, <2>3, Answered
  <1>11. ASSUME NEW c \in Card, c.link = card.link, c.failed = card.failed,
                IfaceDown(c)
         PROVE  Connection'
    <2> DEFINE q1 == IF card.scanning THEN << Event("SCAN_ABORTED") >> ELSE <<>>
               m == Event("DISCONNECT")
               q2 == IF card.link # "NONE" THEN << m >> ELSE <<>>
               p == q1 \o q2
    <2>1. q1 \in Seq(Messages) /\ \A j \in DOMAIN q1 : q1[j].type = "SCAN_ABORTED"
      <3> DEFINE a == Event("SCAN_ABORTED")
                 n == <<>>
      <3>1. a \in Messages /\ a.type = "SCAN_ABORTED"
        BY <1>2 DEF Events
      <3>2. q1 = << a >> \/ q1 = n
        OBVIOUS
      <3> HIDE DEF a
      <3>3. /\ << a >> \in Seq(Messages) /\ DOMAIN << a >> = {1} /\ << a >>[1] = a
            /\ n \in Seq(Messages) /\ DOMAIN n = {}
        BY <3>1
      <3> HIDE DEF n, q1
      <3> QED
        BY <3>1, <3>2, <3>3
    <2>2. nlq' = (nlq \o q1) \o q2
      BY <1>11 DEF IfaceDown
    <2>3. m \in Messages /\ m.type = "DISCONNECT"
      BY <1>2 DEF Events
    <2> HIDE DEF q1, m
    <2>4. CASE card.link # "NONE"
      <3>1. q2 = << m >>
        BY <2>4
      <3> HIDE DEF q2
      <3>2. p \in Seq(Messages) /\ nlq' = nlq \o p
        BY <1>0, <2>1, <2>2, <2>3, <3>1
      <3>3. /\ DOMAIN q1 = 1 .. Len(q1) /\ Len(q1) \in Nat
            /\ DOMAIN p = 1 .. Len(q1) + 1
            /\ \A i \in DOMAIN q1 : p[i] = q1[i]
            /\ p[Len(q1) + 1] = m
        BY <2>1, <2>3, <3>1
      <3> HIDE DEF p
      <3>4. Len(q1) + 1 \in DOMAIN p /\ p[Len(q1) + 1].type = "DISCONNECT"
        BY <2>3, <3>3
      <3>5. \A j \in DOMAIN p : j \in DOMAIN q1 \/ j = Len(q1) + 1
        BY <3>3
      <3>6. \A j \in DOMAIN p : p[j].type \notin {"ASSOCIATE", "CONNECT"}
        BY <2>1, <3>3, <3>4, <3>5
      <3>7. Moving(p)
        BY <3>4 DEF Moving, MovesAuth
      <3> QED
        BY <1>0, <1>1, <3>2, <3>4, <3>6, <3>7, Answered
    <2>5. CASE card.link = "NONE"
      <3>1. nlq' = nlq \o q1
        <4> DEFINE n == <<>>
        <4>1. q2 = n
          BY <2>5
        <4>2. \A q \in Seq(Messages) : q \o n = q
          OBVIOUS
        <4>3. nlq \o q1 \in Seq(Messages)
          BY <1>0, <2>1
        <4> HIDE DEF n, q2
        <4> QED
          BY <2>2, <4>1, <4>2, <4>3
      <3>2. card'.link = "NONE" /\ card'.failed = card.failed
        BY <1>11 DEF IfaceDown, Unlinked, Card
      <3> QED
        BY <1>3, <2>1, <2>5, <3>1, <3>2
    <2> QED
      BY <2>4, <2>5
  <1>12. CASE LinkDown \/ RadioOff
    <2>1. /\ [card EXCEPT !.blocked = TRUE] \in Card
          /\ [card EXCEPT !.blocked = TRUE].link = card.link
          /\ [card EXCEPT !.blocked = TRUE].failed = card.failed
      BY <1>0 DEF Card
    <2> QED
      BY <1>0, <1>11, <1>12, <2>1 DEF LinkDown, RadioOff
  <1>13. CASE RadioOn
    <2>1. /\ nlq' = nlq /\ card'.link = card.link
          /\ card'.failed = card.failed
      BY <1>0, <1>13 DEF RadioOn, Card
    <2> QED
      BY <1>6, <2>1
  <1>14. CASE OtherSupplicant
    <2> DEFINE a == Event("AUTHENTICATE")
               m == Event("ASSOCIATE")
               n == Event("CONNECT")
               p == << a, m, n >>
    <2>1. /\ a \in Messages /\ a.type = "AUTHENTICATE"
          /\ m \in Messages /\ m.type = "ASSOCIATE"
          /\ n \in Messages /\ n.type = "CONNECT"
          /\ nlq' = nlq \o p
      BY <1>2, <1>14 DEF OtherSupplicant, Events
    <2>2. card.link = "NONE" /\ card'.link = "FOREIGN"
      BY <1>0, <1>14 DEF OtherSupplicant, Card
    <2>3. m.status = "OK" /\ n.status = "OK"
      BY DEF Event
    <2> HIDE DEF a, m, n
    <2>4. /\ p \in Seq(Messages) /\ DOMAIN p = {1, 2, 3}
          /\ p[1] = a /\ p[2] = m /\ p[3] = n
      BY <2>1
    <2> HIDE DEF p
    <2>5. Paired(p)
      BY <2>1, <2>4 DEF Paired, At
    <2>6. Moving(p)
      BY <2>1, <2>4 DEF Moving, MovesAuth
    <2>7. Heralded(p, 2) /\ Heralded(p, 3)
      BY <2>1, <2>4 DEF Heralded, At
    <2>8. Claims(p, card'.link, FALSE)
      BY <2>1, <2>2, <2>4, <2>7 DEF Claims, Claim
    <2> QED
      BY <1>0, <1>1, <2>1, <2>2, <2>3, <2>4, <2>5, <2>6, <2>8, Reported
         DEF Associated
  <1> QED
    BY <1>5, <1>7, <1>8, <1>9, <1>10, <1>12, <1>13, <1>14
       DEF AirStep, FaultStep

-----------------------------------------------------------------------------
(* main() enters the loop with nothing queued and no connection. *)
LEMMA InitConnection == Init => AuthInv
  <1> SUFFICES ASSUME Init PROVE AuthInv
    OBVIOUS
  <1> PICK cfg \in InitCfg, s \in InitState :
        /\ d = [Started(cfg, s) EXCEPT !.tx = <<>>, !.reseq = FALSE]
        /\ tx = Started(cfg, s).tx
    BY DEF Init
  <1> DEFINE e == Started(cfg, s)
  <1>1. e \in Daemon /\ Kept(Zeroed(cfg), e)
    BY EnvAssumption, StartedType, KeptStarted
  <1>2. Zeroed(cfg).authstate = "IDLE"
    BY DEF Zeroed
  <1> HIDE DEF e
  <1>3. d.authstate = e.authstate
    BY <1>1 DEF Daemon, e
  <1>4. \A k : SentIn(e, k) => Sent(k)
    BY DEF SentIn, Sent, e
  <1>5. d.authstate = "IDLE" \/ Asked(e)
    BY <1>1, <1>2, <1>3 DEF Kept, AuthKept
  <1>6. AuthAnswered /\ ConnectedIsReal
    BY <1>3, <1>4, <1>5 DEF AuthAnswered, ConnectedIsReal, Asked
  <1>7. DOMAIN nlq = {}
    <2>1. nlq = <<>>
      BY DEF Init
    <2> QED
      BY <2>1
  <1>8. Paired(nlq) /\ Claims(nlq, card.link, Contested)
    BY <1>7 DEF Paired, Claims
  <1>9. Sent("AUTHENTICATE") => d.authstate = "AUTHENTICATING"
    <2>1. Free(Zeroed(cfg))
      BY EmptyFree DEF Zeroed
    <2>2. MovedOnce(Zeroed(cfg), e)
      BY <1>1 DEF Kept, AuthKept
    <2>3. SentIn(e, "AUTHENTICATE") => e.authstate = "AUTHENTICATING"
      BY <2>1, <2>2 DEF MovedOnce, Free
    <2> QED
      BY <1>3, <2>3 DEF SentIn, Sent, e
  <1>10. Doubts
    BY <1>7, <1>9 DEF Doubts, Excuses, HeadConnect, At
  <1> QED
    BY <1>6, <1>8, <1>10, InitAnswered, InitType DEF AuthInv, ScanInv

(* The invariant is inductive, beside that of the scan machine. *)
LEMMA NextConnection ==
  ASSUME AuthInv, [Next]_vars
  PROVE  Connection'
  <1>1. d \in Daemon /\ d.tx = <<>> /\ card \in Card /\ rawq \in Seq(Frames)
          /\ rfq \in Seq(BOOLEAN) /\ nlq \in Seq(Messages)
    BY DEF AuthInv, Rested, TypeInv, TypeOK
  <1>2. CASE HandleNetlink
    BY <1>2, NetlinkConnection
  <1>3. CASE HandleRawsock
    <2> PICK ok \in BOOLEAN :
          /\ Becomes(handle_rawsock(d, Head(rawq), ok), card)
          /\ nlq' = Resequenced(nlq, handle_rawsock(d, Head(rawq), ok))
      BY <1>3 DEF HandleRawsock
    <2> DEFINE e == handle_rawsock(d, Head(rawq), ok)
    <2>1. Head(rawq) \in Frames /\ tx = <<>> /\ Free(d)
      BY <1>1, <1>3, EmptyFree DEF HandleRawsock, Alive
    <2>2. e \in Daemon /\ AuthKept(d, e) /\ Leaves(e, card, wait)
      BY <1>1, <2>1, HandleRawsockType, KeptRawsock DEF Becomes, Driven
    <2> HIDE DEF e
    <2> QED
      BY <1>1, <2>1, <2>2, OtherConnection DEF e
  <1>4. CASE HandleRfkill
    <2> DEFINE up == card.up \/ ~card.blocked
               e == rfkill_event(d, Head(rfq), up)
               c == IF Head(rfq) \/ ~up THEN card ELSE [card EXCEPT !.up = TRUE]
    <2>1. /\ Head(rfq) \in BOOLEAN /\ tx = <<>> /\ up \in BOOLEAN
          /\ Leaves(e, c, wait) /\ nlq' = Resequenced(nlq, e)
      BY <1>1, <1>4, HeadTailProperties DEF HandleRfkill, Alive, Becomes
    <2>2. c \in Card /\ c.link = card.link /\ c.failed = card.failed
      BY <1>1 DEF Card
    <2> HIDE DEF up, c
    <2>3. e \in Daemon /\ (AuthKept(d, e) \/ Woken(d, e))
      BY <1>1, <2>1, RfkillType, RfkillMoves
    <2> HIDE DEF e
    <2> QED
      BY <2>1, <2>2, <2>3, OtherConnection
  <1>5. CASE TimerExpired
    <2> DEFINE e == timer_expired(d)
    <2>1. e \in Daemon /\ (AuthKept(d, e) \/ Woken(d, e))
      BY <1>1, EmptyFree, TimerExpiredType, TimerMoves
    <2>2. /\ tx = <<>> /\ Leaves(e, card, wait) /\ nlq = <<>> /\ nlq' = nlq
      BY <1>5 DEF TimerExpired, Running, Alive, Becomes
    <2> HIDE DEF e
    <2>3. nlq' = Resequenced(nlq, e)
      <3>1. DOMAIN nlq = {}
        BY <2>2
      <3>2. [i \in DOMAIN nlq |-> [nlq[i] EXCEPT !.seq = "OTHER"]] = nlq
        BY <1>1, <3>1
      <3> QED
        BY <2>2, <3>2 DEF Resequenced
    <2> QED
      BY <1>1, <2>1, <2>2, <2>3, OtherConnection
  <1>6. CASE LeaveLoop
    <2>1. /\ d'.authstate = d.authstate /\ tx' = tx /\ nlq' = nlq /\ card' = card
      BY <1>1, <1>6 DEF LeaveLoop, Daemon
    <2> QED
      BY <2>1 DEF AuthInv, Connection, AuthAnswered, ConnectedIsReal, AuthMoving,
                  Sent, Contested, Doubts, Surprised, Disabled
  <1>7. CASE UserStep
    BY <1>7, UserConnection
  <1>8. CASE CardStep
    BY <1>8, CardConnection
  <1>9. CASE AirStep \/ FaultStep
    BY <1>9, AirConnection
  <1>10. CASE UNCHANGED vars
    BY <1>10 DEF vars, AuthInv, Connection, AuthAnswered, ConnectedIsReal,
                 AuthMoving, Sent, Contested, Doubts, Surprised, Disabled
  <1> QED
    BY <1>2, <1>3, <1>4, <1>5, <1>6, <1>7, <1>8, <1>9, <1>10
       DEF Next, DaemonStep

(* Both machines together, since Rested is shown with the scan machine. *)
LEMMA MachinesInvariant ==
  Spec => [](ScanInv /\ ScanClientHeard /\ AuthInv)
  <1>1. Init => ScanInv /\ ScanClientHeard /\ AuthInv
    <2>1. Init => ScanClientHeard
      BY DEF Init, ScanClientHeard
    <2> QED
      BY <2>1, InitAnswered, InitConnection
  <1>2. ScanInv /\ ScanClientHeard /\ AuthInv /\ [Next]_vars
          => (ScanInv /\ ScanClientHeard /\ AuthInv)'
    <2> SUFFICES ASSUME ScanInv, ScanClientHeard, AuthInv, [Next]_vars
                 PROVE  ScanInv' /\ ScanClientHeard' /\ AuthInv'
      OBVIOUS
    <2>1. ScanInv' /\ ScanClientHeard'
      BY NextAnswered
    <2>2. Connection'
      BY NextConnection
    <2> QED
      BY <2>1, <2>2 DEF AuthInv, ScanInv, Connection
  <1> QED
    BY <1>1, <1>2, PTL DEF Spec

(* The connection machine leaves its waiting states through messages only, *)
(* and DISCONNECTING has no timeout: whatever commands, errors and late    *)
(* events have done to authstate, what it waits for is in the card, in the *)
(* command stream or in the netlink queue.  There is one wait for nothing, *)
(* that of CONNECTING after an association that timed out, which           *)
(* cmd_associate does not tell from one that was made.                     *)
THEOREM ConnectionAnswered == Spec => []AuthAnswered
  <1>1. AuthInv => AuthAnswered
    BY DEF AuthInv
  <1> QED
    BY <1>1, MachinesInvariant, PTL

(* A daemon that reports a connection has one, or has the message that     *)
(* ends it in its queue, although cmd_connect believes any CONNECT, that   *)
(* of another supplicant and that of a link already lost included: unless  *)
(* the last association the card attempted was refused by its AP, which    *)
(* cmd_connect does not see.                                               *)
THEOREM ConnectedToSomething == Spec => []ConnectedIsReal
  <1>1. AuthInv => ConnectedIsReal
    BY DEF AuthInv
  <1> QED
    BY <1>1, MachinesInvariant, PTL

=============================================================================
