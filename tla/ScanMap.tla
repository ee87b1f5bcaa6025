------------------------------ MODULE ScanMap ------------------------------
(***************************************************************************)
(* What the scan table is to the rest of the daemon: what is known of each *)
(* station, for at most Room stations.  ApSelect and NlEvents work on a    *)
(* map like this one, without the limit.                                   *)
(***************************************************************************)
EXTENDS Naturals, FiniteSets

CONSTANTS BSSIDs, SSIDs, Freq, Room, Absent

VARIABLES known

Entries == [ssid : SSIDs, weak : BOOLEAN, seen : BOOLEAN, pass : BOOLEAN,
            stale : BOOLEAN]

Present == {b \in BSSIDs : known[b] # Absent}

Useless(e) == e.weak /\ e.stale /\ ~e.pass

New(s, w) == [ssid |-> s, weak |-> w, seen |-> FALSE, pass |-> FALSE,
              stale |-> FALSE]

Again(b, s, w) == [known[b] EXCEPT !.ssid = s, !.weak = w, !.stale = FALSE]

Init == known = [b \in BSSIDs |-> Absent]

Hear(b, s, w) ==
  \/ b \in Present /\ known' = [known EXCEPT ![b] = Again(b, s, w)]
  \/ /\ b \notin Present /\ Cardinality(Present) < Room
     /\ known' = [known EXCEPT ![b] = New(s, w)]
  \/ /\ b \notin Present /\ Cardinality(Present) = Room
     /\ \E c \in Present : /\ Useless(known[c])
                           /\ known' = [known EXCEPT ![c] = Absent,
                                                     ![b] = New(s, w)]

Age(fs) ==
  known' = [b \in BSSIDs |-> IF b \in Present /\ Freq[b] \in fs
                             THEN [known[b] EXCEPT !.stale = TRUE]
                             ELSE known[b]]

(* The stations that were not heard again go, new ones are judged by the   *)
(* keys there are.                                                         *)
Judged(e, keys) ==
  IF e.seen THEN e
  ELSE [e EXCEPT !.seen = TRUE, !.pass = @ \/ e.ssid \in keys]

Conclude(keys) ==
  known' = [b \in BSSIDs |->
              IF b \notin Present \/ known[b].stale THEN Absent
              ELSE Judged(known[b], keys)]

Learn(b) == b \in Present /\ known' = [known EXCEPT ![b].pass = TRUE]

Forget(s) ==
  known' = [b \in BSSIDs |-> IF b \in Present /\ known[b].ssid = s
                             THEN [known[b] EXCEPT !.pass = FALSE]
                             ELSE known[b]]

Next ==
  \/ \E b \in BSSIDs :
       Learn(b) \/ \E s \in SSIDs, w \in BOOLEAN : Hear(b, s, w)
  \/ \E fs \in SUBSET {Freq[b] : b \in BSSIDs} : Age(fs)
  \/ \E keys \in SUBSET SSIDs : Conclude(keys)
  \/ \E s \in SSIDs : Forget(s)

Spec == Init /\ [][Next]_known
=============================================================================
