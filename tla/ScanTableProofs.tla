-------------------------- MODULE ScanTableProofs --------------------------
(***************************************************************************)
(* Theorems about ScanTable, for tables of any size and any stations; at   *)
(* the end, that it implements ScanMap.                                    *)
(***************************************************************************)
EXTENDS ScanTable, TLAPS, FiniteSetTheorems, WellFoundedInduction

(* No lemma needs the entry that Lowest takes to be the first: a station   *)
(* has one entry, any free one is as good as another, and any useless one  *)
(* may go.                                                                 *)
IInv == TypeOK /\ NoTwins /\ Tight

USE TableAssumption, FreeAssumption DEF TableAssumption, FreeAssumption

-----------------------------------------------------------------------------
LEMMA LowestWithin ==
  ASSUME NEW S, NEW i \in Lowest(S)
  PROVE  i \in S
  BY DEF Lowest

(* A station's entry is found: there is no second one to hide it. *)
LEMMA Finds ==
  ASSUME IInv, NEW b, NEW i \in Index, scans[i] # Free, scans[i].bssid = b
  PROVE  find_scan_slot(b) = {i} /\ i \in 1..nscans
  <1>1. i \in 1..nscans
    BY DEF IInv, Tight, TypeOK, Index
  <1>2. 1..nscans \subseteq Index
    BY DEF IInv, TypeOK, Index
  <1>3. {j \in Live : scans[j].bssid = b} = {i}
    BY <1>1, <1>2 DEF Live, IInv, NoTwins
  <1> QED
    BY <1>1, <1>3 DEF find_scan_slot, Lowest, Index

(* What is found is the station's entry. *)
LEMMA Found ==
  ASSUME IInv, NEW b, NEW i \in find_scan_slot(b)
  PROVE  i \in Index /\ i \in 1..nscans /\ scans[i] # Free /\ scans[i].bssid = b
  BY LowestWithin DEF find_scan_slot, Live, IInv, TypeOK, Index

(* A slot is the station's own; or the station has none, and it lies below *)
(* the count or right behind it.                                           *)
LEMMA Grabbed ==
  ASSUME IInv, NEW b, NEW i \in grab_scan_slot(b)
  PROVE  /\ i \in Index
         /\ \/ i \in find_scan_slot(b)
            \/ /\ find_scan_slot(b) = {}
               /\ i \in 1..nscans \/ i = nscans + 1
               /\ i \in 1..nscans /\ scans[i] # Free => Useless(scans[i])
  <1>0. 1..nscans \subseteq Index /\ nscans \in Nat
    BY DEF IInv, TypeOK, Index
  <1>1. CASE find_scan_slot(b) # {}
    BY <1>1, Found DEF grab_scan_slot
  <1>2. CASE find_scan_slot(b) = {} /\ i \in grab_slot
    <2>1. i \in Unused \/ (i = nscans + 1 /\ nscans < NSCANS)
      BY <1>2, LowestWithin DEF grab_slot
    <2> QED
      BY <1>0, <1>2, <2>1 DEF Unused, Index
  <1>3. CASE find_scan_slot(b) = {} /\ i \in Sacrificed
    BY <1>0, <1>3, LowestWithin DEF Sacrificed, Live
  <1> QED
    BY <1>1, <1>2, <1>3 DEF grab_scan_slot

-----------------------------------------------------------------------------
(* What parse_scan_result writes is an entry of the station. *)
LEMMA StoredType ==
  ASSUME IInv, NEW b \in BSSIDs, NEW i \in grab_scan_slot(b),
         NEW s \in SSIDs, NEW w \in BOOLEAN
  PROVE  /\ Stored(b, i, s, w) \in Scan
         /\ Stored(b, i, s, w) # Free
         /\ Stored(b, i, s, w).bssid = b
         /\ ~Stored(b, i, s, w).stale
  <1>1. CASE i \in find_scan_slot(b)
    <2>1. scans[i] \in Scan /\ scans[i].bssid = b
      BY <1>1, Found DEF IInv, TypeOK
    <2> QED
      BY <1>1, <2>1 DEF Stored, Scan
  <1>2. CASE i \notin find_scan_slot(b)
    <2> DEFINE e == [bssid |-> b, ssid |-> s, weak |-> w,
                     seen |-> FALSE, pass |-> FALSE, stale |-> FALSE]
    <2>1. Stored(b, i, s, w) = e
      BY <1>2 DEF Stored
    <2>2. e \in Scan
      BY DEF Scan
    <2>3. e.bssid = b /\ ~e.stale
      OBVIOUS
    <2> QED
      BY <2>1, <2>2, <2>3
  <1> QED
    BY <1>1, <1>2

(* A table with one entry written is a table. *)
LEMMA StoreKeeps ==
  ASSUME IInv, NEW b \in BSSIDs, NEW s \in SSIDs, NEW w \in BOOLEAN,
         parse_scan_result(b, s, w),
         UNCHANGED <<scanstate, dumping, keys>>
  PROVE  IInv'
  <1>1. CASE UNCHANGED <<scans, nscans, stored>>
    BY <1>1 DEF IInv, TypeOK, NoTwins, Tight
  <1>2. ASSUME NEW i \in grab_scan_slot(b),
               scans' = [scans EXCEPT ![i] = Stored(b, i, s, w)],
               nscans' = Counted(i),
               stored' = IF scanstate = "SCANDUMP" THEN stored \cup {b} ELSE {}
        PROVE  IInv'
    <2> DEFINE e == Stored(b, i, s, w)
    <2>1. e \in Scan /\ e # Free /\ e.bssid = b
      BY StoredType
    <2>2. /\ i \in Index
          /\ \/ i \in find_scan_slot(b)
             \/ find_scan_slot(b) = {} /\ (i \in 1..nscans \/ i = nscans + 1)
      BY Grabbed
    <2>3. i \in 1..nscans \/ i = nscans + 1
      BY <2>2, Found
    <2>4. scans \in [Index -> Scan \cup {Free}] /\ nscans \in 0..NSCANS
      BY DEF IInv, TypeOK
    <2>5. /\ scans' \in [Index -> Scan \cup {Free}]
          /\ scans'[i] = e
          /\ \A j \in Index \ {i} : scans'[j] = scans[j]
      BY <1>2, <2>1, <2>2, <2>4
    <2>6. nscans' \in 0..NSCANS /\ i <= nscans' /\ nscans <= nscans'
           /\ (nscans' = nscans \/ nscans' = i)
      BY <1>2, <2>2, <2>3, <2>4 DEF Counted, Index
    <2>7. TypeOK'
      BY <1>2, <2>5, <2>6 DEF IInv, TypeOK
    <2>8. NoTwins'
      <3>1. ASSUME NEW j \in Index \ {i}, scans[j] # Free, scans[j].bssid = b
            PROVE  FALSE
        BY <2>2, <3>1, Finds
      <3> QED
        BY <2>1, <2>5, <3>1 DEF IInv, NoTwins
    <2>9. Tight'
      <3>1. ASSUME NEW j \in Index, j > nscans'
            PROVE  scans'[j] = Free
        <4>1. j # i /\ j > nscans
          BY <2>4, <2>6, <3>1 DEF Index
        <4> QED
          BY <2>5, <4>1 DEF IInv, Tight
      <3>2. nscans' > 0 => scans'[nscans'] # Free
        BY <2>1, <2>4, <2>5, <2>6 DEF IInv, Tight, Index
      <3> QED
        BY <3>1, <3>2 DEF Tight
    <2> QED
      BY <2>7, <2>8, <2>9 DEF IInv
  <1> QED
    BY <1>1, <1>2 DEF parse_scan_result

(* Flags may change, stations stay where they are. *)
LEMMA FlagsKeep ==
  ASSUME IInv, nscans' = nscans, scans' \in [Index -> Scan \cup {Free}],
         \A i \in Index : /\ scans'[i] = Free <=> scans[i] = Free
                          /\ scans[i] # Free => scans'[i].bssid = scans[i].bssid,
         scanstate' \in {"IDLE", "SCANNING", "SCANDUMP"}, dumping' \in BOOLEAN,
         keys' \in SUBSET SSIDs, stored' \in SUBSET BSSIDs
  PROVE  IInv'
  <1>1. TypeOK'
    BY DEF IInv, TypeOK
  <1>2. NoTwins'
    BY DEF IInv, NoTwins
  <1>3. Tight'
    BY DEF IInv, TypeOK, Tight, Index
  <1> QED
    BY <1>1, <1>2, <1>3 DEF IInv

(* What judging does to an entry. *)
LEMMA JudgedType ==
  ASSUME NEW e \in Scan \cup {Free}
  PROVE  /\ Judged(e) \in Scan \cup {Free}
         /\ Judged(e) # Free <=> e # Free /\ ~e.stale
         /\ Judged(e) # Free => Judged(e).bssid = e.bssid
  <1>1. CASE e = Free \/ e.stale \/ e.seen
    BY <1>1 DEF Judged, Scan
  <1>2. CASE e # Free /\ ~e.stale /\ ~e.seen
    <2> DEFINE f == [e EXCEPT !.seen = TRUE, !.pass = @ \/ e.ssid \in keys]
    <2>1. Judged(e) = f
      BY <1>2 DEF Judged
    <2>2. f \in Scan /\ f.bssid = e.bssid
      BY <1>2 DEF Scan
    <2> QED
      BY <1>2, <2>1, <2>2
  <1> QED
    BY <1>1, <1>2

(* The end of a dump: where an entry is judged, it is freed if stale.      *)
LEMMA JudgedTable ==
  ASSUME IInv, drop_and_check
  PROVE  /\ scans' \in [Index -> Scan \cup {Free}]
         /\ \A i \in Index :
              /\ scans'[i] # Free <=> scans[i] # Free /\ ~scans[i].stale
              /\ scans'[i] # Free => scans'[i].bssid = scans[i].bssid
         /\ nscans' \in 0..nscans
         /\ \A i \in Index : i > nscans' => scans'[i] = Free
         /\ nscans' > 0 => scans'[nscans'] # Free
  <1>1. /\ scans \in [Index -> Scan \cup {Free}] /\ nscans \in 0..NSCANS
        /\ \A i \in Index : i > nscans => scans[i] = Free
        /\ nscans > 0 => scans[nscans] # Free
    BY DEF IInv, TypeOK, Tight
  <1>2. ASSUME NEW i \in Index
        PROVE  /\ scans'[i] = Judged(scans[i])
               /\ scans'[i] \in Scan \cup {Free}
               /\ scans'[i] # Free <=> scans[i] # Free /\ ~scans[i].stale
               /\ scans'[i] # Free => scans'[i].bssid = scans[i].bssid
    <2>1. i > nscans => Judged(scans[i]) = scans[i]
      BY <1>1 DEF Judged
    <2>2. scans'[i] = Judged(scans[i])
      BY <1>1, <2>1 DEF drop_and_check, Index
    <2>3. scans[i] \in Scan \cup {Free}
      BY <1>1
    <2> QED
      BY <2>2, <2>3, JudgedType
  <1>3. scans' \in [Index -> Scan \cup {Free}]
    BY <1>2 DEF drop_and_check
  <1>4. CASE AnyStale
    <2>1. PICK n \in 0..nscans : Shrunk(scans', n) /\ nscans' = n
      BY <1>4 DEF drop_and_check
    <2>2. ASSUME NEW i \in Index, i > nscans'
          PROVE  scans'[i] = Free
      <3>1. CASE i \in (n + 1)..nscans
        BY <2>1, <3>1 DEF Shrunk
      <3>2. CASE i > nscans
        BY <1>1, <1>2, <3>2
      <3> QED
        BY <1>1, <2>1, <2>2, <3>1, <3>2 DEF Index
    <2> QED
      BY <1>2, <1>3, <2>1, <2>2 DEF Shrunk
  <1>5. CASE ~AnyStale
    <2>1. nscans' = nscans
      BY <1>5 DEF drop_and_check
    <2>2. ASSUME NEW i \in Index
          PROVE  scans'[i] # Free <=> scans[i] # Free
      <3>1. scans[i] # Free => i \in Live
        BY <1>1 DEF Live, Index
      <3> QED
        BY <1>2, <1>5, <3>1 DEF AnyStale
    <2> QED
      BY <1>1, <1>2, <1>3, <2>1, <2>2 DEF Index
  <1> QED
    BY <1>4, <1>5

LEMMA DoneKeeps ==
  ASSUME IInv, Done
  PROVE  IInv'
  <1>1. CASE scanstate = "SCANDUMP"
    <2>1. /\ drop_and_check /\ scanstate' = "IDLE" /\ dumping' = FALSE
          /\ stored' = {} /\ keys' = keys
      BY <1>1 DEF Done
    <2>2. TypeOK'
      <3>1. scans' \in [Index -> Scan \cup {Free}] /\ nscans' \in 0..nscans
        BY <2>1, JudgedTable
      <3>2. nscans' \in 0..NSCANS
        BY <3>1 DEF IInv, TypeOK
      <3>3. keys' \in SUBSET SSIDs /\ stored' \in SUBSET BSSIDs
        BY <2>1 DEF IInv, TypeOK
      <3> QED
        BY <2>1, <3>1, <3>2, <3>3 DEF TypeOK
    <2>3. NoTwins'
      BY <2>1, JudgedTable DEF IInv, NoTwins
    <2>4. Tight'
      BY <2>1, JudgedTable DEF Tight
    <2> QED
      BY <2>2, <2>3, <2>4 DEF IInv
  <1>2. CASE scanstate # "SCANDUMP"
    BY <1>2 DEF Done, IInv, TypeOK, NoTwins, Tight
  <1> QED
    BY <1>1, <1>2

(* TRIGGER_SCAN, a saved key and a forgotten one change flags.             *)
LEMMA FlagSteps ==
  ASSUME IInv,
         \/ \E fs \in SUBSET Freqs : TriggerScan(fs)
         \/ \E b \in BSSIDs : \E s \in NamesOf[b] : Connected(b, s)
         \/ \E s \in SSIDs : Forget(s)
  PROVE  IInv'
  <1>0. scans \in [Index -> Scan \cup {Free}] /\ Free \notin Scan
    BY DEF IInv, TypeOK
  <1>1. ASSUME NEW fs \in SUBSET Freqs, TriggerScan(fs)
        PROVE  IInv'
    <2>1. CASE scans' = scans
      BY <1>1, <2>1, FlagsKeep DEF TriggerScan, IInv, TypeOK
    <2>2. CASE Marks
      <3> DEFINE f(i) == IF i \in Live /\ Freq[scans[i].bssid] \in fs
                         THEN [scans[i] EXCEPT !.stale = TRUE] ELSE scans[i]
      <3>1. scans' = [i \in Index |-> f(i)]
        BY <1>1, <2>2 DEF TriggerScan
      <3>2. ASSUME NEW i \in Index
            PROVE  /\ f(i) \in Scan \cup {Free}
                   /\ f(i) = Free <=> scans[i] = Free
                   /\ scans[i] # Free => f(i).bssid = scans[i].bssid
        <4>1. CASE i \in Live
          <5>1. scans[i] \in Scan
            BY <1>0, <4>1 DEF Live
          <5>2. /\ [scans[i] EXCEPT !.stale = TRUE] \in Scan
                /\ [scans[i] EXCEPT !.stale = TRUE].bssid = scans[i].bssid
            BY <5>1 DEF Scan
          <5> QED
            BY <1>0, <5>1, <5>2
        <4>2. CASE i \notin Live
          BY <1>0, <4>2
        <4> QED
          BY <4>1, <4>2
      <3> HIDE DEF f
      <3> QED
        BY <1>1, <3>1, <3>2, FlagsKeep DEF TriggerScan, IInv, TypeOK
    <2> QED
      BY <1>1, <2>1, <2>2 DEF TriggerScan
  <1>2. ASSUME NEW b \in BSSIDs, NEW s \in NamesOf[b], Connected(b, s)
        PROVE  IInv'
    <2> DEFINE f(i) == IF i \in find_scan_slot(b) /\ scans[i].ssid = s
                       THEN [scans[i] EXCEPT !.pass = TRUE] ELSE scans[i]
    <2>1. scans' = [i \in Index |-> f(i)]
      BY <1>2 DEF Connected
    <2>2. ASSUME NEW i \in Index
          PROVE  /\ f(i) \in Scan \cup {Free}
                 /\ f(i) = Free <=> scans[i] = Free
                 /\ scans[i] # Free => f(i).bssid = scans[i].bssid
      <3>1. CASE i \in find_scan_slot(b)
        <4>1. scans[i] \in Scan
          BY <1>0, <3>1, Found
        <4>2. /\ [scans[i] EXCEPT !.pass = TRUE] \in Scan
              /\ [scans[i] EXCEPT !.pass = TRUE].bssid = scans[i].bssid
          BY <4>1 DEF Scan
        <4> QED
          BY <1>0, <4>1, <4>2
      <3>2. CASE i \notin find_scan_slot(b)
        BY <1>0, <3>2
      <3> QED
        BY <3>1, <3>2
    <2>3. keys' \in SUBSET SSIDs
      BY <1>2 DEF Connected, IInv, TypeOK
    <2>4. /\ nscans' = nscans /\ scanstate' = scanstate /\ dumping' = dumping
          /\ stored' = stored
      BY <1>2 DEF Connected
    <2> HIDE DEF f
    <2>5. scans' \in [Index -> Scan \cup {Free}]
      BY <2>1, <2>2
    <2> QED
      BY <2>1, <2>2, <2>3, <2>4, <2>5, FlagsKeep DEF IInv, TypeOK
  <1>3. ASSUME NEW s \in SSIDs, Forget(s)
        PROVE  IInv'
    <2> DEFINE f(i) == IF i \in Live /\ scans[i].ssid = s
                       THEN [scans[i] EXCEPT !.pass = FALSE] ELSE scans[i]
    <2>1. scans' = [i \in Index |-> f(i)]
      BY <1>3 DEF Forget
    <2>2. ASSUME NEW i \in Index
          PROVE  /\ f(i) \in Scan \cup {Free}
                 /\ f(i) = Free <=> scans[i] = Free
                 /\ scans[i] # Free => f(i).bssid = scans[i].bssid
      <3>1. CASE i \in Live
        <4>1. scans[i] \in Scan
          BY <1>0, <3>1 DEF Live
        <4>2. /\ [scans[i] EXCEPT !.pass = FALSE] \in Scan
              /\ [scans[i] EXCEPT !.pass = FALSE].bssid = scans[i].bssid
          BY <4>1 DEF Scan
        <4> QED
          BY <1>0, <4>1, <4>2
      <3>2. CASE i \notin Live
        BY <1>0, <3>2
      <3> QED
        BY <3>1, <3>2
    <2>3. keys' \in SUBSET SSIDs
      BY <1>3 DEF Forget, IInv, TypeOK
    <2>4. /\ nscans' = nscans /\ scanstate' = scanstate /\ dumping' = dumping
          /\ stored' = stored
      BY <1>3 DEF Forget
    <2> HIDE DEF f
    <2>5. scans' \in [Index -> Scan \cup {Free}]
      BY <2>1, <2>2
    <2> QED
      BY <2>1, <2>2, <2>3, <2>4, <2>5, FlagsKeep DEF IInv, TypeOK
  <1> QED
    BY <1>1, <1>2, <1>3

LEMMA NextKeeps ==
  ASSUME IInv, [Next]_vars
  PROVE  IInv'
  <1>1. ASSUME UNCHANGED <<scans, nscans>>
        PROVE  NoTwins' /\ Tight'
    BY <1>1 DEF IInv, NoTwins, Tight
  <1>2. CASE StartScan
    BY <1>1, <1>2 DEF StartScan, IInv, TypeOK
  <1>3. CASE Reset
    BY <1>1, <1>3 DEF Reset, IInv, TypeOK
  <1>4. CASE ScanResults
    BY <1>1, <1>4 DEF ScanResults, IInv, TypeOK
  <1>5. CASE UNCHANGED vars
    BY <1>1, <1>5 DEF vars, IInv, TypeOK
  <1>6. ASSUME NEW b \in BSSIDs, NEW s \in NamesOf[b], NEW w \in BOOLEAN,
               Multi(b, s, w)
        PROVE  IInv'
    <2>1. s \in SSIDs
      OBVIOUS
    <2> QED
      BY <1>6, <2>1, StoreKeeps DEF Multi
  <1> QED
    BY <1>2, <1>3, <1>4, <1>5, <1>6, DoneKeeps, FlagSteps DEF Next

LEMMA InitIInv ==
  ASSUME Init
  PROVE  IInv
  <1>1. scans = [i \in Index |-> Free] /\ nscans = 0
    BY DEF Init
  <1>2. TypeOK
    <2>1. scans \in [Index -> Scan \cup {Free}] /\ nscans \in 0..NSCANS
      BY <1>1
    <2> QED
      BY <2>1 DEF Init, TypeOK
  <1>3. NoTwins /\ Tight
    BY <1>1 DEF NoTwins, Tight
  <1> QED
    BY <1>2, <1>3 DEF IInv

LEMMA Invariant == Spec => []IInv
  <1>1. Init => IInv
    BY InitIInv
  <1>2. IInv /\ [Next]_vars => IInv'
    BY NextKeeps
  <1> QED
    BY <1>1, <1>2, PTL DEF Spec

(* Every entry is a station's or free, the count stays within the table    *)
(* and a dump stores stations: grab_slot and free_slot never reach beyond. *)
THEOREM TypeCorrect == Spec => []TypeOK
  <1>1. IInv => TypeOK
    BY DEF IInv
  <1> QED
    BY <1>1, Invariant, PTL

(* grab_scan_slot never makes a second entry of a station, wherever it     *)
(* finds a free one.                                                       *)
THEOREM OneEntryEach == Spec => []NoTwins
  <1>1. IInv => NoTwins
    BY DEF IInv
  <1> QED
    BY <1>1, Invariant, PTL

(* nscans is the place of the last entry in use: free_slot takes back what *)
(* grab_slot has counted, in whatever order entries are freed.             *)
THEOREM CountIsTight == Spec => []Tight
  <1>1. IInv => Tight
    BY DEF IInv
  <1> QED
    BY <1>1, Invariant, PTL

-----------------------------------------------------------------------------
(* What the dump of this scan has stored is in the table and not stale,    *)
(* and outside of a dump nothing counts as stored.                         *)
Fresh(b) == \E i \in 1..nscans :
              scans[i] # Free /\ scans[i].bssid = b /\ ~scans[i].stale

Heard == /\ scanstate # "SCANDUMP" => stored = {}
         /\ \A b \in stored : Fresh(b)

(* A station stored by the dump is fresh, and takes the place of none that *)
(* is.                                                                     *)
LEMMA StoreFresh ==
  ASSUME IInv, NEW b \in BSSIDs, NEW s \in SSIDs, NEW w \in BOOLEAN,
         NEW i \in grab_scan_slot(b),
         scans' = [scans EXCEPT ![i] = Stored(b, i, s, w)],
         nscans' = Counted(i)
  PROVE  /\ Fresh(b)'
         /\ \A c \in BSSIDs : Fresh(c) => Fresh(c)'
  <1>1. /\ Stored(b, i, s, w) # Free /\ Stored(b, i, s, w).bssid = b
        /\ ~Stored(b, i, s, w).stale
    BY StoredType
  <1>2. i \in Index /\ i \in 1..nscans' /\ nscans <= nscans' /\ nscans \in Nat
        /\ 1..nscans \subseteq Index /\ nscans' \in Nat
    BY Grabbed, Found DEF Counted, Index, IInv, TypeOK
  <1>3. scans'[i] = Stored(b, i, s, w) /\ \A j \in Index \ {i} : scans'[j] = scans[j]
    BY <1>2 DEF IInv, TypeOK
  <1>4. Fresh(b)'
    BY <1>1, <1>2, <1>3 DEF Fresh
  <1>5. ASSUME NEW c \in BSSIDs, Fresh(c)
        PROVE  Fresh(c)'
    <2>1. PICK j \in 1..nscans :
             scans[j] # Free /\ scans[j].bssid = c /\ ~scans[j].stale
      BY <1>5 DEF Fresh
    <2>2. CASE j # i
      BY <1>2, <1>3, <2>1, <2>2 DEF Fresh
    <2>3. CASE j = i
      <3>1. i \in find_scan_slot(b)
        BY <2>1, <2>3, Grabbed DEF Useless
      <3>2. c = b
        BY <2>1, <2>3, <3>1, Found
      <3> QED
        BY <1>4, <3>2
    <2> QED
      BY <2>2, <2>3
  <1> QED
    BY <1>4, <1>5

(* The step of the dump keeps both facts, and its end keeps the stations.  *)
LEMMA HeardStep ==
  ASSUME IInv, Heard, [Next]_vars
  PROVE  /\ Heard'
         /\ scanstate = "SCANDUMP" =>
              \A b \in stored : \E i \in 1..nscans' :
                scans'[i] # Free /\ scans'[i].bssid = b
  <1>0. stored \subseteq BSSIDs
    BY DEF IInv, TypeOK
  <1>1. SUFFICES /\ scanstate' # "SCANDUMP" => stored' = {}
                 /\ \A b \in stored' : Fresh(b)'
                 /\ scanstate = "SCANDUMP" =>
                      \A b \in stored : \E i \in 1..nscans' :
                        scans'[i] # Free /\ scans'[i].bssid = b
    BY DEF Heard
  <1>2. CASE UNCHANGED <<scans, nscans>>
             /\ (stored' = {} \/ UNCHANGED <<scanstate, stored>>)
             /\ (stored' = {} \/ stored' = stored)
    BY <1>2 DEF Heard, Fresh
  <1>3. StartScan \/ Reset \/ ScanResults \/ UNCHANGED vars
          => /\ UNCHANGED <<scans, nscans>>
             /\ (stored' = {} \/ UNCHANGED <<scanstate, stored>>)
             /\ (stored' = {} \/ stored' = stored)
    BY DEF StartScan, Reset, ScanResults, vars, Heard
  <1>4. ASSUME NEW b \in BSSIDs, NEW s \in NamesOf[b], NEW w \in BOOLEAN,
               Multi(b, s, w)
        PROVE  /\ scanstate' # "SCANDUMP" => stored' = {}
               /\ \A c \in stored' : Fresh(c)'
               /\ scanstate = "SCANDUMP" =>
                    \A c \in stored : \E i \in 1..nscans' :
                      scans'[i] # Free /\ scans'[i].bssid = c
    <2>1. CASE UNCHANGED <<scans, nscans, stored>>
      BY <1>4, <2>1 DEF Multi, Heard, Fresh
    <2>2. ASSUME NEW i \in grab_scan_slot(b),
                 scans' = [scans EXCEPT ![i] = Stored(b, i, s, w)],
                 nscans' = Counted(i),
                 stored' = IF scanstate = "SCANDUMP" THEN stored \cup {b} ELSE {}
          PROVE  /\ scanstate' # "SCANDUMP" => stored' = {}
                 /\ \A c \in stored' : Fresh(c)'
                 /\ scanstate = "SCANDUMP" =>
                      \A c \in stored : \E j \in 1..nscans' :
                        scans'[j] # Free /\ scans'[j].bssid = c
      <3>1. Fresh(b)' /\ \A c \in BSSIDs : Fresh(c) => Fresh(c)'
        BY <2>2, StoreFresh
      <3>2. \A c \in stored : Fresh(c)'
        BY <1>0, <3>1 DEF Heard
      <3> QED
        BY <1>4, <2>2, <3>1, <3>2 DEF Multi, Fresh
    <2> QED
      BY <1>4, <2>1, <2>2 DEF Multi, parse_scan_result
  <1>5. ASSUME Done
        PROVE  /\ stored' = {}
               /\ scanstate = "SCANDUMP" =>
                    \A c \in stored : \E i \in 1..nscans' :
                      scans'[i] # Free /\ scans'[i].bssid = c
    <2>1. CASE scanstate = "SCANDUMP"
      <3>1. drop_and_check
        BY <1>5, <2>1 DEF Done
      <3>2. ASSUME NEW c \in stored
            PROVE  \E i \in 1..nscans' : scans'[i] # Free /\ scans'[i].bssid = c
        <4>1. PICK i \in 1..nscans :
                 scans[i] # Free /\ scans[i].bssid = c /\ ~scans[i].stale
          BY DEF Heard, Fresh
        <4>2. i \in Index /\ nscans \in Nat
          BY DEF IInv, TypeOK, Index
        <4>3. scans'[i] # Free /\ scans'[i].bssid = c
          BY <3>1, <4>1, <4>2, JudgedTable
        <4>4. i \in 1..nscans'
          BY <3>1, <4>2, <4>3, JudgedTable DEF Index
        <4> QED
          BY <4>3, <4>4
      <3> QED
        BY <1>5, <3>2 DEF Done
    <2> QED
      BY <1>5, <2>1 DEF Done
  <1>6. ASSUME \/ \E fs \in SUBSET Freqs : TriggerScan(fs)
               \/ \E b \in BSSIDs : \E s \in NamesOf[b] : Connected(b, s)
               \/ \E s \in SSIDs : Forget(s)
        PROVE  /\ UNCHANGED <<nscans, scanstate, stored>>
               /\ stored # {} =>
                    \A i \in Index :
                      scans[i] # Free => /\ scans'[i] # Free
                                         /\ scans'[i].bssid = scans[i].bssid
                                         /\ scans'[i].stale = scans[i].stale
    <2>0. scans \in [Index -> Scan \cup {Free}] /\ Free \notin Scan
      BY DEF IInv, TypeOK
    <2>1. ASSUME NEW fs \in SUBSET Freqs, TriggerScan(fs)
          PROVE  /\ UNCHANGED <<nscans, scanstate, stored>>
                 /\ stored # {} => scans' = scans
      BY <2>1 DEF TriggerScan, Heard, Marks
    <2>2. ASSUME NEW e \in Scan, NEW p \in BOOLEAN
          PROVE  /\ [e EXCEPT !.pass = p] \in Scan
                 /\ [e EXCEPT !.pass = p].bssid = e.bssid
                 /\ [e EXCEPT !.pass = p].stale = e.stale
      BY DEF Scan
    <2>3. ASSUME NEW b \in BSSIDs, NEW s \in NamesOf[b], Connected(b, s),
                 NEW i \in Index, scans[i] # Free
          PROVE  /\ scans'[i] # Free
                 /\ scans'[i].bssid = scans[i].bssid
                 /\ scans'[i].stale = scans[i].stale
      <3>1. scans[i] \in Scan
        BY <2>0, <2>3
      <3> DEFINE f == [scans[i] EXCEPT !.pass = TRUE]
      <3>2. scans'[i] = f \/ scans'[i] = scans[i]
        BY <2>3 DEF Connected
      <3>3. f \in Scan /\ f.bssid = scans[i].bssid /\ f.stale = scans[i].stale
        BY <2>2, <3>1
      <3> HIDE DEF f
      <3> QED
        BY <2>0, <2>3, <3>1, <3>2, <3>3
    <2>4. ASSUME NEW s \in SSIDs, Forget(s), NEW i \in Index, scans[i] # Free
          PROVE  /\ scans'[i] # Free
                 /\ scans'[i].bssid = scans[i].bssid
                 /\ scans'[i].stale = scans[i].stale
      <3>1. scans[i] \in Scan
        BY <2>0, <2>4
      <3> DEFINE f == [scans[i] EXCEPT !.pass = FALSE]
      <3>2. scans'[i] = f \/ scans'[i] = scans[i]
        BY <2>4 DEF Forget
      <3>3. f \in Scan /\ f.bssid = scans[i].bssid /\ f.stale = scans[i].stale
        BY <2>2, <3>1
      <3> HIDE DEF f
      <3> QED
        BY <2>0, <2>4, <3>1, <3>2, <3>3
    <2>5. (\E b \in BSSIDs : \E s \in NamesOf[b] : Connected(b, s))
            \/ (\E s \in SSIDs : Forget(s))
            => UNCHANGED <<nscans, scanstate, stored>>
      BY DEF Connected, Forget
    <2> QED
      BY <1>6, <2>1, <2>3, <2>4, <2>5
  <1>7. 1..nscans \subseteq Index
    BY DEF IInv, TypeOK, Index
  <1>8. CASE \/ \E fs \in SUBSET Freqs : TriggerScan(fs)
             \/ \E b \in BSSIDs : \E s \in NamesOf[b] : Connected(b, s)
             \/ \E s \in SSIDs : Forget(s)
    BY <1>6, <1>7, <1>8 DEF Heard, Fresh
  <1> QED
    BY <1>2, <1>3, <1>4, <1>5, <1>8 DEF Next

(* A station that the dump of a scan has stored is in the table after      *)
(* every step up to the end of the dump and the end itself, though entries  *)
(* give way to others and other programs scan meanwhile.                   *)
THEOREM HeardStationsStay == Spec => HeardStays
  <1>1. Init => Heard
    BY DEF Init, Heard
  <1>2. IInv /\ Heard /\ [Next]_vars => Heard'
    BY HeardStep
  <1>3. IInv /\ Heard /\ [Next]_vars
          => [scanstate = "SCANDUMP" =>
                \A b \in stored : \E i \in 1..nscans' :
                  scans'[i] # Free /\ scans'[i].bssid = b]_vars
    BY HeardStep
  <1> QED
    BY <1>1, <1>2, <1>3, Invariant, PTL DEF Spec, HeardStays

-----------------------------------------------------------------------------
(* The map of ScanMap: the stations that have an entry, and what it says. *)
Used == {i \in Index : scans[i] # Free}
Here == {b \in BSSIDs : \E i \in Used : scans[i].bssid = b}

-----------------------------------------------------------------------------
LEMMA EntryType ==
  ASSUME IInv, NEW i \in Used
  PROVE  /\ scans[i] \in Scan /\ scans[i].bssid \in BSSIDs
         /\ Entry(i) \in Facts /\ Entry(i) # Free
  <1>1. scans[i] \in Scan
    BY DEF Used, IInv, TypeOK
  <1>2. Entry(i) \in Facts
    BY <1>1 DEF Entry, Scan, Facts
  <1> QED
    BY <1>1, <1>2 DEF Scan

(* The map has the entries of the table. *)
Shows == /\ Known = [b \in BSSIDs |-> Known[b]]
         /\ \A i \in Used : Known[scans[i].bssid] = Entry(i)
         /\ \A b \in BSSIDs \ Here : Known[b] = Free

LEMMA KnownShows == IInv => Shows
  <1>1. SUFFICES ASSUME IInv
                 PROVE  Shows
    OBVIOUS
  <1>2. ASSUME NEW i \in Used
        PROVE  Known[scans[i].bssid] = Entry(i)
    <2>1. find_scan_slot(scans[i].bssid) = {i}
      BY <1>1, <1>2, Finds DEF Used
    <2> QED
      BY <1>1, <2>1, EntryType DEF Known
  <1>3. ASSUME NEW b \in BSSIDs \ Here
        PROVE  Known[b] = Free
    <2>1. find_scan_slot(b) = {}
      BY <1>1, <1>3, Found DEF Here, Used
    <2> QED
      BY <2>1 DEF Known
  <1>4. Known = [b \in BSSIDs |-> Known[b]]
    BY DEF Known
  <1> QED
    BY <1>2, <1>3, <1>4 DEF Shows

LEMMA PresentIsHere ==
  ASSUME IInv
  PROVE  Map!Present = Here
  <1>1. ASSUME NEW b \in Here
        PROVE  Known[b] # Free
    BY <1>1, KnownShows, EntryType DEF Shows, Here
  <1>2. ASSUME NEW b \in BSSIDs \ Here
        PROVE  Known[b] = Free
    BY <1>2, KnownShows DEF Shows
  <1> QED
    BY <1>1, <1>2 DEF Map!Present, Here

(* There are as many stations as used entries. *)
LEMMA Counts ==
  ASSUME IInv
  PROVE  /\ IsFiniteSet(Index) /\ Cardinality(Index) = NSCANS
         /\ IsFiniteSet(Used) /\ Cardinality(Here) = Cardinality(Used)
  <1>1. IsFiniteSet(Index) /\ Cardinality(Index) = NSCANS
    BY FS_Interval, NSCANS \in Int, 1 \in Int DEF Index
  <1>2. IsFiniteSet(Used)
    BY <1>1, FS_Subset DEF Used
  <1>3. IsFiniteSet(Here)
    BY FS_Subset DEF Here
  <1> DEFINE f == [i \in Used |-> scans[i].bssid]
  <1>4. f \in Injection(Used, Here)
    <2>1. f \in [Used -> Here]
      BY EntryType DEF Here
    <2>2. \A i, j \in Used : f[i] = f[j] => i = j
      BY DEF Used, IInv, NoTwins
    <2> QED
      BY <2>1, <2>2 DEF Injection, IsInjective
  <1>5. f \in Surjection(Used, Here)
    BY <1>4 DEF Surjection, Injection, Here
  <1>6. Cardinality(Used) = Cardinality(Here)
    <2> HIDE DEF f
    <2> QED
      BY <1>3, <1>4, <1>5, FS_Injection
  <1> QED
    BY <1>1, <1>2, <1>6

(* The map counts as the table does. *)
LEMMA SameCount ==
  ASSUME NEW S
  PROVE  Map!Cardinality(S) = Cardinality(S)
  BY DEF Map!Cardinality, Cardinality

(* A set of entries has a first one. *)
LEMMA HasLowest ==
  ASSUME NEW S, S \subseteq Nat, S # {}
  PROVE  Lowest(S) # {}
  <1>1. PICK i \in S : \A j \in S : ~ (<<j, i>> \in OpToRel(<, Nat))
    BY NatLessThanWellFounded, WFMin
  <1>2. ASSUME NEW j \in S
        PROVE  i <= j
    <2>1. i \in Nat /\ j \in Nat
      OBVIOUS
    <2>2. j < i => <<j, i>> \in {ss \in Nat \X Nat : ss[1] < ss[2]}
      BY <2>1
    <2>3. ~(j < i)
      BY <1>1, <2>2 DEF OpToRel
    <2> QED
      BY <2>1, <2>3
  <1> QED
    BY <1>2 DEF Lowest

(* An entry is given up only when there is no free one. *)
LEMMA GivenUpWhenFull ==
  ASSUME IInv, NEW b \in BSSIDs, NEW i \in grab_scan_slot(b),
         i \notin find_scan_slot(b)
  PROVE  IF i \in Used THEN Used = Index ELSE Used # Index
  <1>0. /\ 1..nscans \subseteq Index /\ nscans \in 0..NSCANS
        /\ \A j \in Index : j > nscans => scans[j] = Free
    BY DEF IInv, TypeOK, Tight, Index
  <1>1. find_scan_slot(b) = {} /\ i \in Index
    BY Grabbed
  <1>2. CASE i \in grab_slot
    BY <1>0, <1>1, <1>2, LowestWithin DEF grab_slot, Unused, Used, Index
  <1>3. CASE grab_slot = {}
    <2>1. Unused = {}
      <3>1. Unused \subseteq Nat
        BY <1>0 DEF Unused
      <3>2. Unused # {} => Lowest(Unused) # {}
        BY <3>1, HasLowest
      <3> QED
        BY <1>3, <3>2 DEF grab_slot
    <2>2. nscans = NSCANS
      BY <1>0, <1>3, <2>1 DEF grab_slot
    <2>3. Used = Index
      BY <2>1, <2>2 DEF Used, Unused, Index
    <2> QED
      BY <1>1, <2>3
  <1>4. i \in grab_slot \/ grab_slot = {}
    BY <1>1 DEF grab_scan_slot
  <1> QED
    BY <1>2, <1>3, <1>4

-----------------------------------------------------------------------------
LEMMA ShowsBoth == IInv /\ IInv' => Shows /\ Shows'
  BY KnownShows, PTL

LEMMA UsedIsLive ==
  ASSUME IInv
  PROVE  Live = Used
  BY DEF Live, Used, IInv, TypeOK, Tight, Index

(* Two descriptions of the same map. *)
LEMMA SameMap ==
  ASSUME IInv, IInv', NEW g, g = [b \in BSSIDs |-> g[b]],
         \A b \in BSSIDs : Known'[b] = g[b]
  PROVE  Known' = g
  <1>1. Known' = [b \in BSSIDs |-> Known'[b]]
    BY ShowsBoth DEF Shows
  <1> QED
    BY <1>1

LEMMA Stays ==
  ASSUME IInv, UNCHANGED <<scans, nscans>>
  PROVE  Known' = Known
  BY DEF Known, Entry, find_scan_slot, Live, Lowest

(* Where an entry keeps its place and its station, the map changes with it. *)
LEMMA InPlace ==
  ASSUME IInv, IInv', Used' = Used,
         \A i \in Used : scans'[i].bssid = scans[i].bssid
  PROVE  /\ Here' = Here
         /\ \A b \in Here : \E i \in Used :
              /\ scans[i].bssid = b
              /\ Known[b] = Entry(i) /\ Known'[b] = Entry(i)'
         /\ \A b \in BSSIDs \ Here : Known[b] = Free /\ Known'[b] = Free
  <1>1. Here' = Here
    BY DEF Here
  <1>2. Shows /\ Shows'
    BY ShowsBoth
  <1>3. ASSUME NEW b \in Here
        PROVE  \E i \in Used : /\ scans[i].bssid = b
                               /\ Known[b] = Entry(i) /\ Known'[b] = Entry(i)'
    <2>1. PICK i \in Used : scans[i].bssid = b
      BY DEF Here
    <2>2. scans'[i].bssid = b /\ i \in Used'
      BY <2>1
    <2> QED
      BY <1>2, <2>1, <2>2 DEF Shows
  <1> QED
    BY <1>1, <1>2, <1>3 DEF Shows

-----------------------------------------------------------------------------
LEMMA TriggerScanAges ==
  ASSUME IInv, IInv', NEW fs \in SUBSET Freqs, TriggerScan(fs)
  PROVE  Map!Next \/ Known' = Known
  <1>1. CASE scans' = scans
    BY <1>1, Stays DEF TriggerScan
  <1>2. CASE Marks
    <2>1. ASSUME NEW i \in Index
          PROVE  scans'[i] = IF i \in Used /\ Freq[scans[i].bssid] \in fs
                             THEN [scans[i] EXCEPT !.stale = TRUE] ELSE scans[i]
      BY <1>2, UsedIsLive DEF TriggerScan
    <2>2. ASSUME NEW i \in Used
          PROVE  /\ scans'[i] # Free /\ scans'[i].bssid = scans[i].bssid
                 /\ Entry(i)' = IF Freq[scans[i].bssid] \in fs
                                THEN [Entry(i) EXCEPT !.stale = TRUE] ELSE Entry(i)
      <3>1. scans[i] \in Scan /\ i \in Index /\ scans[i] # Free
        BY EntryType DEF Used
      <3>2. CASE Freq[scans[i].bssid] \in fs
        <4> DEFINE e == [scans[i] EXCEPT !.stale = TRUE]
        <4>1. scans'[i] = e
          BY <2>1, <3>1, <3>2
        <4>2. /\ e \in Scan /\ e.bssid = scans[i].bssid /\ e.ssid = scans[i].ssid
              /\ e.weak = scans[i].weak /\ e.seen = scans[i].seen
              /\ e.pass = scans[i].pass /\ e.stale = TRUE
          BY <3>1 DEF Scan
        <4> HIDE DEF e
        <4> QED
          BY <3>1, <3>2, <4>1, <4>2 DEF Entry
      <3>3. CASE Freq[scans[i].bssid] \notin fs
        BY <2>1, <3>1, <3>3 DEF Entry
      <3> QED
        BY <3>2, <3>3
    <2>3. Used' = Used
      BY <2>1, <2>2 DEF Used
    <2> DEFINE g == [b \in BSSIDs |-> IF b \in Map!Present /\ Freq[b] \in fs
                                      THEN [Known[b] EXCEPT !.stale = TRUE]
                                      ELSE Known[b]]
    <2>4. ASSUME NEW b \in BSSIDs
          PROVE  Known'[b] = g[b]
      <3>1. CASE b \in Here
        <4>1. PICK i \in Used : /\ scans[i].bssid = b
                                /\ Known[b] = Entry(i) /\ Known'[b] = Entry(i)'
          BY <2>2, <2>3, <3>1, InPlace
        <4> QED
          BY <2>2, <3>1, <4>1, PresentIsHere
      <3>2. CASE b \notin Here
        BY <2>2, <2>3, <3>2, InPlace, PresentIsHere
      <3> QED
        BY <3>1, <3>2
    <2>5. Known' = g
      BY <2>4, SameMap
    <2>6. Map!Age(fs)
      BY <2>5 DEF Map!Age
    <2> QED
      BY <2>6 DEF Map!Next, Freqs
  <1> QED
    BY <1>1, <1>2 DEF TriggerScan

LEMMA WithPass ==
  ASSUME NEW e \in Facts, NEW p \in BOOLEAN
  PROVE  [e EXCEPT !.pass = p]
           = [ssid |-> e.ssid, weak |-> e.weak, seen |-> e.seen, pass |-> p,
              stale |-> e.stale]
  BY DEF Facts

LEMMA ConnectedLearns ==
  ASSUME IInv, IInv', NEW b \in BSSIDs, NEW s \in SSIDs, Connected(b, s)
  PROVE  Map!Next \/ Known' = Known
  <1>1. CASE \E i \in find_scan_slot(b) : scans[i].ssid = s
    <2>1. PICK i \in find_scan_slot(b) : scans[i].ssid = s
      BY <1>1
    <2>2. i \in Used /\ i \in Index /\ scans[i].bssid = b /\ scans[i] \in Scan
      BY Found, EntryType DEF Used
    <2>3. find_scan_slot(b) = {i}
      BY <2>2, Finds DEF Used
    <2> DEFINE e == [scans[i] EXCEPT !.pass = TRUE]
    <2>4. scans' = [j \in Index |-> IF j = i THEN e ELSE scans[j]]
      BY <2>1, <2>3 DEF Connected
    <2>5. /\ e \in Scan /\ e.bssid = scans[i].bssid /\ e.ssid = scans[i].ssid
          /\ e.weak = scans[i].weak /\ e.seen = scans[i].seen
          /\ e.pass = TRUE /\ e.stale = scans[i].stale
      BY <2>2 DEF Scan
    <2> HIDE DEF e
    <2>6. Entry(i)' = [Entry(i) EXCEPT !.pass = TRUE]
      <3>1. scans'[i] = e
        BY <2>2, <2>4
      <3>2. Entry(i)' = [ssid |-> e.ssid, weak |-> e.weak, seen |-> e.seen,
                         pass |-> e.pass, stale |-> e.stale]
        BY <3>1 DEF Entry
      <3>3. /\ Entry(i) \in Facts
            /\ Entry(i).ssid = scans[i].ssid /\ Entry(i).weak = scans[i].weak
            /\ Entry(i).seen = scans[i].seen /\ Entry(i).stale = scans[i].stale
        BY <2>2, EntryType DEF Entry
      <3>4. Entry(i)' = [ssid |-> scans[i].ssid, weak |-> scans[i].weak,
                         seen |-> scans[i].seen, pass |-> TRUE,
                         stale |-> scans[i].stale]
        BY <2>5, <3>2
      <3>5. [Entry(i) EXCEPT !.pass = TRUE]
              = [ssid |-> scans[i].ssid, weak |-> scans[i].weak,
                 seen |-> scans[i].seen, pass |-> TRUE,
                 stale |-> scans[i].stale]
        BY <3>3, WithPass
      <3> QED
        BY <3>4, <3>5
    <2>7. \A j \in Index \ {i} : scans'[j] = scans[j] /\ Entry(j)' = Entry(j)
      BY <2>4 DEF Entry
    <2>8. Used' = Used /\ \A j \in Used : scans'[j].bssid = scans[j].bssid
      BY <2>2, <2>4, <2>5, <2>7 DEF Used
    <2> DEFINE g == [Known EXCEPT ![b] = [Known[b] EXCEPT !.pass = TRUE]]
    <2>9. Known = [c \in BSSIDs |-> Known[c]] /\ Known[b] = Entry(i)
      BY <2>2, KnownShows DEF Shows
    <2>10. ASSUME NEW c \in BSSIDs
           PROVE  Known'[c] = g[c]
      <3>1. CASE c \in Here
        <4>1. PICK j \in Used : /\ scans[j].bssid = c
                                /\ Known[c] = Entry(j) /\ Known'[c] = Entry(j)'
          BY <2>8, <3>1, InPlace
        <4>2. CASE c = b
          <5>1. j = i
            BY <2>2, <4>1, <4>2 DEF Used, IInv, NoTwins
          <5> QED
            BY <2>6, <2>9, <4>1, <4>2, <5>1
        <4>3. CASE c # b
          <5>1. j # i /\ j \in Index
            BY <2>2, <4>1, <4>3 DEF Used
          <5> QED
            BY <2>7, <2>9, <4>1, <4>3, <5>1
        <4> QED
          BY <4>2, <4>3
      <3>2. CASE c \notin Here
        <4>1. c # b
          BY <2>2, <3>2 DEF Here
        <4> QED
          BY <2>8, <2>9, <3>2, <4>1, InPlace
      <3> QED
        BY <3>1, <3>2
    <2>11. g = [c \in BSSIDs |-> g[c]]
      BY <2>9
    <2>12. Known' = g
      <3> HIDE DEF g
      <3> QED
        BY <2>10, <2>11, SameMap
    <2>13. b \in Map!Present
      BY <2>2, PresentIsHere DEF Here
    <2>14. Map!Learn(b)
      BY <2>12, <2>13 DEF Map!Learn
    <2> QED
      BY <2>14 DEF Map!Next
  <1>2. CASE ~\E i \in find_scan_slot(b) : scans[i].ssid = s
    <2>1. scans \in [Index -> Scan \cup {Free}]
      BY DEF IInv, TypeOK
    <2>2. scans' = scans
      BY <1>2, <2>1 DEF Connected
    <2> QED
      BY <2>2, Stays DEF Connected
  <1> QED
    BY <1>1, <1>2

LEMMA ForgetForgets ==
  ASSUME IInv, IInv', NEW s \in SSIDs, Forget(s)
  PROVE  Map!Next
  <1>1. ASSUME NEW i \in Index
        PROVE  scans'[i] = IF i \in Used /\ scans[i].ssid = s
                           THEN [scans[i] EXCEPT !.pass = FALSE] ELSE scans[i]
    BY UsedIsLive DEF Forget
  <1>2. ASSUME NEW i \in Used
        PROVE  /\ scans'[i] # Free /\ scans'[i].bssid = scans[i].bssid
               /\ Entry(i)' = IF Entry(i).ssid = s
                              THEN [Entry(i) EXCEPT !.pass = FALSE] ELSE Entry(i)
    <2>1. /\ scans[i] \in Scan /\ i \in Index /\ scans[i] # Free
          /\ Entry(i).ssid = scans[i].ssid
      BY EntryType DEF Used, Entry
    <2>2. CASE scans[i].ssid = s
      <3> DEFINE e == [scans[i] EXCEPT !.pass = FALSE]
      <3>1. scans'[i] = e
        BY <1>1, <2>1, <2>2
      <3>2. /\ e \in Scan /\ e.bssid = scans[i].bssid /\ e.ssid = scans[i].ssid
            /\ e.weak = scans[i].weak /\ e.seen = scans[i].seen
            /\ e.pass = FALSE /\ e.stale = scans[i].stale
        BY <2>1 DEF Scan
      <3> HIDE DEF e
      <3> QED
        BY <2>1, <2>2, <3>1, <3>2 DEF Entry
    <2>3. CASE scans[i].ssid # s
      BY <1>1, <2>1, <2>3 DEF Entry
    <2> QED
      BY <2>2, <2>3
  <1>3. Used' = Used
    BY <1>1, <1>2 DEF Used
  <1> DEFINE g == [b \in BSSIDs |-> IF b \in Map!Present /\ Known[b].ssid = s
                                    THEN [Known[b] EXCEPT !.pass = FALSE]
                                    ELSE Known[b]]
  <1>4. ASSUME NEW b \in BSSIDs
        PROVE  Known'[b] = g[b]
    <2>1. CASE b \in Here
      <3>1. PICK i \in Used : /\ scans[i].bssid = b
                              /\ Known[b] = Entry(i) /\ Known'[b] = Entry(i)'
        BY <1>2, <1>3, <2>1, InPlace
      <3> QED
        BY <1>2, <2>1, <3>1, PresentIsHere
    <2>2. CASE b \notin Here
      BY <1>2, <1>3, <2>2, InPlace, PresentIsHere
    <2> QED
      BY <2>1, <2>2
  <1>5. Known' = g
    BY <1>4, SameMap
  <1>6. Map!Forget(s)
    BY <1>5 DEF Map!Forget
  <1> QED
    BY <1>6 DEF Map!Next

(* The end of a dump. *)
LEMMA DoneConcludes ==
  ASSUME IInv, IInv', Done
  PROVE  Map!Next \/ Known' = Known
  <1>1. CASE scanstate # "SCANDUMP"
    BY <1>1, Stays DEF Done
  <1>2. CASE scanstate = "SCANDUMP"
    <2>1. drop_and_check /\ keys' = keys
      BY <1>2 DEF Done
    <2>2. /\ scans' \in [Index -> Scan \cup {Free}]
          /\ \A i \in Index :
               /\ scans'[i] # Free <=> scans[i] # Free /\ ~scans[i].stale
               /\ scans'[i] # Free => scans'[i].bssid = scans[i].bssid
      BY <2>1, JudgedTable
    <2>3. ASSUME NEW i \in Used
          PROVE  IF scans[i].stale THEN i \notin Used'
                 ELSE i \in Used' /\ Entry(i)' = Map!Judged(Entry(i), keys)
      <3>1. /\ scans[i] \in Scan /\ i \in Index /\ scans[i] # Free
            /\ i \in 1..nscans
        BY EntryType, UsedIsLive DEF Used, Live
      <3>2. scans'[i] = Judged(scans[i])
        BY <2>1, <3>1 DEF drop_and_check
      <3>3. CASE scans[i].stale
        BY <2>2, <3>1, <3>3 DEF Used
      <3>4. CASE ~scans[i].stale /\ scans[i].seen
        <4>1. scans'[i] = scans[i]
          BY <3>1, <3>2, <3>4 DEF Judged
        <4> QED
          BY <3>1, <3>4, <4>1 DEF Used, Entry, Map!Judged
      <3>5. CASE ~scans[i].stale /\ ~scans[i].seen
        <4> DEFINE e == [scans[i] EXCEPT !.seen = TRUE,
                                         !.pass = @ \/ scans[i].ssid \in keys]
        <4>1. scans'[i] = e
          BY <3>1, <3>2, <3>5 DEF Judged
        <4>2. /\ e \in Scan /\ e.ssid = scans[i].ssid /\ e.weak = scans[i].weak
              /\ e.seen = TRUE /\ e.stale = scans[i].stale
              /\ e.pass = (scans[i].pass \/ scans[i].ssid \in keys)
          BY <3>1 DEF Scan
        <4>3. i \in Used'
          BY <2>2, <3>1, <3>5 DEF Used
        <4>4. Entry(i)' = [ssid |-> e.ssid, weak |-> e.weak, seen |-> e.seen,
                           pass |-> e.pass, stale |-> e.stale]
          BY <4>1 DEF Entry
        <4> HIDE DEF e
        <4>5. Map!Judged(Entry(i), keys) =
                [Entry(i) EXCEPT !.seen = TRUE,
                                 !.pass = @ \/ Entry(i).ssid \in keys]
          BY <3>5 DEF Map!Judged, Entry
        <4>6. Entry(i)' = Map!Judged(Entry(i), keys)
          <5> DEFINE n == Entry(i)
                     m == [n EXCEPT !.seen = TRUE,
                                    !.pass = @ \/ n.ssid \in keys]
          <5>1. n = [ssid |-> scans[i].ssid, weak |-> scans[i].weak,
                     seen |-> scans[i].seen, pass |-> scans[i].pass,
                     stale |-> scans[i].stale]
            BY DEF Entry
          <5> HIDE DEF n
          <5>2. m = [ssid |-> scans[i].ssid, weak |-> scans[i].weak, seen |-> TRUE,
                     pass |-> scans[i].pass \/ scans[i].ssid \in keys,
                     stale |-> scans[i].stale]
            <6>1. n.ssid = scans[i].ssid /\ n.pass = scans[i].pass
              BY <5>1
            <6>2. m = [n EXCEPT !.seen = TRUE,
                                !.pass = scans[i].pass \/ scans[i].ssid \in keys]
              BY <6>1
            <6> DEFINE p == scans[i].pass \/ scans[i].ssid \in keys
            <6> HIDE DEF p, m
            <6>3. m = [n EXCEPT !.seen = TRUE, !.pass = p]
              BY <6>2 DEF p
            <6>4. m = [ssid |-> scans[i].ssid, weak |-> scans[i].weak,
                       seen |-> TRUE, pass |-> p, stale |-> scans[i].stale]
              BY <5>1, <6>3
            <6> QED
              BY <6>4 DEF p
          <5> HIDE DEF m
          <5> QED
            BY <4>2, <4>4, <4>5, <5>2 DEF m, n
        <4> QED
          BY <3>5, <4>3, <4>6
      <3> QED
        BY <3>3, <3>4, <3>5
    <2>4. ASSUME NEW i \in Used'
          PROVE  i \in Used /\ scans'[i].bssid = scans[i].bssid
      BY <2>2 DEF Used
    <2>5. Shows /\ Shows'
      BY ShowsBoth
    <2> DEFINE g == [b \in BSSIDs |-> IF b \notin Map!Present \/ Known[b].stale
                                      THEN Free ELSE Map!Judged(Known[b], keys)]
    <2>6. ASSUME NEW b \in BSSIDs
          PROVE  Known'[b] = g[b]
      <3>1. CASE b \in Here
        <4>1. PICK i \in Used : scans[i].bssid = b
          BY <3>1 DEF Here
        <4>2. Known[b] = Entry(i) /\ Entry(i).stale = scans[i].stale
          BY <2>5, <4>1 DEF Shows, Entry
        <4>3. CASE scans[i].stale
          <5>1. b \notin Here'
            <6>1. ASSUME NEW j \in Used', scans'[j].bssid = b
                  PROVE  FALSE
              <7>1. j \in Used /\ scans[j].bssid = b
                BY <2>4, <6>1
              <7>2. j = i
                BY <4>1, <7>1 DEF Used, IInv, NoTwins
              <7> QED
                BY <2>3, <4>3, <7>2
            <6> QED
              BY <6>1 DEF Here
          <5>2. Known'[b] = Free
            BY <2>5, <5>1 DEF Shows
          <5> QED
            BY <4>2, <4>3, <5>2
        <4>4. CASE ~scans[i].stale
          <5>1. i \in Used' /\ Entry(i)' = Map!Judged(Entry(i), keys)
            BY <2>3, <4>4
          <5>2. Known'[b] = Entry(i)'
            BY <2>4, <2>5, <4>1, <5>1 DEF Shows
          <5>3. b \in Map!Present
            BY <3>1, PresentIsHere
          <5> QED
            BY <4>2, <4>4, <5>1, <5>2, <5>3
        <4> QED
          BY <4>3, <4>4
      <3>2. CASE b \notin Here
        <4>1. b \notin Here'
          BY <2>4, <3>2 DEF Here
        <4> QED
          BY <2>5, <3>2, <4>1, PresentIsHere DEF Shows
      <3> QED
        BY <3>1, <3>2
    <2>7. Known' = g
      BY <2>6, SameMap
    <2>8. Map!Conclude(keys)
      BY <2>7 DEF Map!Conclude
    <2> QED
      BY <2>8 DEF Map!Next, IInv, TypeOK
  <1> QED
    BY <1>1, <1>2

LEMMA Rewritten ==
  ASSUME NEW e \in Facts, NEW s \in SSIDs, NEW w \in BOOLEAN, NEW o \in BOOLEAN
  PROVE  [e EXCEPT !.ssid = s, !.weak = w, !.stale = o]
           = [ssid |-> s, weak |-> w, seen |-> e.seen, pass |-> e.pass,
              stale |-> o]
  <1> DEFINE f == [e EXCEPT !.ssid = s, !.weak = w, !.stale = o]
  <1>1. /\ f \in Facts /\ f.ssid = s /\ f.weak = w /\ f.seen = e.seen
        /\ f.pass = e.pass /\ f.stale = o
    BY DEF Facts
  <1> HIDE DEF f
  <1>2. f = [ssid |-> f.ssid, weak |-> f.weak, seen |-> f.seen,
             pass |-> f.pass, stale |-> f.stale]
    BY <1>1 DEF Facts
  <1>3. f = [ssid |-> s, weak |-> w, seen |-> e.seen, pass |-> e.pass,
             stale |-> o]
    BY <1>1, <1>2
  <1> QED
    BY <1>3 DEF f

(* A station that has an entry. *)
LEMMA HearsAgain ==
  ASSUME IInv, IInv', NEW b \in BSSIDs, NEW s \in SSIDs, NEW w \in BOOLEAN,
         NEW i \in find_scan_slot(b),
         scans' = [scans EXCEPT ![i] = Stored(b, i, s, w)]
  PROVE  Map!Next
  <1> DEFINE e == [scans[i] EXCEPT !.ssid = s, !.weak = w, !.stale = FALSE]
  <1>1. /\ i \in Used /\ i \in Index /\ scans[i].bssid = b /\ scans[i] \in Scan
        /\ scans \in [Index -> Scan \cup {Free}]
    BY Found, EntryType DEF Used, IInv, TypeOK
  <1>2. /\ scans'[i] = e
        /\ \A j \in Index \ {i} : scans'[j] = scans[j] /\ Entry(j)' = Entry(j)
    BY <1>1 DEF Stored, Entry
  <1>3. /\ e \in Scan /\ e.bssid = b /\ e.ssid = s /\ e.weak = w
        /\ e.seen = scans[i].seen /\ e.pass = scans[i].pass /\ e.stale = FALSE
    BY <1>1 DEF Scan
  <1> HIDE DEF e
  <1>4. Entry(i)' = [ssid |-> s, weak |-> w, seen |-> scans[i].seen,
                     pass |-> scans[i].pass, stale |-> FALSE]
    BY <1>2, <1>3 DEF Entry
  <1>5. Known = [c \in BSSIDs |-> Known[c]] /\ Known[b] = Entry(i)
    BY <1>1, KnownShows DEF Shows
  <1>6. /\ Known[b] \in Facts
        /\ Known[b].seen = scans[i].seen /\ Known[b].pass = scans[i].pass
    BY <1>1, <1>5, EntryType DEF Entry
  <1>7. Map!Again(b, s, w)
          = [ssid |-> s, weak |-> w, seen |-> Known[b].seen,
             pass |-> Known[b].pass, stale |-> FALSE]
    BY <1>6, Rewritten DEF Map!Again
  <1>8. Entry(i)' = Map!Again(b, s, w)
    BY <1>4, <1>6, <1>7
  <1>9. Used' = Used /\ \A j \in Used : scans'[j].bssid = scans[j].bssid
    BY <1>1, <1>2, <1>3 DEF Used
  <1> DEFINE g == [Known EXCEPT ![b] = Map!Again(b, s, w)]
  <1>10. ASSUME NEW c \in BSSIDs
         PROVE  Known'[c] = g[c]
    <2>1. CASE c \in Here
      <3>1. PICK j \in Used : /\ scans[j].bssid = c
                              /\ Known[c] = Entry(j) /\ Known'[c] = Entry(j)'
        BY <1>9, <2>1, InPlace
      <3>2. j \in Index /\ (j = i <=> c = b)
        BY <1>1, <3>1 DEF Used, IInv, NoTwins
      <3> QED
        BY <1>2, <1>5, <1>8, <3>1, <3>2
    <2>2. CASE c \notin Here
      <3>1. c # b
        BY <1>1, <2>2 DEF Here
      <3> QED
        BY <1>5, <1>9, <2>2, <3>1, InPlace
    <2> QED
      BY <2>1, <2>2
  <1>11. g = [c \in BSSIDs |-> g[c]]
    BY <1>5
  <1>12. Known' = g
    <2> HIDE DEF g
    <2> QED
      BY <1>10, <1>11, SameMap
  <1>13. b \in Map!Present
    BY <1>1, PresentIsHere DEF Here
  <1>14. Map!Hear(b, s, w)
    BY <1>12, <1>13 DEF Map!Hear
  <1> QED
    BY <1>14 DEF Map!Next

(* A station that has none takes a free entry while there is one, and the  *)
(* entry of a station nobody needs when all are in use.                    *)
LEMMA HearsNew ==
  ASSUME IInv, IInv', NEW b \in BSSIDs, NEW s \in SSIDs, NEW w \in BOOLEAN,
         NEW i \in grab_scan_slot(b), i \notin find_scan_slot(b),
         scans' = [scans EXCEPT ![i] = Stored(b, i, s, w)]
  PROVE  Map!Next
  <1>1. /\ i \in Index /\ find_scan_slot(b) = {}
        /\ scans \in [Index -> Scan \cup {Free}]
    BY Grabbed DEF IInv, TypeOK
  <1>2. b \notin Here
    <2>1. ASSUME NEW j \in Used, scans[j].bssid = b
          PROVE  FALSE
      BY <1>1, <2>1, Finds DEF Used
    <2> QED
      BY <2>1 DEF Here
  <1> DEFINE e == Stored(b, i, s, w)
  <1>3. /\ scans'[i] = e
        /\ \A j \in Index \ {i} : scans'[j] = scans[j] /\ Entry(j)' = Entry(j)
    BY <1>1 DEF Entry
  <1>4. e \in Scan /\ e # Free /\ e.bssid = b
    BY StoredType
  <1>5. Entry(i)' = Map!New(s, w)
    <2>1. /\ e.ssid = s /\ e.weak = w
          /\ e.seen = FALSE /\ e.pass = FALSE /\ e.stale = FALSE
      BY DEF Stored
    <2> HIDE DEF e
    <2>2. Entry(i)' = [ssid |-> e.ssid, weak |-> e.weak, seen |-> e.seen,
                       pass |-> e.pass, stale |-> e.stale]
      BY <1>3 DEF Entry
    <2> QED
      BY <2>1, <2>2 DEF Map!New
  <1> HIDE DEF e
  <1>6. Used' = Used \cup {i} /\ \A j \in Used \ {i} : scans'[j] = scans[j]
    BY <1>1, <1>3, <1>4 DEF Used
  <1>7. Shows /\ Shows'
    BY ShowsBoth
  <1>8. Known'[b] = Map!New(s, w)
    BY <1>3, <1>4, <1>5, <1>6, <1>7 DEF Shows
  <1>9. ASSUME NEW c \in BSSIDs, c # b, \A j \in Used : scans[j].bssid = c => j # i
        PROVE  Known'[c] = Known[c]
    <2>1. CASE c \in Here
      <3>1. PICK j \in Used : scans[j].bssid = c
        BY <2>1 DEF Here
      <3>2. j # i /\ j \in Used' /\ scans'[j].bssid = c /\ j \in Index
        BY <1>6, <1>9, <3>1 DEF Used
      <3>3. Known[c] = Entry(j) /\ Known'[c] = Entry(j)'
        BY <1>7, <3>1, <3>2 DEF Shows
      <3> QED
        BY <1>3, <3>2, <3>3
    <2>2. CASE c \notin Here
      <3>1. c \notin Here'
        BY <1>3, <1>4, <1>6, <1>9, <2>2 DEF Here
      <3> QED
        BY <1>7, <2>2, <3>1 DEF Shows
    <2> QED
      BY <2>1, <2>2
  <1>10. b \notin Map!Present
    BY <1>2, PresentIsHere
  <1>11. Known = [c \in BSSIDs |-> Known[c]]
    BY <1>7 DEF Shows
  <1>12. CASE i \notin Used
    <2> DEFINE g == [Known EXCEPT ![b] = Map!New(s, w)]
    <2>1. \A c \in BSSIDs : Known'[c] = g[c]
      BY <1>8, <1>9, <1>11, <1>12
    <2>2. g = [c \in BSSIDs |-> g[c]]
      BY <1>11
    <2>3. Known' = g
      <3> HIDE DEF g
      <3> QED
        BY <2>1, <2>2, SameMap
    <2>4. Cardinality(Map!Present) < NSCANS
      <3>1. Used # Index /\ Used \subseteq Index
        BY <1>12, GivenUpWhenFull DEF Used
      <3>2. Cardinality(Used) <= NSCANS /\ Cardinality(Used) # NSCANS
        BY <3>1, Counts, FS_Subset
      <3>3. Cardinality(Used) \in Nat
        BY Counts, FS_CardinalityType
      <3> QED
        BY <3>2, <3>3, Counts, PresentIsHere
    <2>5. Map!Hear(b, s, w)
      BY <1>10, <2>3, <2>4, SameCount DEF Map!Hear
    <2> QED
      BY <2>5 DEF Map!Next
  <1>13. CASE i \in Used
    <2> DEFINE c == scans[i].bssid
    <2>1. c \in BSSIDs /\ c \in Here /\ c # b
      BY <1>2, <1>13, EntryType DEF Here
    <2>2. \A j \in Used : scans[j].bssid = c => j = i
      BY <1>13 DEF Used, IInv, NoTwins
    <2>3. Known'[c] = Free
      <3>1. c \notin Here'
        BY <1>3, <1>4, <1>6, <2>1, <2>2 DEF Here
      <3> QED
        BY <1>7, <2>1, <3>1 DEF Shows
    <2>4. ASSUME NEW d \in BSSIDs, d # b, d # c
          PROVE  Known'[d] = Known[d]
      BY <1>9, <2>4
    <2>5. Useless(scans[i])
      BY <1>1, <1>13, Grabbed, UsedIsLive DEF Live
    <2>6. Map!Useless(Known[c])
      <3>1. Known[c] = Entry(i)
        BY <1>7, <1>13 DEF Shows
      <3> QED
        BY <2>5, <3>1 DEF Useless, Map!Useless, Entry
    <2>7. Cardinality(Map!Present) = NSCANS
      BY <1>13, GivenUpWhenFull, Counts, PresentIsHere
    <2> HIDE DEF c
    <2> DEFINE g == [Known EXCEPT ![c] = Free, ![b] = Map!New(s, w)]
    <2>8. \A d \in BSSIDs : Known'[d] = g[d]
      BY <1>8, <1>11, <2>1, <2>3, <2>4
    <2>9. g = [d \in BSSIDs |-> g[d]]
      BY <1>11
    <2>10. Known' = g
      <3> HIDE DEF g
      <3> QED
        BY <2>8, <2>9, SameMap
    <2>11. Map!Hear(b, s, w)
      BY <1>10, <2>1, <2>6, <2>7, <2>10, PresentIsHere, SameCount
        DEF Map!Hear
    <2> QED
      BY <2>11 DEF Map!Next
  <1> QED
    BY <1>12, <1>13

LEMMA StepMaps ==
  ASSUME IInv, IInv', [Next]_vars
  PROVE  [Map!Next]_Known
  <1>1. ASSUME NEW b \in BSSIDs, NEW s \in NamesOf[b], NEW w \in BOOLEAN,
               Multi(b, s, w)
        PROVE  Map!Next \/ Known' = Known
    <2>1. s \in SSIDs
      OBVIOUS
    <2>2. CASE UNCHANGED <<scans, nscans, stored>>
      BY <2>2, Stays
    <2>3. ASSUME NEW i \in grab_scan_slot(b),
                 scans' = [scans EXCEPT ![i] = Stored(b, i, s, w)]
          PROVE  Map!Next
      BY <2>1, <2>3, HearsAgain, HearsNew
    <2> QED
      BY <1>1, <2>2, <2>3 DEF Multi, parse_scan_result
  <1>2. ASSUME StartScan \/ Reset \/ ScanResults \/ UNCHANGED vars
        PROVE  Known' = Known
    BY <1>2, Stays DEF StartScan, Reset, ScanResults, vars
  <1>3. ASSUME NEW b \in BSSIDs, NEW s \in NamesOf[b], Connected(b, s)
        PROVE  Map!Next \/ Known' = Known
    <2>1. s \in SSIDs
      OBVIOUS
    <2> QED
      BY <1>3, <2>1, ConnectedLearns
  <1> QED
    BY <1>1, <1>2, <1>3, DoneConcludes, TriggerScanAges, ForgetForgets DEF Next

LEMMA InitMaps == Init => Map!Init
  <1>1. SUFFICES ASSUME Init
                 PROVE  Known = [b \in BSSIDs |-> Free]
    BY DEF Map!Init
  <1>2. ASSUME NEW b \in BSSIDs
        PROVE  Known[b] = Free
    <2>1. IInv /\ Here = {}
      BY <1>1, InitIInv DEF Init, Here, Used
    <2> QED
      BY <2>1, KnownShows DEF Shows
  <1> QED
    BY <1>2 DEF Known

(* Through grab_slot, free_slot and the entry given up by                   *)
(* parse_scan_result, scans[] and nscans are a map of at most NSCANS       *)
(* stations: a station loses its entry only when the dump of a scan ends   *)
(* without it, or to another one when NSCANS stations have one and it is   *)
(* weak, stale and without a key.                                          *)
THEOREM ScanTableImplements == Spec => Implements
  <1>1. Init => Map!Init
    BY InitMaps
  <1>2. IInv /\ [Next]_vars => IInv'
    BY NextKeeps
  <1>3. IInv /\ IInv' /\ [Next]_vars => [Map!Next]_Known
    BY StepMaps
  <1> QED
    BY <1>1, <1>2, <1>3, Invariant, PTL DEF Spec, Implements, Map!Spec
=============================================================================
