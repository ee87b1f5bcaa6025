----------------------------- MODULE ScanTable -----------------------------
(***************************************************************************)
(* wsupp_slots.c and the parts of wsupp_netlink.c, wsupp_apsel.c and       *)
(* wsupp_cntrl.c that fill, mark and clean scans[]: a table of NSCANS      *)
(* entries of which the first nscans are looked at.                        *)
(*                                                                         *)
(* A station may change its name, its signal and, between scans, whether   *)
(* it is there.  One that check_wpa refuses is like one whose network has  *)
(* no key.                                                                 *)
(***************************************************************************)
EXTENDS Naturals, FiniteSets

CONSTANTS BSSIDs, SSIDs, NSCANS, Free,
          Freq,     \* the frequency of each station
          NamesOf   \* the names it may have, one after the other

ASSUME TableAssumption ==
  /\ NSCANS \in Nat \ {0}
  /\ IsFiniteSet(BSSIDs)
  /\ Freq \in [BSSIDs -> Nat]
  /\ NamesOf \in [BSSIDs -> SUBSET SSIDs]

Freqs == {Freq[b] : b \in BSSIDs}
Index == 1..NSCANS

(* The fields of struct scan that the table depends on.  weak: the signal  *)
(* is -80dBm or less.  seen, pass and stale are the SF_ flags.             *)
Scan == [bssid : BSSIDs, ssid : SSIDs, weak : BOOLEAN,
         seen : BOOLEAN, pass : BOOLEAN, stale : BOOLEAN]

(* What is known of a station. *)
Facts == [ssid : SSIDs, weak : BOOLEAN, seen : BOOLEAN, pass : BOOLEAN,
          stale : BOOLEAN]

ASSUME FreeAssumption == Free \notin Scan /\ Free \notin Facts

VARIABLES
  scans,      \* the table
  nscans,     \* entries in use, free ones among them
  scanstate,
  dumping,    \* the kernel has not sent all of a dump
  keys,       \* networks with a key in the config file
  stored      \* history: stations stored by the scan's dump so far

vars == <<scans, nscans, scanstate, dumping, keys, stored>>

Live   == {i \in 1..nscans : scans[i] # Free}
Unused == {i \in 1..nscans : scans[i] = Free}

-----------------------------------------------------------------------------
Lowest(S) == {i \in S : \A j \in S : i <= j}

find_scan_slot(b) == Lowest({i \in Live : scans[i].bssid = b})

(* Mutant: free entries below the count are not taken. *)
grab_slot_AtEnd == IF nscans < NSCANS THEN {nscans + 1} ELSE {}

(* The first free entry, or one more, or none. *)
grab_slot ==
  IF Unused # {} THEN Lowest(Unused)
  ELSE IF nscans < NSCANS THEN {nscans + 1} ELSE {}

(* Mutant: the count goes up for an entry it already covers. *)
Counted_Always(i) == IF i \in grab_slot THEN nscans + 1 ELSE nscans

Counted(i) == IF i > nscans THEN i ELSE nscans

Useless(e) == e.weak /\ e.stale /\ ~e.pass

Sacrificed == Lowest({i \in Live : Useless(scans[i])})

(* Mutant: a free slot is taken before the table is searched. *)
grab_scan_slot_Blind(b) ==
  IF grab_slot # {} THEN grab_slot
  ELSE IF find_scan_slot(b) # {} THEN find_scan_slot(b)
  ELSE Sacrificed

(* The entry for b, or none. *)
grab_scan_slot(b) ==
  IF find_scan_slot(b) # {} THEN find_scan_slot(b)
  ELSE IF grab_slot # {} THEN grab_slot
  ELSE Sacrificed

(* An old entry keeps its flags, any other one starts from zero. *)
Stored(b, i, s, w) ==
  IF i \in find_scan_slot(b)
  THEN [scans[i] EXCEPT !.ssid = s, !.weak = w, !.stale = FALSE]
  ELSE [bssid |-> b, ssid |-> s, weak |-> w,
        seen |-> FALSE, pass |-> FALSE, stale |-> FALSE]

(* parse_scan_result with one station.  With no slot it is passed over.    *)
parse_scan_result(b, s, w) ==
  \/ \E i \in grab_scan_slot(b) :
       /\ scans' = [scans EXCEPT ![i] = Stored(b, i, s, w)]
       /\ nscans' = Counted(i)
       /\ stored' = IF scanstate = "SCANDUMP" THEN stored \cup {b} ELSE {}
  \/ grab_scan_slot(b) = {} /\ UNCHANGED <<scans, nscans, stored>>

(* Mutant: the count drops by one, whatever entry is freed. *)
Shrunk_ByOne(t, n) ==
  n + 1 = nscans

(* free_slot leaves a count that ends with an entry in use. *)
Shrunk(t, n) ==
  /\ n \in 0..nscans
  /\ \A i \in (n + 1)..nscans : t[i] = Free
  /\ n > 0 => t[n] # Free

(* drop_stale_scan_slots frees each of them with free_slot, and            *)
(* check_new_scan_results judges the entries it has not seen.              *)
Judged(e) ==
  IF e = Free THEN Free
  ELSE IF e.stale THEN Free
  ELSE IF e.seen THEN e
  ELSE [e EXCEPT !.seen = TRUE, !.pass = @ \/ e.ssid \in keys]

AnyStale == \E i \in Live : scans[i].stale

drop_and_check ==
  /\ scans' = [i \in Index |-> IF i <= nscans THEN Judged(scans[i]) ELSE scans[i]]
  /\ IF AnyStale THEN \E n \in 0..nscans : Shrunk(scans', n) /\ nscans' = n
     ELSE nscans' = nscans

-----------------------------------------------------------------------------
(* Mutant: only an idle daemon leaves the marks alone. *)
Marks_Always == scanstate # "IDLE"

Marks == scanstate = "SCANNING"

(* cmd_trigger_scan, on the daemon's own scan or on somebody else's. *)
TriggerScan(fs) ==
  /\ IF Marks
     THEN scans' = [i \in Index |->
                      IF i \in Live /\ Freq[scans[i].bssid] \in fs
                      THEN [scans[i] EXCEPT !.stale = TRUE] ELSE scans[i]]
     ELSE scans' = scans
  /\ UNCHANGED <<nscans, scanstate, dumping, keys, stored>>

StartScan ==
  /\ scanstate = "IDLE" /\ scanstate' = "SCANNING"
  /\ UNCHANGED <<scans, nscans, dumping, keys, stored>>

(* SCAN_ABORTED, an error, ENETDOWN.  The marks stay.  What is left of a    *)
(* dump still comes.                                                        *)
Reset ==
  /\ scanstate # "IDLE" /\ scanstate' = "IDLE" /\ stored' = {}
  /\ UNCHANGED <<scans, nscans, dumping, keys>>

(* NEW_SCAN_RESULTS: the dump begins. *)
ScanResults ==
  /\ scanstate = "SCANNING" /\ ~dumping
  /\ scanstate' = "SCANDUMP" /\ dumping' = TRUE
  /\ UNCHANGED <<scans, nscans, keys, stored>>

(* Any part of a dump is stored, that of a scan already given up as well.   *)
Multi(b, s, w) ==
  /\ dumping
  /\ parse_scan_result(b, s, w)
  /\ UNCHANGED <<scanstate, dumping, keys>>

Done ==
  /\ dumping /\ dumping' = FALSE
  /\ IF scanstate = "SCANDUMP" THEN drop_and_check /\ scanstate' = "IDLE"
     ELSE UNCHANGED <<scans, nscans, scanstate>>
  /\ stored' = {}
  /\ UNCHANGED keys

(* handle_connect with a key given by the user: the network of the entry,  *)
(* if there still is one.                                                  *)
Connected(b, s) ==
  /\ keys' = keys \cup {s}
  /\ scans' = [i \in Index |-> IF i \in find_scan_slot(b) /\ scans[i].ssid = s
                               THEN [scans[i] EXCEPT !.pass = TRUE]
                               ELSE scans[i]]
  /\ UNCHANGED <<nscans, scanstate, dumping, stored>>

(* cmd_forget *)
Forget(s) ==
  /\ s \in keys /\ keys' = keys \ {s}
  /\ scans' = [i \in Index |-> IF i \in Live /\ scans[i].ssid = s
                               THEN [scans[i] EXCEPT !.pass = FALSE]
                               ELSE scans[i]]
  /\ UNCHANGED <<nscans, scanstate, dumping, stored>>

Init ==
  /\ scans = [i \in Index |-> Free] /\ nscans = 0
  /\ scanstate = "IDLE" /\ dumping = FALSE
  /\ keys \in SUBSET SSIDs
  /\ stored = {}

Next ==
  \/ StartScan \/ Reset \/ ScanResults \/ Done
  \/ \E fs \in SUBSET Freqs : TriggerScan(fs)
  \/ \E b \in BSSIDs : \E s \in NamesOf[b] :
       Connected(b, s) \/ \E w \in BOOLEAN : Multi(b, s, w)
  \/ \E s \in SSIDs : Forget(s)

Spec == Init /\ [][Next]_vars

-----------------------------------------------------------------------------
TypeOK ==
  /\ scans \in [Index -> Scan \cup {Free}]
  /\ nscans \in 0..NSCANS
  /\ scanstate \in {"IDLE", "SCANNING", "SCANDUMP"}
  /\ dumping \in BOOLEAN
  /\ keys \in SUBSET SSIDs
  /\ stored \in SUBSET BSSIDs

(* Handlers look a station up and take the first entry: flags set on one   *)
(* of two entries would be lost when the other is found.                   *)
NoTwins ==
  \A i, j \in Index :
    scans[i] # Free /\ scans[j] # Free /\ scans[i].bssid = scans[j].bssid
      => i = j

(* No entry lies beyond nscans, where no loop sees it until it is taken    *)
(* for a free one, and the last one counted is in use.                     *)
Tight ==
  /\ \A i \in Index : i > nscans => scans[i] = Free
  /\ nscans > 0 => scans[nscans] # Free

(* What a dump has stored is there when it ends: a station heard in this   *)
(* scan neither makes room for another one nor counts as stale, whatever   *)
(* other programs scan meanwhile.                                          *)
HeardStays ==
  [][scanstate = "SCANDUMP" =>
       \A b \in stored : \E i \in 1..nscans' :
         scans'[i] # Free /\ scans'[i].bssid = b]_vars

(* The table is a map with room for NSCANS stations: an entry gives way or *)
(* a station is passed over only when NSCANS others are in use.            *)
Entry(i) == [ssid |-> scans[i].ssid, weak |-> scans[i].weak,
             seen |-> scans[i].seen, pass |-> scans[i].pass,
             stale |-> scans[i].stale]

Known == [b \in BSSIDs |->
            IF find_scan_slot(b) = {} THEN Free
            ELSE Entry(CHOOSE i \in find_scan_slot(b) : TRUE)]

Map == INSTANCE ScanMap WITH Room <- NSCANS, Absent <- Free, known <- Known
Implements == Map!Spec
=============================================================================
