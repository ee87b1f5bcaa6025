------------------------------ MODULE KeyFile ------------------------------
(***************************************************************************)
(* wsupp_config.c: the config file, the copy of it in memory that handlers *)
(* search and edit, and the rewriting of the file at the end of each round *)
(* of the event loop.                                                      *)
(*                                                                         *)
(* A line is a key, a space and the network's name.  What the functions    *)
(* tell apart of a line is whether its first word is a key, which network  *)
(* its second word names, how long it is and whether a newline follows:    *)
(* the last line of a file that was not written to its end has none, and   *)
(* its second word may be shorter than it was.  What is left of a name may *)
(* be another network's: "home" of "home-5G".                              *)
(***************************************************************************)
EXTENDS Integers, SequencesExt

CONSTANTS
  SSIDs,      \* networks
  PSKs,       \* keys
  NoPsk,      \* no line names the network
  BadPsk,     \* a first word that is not 64 hex digits
  Width,      \* length of a name as fmt_ssid writes it, one byte a character
  Begins,     \* the other names that a name begins with
  Clip,       \* what is left of a name that save_psk has no room for
  NoName,     \* a line of one word
  Junk,       \* a second word that is no network's name
  Page, Slack,  \* 4096 and the 1024 of mmap_config_buf
  InitFiles,  \* files the daemon has written, whole
  HurtFiles,  \* files that were cut or edited by hand
  MaxOps      \* changes and faults in a run

Names == SSIDs \cup {Clip[s] : s \in SSIDs}

ASSUME FileAssumption ==
  /\ Width \in [Names -> Nat \ {0}]
  /\ NoPsk \notin PSKs /\ BadPsk \notin PSKs /\ NoPsk # BadPsk
  /\ NoName \notin Names /\ Junk \notin Names /\ NoName # Junk
  /\ Page \in Nat \ {0} /\ Slack \in Nat
  /\ MaxOps \in Nat

ASSUME NamesAssumption ==
  /\ Begins \in [Names -> SUBSET Names]
  /\ \A n \in Names : \A p \in Begins[n] :
       Width[p] < Width[n] /\ Begins[p] \subseteq Begins[n]
  /\ \A s \in SSIDs : IF Width[s] <= 29 THEN Clip[s] = s ELSE Clip[s] \in Begins[s]

(* stems are the shorter names that the second word begins with.           *)
Lines == [key : PSKs \cup {BadPsk}, name : Names \cup {NoName, Junk},
          stems : SUBSET Names, len : Nat, eol : BOOLEAN]

(* Only the last line may lack its newline, and no two of the others name  *)
(* a network.                                                              *)
Tidy(t) ==
  /\ \A i \in DOMAIN t : t[i].eol \/ i = Len(t)
  /\ \A i, j \in DOMAIN t : t[i].eol /\ t[j].eol /\ t[i].name = t[j].name
                               /\ t[i].name \in SSIDs => i = j

ASSUME FilesAssumption ==
  /\ InitFiles \cup HurtFiles \subseteq Seq(Lines)
  /\ \A t \in InitFiles \cup HurtFiles :
       /\ Tidy(t)
       /\ \A i \in DOMAIN t :
            t[i].stems = IF t[i].name \in Names THEN Begins[t[i].name] ELSE {}
  /\ \A t \in InitFiles : \A i \in DOMAIN t : t[i].eol

VARIABLES
  hurt,     \* the disk fails: writes are cut short, files cannot be read
  up,       \* the daemon runs
  file,     \* the lines on the disk
  conf,     \* the copy in memory
  writing,  \* save_config has truncated the file and not yet written it
  left,     \* changes and faults that may still happen
  given     \* history: the keys each network was ever given

vars == <<hurt, up, file, conf, writing, left, given>>

(* config, blocklen, datalen and modified; mapped is what mremap made of   *)
(* the mapping, which blocklen does not say.                               *)
Configs == [loaded : BOOLEAN, text : Seq(Lines), datalen : Nat,
            blocklen : Nat, mapped : Nat, modified : BOOLEAN]

NoConfig == [loaded |-> FALSE, text |-> <<>>, datalen |-> 0, blocklen |-> 0,
             mapped |-> 0, modified |-> FALSE]

-----------------------------------------------------------------------------
Size(l) == l.len + (IF l.eol THEN 1 ELSE 0)
Total(t) ==
  LET upto[n \in 0..Len(t)] == IF n = 0 THEN 0 ELSE upto[n - 1] + Size(t[n])
  IN upto[Len(t)]

Aligned(n) == n + ((Page - (n % Page)) % Page)

(* fmt_ssid stops five bytes before the end of its buffer: 29 characters   *)
(* fit behind the key in save_psk, all 32 fit in find_ssid.                *)
fmt_ssid(s, room) == IF Width[s] <= room - 5 THEN s ELSE Clip[s]

Sought(s)  == fmt_ssid(s, 100)
Written(s) == fmt_ssid(s, 99 - 65)

NewLine(s, k) == [key |-> k, name |-> Written(s), stems |-> Begins[Written(s)],
                  len |-> 65 + Width[Written(s)], eol |-> TRUE]

(* Mutant: when no line matches, the last one looked at is returned. *)
find_line_LastSeen(t, n) ==
  IF \E l \in ToSet(t) : l.name = n
  THEN SelectInSeq(t, LAMBDA l : l.name = n) ELSE Len(t)

find_line(t, n) == SelectInSeq(t, LAMBDA l : l.name = n)

find_ssid(t, s) == find_line(t, Sought(s))

(* What load_psk, and got_psk_for, make of a text. *)
KeyIn(t, s) == LET i == find_ssid(t, s) IN IF i = 0 THEN NoPsk ELSE t[i].key
View(t) == [s \in SSIDs |-> KeyIn(t, s)]

-----------------------------------------------------------------------------
(* load_config, which every access begins with.  how: the file is read, or *)
(* it cannot be opened, cannot be read, or there is no memory.             *)
Mapped(t, n) ==
  [loaded |-> TRUE, text |-> t, datalen |-> Total(t),
   blocklen |-> Aligned(n + Slack), mapped |-> Aligned(n + Slack),
   modified |-> FALSE]

(* Mutant: the file is read again by every access. *)
load_config_Again(c, how) ==
  CASE how = "READ"   -> Mapped(file, Total(file))
    [] how = "NOOPEN" -> Mapped(<<>>, 0)
    [] how = "NOREAD" -> Mapped(<<>>, Total(file))
    [] how = "NOMAP"  -> c

load_config(c, how) ==
  IF c.loaded THEN c
  ELSE CASE how = "READ"   -> Mapped(file, Total(file))
         [] how = "NOOPEN" -> Mapped(<<>>, 0)
         [] how = "NOREAD" -> Mapped(<<>>, Total(file))
         [] how = "NOMAP"  -> c

(* It returns 0 in these cases; a second call finds config set. *)
Loads(c, how) == c.loaded \/ how \in {"READ", "NOOPEN"}

(* Mutant: the old length is compared with the block. *)
Outgrows_Old(c, n) == c.datalen > c.blocklen

(* extend_config by n bytes, possibly negative.  remap_config sets blocklen *)
(* to what is needed, less than what it has asked mremap for.               *)
Outgrows(c, n) == c.datalen + n > c.blocklen

extends(c, n, grow) ==
  c.datalen + n >= 0 /\ (Outgrows(c, n) => grow # "FAIL")

extend_config(c, n) ==
  LET len == c.datalen + n
      e == [c EXCEPT !.datalen = len]
  IN IF Outgrows(c, n)
     THEN [e EXCEPT !.blocklen = len, !.mapped = c.blocklen + Aligned(len)]
     ELSE e

(* mremap can grow a mapping in place only if blocklen is all of it. *)
CanGrow(c, grow) == grow = "PLACE" => Aligned(c.blocklen) = Aligned(c.mapped)

change_part(c, i, new, grow) ==
  LET n == new.len - c.text[i].len
  IN IF extends(c, n, grow)
     THEN [extend_config(c, n) EXCEPT
             !.text[i] = [new EXCEPT !.eol = c.text[i].eol]]
     ELSE c

(* The names that the second word of a line is or begins with. *)
Read(l) == l.stems \cup ({l.name} \cap Names)

(* A line put behind one without a newline becomes one with it: the words  *)
(* that meet are one word.  A key in it is too long for any name.          *)
Joined(l, new) ==
  [new EXCEPT !.len = l.len + new.len,
              !.key = IF l.name = NoName THEN BadPsk ELSE l.key,
              !.name = IF l.name = NoName THEN new.name ELSE Junk,
              !.stems = IF l.name = NoName THEN new.stems ELSE Read(l)]

insert_line(c, new, grow) ==
  LET n == Len(c.text)
      e == extend_config(c, new.len + 1)
  IN IF ~extends(c, new.len + 1, grow) THEN c
     ELSE IF n > 0 /\ ~c.text[n].eol
     THEN [e EXCEPT !.text[n] = Joined(@, new)]
     ELSE [e EXCEPT !.text = Append(@, new)]

(* Mutant: the line is added without looking for an old one. *)
save_line_Adds(c, i, new, grow) ==
  [insert_line(c, new, grow) EXCEPT !.modified = TRUE]

save_line(c, i, new, grow) ==
  [(IF i > 0 THEN change_part(c, i, new, grow) ELSE insert_line(c, new, grow))
     EXCEPT !.modified = TRUE]

(* Mutant: the text changes and modified is not set. *)
drop_line_Unnoticed(c, i) ==
  IF c.datalen - c.text[i].len - 1 < 0 THEN c
  ELSE [extend_config(c, -(c.text[i].len + 1)) EXCEPT !.text = RemoveAt(@, i)]

(* Mutant: extend_config takes any length. *)
drop_line_Unchecked(c, i) ==
  [extend_config(c, -(c.text[i].len + 1)) EXCEPT
     !.text = RemoveAt(@, i), !.modified = TRUE]

(* The newline that should follow the line is dropped with it. *)
drop_line(c, i) ==
  IF c.datalen - c.text[i].len - 1 < 0 THEN c
  ELSE [extend_config(c, -(c.text[i].len + 1)) EXCEPT
          !.text = RemoveAt(@, i), !.modified = TRUE]

-----------------------------------------------------------------------------
(* Undefined behaviour, which ends the process: insert_line has taken the  *)
(* address of the end of the text before extend_config moved the text; and *)
(* drop_line moves -1 bytes when the newline it counts is not there.       *)
InsertFaults(c, s, k, grow) ==
  LET n == NewLine(s, k).len + 1
  IN find_ssid(c.text, s) = 0 /\ Outgrows(c, n) /\ grow = "MOVED"

DropFaults(c, i) == ~c.text[i].eol /\ c.datalen - c.text[i].len - 1 >= 0

Hows  == {"READ", "NOMAP"} \cup (IF hurt THEN {"NOOPEN", "NOREAD"} ELSE {})
Grows == {"PLACE", "MOVED", "FAIL"}

Gone == up' = FALSE /\ conf' = NoConfig

Serving == up /\ ~writing

Lookup(s) ==
  /\ Serving
  /\ \E how \in Hows : conf' = load_config(conf, how)
  /\ UNCHANGED <<hurt, up, file, writing, left, given>>

SaveWith(s, k, how, grow) ==
  LET c == load_config(conf, how)
  IN IF ~Loads(conf, how) THEN conf' = c /\ UNCHANGED up
     ELSE /\ CanGrow(c, grow)
          /\ IF InsertFaults(c, s, k, grow) THEN Gone
             ELSE /\ conf' = save_line(c, find_ssid(c.text, s), NewLine(s, k), grow)
                  /\ UNCHANGED up

SavePsk(s, k) ==
  /\ Serving /\ left > 0 /\ left' = left - 1
  /\ \E how \in Hows, grow \in Grows : SaveWith(s, k, how, grow)
  /\ given' = [given EXCEPT ![s] = @ \cup {k}]
  /\ UNCHANGED <<hurt, file, writing>>

DropPsk(s) ==
  /\ Serving /\ left > 0 /\ left' = left - 1
  /\ \E how \in Hows :
       LET c == load_config(conf, how)
           i == find_ssid(c.text, s)
       IN IF ~Loads(conf, how) \/ i = 0 THEN conf' = c /\ UNCHANGED up
          ELSE IF DropFaults(c, i) THEN Gone
          ELSE conf' = drop_line(c, i) /\ UNCHANGED up
  /\ UNCHANGED <<hurt, file, writing, given>>

(* save_config, between whose two system calls the file is empty. *)
SaveOpen ==
  /\ Serving /\ conf.modified
  /\ file' = <<>> /\ writing' = TRUE
  /\ UNCHANGED <<hurt, up, conf, left, given>>

SaveWrite ==
  /\ writing
  /\ file' = conf.text /\ writing' = FALSE
  /\ conf' = [conf EXCEPT !.modified = FALSE]
  /\ UNCHANGED <<hurt, up, left, given>>

(* What may be on the disk of a line that is not written to its end: part  *)
(* of the key, the key and part of the name, or all but the newline.       *)
Stumps(l) ==
  {[l EXCEPT !.key = BadPsk, !.name = NoName, !.stems = {}, !.len = 1, !.eol = FALSE],
   [l EXCEPT !.name = Junk, !.len = 66, !.eol = FALSE],
   [l EXCEPT !.eol = FALSE]}
    \cup {[l EXCEPT !.name = p, !.stems = Begins[p], !.len = 65 + Width[p],
                    !.eol = FALSE] : p \in l.stems}

Cuts(t) ==
  {SubSeq(t, 1, j) : j \in 0..Len(t)}
    \cup UNION {{Append(SubSeq(t, 1, j - 1), l) : l \in
                   {m \in Stumps(t[j]) : m.len <= t[j].len}} : j \in DOMAIN t}

(* The disk is full.  writeall's result is not looked at. *)
SaveCut ==
  /\ writing /\ hurt /\ left > 0 /\ left' = left - 1
  /\ file' \in Cuts(conf.text) /\ writing' = FALSE
  /\ conf' = [conf EXCEPT !.modified = FALSE]
  /\ UNCHANGED <<hurt, up, given>>

(* quit(), which does not save, SIGKILL or a power failure. *)
Kill ==
  /\ up /\ left > 0 /\ left' = left - 1
  /\ writing => hurt
  /\ Gone
  /\ file' \in (IF writing THEN Cuts(conf.text) ELSE {file})
  /\ writing' = FALSE
  /\ UNCHANGED <<hurt, given>>

Restart ==
  /\ ~up /\ up' = TRUE
  /\ UNCHANGED <<hurt, file, conf, writing, left, given>>

Init ==
  /\ up = TRUE /\ conf = NoConfig /\ writing = FALSE
  /\ hurt \in BOOLEAN
  /\ file \in InitFiles \cup (IF hurt THEN HurtFiles ELSE {})
  /\ left = MaxOps
  /\ given = [s \in SSIDs |->
                {l.key : l \in {m \in ToSet(file) : m.name \in {s, Clip[s]}}} \cap PSKs]

Next ==
  \/ \E s \in SSIDs : Lookup(s) \/ DropPsk(s) \/ \E k \in PSKs : SavePsk(s, k)
  \/ SaveOpen \/ SaveWrite \/ SaveCut \/ Kill \/ Restart

Spec == Init /\ [][Next]_vars

-----------------------------------------------------------------------------
TypeOK ==
  /\ hurt \in BOOLEAN /\ up \in BOOLEAN /\ writing \in BOOLEAN
  /\ file \in Seq(Lines)
  /\ conf \in Configs
  /\ left \in 0..MaxOps
  /\ given \in [SSIDs -> SUBSET PSKs]

(* Every edit moves the rest of the text by the difference in length it    *)
(* has told extend_config: datalen is the length of the text, and the text *)
(* stays within the block, and the block within the mapping, although      *)
(* remap_config forgets part of what it has mapped.                        *)
InBlock ==
  conf.loaded => /\ conf.datalen = Total(conf.text)
                 /\ conf.datalen <= conf.blocklen
                 /\ conf.blocklen <= conf.mapped

(* cmd_forget drops one line.  It makes the daemon forget only if no other *)
(* line names the network.  Whatever was cut, joined and saved over, a     *)
(* second one can only be the last, and only while it has no newline.      *)
OneLine == Tidy(file) /\ Tidy(conf.text)

(* A crash, a full disk and a file that cannot be read may lose keys.  The *)
(* daemon tries a key on a network it was not given for only where the     *)
(* line lacks its newline, and only that of a network whose name begins    *)
(* with this one's.                                                        *)
KeysGenuine ==
  \A t \in {file, conf.text}, s \in SSIDs :
    LET i == find_ssid(t, s)
    IN i # 0 => \/ t[i].key \in {BadPsk} \cup given[s]
                \/ /\ ~t[i].eol
                   /\ \E n \in SSIDs : s \in Begins[n] /\ t[i].key \in given[n]

(* save_config is called in every round and does nothing unless modified   *)
(* is set: every edit of the text has to set it.                           *)
Synced == conf.loaded /\ ~conf.modified /\ ~hurt => file = conf.text

(* To handlers the file is a table that is brought to the disk at once, as *)
(* long as the disk works and nothing stops the daemon within save_config: *)
(* kills, lack of memory and texts that move do not show.  What a failing  *)
(* disk does to the table is the matter of the invariants above.           *)
OnDisk == View(IF hurt THEN <<>> ELSE IF writing THEN conf.text ELSE file)
InMemory == IF conf.loaded /\ ~hurt THEN View(conf.text) ELSE OnDisk
Store == INSTANCE KeyStore WITH mem <- InMemory, disk <- OnDisk
Implements == Store!Spec

(* wifi(1): "If the connection is successful, the PSK will be saved and    *)
(* subsequent commands will not ask anything."  After a save_psk for which *)
(* the file is whole and is read, and the text has room, load_psk finds    *)
(* the key.  Names of 30 characters and more are written cut short.        *)
SavedIsFound ==
  [][\A s \in SSIDs, k \in PSKs :
       ~hurt /\ SavePsk(s, k) /\ SaveWith(s, k, "READ", "PLACE")
         => KeyIn(conf'.text, s) = k]_vars
=============================================================================
