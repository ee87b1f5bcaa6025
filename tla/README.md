# A TLA+ model of wsupp and wifi

wsupp is a Wi-Fi supplicant: one process per wireless card that scans, picks an
access point (AP), connects over nl80211, does the WPA2 four-way handshake on a
packet socket and serves commands of the `wifi` tool on a control socket. This
directory holds its formal model: TLA+ modules translated from the C source,
TLC configurations that check them on small instances, and TLAPS proofs of what
holds for all of them.

    tlc -workers 2 -config Machines.cfg MCWsupp      # a run
    tlapm ScanProofs.tla                             # the proofs of a module

## 1. Inventory

| component | source | state | operations | met by |
|---|---|---|---|---|
| event loop | `wsupp.c` | `opermode`, `timerset`, `sigterm`, pollfds | poll, timeout, signals, end of the loop | everything below runs in it |
| scan machine | `wsupp_netlink.c` | `scanstate`, `scanreq`, `scanseq` | start or join a scan, dump, results, abort, error | apsel, commands, timer |
| connection machine | `wsupp_netlink.c` | `authstate` | authenticate, associate, connect, disconnect, late errors, key upload | apsel, EAPOL, commands, timer |
| AP selection | `wsupp_apsel.c` | `ap`, `PSK`, flags of `scans[]` | rank, connect, reconnect, rescan, give up | called by both machines and by commands |
| EAPOL handshake | `wsupp_eapol.c`, `wsupp_crypto.c` | `eapolstate`, `eapolsends`, keys, nonces | 1/4 to 4/4, group rekey, abort | connection machine, AP selection |
| control commands | `wsupp_cntrl.c` | `conns[]` | scan, neutral, connect, forget, status, device, notifications | `wifi` |
| `wifi` | `wifi.c`, `wifi_*.c` | the command it waits for | send a command, wait for notifications | control commands |
| rfkill | `wsupp_rfkill.c` | `rfkilled` | switch off, switch on, bring the interface up | scan and connection machines |
| config file | `wsupp_config.c` | the text in memory, the file, the state file | load, search, save, drop, rewrite | AP selection, commands |
| slots | `wsupp_slots.c` | `scans[]`, `conns[]` | grab, free, evict | scan dump, control socket |
| DHCP child | `wsupp_ifmon.c` | `dhcpid` | fork, kill, reap | AP selection, SIGCHLD |
| beacon elements | `wsupp_sta_ies.c` | name and ciphers in `scans[]` | parse | scan dump |
| netlink, nlusctl, crypto, common | `netlink/`, `nlusctl/`, `crypto/`, `common/` | buffers | pack, parse, hash, write | all |

Everything is one thread. What makes the program hard is that it talks to four
parties at once, each over a descriptor of its own and each in its own time:

* **ordering**: netlink events, EAPOL frames and rfkill events are not ordered
  against each other. An error for a command of an attempt already given up
  may be read during the next attempt.
* **timers and late answers**: a timeout aborts an attempt whose answer is in
  the queue already.
* **shared machines**: the user's scan, the routine scan and the scan that is
  to find a lost AP are one state machine and join each other.
* **caches**: `ap.success`, `SF_PASS`, `SF_TRIED`, PSK and the handshake keys
  outlive what they were computed from; a station may come under another name.
* **waiting for ever**: scans and disconnects have no timeout, and the status of
  an association is not looked at.
* **crashes**: the config file is truncated and rewritten in place.
* **descriptors that change under the loop**: the raw socket is closed and
  reopened, slots are freed and taken, while the pollfd array is refreshed in
  one place only; signals run between any two steps.
* **a lossy air**: frames of the handshake come late, twice, reordered, or from
  an association that is over.

What makes each correct: the machines never wait for an answer that is not
coming, and come to rest; what the daemon reports (CONNECTED, the end of a scan)
is true; a key is saved only for the network it was proved with; a lost
connection is re-established; an exit request ends the process; the config
file, through crashes, attributes no key to the wrong network; ppoll waits
for every client and socket that matters; the scan table is a bounded map; and
both ends of a handshake hold the same fresh key. Not all of this holds: what
does not is in section 5.

## 2. Modules

    WsuppState -> NlCommands -> ApSelect -> EapolRx -> NlEvents -> Handlers -> Wsupp -> MCWsupp
    Wsupp     -> WsuppProofs -> ScanProofs -> AuthProofs -> NetworkProofs
    KeyFile   -> MCKeyFile          KeyFile implements KeyStore
    KeyFile   -> KeyFileProofs
    ScanTable -> MCScanTable        ScanTable implements ScanMap
    ScanTable -> ScanTableProofs
    Handshake -> MCHandshake        Handshake implements KeyAgreement
    Handshake -> HandshakeProofs
    Loop      -> MCLoop
    Loop      -> LoopProofs

| module | models |
|---|---|
| `WsuppState` | the daemon's globals as one record `d`, and the constants: stations, networks, keys |
| `NlCommands` | sending half of `wsupp_netlink.c`: start_scan and its joining, triggers, key upload |
| `ApSelect` | `wsupp_apsel.c` |
| `EapolRx` | `wsupp_eapol.c` |
| `NlEvents` | receiving half of `wsupp_netlink.c`: events, dumps, errors |
| `Handlers` | `wsupp_cntrl.c`, `wsupp_rfkill.c`, `timer_expired`, `xshutdown`, start-up |
| `Wsupp` | the loop, the kernel, the card, the AP, the rfkill switch, the user: variables, actions, properties |
| `KeyFile` | `wsupp_config.c`: lines, buffer, file, crashes |
| `KeyStore` | what the rest relies on: a table of keys brought to the disk at once |
| `Loop` | `wsupp.c`, the sockets of `wsupp_cntrl.c`, `wifi` behind them, `wsupp_ifmon.c`: rounds of the loop, descriptors, signals, clients, DHCP children |
| `ScanTable` | `scans[]` of `wsupp_slots.c` and who fills, marks and frees it |
| `ScanMap` | what the table is to the rest: a map with room for so many stations |
| `Handshake` | `wsupp_eapol.c` with nonces, counters and keys, an access point and the air |
| `KeyAgreement` | what a handshake promises to its two ends |
| `MCWsupp`, `MCKeyFile`, `MCLoop`, `MCScanTable`, `MCHandshake` | instances for TLC |
| `WsuppProofs` | `Wsupp`: a type lemma for every function, type correctness |
| `ScanProofs`, `AuthProofs` | `Wsupp`: theorems about its scan machine and its connection machine |
| `NetworkProofs` | `Wsupp`: theorems about networks, stations and keys |
| `ScanTableProofs`, `HandshakeProofs`, `LoopProofs`, `KeyFileProofs` | theorems about the module each is named after |

A C function is an operator of the same name from the daemon's record to the
record it leaves. A handler with all it calls is one operator, hence one
atomic step: the process has one thread. Three fields are the handler's output
and empty between steps: `tx` (netlink commands), `sent` (the frame to the AP),
`rep` (notifications); `reseq` says that scanseq was changed.

### How the actions of `Wsupp` correspond to the code

* `HandleNetlink`, `HandleRawsock`, `HandleRfkill`: one message off one
  descriptor. handle_netlink reads one datagram per round and handles all messages
  of it; one message per step, with the descriptors in any order, allows every
  order the code has and some more in between.
* `TimerExpired`: ppoll's timeout, only when nothing is readable. A timer
  has no duration: the code restarts the whole timeout at every wake-up, so no
  order of two timeouts can be relied on. `Prompt = TRUE` restricts a run to
  timers that are slower than the card and the AP.
* `UserScan`, `UserNeutral`, `UserConnect`, `UserForget`, `Sigterm`.
* `LeaveLoop`: the loop looks at `opermode` at its top only, so a round that has
  set OP_EXIT still serves the other descriptors (`Alive` against `Running`).
* `Card...`: the kernel executes genl commands synchronously in sendmsg, so
  the daemon waits while `tx` is not empty. `nl_send` never reports a socket
  error to its callers. `CardRefuse` is the error message that comes back.
* `ScanDone`, `AuthDone`, `AssocDone`, `ApMessage1`, `ApMessage3`, `ApResend`,
  `ApRekey`, `LinkLost`, `LinkDown`, `RadioOff`, `RadioOn`, `OtherSupplicant`:
  the card, the AP and the rest of the world. An association is made, refused
  (ASSOCIATE and CONNECT with a failure status) or times out (ASSOCIATE only);
  the daemon's handlers look at neither status nor timeout.

### The three views of the daemon

`Wsupp` has every state change of the machines and takes a handler as one step.
The other three modules look closer at what `Wsupp` abstracts, each at a
boundary of the code:

* `Loop` splits a round into its steps: `EnterPoll` (line 243 to the call of
  ppoll), `PollReturns`, then `CheckConn` for each slot in order, `CheckNetlink`,
  `CheckRawsock`, `CheckRawError`, `Accept`, `CheckControl`, `CheckRfkill` in the order
  of `check_polled_fds`, and `EndRound` (the test of sigterm). `fork` and `StorePid` are
  separate because SIGCHLD may come between them. What handlers do to the
  machines is over-approximated there by what descriptors and clients depend
  on: an attempt may begin, go on or end, a report may or may not be written.
* `ScanTable` has an action per message of a scan (`TriggerScan`, `ScanResults`,
  `Multi`, `Done`, `Reset`) and per command that touches entries. `ApSelect` and
  `NlEvents` use a map from station to flags: `ScanMap`, without its limit.
* `Handshake` has an action per handler of the connection machine that touches
  the EAPOL state (`Authenticated` for prime_eapol_state, `Associated` for
  allow_eapol_sends, `Disconnected` for reset_eapol_state, `LinkLost`, `Aborted`)
  and `Reads` for handle_rawsock. `EapolRx` has the same states with keys as
  tokens.

### Abstractions

* A sequence number is `"SCANSEQ"` (equal to the current scanseq) or `"OTHER"`;
  `Resequenced` retags what is queued when scanseq changes.
* A key is a token; derived keys are equal exactly when the keys are and the
  nonces belong to the current association (`cur`, `Outdated`).
* `scans[]` is a map from station to flags and to the name and ciphers of the last
  dump (`looks`), with no limit. What a dump says of a station is any member of
  its `Beacons`; a hidden network has the name `NoSsid`. `Slot` is the order of the
  entries. A station's frequency and signal do not change in `Wsupp`; in
  `ScanTable` they do.
* The card authenticates and associates with a station only under a name the
  station has among its `Beacons`.
* A client that waits is a member of `wait`; a handler's notifications are a
  set. A `wifi` process ends when the daemon closes its connection.
* DHCP, the closing and reopening of the raw socket and connection slots are
  left out of `Wsupp` (nothing in it reads them) and are in `Loop`.
* In `Loop` AS_NETDOWN and AS_EXTERNAL are `"NONE"`; the interface going down and up
  is one event; a client reads what it is sent in the end, so that the
  one-second write timer and partial writes do not occur. With every slot in use
  the last one has no entry in `pfds[]` (`Outside`). `room` is whether what follows
  the array in memory may be written and used: only then does ppoll wait for the
  client in that slot; otherwise the place has any `revents`. Each socket gives one
  datagram per round; one datagram of netlink is one message.
* A child is `NEW` between fork and execv, with the daemon's signal handler:
  SIGTERM makes it `DEAF`, and after execv it is a `STRAY` that runs on.
* In `ScanTable` a station's network, signal and presence may change from scan
  to scan. free_slot leaves the count at the last entry in use (`Shrunk`) rather
  than by a loop.
* In `Handshake` the air is a set of frames that nothing leaves. All frames are of
  type RSN. What is sent without a link is lost. `"DOWN"` is every state of the
  connection machine without a link: after reset_eapol_state or with another
  `ap.bssid` frames are stray or find keys of zeros. The access point takes a nonce
  for each handshake and a counter for each association, as 802.11i says; it
  looks at no group 2/2.
* In `KeyFile` a line is (key, name, length, newline) and the names its name
  begins with (`stems`). A cut may fall within the key, after it, anywhere within
  the name, or before the newline; what is left of a name may be another
  network's name (`Begins`) or nobody's. Hex digits glued to a cut name make a
  second word that is no network's. Undefined behaviour (a write to where the text
  was before mremap, memmove of -1 bytes) ends the process.

## 3. Runs

| run | module, cfg | bounds | shows |
|---|---|---|---|
| `machines` | `MCWsupp`, `Machines` | 1 station whose ciphers change, 2 keys, 2 events of any kind, 1 foreign connection, timers at any moment | `TypeOK`, `ScanAnswered`, `AuthAnswered`, `ConnectedIsReal`, `ScanClientHeard` |
| `networks` | `MCWsupp`, `Networks` | 2 networks, a station of one and a station that has the name of either, 2 keys, 2 events of any kind but SIGTERM, rfkill and a refused disconnect | `SavedKeysWork`, `CurrentKeyWorks` (`FixedHasKey` and `SuccessIsProven`), `OffersHaveKeys` |
| `settles` | `MCWsupp`, `Settles` | 1 station, losses, faults, refused disconnects, resent frames | under fairness: `ScanEnds`, `AuthSettles` |
| `recovers` | `MCWsupp`, `Recovers` | 2 stations on air, 1 event, prompt card | under fairness: `Reconnects`, `ExitHappens` |
| `key_table` | `MCKeyFile`, `KeyTable` | 2 networks, the name of one beginning with the other's, 2 keys, 5 changes and faults, hand-edited files, cut writes, failing reads, growth by mremap | `TypeOK`, `InBlock`, `OneLine`, `KeysGenuine`, `Synced`, `Implements` (refinement of `KeyStore` until something is lost) |
| `loop` | `MCLoop`, `Loop` | 1 slot, 2 clients, 2 DHCP children, mixes of events, frames and SIGTERM | `TypeOK`, `RawPolled`, `AckFirst`, `TermNoticed`, `DhcpKnown`, `KillsOwn`, and under fairness `FrameRead`, `Served` |
| `scan_table` | `MCScanTable`, `ScanTable` | more stations than entries, 2 frequencies, changing names | `TypeOK`, `NoTwins`, `Tight`, `HeardStays`, `Implements` (refinement of `ScanMap`) |
| `handshake` | `MCHandshake`, `Handshake` | 2 keys, 2 nonces a side, 4 counters, 2 group keys | `TypeOK`, `KeysAgree`, `FreshPtk`, `GtkForward`, `HeldBack`, `Implements` (refinement of `KeyAgreement`) |
| `false_external` | `MCWsupp`, `FalseExternal` | 2 lost links | `NoFalseExternal` is violated |
| `rfkill_race` | `MCWsupp`, `RfkillRace` | the switch off and on | `RestoredIsRetried` is violated |
| `neutral_race` | `MCWsupp`, `NeutralRace` | a lost link, `wifi disconnect` | `NeutralIsIdle` is violated |
| `long_ssid` | `MCKeyFile`, `LongSsid` | a name of 32 characters | `SavedIsFound` is violated |

Bounds: `MaxEvents` counts spontaneous events (commands, signals, faults,
losses), not steps; two are enough for a loss during the recovery from a loss,
a command during another's scan, a signal during a fault. A refused or timed-out
association is such an event (a fault). `RescanLimit` and
`RescanCycle` stand for 30 and 6 and keep their two branches. In `KeyTable`
Page and Slack are small so that the text outgrows its block with the second
line. In `Loop` one slot and two clients are enough for a full table, a client
that is refused, and a slot that changes hands within one round; its budgets
are four mixes rather than their maximum, which TLC would not finish: each mix
keeps one pair of actors busy. In `ScanTable` the number of stations exceeds
that of entries, so that eviction and dropping occur. In `Handshake` two nonces
a side give a handshake, its frames in the next association, and a second
pairwise handshake over the first; four counters give resends between them.
Deadlock is checked in `Handshake` only, where a link may always be lost or begun:
elsewhere a daemon that left its loop is done, and so is a connected one with no
events left.

Every property has a mutant: a definition marked `Mutant:` that changes one
function as a plausible bug would and with which TLC finds the property
violated.

### Fairness

`FairSpec` assumes weak fairness of the three descriptors (poll returns every
readable one and the loop serves all it returns), of the timer (it runs out
when nothing happens), of the exit of the loop, of the kernel (it executes what
is sent), of the end of scans, of the progress of a link (authentication,
association, the AP's messages; an AP drops a client whose 2/4 fails its
check) and of a blocked radio being switched on again. Nothing is owed by
users, losses and faults. `ScanEnds` and `AuthSettles` allow timers at any
moment; `Reconnects` and `ExitHappens` need a card that answers before a timer.
`Loop`'s FairSpec assumes weak fairness of the daemon's steps (a process that can run
runs) and of each client's reading and noticing that it is alone; nothing of the
timer, the card, the AP, or users.

## 4. Proofs

### The machines

For all stations, networks, keys and numbers of events:

* `TypeCorrect` (`WsuppProofs`): `Spec => []TypeOK`. There is a lemma
  per function. The inductive invariant adds `PeerKnown`: a link that is not
  foreign has a station on its other end.
* `ScanMachineAnswered` (`ScanProofs`): `Spec => []ScanAnswered`.
* `ScanClientServed` (`ScanProofs`): `Spec => []ScanClientHeard`.
* `ConnectionAnswered` (`AuthProofs`): `Spec => []AuthAnswered`. A machine that
  waits has its answer on the way; the one exception is CONNECTING after an
  association that timed out (section 5).
* `ConnectedToSomething` (`AuthProofs`): `Spec => []ConnectedIsReal`. CONNECTED is
  a link or about to be corrected; the one exception is an association the AP
  refused.
* `OffersKeepKeys` (`NetworkProofs`): `Spec => OffersHaveKeys`. A station comes to
  be offered without a key only by a dump that renames it.
* `ProvenKeysSaved` and `CurrentKeyProven` (`NetworkProofs`):
  `Spec /\ HandshakeInOrder` implies `[]SavedKeysWork` and `[]CurrentKeyWorks`
  (its parts: `FixedHasKey`, `SuccessIsProven`), when the keys the config file starts with are genuine or
  do not parse (`CfgGenuine`; the run's `MCCfg` is of this kind).
  `HandshakeInOrder` is a hypothesis that the code does not ensure.

**The scan machine.** The argument is one relation, `ScanKept(x, y)`, between the
state a function gets and the state it leaves: it takes no command and no report
back, and either leaves the scan machine as it is, or starts a scan or a dump and
sends the command for it, or ends the scan and reports it. It is reflexive and
transitive and every function satisfies it, so every handler does. The
invariant needs two more facts: the scratch fields are clear between steps
(`Rested`), so that a retagged queue means a scan of this very step; and what
ends a scan (`AnswerEnds`) is consumed only by a handler that ends it. The
steps of the card move the answer on from the command stream to the card and
to the queue, and never drop it.

**The connection machine.** `Kept` is `ScanKept` with the same for authstate
(`AuthKept`): what a function leaves waiting was waiting before or has sent its
command. The messages that move the machine are excepted and have a lemma each
(`EventMoves`, `ErrorMoves`). `Kept` says two more things of every other function:
AUTHENTICATING is entered once, from IDLE and with its command (`MovedOnce`), and
the EAPOL state stays (`EapolKept`), which the functions that read frames, prime,
allow and reset it do not keep. What an invariant has to say more is about the
queue, because cmd_connect makes the daemon CONNECTED whatever state it is in.
`Claims`: an ASSOCIATE or CONNECT in the queue that reports success is true of the
card's link, or a DISCONNECT lies behind it, or it is another supplicant's. In the
last case the AUTHENTICATE that heralds it is still to be read,
and reading it disables the daemon; or it was read, and the message at the head
meets a daemon that is disabled or has a command or an error under way that will
end its attempt (`Contested`). `Paired`, that an ASSOCIATE is followed by its
CONNECT unless it timed out, keeps the last two cases apart. One that reports a
failure is about the last association the card attempted, which is the exception
the theorems name, or something else lies behind it, or an attempt has begun since
and the daemon will take the message for another supplicant's (`Excuses`). A change
of scanseq retags errors and disturbs none of this (`RenumberedClaims`).

**Networks.** `Net` is an invariant of every function, not only of handlers: a key
to be saved is not empty, and `ap`'s network and mode fit; who comes to be
offered has a key in the config file, or another name than before (`Offered`).
With the claim "PROVEN", `Net` says that keys are genuine, too (`Genuine`): what
the config file has opens its network, fixed mode has a key, `ap.success` means
that PSK has opened `ap.ssid`, and once the card has joined a network (`Joined`)
the handshake works with PSK or with no network's key. PSK is loaded, given and
wiped only where nothing depends on it (`Blank`: nothing joined, nothing fixed).
What the card has joined is named by the SSID of the command, not by the
station, whose name may be another by then. So a 3/4 that passes its check *in an
attempt* proves PSK for the network that handle_connect saves it for. That a 3/4
does end in its attempt is assumed: `HandshakeInOrder`, about the order of two
sockets, not about keys, networks or commands. Whatever else can happen, in any
number, with another supplicant or a refused DISCONNECT, cannot break the two
properties without breaking this order first. The order itself can be broken
(section 5), so the two theorems do not say that the program never saves a wrong
key; they say where that would have to begin.

Assumptions: those named in the modules, `StationAssumption`, `NoneAssumption`,
`RescanAssumption`, `BestAssumption` (any set of stations has a first and a last
one in the ranking: `scans[]` is finite and its entries have different slots),
`EnvAssumption`. TLC evaluates them in every run.

### The scan table

For tables of any size, any stations, frequencies and names:

* `TypeCorrect`, `OneEntryEach` and `CountIsTight` (`ScanTableProofs`):
  `Spec => []TypeOK`, `[]NoTwins`, `[]Tight`. Their conjunction is inductive.
  `NoTwins` alone is not: an entry beyond the count is not found, and its station
  would get a second one. No lemma needs that the first fitting entry is taken:
  any free one is as good.
* `HeardStationsStay` (`ScanTableProofs`): `Spec => HeardStays`. The strengthening
  `Heard` says that what the running dump has stored has an entry that is not
  stale. Such an entry is not given up, and a trigger does not mark it, since
  marks are made before the dump only.
* `ScanTableImplements` (`ScanTableProofs`): `Spec => Implements`. Each step of the
  table is a step of the map or leaves it alone. What needs the invariant is the
  room: used entries and stations correspond one to one (`Counts`), no free entry
  is left when one is given up (`GivenUpWhenFull`), so NSCANS stations are
  present then, and fewer when a free entry is taken.

Assumptions: `TableAssumption` (at least one entry, finitely many stations) and
`FreeAssumption` (a free entry is not one in use).

### The handshake

For all keys, nonces, counters and group keys (`HandshakeProofs`):
`TypeCorrect`, `BothHaveTheKey` (`KeysAgree`), `NoKeyReinstalled` (`FreshPtk`),
`GroupKeysOnlyRise` (`GtkForward`), `NothingSentEarly` (`HeldBack`) and
`HandshakeImplements`: every step is one of `KeyAgreement` or leaves it alone.

The air loses nothing and delivers anything at any time, so the invariant is
about every frame ever sent:

* *Nonces are not from the future.* No frame, key or state names a nonce that
  neither side has drawn yet. A key derived from a new nonce is therefore a new
  key: it is in no frame and was uploaded by nobody. That is `FreshPtk`, once
  `NoSecond` is added: while a second pairwise handshake runs over the first,
  the station's finished key is not the one it is computing.
* *One key per nonce of the AP.* Two frames of one handshake name the same pair
  of nonces, so a 3/4 whose MIC fits the station's key comes from an AP that
  computed this very key.
* *In step.* While the station has not finished, neither has the access point;
  so when the station uploads, it finds the access point with this key, or gone.
  With a port opened only after an upload, this gives `KeysAgree`.
* *Order of the group keys* (`GtkOrder`). Of two frames under one pairwise key
  the one with the higher counter has the same or a later group key.
  recv_group_1 and recv_packet_3 want a counter above the last one, so that
  `GtkForward` follows.

Assumptions: `HandshakeAssumption` (counts are positive), `NoKeyIsNone` (the
zeroed key is no derived key).

### The loop

For all numbers of clients, slots and children and all mixes of events
(`LoopProofs`): `TypeCorrect`, `HandshakeHeard` (`RawPolled`), `ClientsPolled`
(`ConnsPolled`, which no run checks: it takes two slots to say anything),
`ReplyComesFirst` (`AckFirst`), `TermIsNoticed` (`TermNoticed`),
`OneDhcpChild` (`DhcpKnown`) and `OwnChildKilled` (`KillsOwn`).

* *The pollfd array may be out of date only within a round.* Each entry is that
  of the slot's client, or the slot was freed or taken since ppoll returned and
  the round is known to refresh the array before it sleeps. The entry that is
  missing is that of the last slot, when all are in use, and no other.
* *The raw socket.* An attempt that has one has a good one; it goes bad only
  with the interface, and then a DISCONNECT is due that ends the attempt.
* *A client between its request and the reply* is no listener: report() passes
  it by until the reply is written, and this is still so after ENOKEY, when the
  same client asks a second time.
* *Children* have pids in the order of their forks; the one whose pid was not
  stored yet is the last one. One that was told to end before execv is not among
  those `DhcpKnown` counts.

Assumption: `LoopAssumption` (numbers and mixes are what they are called).

### The config file

For all networks, keys, page sizes, files and numbers of changes
(`KeyFileProofs`): `TypeCorrect`, `TextWithinBlock` (`InBlock`) and
`NothingUnsaved` (`Synced`); when `NamesApart`, `OneLineEach` (`OneLine`) and
`KeysAreGenuine` (`KeysGenuine`); when `ShortNames`, `FileImplementsStore`
(`Implements`).

* *Lengths.* datalen is never recounted: change_part, insert_line and drop_line
  add the difference they make. The lemmas `TotalAppended`, `TotalReplaced` and
  `TotalRemoved` say what each does to the sum of the sizes of the lines. `Total`
  is a recursive function; the library's induction rules cannot be instantiated, so
  what it computes is proved by the smallest counterexample (`LeastOf`).
* *Whole lines.* Unless the disk fails, every line in the file and in memory
  ends in a newline (`LinesEnded`), so that a new line does not continue an old
  one, as it does after a failure.
* *One line each.* Of the lines with a newline a text has at most one for a
  network, and its key was given for the network or does not parse
  (`LinesGenuine`); find_line has that line replaced, rather than another one
  added. A line without a newline is the last one. It may name a second time a
  network that has a line, or have the key of a network whose name begins with the
  one it names. insert_line glues the next key to it, and then it names nobody;
  change_part, if it is the line found, writes the right key into it.

Assumptions: `FileAssumption`; `NamesAssumption`: a name is longer than those it
begins with, and what save_psk cuts off leaves a beginning; `FilesAssumption`: the
files the daemon starts with are texts of the model in which no network has two
lines that end in a newline (a hand-edited file that names one twice keeps both,
and `OneLine` is not about it), and those it wrote itself end in a newline.
`NamesApart`: a name that save_psk cuts to 29 characters is not another
network's, and each fits find_ssid's buffer of 100 bytes, as 32 characters do;
names may begin with each other otherwise. `ShortNames`: names fit save_psk's buffer too; without it the
refinement fails, as `SavedIsFound` shows.

### Only model-checked

* Everything under fairness (`ScanEnds`, `AuthSettles`, `Reconnects`, `ExitHappens`,
  `FrameRead`, `Served`) and everything said with ENABLED: out of the prover's
  reach.

## 5. What the checks have found

1. **A daemon disables itself** (`NoFalseExternal`). `wsupp_netlink.c:335` says
   that snap_to_disabled "should only happen in response to another supplicant".
   After two lost links the error of an old command is charged to the new
   attempt, start_disconnect moves to DISCONNECTING, and the attempt's own
   AUTHENTICATE event is then taken for another supplicant's.
2. **Not retried after rfkill** (`RestoredIsRetried`). `wsupp_rfkill.c:35`
   promises an "attempt to re-establish connection". If the OFF event is read
   before the rescan's ENETDOWN, snap_to_netdown leaves AS_IDLE and
   handle_rfrestored returns early: OP_RESCAN, idle, no timer.
3. **Neutral and connecting** (`NeutralIsIdle`). `wifi disconnect` while the scan
   for a lost AP runs sets OP_NEUTRAL; the end of that scan connects again.
4. **Long names are not found again** (`SavedIsFound`). save_psk has room for 29
   characters of a name. The property is about saves for which the file is
   whole, is read, and has room.

Met while modelling and part of the model, without a run of their own:

* an association that times out is waited for without end: its ASSOCIATE event moves
  the daemon to CONNECTING (`wsupp_netlink.c:377`), and no CONNECT follows and no
  timer runs. `AuthAnswered` and `AuthSettles` name this case; nothing else waits
  for ever;
* an attempt that fails while a `wifi scan` runs leaves the daemon active, idle and
  without a timer: reassess_wifi_situation returns since a scan is running
  (`wsupp_apsel.c:485`), and the end of that scan has nobody to call. TLC finds it
  with a client's scan and a link lost in AUTHENTICATING;
* a dump that gives a known BSSID another name leaves its SF_PASS
  (`wsupp_netlink.c:238`), which then says that there is a key and there is none
  (`OffersHaveKeys` names it);
* when the write of the config file stops within "home-5G", what is left may read
  "home", and the key is found for that network (`wsupp_config.c:48`). It is at
  most the last line (`OneLine`, `KeysGenuine`);
* a refused association ends in CONNECTED: cmd_connect does not look at the status
  (`ConnectedIsReal` names it);
* a DISCONNECT that the card refuses leaves the handshake state of the live
  link; a late frame of it may complete the next attempt: `HandshakeInOrder` then
  fails after two events, and `SavedKeysWork` and `SuccessIsProven` after three;
* an attempt may begin with events and errors of older ones unread, and takes them
  for its own: 2/4 and 4/4 leave before the ASSOCIATE event of this attempt. With
  enough lost links this breaks `HandshakeInOrder` with no other cause;
* SIGTERM with an event of the connection machine queued may be forgotten;
* `wifi disconnect` and `wifi connect` may wait for ever (a refused DISCONNECT,
  an aborted scan after ENOENT);
* the comment at `wsupp_cntrl.c:332` says that reassess_wifi_situation does not
  generate notifications; it calls report_no_connect;
* with every slot in use the last client's entry lies behind the end of
  `pfds[]`; `ConnsPolled` names it, and `Served` assumes that this does no harm;
* a DHCP child that is told to end before execv has the daemon's handler still and
  runs on beside the next one (`DhcpKnown` does not count it);
* a command in the same round as an error of the raw socket begins an attempt
  whose socket check_rawsock then closes (`RawPolled` names this exception);
* a DHCP child reaped before its pid is stored is killed later by a pid that may
  be another process by then (`KillsOwn` names it); two children that end at
  once leave a zombie;
* SIGTERM between its test and ppoll waits for the next event (`TermNoticed`);
* `wifi disconnect` during an exit overwrites OP_EXITREQ: the exit is cancelled;
* 2/4 may be sent before prime_eapol_state of a new association when a 1/4 of the
  last one is read in AUTHENTICATING: without a link, it is lost;
* group 2/2 carries the whole length in paclen and no KI_SHA, unlike 2/4 and 4/4;
* an aborted scan leaves its entries marked stale until the next scan ends;
* insert_line uses an address taken before mremap; drop_line on a last line
  without newline moves -1 bytes; a first load that fails makes the second one
  succeed with an empty text.

## 6. Not modelled, and the plan

What is left, by importance:

1. `HandshakeInOrder` with the rounds of the loop: one datagram per round, with
   connections served first, bounds how late an event is read, and with it how
   much of an older attempt the next one can meet.
2. A composition of `Loop` with the machines of `Wsupp` is out of TLC's reach: the
   product of both state spaces is. `Loop` allows every effect of a handler
   that `Wsupp` has on what it looks at.
3. Durations: a timeout that is restarted at every wake-up, the one-second write
   timer of a client that does not read.
4. `wifi connect` and `wifi disconnect` are heard only under conditions no text
   promises (section 5), so no property states it.

Left out for good: crypto (numeric code with test vectors), packing and parsing
of netlink, nlusctl, beacon and EAPOL bytes (sequential code over buffers, no state),
the terminal I/O and formatting of `wifi`, error texts.
