# Verification of quadrf-mesh

quadrf-mesh turns a QuadRF board (a MAX2850/MAX2851 radio behind an FPGA) into a
Meshtastic radio. A PHY daemon, `quadrf-lora-phy`, modulates and demodulates LoRa on
a full-duplex SDR; the Meshtastic daemon, built with the `QuadRFRadio` backend, sends
and receives frames through it over a Unix socket (Air-IPC). This directory holds
TLA+ models of that system, TLC configurations that check them on small instances,
and TLAPS proofs of what holds for every size.

`PROJECT.json` lists the components, runs, mutants, source lines of every definition,
findings, hazards and theorems. To check: `tlc -config <run>.cfg <MC module>` and
`tlapm <...Proofs>.tla`.

## 1. Inventory

### 1.1 The parts, their state, their operations

| part | source | state | operations |
|---|---|---|---|
| transmit line | `src/lora/transmitter.cpp` | queue of waveforms, current burst and position | `enqueue`, `pull`, `isIdle`; destroyed and rebuilt by `applyModem` |
| PHY transmit path | `apps/quadrf_lora_phy.cpp` 597-886, 1264-1317, 1395-1414 | `tx_unmuted`, `rx_gain_restore`, idle timers, `rf_tx_mu`, `modem_mu`, `g_running`; registers: `disable_tx`, PA bias, RX gain | TX thread (pull, unmute, write, mute), PA watchdog, LO poll, shutdown |
| RF front end | `src/radio/rf_frontend.cpp` | board registers through JTAG | `txOn/Off`, `paMute/Unmute`, `setRxGainNoSetup` |
| LO follower, synthesizers | `quadrf_lora_phy.cpp` 756-834, `src/radio/synth.cpp` | last programmed and pending LOs, channel | `pollLoFollow`, `programLo`, `readLo` |
| self-echo filter | `quadrf_lora_phy.cpp` 660-691 | the last 8 frames accepted | `rememberTx`, `isRecentTxEcho` |
| receive chain | `quadrf_lora_phy.cpp` 133-168, 889-905, 1116-1147, 1362-1393 | chunk queue of 32, DDC, receiver | RX thread, drain loop |
| LoRa receiver | `src/lora/receiver.cpp` | sample buffer, state search/sync/data, completed frames | `feed`, `process`, `pop`, `flush`; destroyed and rebuilt by `applyModem` |
| LoRa coding | `src/lora/coding.cpp` | none | `encodeFrame`, `decodeFrame`, `decodeFrameSoft` and what they are made of |
| demodulation, DSP | `src/lora/*`, `src/dsp/*` | filters and tables | floating-point signal processing |
| Air-IPC | `include/quadrf/air_ipc.hpp` | Deframer: position in a frame | `encode*`, `decode*`, `feed`, `reset` |
| socket link | `quadrf_lora_phy.cpp` 170-188, 974-1020, 1319-1340; `QuadRFRadio.cpp` 256-365 | the two sockets, buffers of the kernel | connect, accept, read, `writeAll`, `writeFrame` |
| QuadRFRadio | `integrations/meshtastic/backend/QuadRFRadio.cpp` | `txQueue`, `sendingPacket`, `tx_end_time_ms_`, `rx_q_`, `greeted_peers_`, `pending_preset_`, the firmware's one notification slot | `send`, `onNotify`, `enqueueRx`, `reconfigure`, control socket |
| station of QuadRFRadio | `QuadRFRadio.cpp` 37-103, 694-925 | `callsign_`, owner, mtime of `quadrf.conf`, control client | control server, beacon, destructor |
| parrot, ping | `QuadRFParrotModule.cpp`, `QuadRFPingModule.cpp` | cooldown table; interval, mutex, condition variable | `handleReceived`; `threadMain`, `setIntervalSec`, destructor |
| legacy bridge | `src/bridge`, `src/stream`, `src/mesh`; `quadrf_lora_phy.cpp` 1098-1114, 1342-1360 | deframer, session, queue of FromRadio messages | a PTY that speaks the Meshtastic phone API |
| start and end of the daemon | `quadrf_lora_phy.cpp` 321-660, 834-936, 1395-1434; `src/radio/stream_pair.cpp`, `radio_session.cpp` | sockets, files, device, streams, threads, FPGA register, board | options to exit, `onSignal`, exception handler |
| BLE bridge | `tools/ble/quadrf_ble_bridge.py` | TCP socket, receive buffer, queue of 64, `from_num` | worker thread, FromRadio, FromNum and ToRadio characteristics |
| mesh monitor, launcher, units, bench programs | `apps/`, `debian/` | - | GUI, systemd, tests |

### 1.2 How they interact

```
  phone/web -> meshtasticd: Router -> QuadRFRadio --(Air-IPC socket)--> main loop of quadrf-lora-phy
                                        ^ worker, RX thread,             |  enqueue          ^ receptions
                                          control, beacon, ping          v                   |
                                                       Transmitter <- TX thread     RX thread -> ChunkQueue
                                                                       |  rf_tx_mu           ^
            appliance GUI (quadrf-jtag) -> registers, synthesizers <- RF front end, streams -+
```

The main loop is the hub: it accepts and reads the client, changes presets, polls the
synthesizers, guards the PA and drains the receiver. The TX thread shares the
transmitter with it under `modem_mu` and the RF registers under `rf_tx_mu`; several
tests are made outside the locks. The GUI writes the same registers from another
process, with no lock at all.

### 1.3 What is hard

* **Two threads and a GUI on the same registers**: the watchdog mutes the PA without
  `rf_tx_mu`; the LO poll must not retune under a burst; the RX gain is ducked
  during a burst and restored afterwards.
* **State destroyed in use**: a preset change rebuilds transmitter and receiver.
* **Partial failure**: a JTAG access fails or throws, one synthesizer of two is
  programmed, half a frame is written.
* **A byte stream** cut anywhere by reads, writes, timeouts and deaths.
* **One notification slot** overwritten by four kinds of thread.
* **Bounds**: 8 remembered frames, 32 chunks, `MAX_TX_QUEUE`, one client, 64 frames for
  the phone, the parrot's slots.
* **Waits**: a condition variable notified around its mutex, a blocking read of a
  client's command, joins in destructors.
* **Start and end**: a board left with the PA armed, files and sockets left behind, a
  thread object destroyed while its thread runs.
* **One main loop** that blocks in a write, or keeps draining.

The full list, each at its line, is under `hazards` in `PROJECT.json`.

### 1.4 What makes each part correct

| part | properties |
|---|---|
| transmit line | the stream of whole bursts promised to clients (`KeepsPromise`); nothing of an old preset (`LineMatchesModem`); a waiting frame starts (`QueueMoves`) |
| PHY transmit path | no retune on the air (`NoRetuneOnAir`), the gain comes back, or the one the code puts in its place (`GainRestored`), mute only behind silence (`MuteAfterSilence`), bursts with the PA on (`BurstUnderPa`), the PA off at last (`PaOffWhenIdle`), a stop ends the process (`StopTerminates`) |
| LO follower | the synthesizers accepted are on the channel (`Settled`), only the user moves it (`OwnWritesIgnored`, `ChannelRequested`), a moved slider is followed (`Replaced`) |
| self-echo filter | a client never receives its own frame (`NoSelfEcho`: violated); it does only behind at least 8 frames accepted since (`NoRecentSelfEcho`) |
| socket link | frames in order, unchanged (`InOrder`), none invented (`OnlyWritten`); recovery behind a cut frame (`Recovers`); the loop is never held for good (`LoopComesRound`); what is written is acted upon (`Delivered`) |
| QuadRFRadio | what waits has a notification coming (`Watched`), one packet on the air (`Paced`), no packet waits for ever (`NothingStalls`), presets are applied (`RequestApplied`) |
| receive chain | chunks lost are counted, the others stay in order (`Accounted`); completed frames survive the replacement of the receiver (`HandedAtOnce`); a stop ends both threads (`Stops`) |
| LoRa coding | what the code is there for: one wrong symbol a block, a drift, lost symbols (`Repaired`); a payload wrong behind a right CRC is told by the tail margin (`TailMarginTells`) |
| BLE bridge | only what the daemon wrote, in order, for as long as no stray byte put it out of step (`Genuine`); the queue is the newest frames without a gap (`QueueIsNewest`); a subscribed phone empties it (`PhoneCatchesUp`) |
| ping, parrot | a new interval is taken up from any place of the worker, and the worker ends (`IntervalObeyed`); parrots do not answer each other and keep to their rate (`ParrotQuiet`) |
| station | the name on the air becomes the callsign (`NameSettles`); every client is served and the destructor returns (`ControlServes`) |
| start and end | what was taken is given back, the PA is off, no thread outlives its object (`OrderlyExit`) |
| legacy bridge | messages survive cuts and noise on the line (`LineResyncs`); a packet is heard as the session read it, over relays that end, and one that the host did not mean is paid for by a cut (`HeardAsSent`); the host gets its answers while the PTY takes them (`HostServed`) |
| receiver | no read before the trimmed front (`Buffered`); one preamble, one frame (`OnePerPreamble`); the buffer holds what is needed (`Bounded`) |

## 2. Plan

Done first, because it is what puts power on the antenna: transmit line, transmit
path, LO follower; then the self-echo filter, the link, and the radio of the node;
then the receive side, `Receiver` and `RxChain`.

Then the parts around the radio path, which share no state with it or with each other:
`LoraCoding` with `CodedLink` (a frame through a channel that damages it),
`BleBridge`, `PingWorker`, `Parrot`, `Station`, `Bringup`, `LegacySession`. One
instance, `MCParts`, runs them, each in behaviours of its own.

Proofs follow where a property holds for every size by an argument a small instance
does not show: the interleaver and the code for any width, the queue of the bridge
for any length, the parrots for any number of them, the refinement of the transmit
line for any burst and chunk, the order of the messages on the socket for any cut of
its bytes, the packets of the legacy session for any requests and relays, its line for
any cuts and noise.

What could come next: `Mesh`, a composition of `RadioNode`, `AirLink` and the transmit
line in which a packet sent is put on the air once and in order, and payloads of the PTY
that hold start bytes, of which `LineResyncs` would have to say what a cut may cost then.

## 3. Modules

| module | models | extends |
|---|---|---|
| `Transmitter`, `TransmitterProofs` | the transmit line, its clients as guards; that it implements `TxStream` | - |
| `TxStream` | abstract: one stream of whole bursts | - |
| `PhyTx` | TX thread, main loop and GUI around the transmit line | `Transmitter` |
| `PhyTxInvariants`, `PhyTxProofs` | the inductive invariants, the proofs | `PhyTx`, `TransmitterProofs` |
| `LoFollow`, `LoFollowProofs` | LO follower and synthesizers | - |
| `SelfEcho`, `SelfEchoProofs` | the memory of sent frames between queue and receiver | - |
| `AirIpc` | frames, bytes, the Deframer | - |
| `AirLink`, `AirLinkProofs` | node, kernel, daemon; the Deframer against the frames written | `AirIpc` |
| `RadioNode`, `RadioNodeProofs` | QuadRFRadio | - |
| `Receiver` | the receiver's buffer and its search, sync, data machine | - |
| `RxChain`, `RxChainProofs` | RX thread, chunk queue and main thread around the receiver | `Receiver` |
| `LoraCoding` | coding and decoding of a frame, operators only | - |
| `CodedLink` | a frame, a damaging channel, the two decoders | `LoraCoding` |
| `BleBridge` | TCP worker, queue, phone | - |
| `PingWorker` | the worker thread of the ping module, setter, destructor | - |
| `Parrot` | several parrots and users in range of each other | - |
| `Station` | control thread, beacon thread, destructor of QuadRFRadio | - |
| `Bringup` | `main()` of the PHY daemon from the options to the exit | - |
| `LegacySession` | host, PTY, deframer, session, air frames, relays | - |
| `PartsProofs` | the proofs about the parts beside the radio path | `LoraCoding`, `BleBridge`, `Bringup`, `Parrot`, `LegacySession` |
| `MC...` | instances for TLC | the module they instantiate |

A definition named `X_Something` with the comment "Mutant" is a wrong version of `X`,
used to see that a property notices; nothing refers to it.

### Correspondence with the code

* `Transmitter`: `queue`, `burst` are `queue_` and the unsent rest of `current_`;
  `chunk` is the TX thread's buffer. `pulling` is the mutex `modem_mu` held by
  `pull`; each turn of its loop is a step, `Enqueue` and `SetModem` wait for it. A
  sample is the frame, the preset it was modulated for and its position; `Owed`, what
  the line still has to send (the chunk up to its silence, the burst, the bursts of the
  waiting frames), is the stream of `TxStream`.
* `PhyTx`: `pc` says where each thread is; a step is one register access or one section
  under a lock. `PaOn` is bias on and `disable_tx` off. Times (100 ms, 200 ms, 1 s,
  the drain time) are choices, due or not. `Dies` is the exception that no thread
  catches (`std::terminate`), `Boot` the restart. `last_loaded` is
  history; so are the gain the user set last (`user_gain`), the one in force when the last
  burst began (`snap_gain`) and what became of the user's (`gain_fate`): `kept`; `cmdline`, where
  the gain of the command line took its place, because the read at unmute failed or the
  process was started anew; `undone`, where he set it during a burst; `died`, where the process
  ended within one. The code has none of these four, and no guard reads them.
* `LoFollow`: a poll reads, decides, programs and reads back, one step for each
  transaction under the JTAG lease, each of which may fail; sliders move between any two
  of them. `failures`, `raced` and `requested` are history.
* `SelfEcho`: queue, burst, receive chain as a sequence, memory; `age` counts the frames
  accepted since, up to `MaxRecent`, as history. `MaxWaiting` and `MaxHeard` bound the
  model, not the code, and the proofs hold for all of them.
* `AirIpc`/`AirLink`: bytes are numbers; a message is its type and body. A read takes
  up to `ReadLen` bytes, a write what fits into `Capacity`. `GiveUp` is
  `writeFrame`'s 200 ms timeout. `FeedByte` is one turn of the loop of `feed()`,
  `PassOn` and `Handle` are one turn of the loops over its messages; `After` runs such a
  loop over a sequence (each takes its arguments one by one, so that `After` is a function
  a proof can reason about).
* `RadioNode`: `slot` is the notification of `NotifiedWorkerThread` (external code:
  `notify` overwrites, `notifyLater(.., false)` does not). A thread between its
  action and its notification is in `posting`. `worker` is the place in `onNotify`.
* `Receiver`: positions are absolute sample indices as in the code (`base`, `next_abs`,
  `scan_abs`, `run_start_abs`, `found_abs`, `data_raw`), in whole samples. Whether a
  window is strong, where in its range the data begins, by how much the timing loop
  moves a symbol (`Jitter`), what the header announces are choices. `busy` is the loop
  of `process()`, `last` is history; `out` holds the start of each completed frame.
* `RxChain`: chunks are numbered; `Pop` feeds one, `Process` is one turn of `process()`,
  `Drain` is `drainRx` and the overflow report. `Reconstruct` is the destructor and the
  constructor that `applyModem` calls in place.

* `LoraCoding`/`CodedLink`: a word is a sequence of bits; nibbles, bytes and CRC least
  significant bit first, symbols most significant first. A likelihood is a sign and a
  weight: the soft decoder's sums and comparisons are exact on them. The channel is
  external: it changes a symbol of each block, shifts all, removes the weight of some, or
  replaces code words by others.
* `BleBridge`: the daemon's bytes in flight are `bleWire`, the worker's buffer is carried
  over a short read and dropped at a reconnect as in `_rx_worker`. Payloads and stray
  bytes are any bytes; the run has a payload with sync bytes in it. That a byte knows its
  frame and its place in it is history; the worker sees its value. The lock is held
  through `SendBegins`..`SendEnds`. The phone reads FromRadio until it gets an empty
  answer and sleeps until it is told.
* `PingWorker`: `wait` and `wait_for` are taken apart into lock, predicate, sleep and wake,
  so that a store or a notification can fall between any two of them.
* `Parrot`: `parTable` is `cooldown_` with its index; `Clock` is the range of
  `millis()`, the wrap of which is part of the model. An answer is spent even when the
  packet pool is empty. `parAnswered` and `parTexts` are history.
* `Station`: a modification time is a second, so that two edits within one look alike, as to
  `stat`. `Commands` are the requests a client may send, `silent` being none.
* `Bringup`: `buHeld` is what the process holds of the system, `buRf` what the board has been
  told, `buAt` the place in `main()`. `Jtag` is one call of the tool, which may fail
  before or behind the effect. `Raise` is an exception: caught, or the end by
  `std::terminate` when thread objects are destroyed joinable.
* `LegacySession`: a byte is its value and the piece of a message it carries; a protobuf
  message is a function from field numbers to values (defaults not written, unknown
  fields skipped, as in `pb_wire.cpp`); AES-CTR is the set of key streams a text is
  under. The host's write may be cut, stray bytes may lie between frames, a read may
  take part of what there is. A payload that a cut write left to the bytes behind it is told
  apart by where it was cut (`IsWhole`, `IsGarbled`, `IsRefused`, `Mixed`): in the text a
  packet ends in, the bytes behind are text, start bytes included, and the packet
  goes out garbled; a start byte where a tag is due is refused by its wire type; elsewhere
  what the mixture parses as is a choice among `Chimeras` and nothing at all. `FlushFails`
  is a PTY write that fails: the frame is lost and the daemon stops.

## 4. Runs

| run | question | bounds |
|---|---|---|
| `transmit_line` | does the line implement `TxStream`, and move? | 2 frames (1 and 3 samples) around chunks of 2, 2 presets, 2 waiting: bursts that end in a chunk, fill it and span chunks |
| `phy_tx` | safety of the transmit path; what becomes of the user's gain | a short and a long burst, 2 presets, 2 gains and the ducked one, the user's moved at any time, the read at unmute failing at any time |
| `phy_tx_live` | is every burst under the PA if bursts exceed a chunk? does the PA go off, does a stop end? | chunks of 2, bursts of 3, 2 waiting, one preset, one gain |
| `phy_tx_short` | bursts under the PA, for a burst within a chunk: **violated** | one frame |
| `lo_follow` | settled synthesizers, moved sliders followed, own writes never taken for moves | 3 slider positions moved at any time, 2 failures |
| `lo_follow_fails` | does only the user move the channel? **violated** | one failure |
| `self_echo_overflow` | is an own frame never delivered? **violated** | memory 2, 3 frames waiting |
| `air_link` | order, recovery behind cut frames, no blocked loop, delivery | 2 connections, 3 frames up, 1 down, frames of 7 to 9 bytes, buffers and reads of 5, deaths, a stop |
| `air_link_garbles` | is everything acted upon written by the node? **violated** | 2 frames |
| `radio_node` | notifications and pacing, packets go, presets come | 2 packets, queue of 2, 1 reception, 1 request, 1 reboot |
| `rx_chain` | buffer discipline, frames, chunks, stop | 3 samples a symbol, a span of 4 symbols, frames of 2 to 4 (of which 3 are followed), 4 chunks of 4 or 13 samples, the first skipped, queue of 2, one preset change |
| `parts` | one question for each part beside the radio path, see 1.4 | payloads of 1 and 3 bytes, SF 7 and 8, all rates, with and without LDRO and CRC, one kind of damage a frame; a memory of 2 sent frames, 3 waiting, 1 in the receive chain; 3 bridge frames, one of them with a header in its payload, a queue of 2, 2 troubles (noise, closes, sends, subscriptions); 3 interval changes; 2 parrots and 3 users, 2 slots, 3 texts, a clock of 3 that wraps; 2 clients, 2 callsigns, one edit; every mode of the daemon, every step failing; 3 messages (one ends in a text), one air frame, one write cut anywhere, one stray byte, a mixed payload read as nothing or as another packet, a PTY write that may fail |

The lengths are scaled: what matters of a burst is whether it is shorter or longer than
a chunk (one-chunk bursts are real: most Short Turbo frames last less than the 65 ms of
a chunk), of a frame whether a read or a buffer cuts it, of a bounded memory whether the
bound is passed, of a chunk whether a run, a span or a symbol ends in it (the long one
carries more than a span and a window, so that one acquisition can follow another in one
feed). Frame bodies contain the first magic byte but never the magic pair: a
body that contains a whole header can, behind a cut frame, be taken for a frame, which
the format cannot prevent.

### What the violated runs show

They are listed under `findings` with the sentence of the code or docs they contradict:
a one-chunk burst muted by the watchdog; a failed synthesizer programming taken for a
slider move; a frame given up half way joined to the next one; a frame of which the memory of 8 was
filled up by later ones before its echo came. The self-echo of the last is what the code
promises away in a comment; `NoRecentSelfEcho` says what it does keep, and is proved.

Three more limits of the code show in the properties, as what they have to leave out:

* the user's gain is lost in three ways, which `GainRestored` names, with the gain that is
  in force instead: where the read before the duck fails, `muteTxRf` puts the command line's
  back; where the user sets it during a burst, the one before the burst; where the process
  dies within a burst the receiver stays ducked until the restart, which sets the command
  line's. In every other behaviour it is the user's, and no other gain is ever put back;
* a slider moved before the first poll, or between a programming and its readback, is
  taken for the follower's own value (`Settled` and `Replaced` end with `raced`);
* the ISR_TX timer of the last queued packet may be replaced by a reception and is then
  not set again: the packet stays the one being sent until the next notification
  (`Watched` speaks of what waits, not of the packet on the air).

Two more are seen in the receiver. The comment in `receiver.hpp` that memory is bounded
by the preamble span holds for chunks shorter than about 3.5 symbols: with longer ones a
failed synchronisation may be followed by a new run in the same feed, and nothing is
trimmed between the two, so `Bounded` says for a synchronisation only how much lies
beyond its run. And a chunk lost in the queue leaves a hole that is reported
(`Accounted`) but that the receiver is not told of.

The parts beside the radio path show these, which their properties leave out:

* a client that connects to the control socket and sends nothing holds the control thread
  in `read`, the clients behind it and the destructor (`HeldUp` in `ControlServes`);
* the destructor of the ping module clears `running_` and notifies without the mutex:
  with the interval 0 the worker can be between its test and its sleep, and `join()` does
  not return (`IntervalObeyed` speaks of positive intervals);
* a signal between the installation of its handler and the start of the threads is lost:
  `g_running = true` is set behind it (`Bringup!Signal`, `StartThreads`);
* an `activate()` that throws finds both threads running, whose objects are destroyed
  joinable: the process is terminated, with everything held (`OrderlyExit`);
* a failure between `configureTx` and `paMute`, or in the last mute, leaves by a handler
  that does not mute: the PA stays on (`OrderlyExit` names exactly these places);
* `--rx-only` without `--ota` exits without removing the sockets, and a PTY whose socket
  could not be opened leaves its link (`OrderlyExit`);
* behind stray bytes the BLE bridge drops four bytes at a time, and may stay out of step
  for as long as the connection lasts; where sync bytes lie inside a payload it may then take
  them for a header and queue a frame nobody wrote. `Genuine` claims nothing of frames queued
  behind a stray byte of their connection if a stray byte, or a byte of a frame but its first,
  is `0x94`; without stray bytes it has no such exception;
* a parrot that answers more nodes than it has slots forgets the oldest and may answer it
  again within the second (`ParrotQuiet`);
* a cut write on the PTY costs the messages that begin less than one payload behind it
  (`LineResyncs`); a stray `94 C3` may cost messages too, which the model does not write;
* a write cut in the text of a packet is filled up by the frame behind it and goes on the air
  with a text the host never wrote: neither the deframer nor the protobuf parser can tell.
  `HeardAsSent` allows one such packet for each cut, and no other.

### Fairness

A thread that can go on does: weak fairness of the threads of `AirLink`,
`RadioNode` and `RxChain` (whose stream read has a timeout). In `PhyTx` and `LoFollow` it is strong fairness, where a mutex is released
and asked for again and again, a poll or a delay becomes due at last, a readback is
tried again every second and at last succeeds, and, in `PhyTx`, weak fairness of the
restart after a crash (`Restart=` of the service). Clients, frames, GUI, signals,
deaths and failures are never fair: they may stop, or go on for ever where the property
allows it. In `parts` the fairness of a part is stated for the behaviours that run it: the worker of
the BLE bridge, its callback and a phone that reads on until it is told there is no more
(the phone is an assumption; it may go away for good); the ping worker and a setter that
has begun; the threads of the station; the main loop on the PTY, `writeAll` that retries
until it is done, and a host that reads, which the code cannot enforce. Texts, clients,
edits, troubles, cuts and signals are never fair.
`AirLink` assumes that the node's RX thread reads, which its code does for
as long as the socket is open.

## 5. Proofs

| theorem | from | argument |
|---|---|---|
| `PhyTxProofs!TypeCorrect`, `RetuneIsOffAir`, `GainIsRestored`, `MuteFollowsSilence` | `TransmitterAssumption`, `GainAssumption` | `SafetyInv` = types, who holds `rf_tx_mu` where (`RfInv`), what a chunk holds against the TX thread's locals (`ChunkInv`), silence before a mute (`SilenceInv`), the gain snapshot (`GainInv`): `NoRetuneOnAir` alone is not inductive, it needs that `tx_unmuted` changes only under the lock |
| `TransmitterProofs!LineMatches` | `TransmitterAssumption` | with the line's types it is inductive: a preset change empties queue and burst in the step that changes the preset, and enqueued frames are modulated for the present one |
| `TransmitterProofs!LineKeepsPromise` (`LineSpec => KeepsPromise`) | `TransmitterAssumption`, `SilenceAssumption`: a sample of a burst is told apart from silence by where it comes from | the refinement, step by step: `Enqueue` is `Accept`, `WriteChunk` `Send` (or nothing, if the chunk was silence), `SetModemFails` `Forget`, `Reconstruct` `Switch`, and the turns of `pull` move samples within `Owed`, so they stutter; for that the types and `PromiseInv` are needed: in a chunk silence comes last and only to fill it |
| `PhyTxProofs!BurstsUnderPa` | also bursts longer than a chunk, one preset | `LongInv`: with a longer burst the line is not idle when the watchdog looks, until the flag is set |
| `LoFollowProofs!TypeCorrect`, `SettledInvariant` (while no slider moved during a poll), `OnlyTheUserMoves` (while nothing failed) | `LoAssumption` | what is placed is on target; the follower's own writes are recorded |
| `SelfEchoProofs!TypeCorrect`, `RecentEchoesAreDropped` (`NoRecentSelfEcho`) | `EchoAssumption` | every own frame not yet delivered that is younger than `MaxRecent` is the one remembered at its age, counted from the latest |
| `RadioNodeProofs!TypeCorrect`, `EverythingIsWatched`, `OneFrameAtATime` | `RadioNodeAssumption` | `Watched` speaks of a worker at rest; the invariant says at each place of the worker which step will arm the slot, and `AirInv` that a timer counts the packet on the air |
| `RxChainProofs!ReceiverInvariant`, `ChainImplementsReceiver`, `ChainBuffered`, `ChainOnePerPreamble` | `ReceiverAssumption`: a symbol is moved by less than its length, the data begins behind the run, a sample is kept before a symbol | `RInv`: scan point, run and data start lie behind the trimmed front and behind the last frame's start; each step of the chain is a step of the receiver or leaves it alone, so what holds of the receiver holds in the daemon |
| `RxChainProofs!ReceiverBounded` | `ChainAssumption`, `ReceiverAssumption` | `BInv` = `RInv` and: the windows of a run lie one behind the other and are fewer than end it (`RunGrid`), each symbol discards what lies behind the next one (`DataHeld`), `process()` comes to rest only where it wants more samples (`Rested`, but for the flush at the end) |
| `RxChainProofs!NoFrameLost`, `ChunksAccounted` | `ChainAssumption` | frames are handed on before the main thread leaves the feed; pushing, dropping and popping keep the numbers of the queue contiguous |
| `PartsProofs!HammingDecodes`, `HammingCorrects` | - | the syndrome of a code word is zero and each single flip has a syndrome of its own, which `Blame` names or which is a check bit's |
| `PartsProofs!DeinterleaveInverse` | - | on each row the diagonal is a bijection of the columns, so each bit is fetched from where it was put |
| `PartsProofs!BlockRepaired` | the two above | a symbol is one diagonal: it holds one bit of each code word, whatever the width |
| `AirLinkProofs!LinkIsSound`, `ActedInOrder` (`InOrder`) | `AirIpcAssumption`, `AirLinkAssumption`: messages fit their frame and decode | `LinkInv`, below |
| `PartsProofs!FramesAreGenuine` (`Genuine`) | `BleAssumption`: payloads are bytes and their length fits the header | `FrameInv`: what the worker has taken up of a frame and what is on the wire is a `Flow`: frames of the daemon and stray bytes, one behind the other, the first perhaps cut in front, newer than those queued; the last is whole while the connection lives (`Whole`). Until it takes a stray byte the worker stands at the beginning of a frame (`Orderly`); behind one, only where `0x94` can be nothing but a beginning. From there the length in the header is the frame's own (`FrameAhead`, `GotFrame`) |
| `PartsProofs!EndsInOrder` | - | `BringupInv`: at each place of `main()` what may be held (`HeldInTurn`), which modes come there (`ModeAt`), whether the transmitter may be on (`PaInTurn`), which failure may have left it on (`BlameInTurn`) |
| `PartsProofs!PacketsHeardAsSent` (`HeardAsSent`) | `LegacyAssumption`, `AskedAssumption`: flags and counts are such, in what the host asks, in that with another text, and in what a mixed payload parses as; a packet holds text or something encrypted under a key the daemon has not (the two are one `oneof` in the protobuf) | `LegacyInv`: each frame of `lgAir` is `meshPacketToAir()` of the packet the session read (`Airs`), kept through both loops of a read. `WrittenIsRead`: distinct field numbers give each field back; `PackedFlags`: the flags too; the key stream twice is none. So the first frame carries the packet (`FirstCarries`), a relay takes one hop off and leaves the rest (`RelayCarries`), and a frame that carries it is read as sent (`CarriedIsHeard`). `CountInv`: the packets the host did not mean are no more than the cuts that lie before what the deframer holds, because a payload that is none of the host's messages contains the end of a cut write (`Yields`, with `Tracks` of the next section) |
| `PartsProofs!LineAlwaysResyncs` (`LineResyncs`) | `LegacyAssumption`: a header that begins inside a header has a length that is refused, as `0x94`, `0xC3` and 512 have it; `AskedAssumption`: a message is not empty and fits in a frame | `ResyncInv`, below |
| `PartsProofs!BleSafe` | `BleAssumption` | the invariant adds the types and names how many frames lie before the queue (`Queued`); an append moves that number on when the queue is full, a read when it is not empty |
| `PartsProofs!QuietAlways` | `ParrotAssumption`: the cooldown is shorter than the range of `millis()` | `Accounted`: the texts still waiting in any station's queue pay for its further answers, answers of parrots for none; `Told`: until the slots are exhausted each node answered has one slot, which has the clock reading of the latest answer, and a difference of readings is the time that passed (`Elapsed`) unless more than a whole turn did |

### The order of the messages on the socket

`InOrder` speaks of what both ends have done; the invariant has to speak of bytes in the
middle of a read, a write and a frame. `Plan(r, M, f, g)` says that byte `i`
of `r` is byte `g[i]` of the frame of message `f[i]` of `M`; `Where(d, M, k, p)` that
the Deframer `d` has seen the first `p - 1` bytes of frame `k` and is in the state this
leaves it in; and `Follows(d, r, M, h, toEnd)` that, with `h` the messages acted on, the stream
`r` continues from there (to the end of the last message begun, if `toEnd`). `LinkInv`
has this in both directions of each connection that is still open: `r` is what is in the
kernel and what the writer still has in hand. That it is inductive needs

* `OneByte`, `Chunk`: a byte of the plan moves the Deframer to the next place of the plan
  and, at the last byte of a body, produces exactly the message of the plan;
* `ReadOn`, `Sending`: a read of any length leaves the rest of the plan, a message begun
  prolongs it;
* `FollowsBegins`: at any time what was acted on is a beginning of what was begun;
* `Shorter`: behind a failed write or a death only a part of the plan is still on the way,
  which is enough for a prefix;
* `TurnAppend`, `TurnTail`: connections are accepted in the order made, so a connection
  that waits has not been read and its Deframer starts fresh.

A frame that `writeFrame` gave up ends the claim for the daemon's direction of this
connection (`Intact`), as it does in `InOrder`; `air_link_garbles` shows why. The other
direction has no such exception, because `sendRxIndicate` closes what it cannot finish.

### Where the line is in step again

`LineResyncs` speaks of the line once it is read; the invariant has to say where the
Deframer stands among bytes that may belong to no frame. `ResyncInv` says that there is a
sequence `T` of all bytes written, of which `P` are read, and `Follows` what they are:

* `Laid`: `T` falls into segments, each a message written whole, a message cut short (it
  ends where `lgCut` has a place) or one stray byte;
* `Tracks`: the Deframer's state is accounted for by `T`: in `kPayload` it holds a header
  that begins at some `h` of `T`, a message's own or not, and what lay behind it up to `P`;
* `Sync`: while `P` is inside a message with no cut less than `MaxPayload + 2` bytes before
  it (`Safe`), the Deframer is at that message's byte, with that much of it collected;
* `Heard`: the messages handled ascend, all end at or before `P`, and among them is every
  `Safe` message that ends there.

`HostWrites`, `HostCut` and `HostNoise` prolong `T` by a segment (`FollowsPut`); a read takes
`P` forward byte by byte (`FollowStep`, `LineFollows`), and what comes out of it is what the
session hears of (`SessionHears`). The step that carries it is `Calm`: where a `Safe` message
begins the Deframer scans, or holds a stray `START1` at most. If it held a header that began
at `h`, that header would lie in a segment that ends before the message (`Adjacent`). A
message's own header ends with its payload (`HeaderTells`), so the segment was cut short,
and a cut is at least `MaxPayload + 2` bytes away, further than any header accepted there
reaches. A header of a stray `START1` and a message's first byte is none, and one whose
length bytes are `START1` and one of the two is refused, which is what `LegacyAssumption` says.

The claim is about payloads without start bytes (`Pieces` gives them none). A payload may hold
them in the code; that changes nothing while the Deframer is in step, but behind a cut it can
follow a header it meets in a payload, as the socket's Deframer can (see `Recovers` below).

### Induction and recursion

The library's induction theorem takes an operator, which the provers cannot instantiate.
`SetInduction` (in `TransmitterProofs`, `AirLinkProofs` and `PartsProofs`) has the same content for a
set: a set of naturals with 0 and, with each, its successor has them all, as an injection
of a finite set into itself is onto. With it a recursive function over the positions of a
sequence is shown to exist and to satisfy its equation, once for each form (`After`,
`RowOf`, `Over`, `Relays`), and what it computes follows from the equation. No `RECURSIVE` operator is
reached.

### Only model-checked

* All liveness properties: fairness and ENABLED are out of the prover's reach.
* `Recovers`: it is not a fact of all constants. A frame that is cut can leave the Deframer
  before a body of the next one, and if that body reads as a header with a length (TLC shows
  it for six-byte bodies that do) the bytes of a further, unharmed frame are taken for its
  body. The run takes bodies that hold the first magic byte but no header; for the ones the
  radio carries, which are arbitrary, the code has no such assurance, so a theorem would need
  an assumption the code does not give. What holds of all bodies is `InOrder`, which is proved.
* `Repaired`, `TailMarginTells`: the decoder of a whole frame recurs over its blocks; what a
  single block survives is proved (`BlockRepaired`).
* `ChannelRequested`, `BurstUnderPa` of short bursts, `OnlyWritten`: they are violated.

## 6. What is not modelled

* Signal processing: filters, transforms, offsets, the estimate of a likelihood's scale, and
  the order in which the receiver tries shifted or soft symbols; floating point is out of
  reach. What the two decoders make of shifted and soft symbols is in `CodedLink`.
* Register words RX Main0/Main6 and the 5 kHz tolerance of the follower; a frequency is
  a number and equality is exact.
* `NotifiedWorkerThread` and `MeshPacketQueue` are the firmware's: each operation is one
  step. That `send` is called from several threads on a queue without a lock is noted
  under the hazards.
* Metrics, the words of status replies, telemetry lines, the GUI of the mesh monitor, the
  ring buffer of the bench programs; of the self test only start and exit (`Bringup`).
* Varint bytes, AES itself, D-Bus and BlueZ around the BLE bridge.
* The parts are modelled beside each other: what a `SET PRESET` of the control socket does
  is in `RadioNode`, `SET RANGE` in `PingWorker`, `SET PARROT` in `Parrot`.
* Systemd and the launcher: that the daemons are restarted, and together, is assumed.
* Bench programs, packaging and scripts, listed as `not_modelled` in `PROJECT.json`.
