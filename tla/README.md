# RPiDrone: specification and proofs

RPiDrone is an Android application for flying a drone by its video. A Raspberry Pi
on the drone sends video as *wifibroadcast* packets (Wi-Fi frames in monitor mode,
without acknowledgement, with forward error correction), or over a plain WLAN. The
application receives them with a native receiver (`rx.c`, `fec.c`), or plays a
GStreamer pipeline (`videoPlayback.cpp`), draws telemetry over the picture (a HUD),
and asks the drone over HTTP to start and stop its streams.

This directory holds TLA+ modules of the parts of it whose correctness is hard to
see and hard to test, the TLC configurations that check them, and TLAPS proofs.
Paths below are relative to `src/app/src/main/`; `jni/` is the native code, `java/`
stands for `java/com/peetie/rpidrone/`.

## 1. Inventory

### Native receiver: `jni/rx.c`, `jni/lib.c`, `jni/fec.c`

* **process_payload** (`rx.c` 171-405). State: the ring `block_buffer_list` of
  `param_block_buffers` blocks, each a list of `D + F` packet buffers with the flags
  `valid` and `crc_correct`; the statics `max_block_num`, `blocks_received`,
  `blocks_damaged`. Operations: take a packet of a late, a present or a new block;
  evict the oldest block, decode it, write its DATA to STDOUT and reset its buffers; on
  a block number far below the newest, take the transmitter for restarted and reset the
  ring. Hard: packets come out of order, more than once, intact and corrupt, with gaps.
  Correct when the ring is a window on the newest blocks, blocks come out once and in
  order, and nothing received intact is lost or spoilt before its block is written.
* **The decoder's selection** (`rx.c` 295-340). Local state: two indices and three
  running counters. It pairs damaged DATA with FEC packets for `fec_decode`. Hard: the
  guards compare counters that change while the loop runs, and `fec_decode` relies
  on the shape of the result without checking it (`reduce`'s assertion aborts).
  Correct when everything repairable is repaired, what is missing comes before what
  is only corrupt, and the loop ends.
* **The erasure code** (`fec.c`). State: tables of GF(2^8), filled once. Operations:
  `fec_encode` (the transmitter's), `fec_decode` = `reduce`, then `resolve` with
  `invert_mat`. Hard: index arithmetic where an error gives wrong bytes rather than a
  crash, in-place Gauss-Jordan with row swaps and a search for pivots. Correct when what
  was encoded is decoded, and when an error is only reported of a singular matrix.
* **The main loop** (`wbc_befiReceiver`, `rx.c` 490-540) and `process_packet` (408-486).
  State: the adapters, the select set. One thread calls `select`, then takes one
  packet of every readable adapter into `process_payload`. Several adapters may
  receive the same transmission ("diversity"). Hard: the adapters lose, damage and
  delay packets independently; the transmitter may restart. Correct when no
  adapter starves and copies of one packet are merged, whichever is first.
* **Radiotap parsing** (`jni/radiotap.c`, and the fields `process_packet` takes from
  it). State: an iterator over a header's presence words. Hard: alignment, bounds, a
  field that is absent. Correct when every argument is read where the driver wrote it,
  and the checksum verdict and the payload's length are those of the flags.
* **Adapter set-up** (`rx.c` 93-148). Straight-line libpcap calls that exit on failure, and
  the choice of a packet filter for the kind of header the adapter puts before a frame.
* **The packet filter** (`libpcap-1.7.4/bpf_filter.c`, built into the receiver). State: a
  program, two registers, scratch memory, an index. `bpf_validate` checks a program
  once, without the packet; `bpf_filter_with_aux_data` runs it on every captured packet and
  trusts what was checked. Hard: offsets that wrap around, backward jumps, codes that pass
  the check and have no case. Correct when no validated program leaves the program or the
  packet, and when the receiver's own filter accepts the transmitter's frames and no others.

### Video: `java/gstreamer/VideoPlaybackFull.java`, `jni/videoPlayback.cpp`

State: per activity a `CustomData` (`pipeline`, `video_sink`, `main_loop`,
`native_window`), shared without a lock between Android's UI thread and an *app thread*
per activity, and the static `gst_app_thread` shared by all activities. Operations:
`onCreate`, `surfaceChanged`, `surfaceDestroyed`, `onDestroy` with the native functions
they call; `app_function` with its main loop and bus callbacks. `check_initialization_complete`
runs on both threads and calls back into Java. Hard: every interleaving of the two,
a stop before the loop runs, pipelines that cannot be built, windows that come and
go, two instances at once. Correct when the initialisation is reported whoever comes
last, nothing is used after it is freed, windows are not leaked, and a stop ends.

### Other Java parts

| Part | State and operations | Hard |
|---|---|---|
| NALU decoder (`java/myMediaCodecPlayer/RawToNaluDecoder.java`) | search state and NALU buffer; `parseDatagram`, `configureDecoder`, `feedDecoder`, `checkOutput` threads, `stopDecoding` | not used: nothing refers to the class |
| Telemetry (`UDPTelemetryReader`, `FrSkyTelemetryData`) | a HashMap written by the reader thread and read by the HUD thread | no synchronisation; a malformed datagram ends the process; the port is not given back |
| HUD (`HUDOverlayView`, `LowPass`) | a drawing thread per view and `isRunning`; circular filters | start-up race; threads of earlier views go on; arithmetic around the wrap |
| Session control (`MainActivity`, `RestClient`) | preferences; stop, wait, start requests | failures are only printed, and may take effect later; the status of an answer is not looked at |
| System UI hider (`java/gstreamer/util`) | visibility, delayed hiding | template code |
| Wi-Fi tools (`WtIw`, `iwconfig`, `wbc_receiver`) | native declarations without an implementation | - |

Interaction: the transmitter and the air feed the adapters; the main loop calls
`process_packet`, which calls `process_payload`, which calls `fec_decode` and writes
to STDOUT. `MainActivity` starts the drone's streams by HTTP and then the video
activity; that starts the telemetry reader and the HUD, which share the telemetry
map, and drives the native player by JNI calls, which calls back.

## 2. Modules

| Module | Models | Extends |
|---|---|---|
| `FecBlock` | geometry of a block, which FEC replaces which DATA (a recursive function) | |
| `FecSelection` | the selection loop and `reduce`'s walk, one iteration per step | `FecBlock` |
| `FecBlockProofs` | lemmas on that function | `FecBlock` |
| `FecSelectionProofs` | proofs about the loop | `FecSelection`, `FecBlockProofs` |
| `BlockReceiver` | `process_payload`: the ring, eviction, restart detection | `FecBlock` |
| `BlockStream` | abstract: a window on the newest blocks, without a ring | |
| `WifiLink`, `MCWifiLink` | main loop, adapters and transmitter around the receiver | `BlockReceiver` |
| `WifiLinkProofs` | proofs about the ring (and that it implements `BlockStream`), then about the loop | `WifiLink`, `FecBlockProofs` |
| `GaloisField` | the tables of GF(2^8) and their lookups | |
| `FecCode`, `MCFecCode` | `fec_encode`, `fec_decode`, `invert_mat` | `GaloisField`, `FecBlock` |
| `FecCodeProofs` | proofs about them | `FecCode`, `FecBlockProofs` |
| `PacketHeader`, `MCPacketHeader` | `process_packet` and the radiotap iterator on one frame | |
| `PacketHeaderProofs` | proofs about it | `PacketHeader` |
| `BpfFilter` | `bpf_validate` and the packet filter's interpreter | |
| `RxFilter`, `MCBpfFilter` | the receiver's filters; programs and packets for the run | `BpfFilter` |
| `BpfFilterProofs` | proofs about both | `RxFilter` |
| `VideoPlayback`, `MCVideoPlayback` | UI thread and app threads of the video activities | |
| `VideoPlaybackProofs` | proofs about it | `VideoPlayback` |
| `LowPass` | the circular filter of compass and throttle, as a function | |
| `Telemetry` | session control, requests, drone and telemetry readers | |
| `Hud` | the drawing threads over the telemetry map | `Telemetry`, `LowPass` |
| `HudProofs` | proofs about it | `Hud` |

How state and actions correspond to the code:

* **FecBlock / FecSelection.** `data`, `fec` are the two flags of every packet
  buffer of a block ("missing", "corrupt", "good"). The variables are the C locals of
  the same names. `SkipData`, `SkipFec` and `Substitute` are the branches of the `while`
  loop; their guards keep the order of the `if`s. `ReduceColumn` is an iteration of
  the loop of `reduce`. `Substitutions` in `FecBlock` is the result as a function,
  which counts what is left afresh at every index; `SelectionMatches` shows
  that the loop with its running counters implements it, and `BlockReceiver` uses it.
* **BlockReceiver.** A call of `process_payload` is one action, as one thread makes
  it: `BufferPacket` (late or corrupt), `OpenBlock` (new block, free buffer),
  `FlushBlock` (new block, oldest evicted, with decoding, write, counters and reset) and
  `RestartRing`. Contents of a packet are reduced to the transmitter run
  (`Sessions`) whose packet is held intact. `stdout` is the block written last;
  `epoch` and `opened` are history and never read by an action.
* **BlockStream** is what the receiver promises, and the refinement mapping is `Window` in
  `BlockReceiver`: to each block held, the packets of the buffer it has. Places, the
  order in which buffers are searched and what is left in a free buffer disappear.
  `BufferPacket` is a `Merge` or, when nothing is stored, no step of it; `OpenBlock`
  is `Open`, `FlushBlock` is `Slide` and `RestartRing` is `Restart`.
* **WifiLink.** `queue[a]` is what pcap holds for an adapter. `Select`, `NotReadable`,
  `process_packet`, `ScanEnds` are the loop of `wbc_befiReceiver`. The transmitter
  and the air are external: consecutive numbers from zero, order kept per adapter,
  `fates[a]` says which of "lost", "corrupt", "intact" may happen on the way to `a`.
* **GaloisField / FecCode.** A byte is the set of its one bits, so `^` is symmetric
  difference. `times_alpha` is the step of `generate_gf`'s loop, `modnn`, `inverse`,
  `gf_mul` its tables. `FecCode` runs `Reduce`, `BuildMatrix`, `EliminateColumn` once per
  column (or `PivotMissing`), `SwapBack` once per column and `Multiply`. Packets have
  one byte: `mul` and `addmul`, unrolled or in assembler, treat offsets alike.
  Behaviours also start with `invert_mat` alone on an arbitrary matrix, as decoding
  never swaps rows and would leave most of `invert_mat` untried.
* **PacketHeader.** One frame, from `pcap_next_ex` to the call of `process_payload`.
  `arg_index` and `arg` are the iterator's, `arg` as an offset from the header's start.
  `SkipEntry`, `NextArgument` and `ArgumentCutOff` are an iteration of the loop of
  `ieee80211_radiotap_iterator_next`, with `process_packet`'s `switch` in the second.
  A header is the set of bits of its first present word, the number of further words,
  the stated length and the two flags that are looked at; other bytes have no value, and
  reading them as flags gives any. `prd` is not initialised, so flags that no argument
  has set are any value too. `Layout` is the reference: where a driver puts arguments.
* **BpfFilter / RxFilter.** One instruction is one step, and the actions group the cases of
  the `switch`. A code is a triple of its parts, so `Executes` says which cases an action
  stands for. What C leaves undefined is any word: a shift by 32 or more, a scratch cell
  nobody has written, a byte outside the packet. A validated code without a case is `Abort`.
  The parts under `KERNEL` are not compiled and not modelled. `RxFilter` is what `pcap_compile`
  makes of the two filter expressions, with each `RET 0` put behind its comparison; the
  compiler itself is not modelled. The filter comes before `PacketHeader`, which sees
  only frames it has accepted.
* **Telemetry / Hud.** `ui` is where the UI thread is in `startWLANStream` and in the start
  of the view; `reader[r]` and `tDraw[s]` are the places of the threads of every session,
  which nobody ends. A request may do what it asks for or nothing, whether it is answered or
  not, as `executeRequest` takes an error status for an answer like any other; a stop that
  has done nothing may (`lateStop`) still do so at any later time. `socket` and `inbox` are the
  port and the one datagram that waits there: a reader that has ended keeps the port until the
  garbage collector closes it. `alive` is the process, which the exception of a
  malformed datagram ends. `value` is the map at one identifier, any integer, and `oldValue[s]`
  the gauge of a view. In `LowPass` the floats are numbers of a grid, `Unit` of them to a
  degree, and a step is rounded to the nearest, so that a gauge stops a few of them short of
  the value it follows. `Shown` is what of it is drawn, after the `(int)`: a gauge that comes
  from below stays one degree short. Readings beyond the scale (no code excludes them) are
  part of the module. `LowPass.smooth` and `HUDOverlayView.smoothCompass` differ only in their numbers.
* **VideoPlayback.** Every access to a shared field is a step. `data[a]` is
  `CustomData`; `seen[a]` is what the *other* thread reads of the two fields the
  threads signal with. If `stores_late`, a store is seen only after `Drain`, as on ARM,
  where nothing orders a store before a later load; otherwise at once. `app[a].at` and
  `ui.at` are the places in `app_function` and in the native call. GLib, GStreamer and
  ANativeWindow are external, modelled by what the code uses of them. Android may create an
  activity while an earlier one is alive, and `gst_app_thread` is then the thread of the newest:
  `Join` waits for that one, whoever calls it, and `FreeData` may free what a thread still
  uses. Such a thread goes on with the fields as they were, or stops for good. Three variables
  are history and never read by an action: `reported`, `overtaken` (another activity
  was created while this one was alive) and `leaked` (windows still held when their `CustomData` was freed).

## 3. What is checked

| Run | Shows |
|---|---|
| `fec_selection` | all 3^7 ways to damage a block of 4 DATA and 3 FEC: types, `ReduceAssertion` (the `assert` of `reduce`), `RepairComplete`, `MissingHasPriority`, `SelectionMatches`, and `Terminates` |
| `fec_only_good` (violated) | a corrupt FEC is handed to `fec_decode` when good ones suffice |
| `block_receiver` | arbitrary packets in any order, with a restart: `LatestBlocksBuffered`, `OutputInOrder`, `IntactPacketKept`, `IntactPacketWritten`, `UndamagedBlockClean`, and `StreamSpec`: it implements `BlockStream` |
| `wifi_link` | two adapters: `BoundedOvertaking`, `LateCopyMerged`, `LosslessAdapterSuffices` |
| `wifi_link_restart` | `NoFalseRestart`, and `RestartRecovered` under fairness |
| `fec_code` | `DecodeRestores` (and the `assert(0)` of `resolve` is not reached), `InverseRight` (and an error is only reported of a singular matrix) |
| `packet_header` | `WalkMatchesLayout`, `VerdictRight` (however many words and arguments surround the flags), that the iterator does not pass the header's end (`TypeOK`), and `WalkEnds` |
| `video_playback` | two activities, one after the other or overlapping: `ThreadRemovedUnlessOvertaken`, `WindowRefsBalanced`, `InitializedAfterPipeline`, `InitializationReported`, and `StopCompletes` under fairness |
| `video_stop_hangs` (violated) | `onDestroy` before `g_main_loop_run` waits for ever |
| `bpf_filter` | `StaysInside` and `ReadsInside` for short programs over short packets, `RxFilterRight` (the receiver's filters accept exactly the transmitter's frames), and `ForwardTerminates` |
| `hud` | two sessions: `ShorterWay`, and under fairness `DisplayFollowsDrone`, from the drone's measurement to the compass, to one degree |
| `hud_throttle` (violated) | full throttle from none is shown as none for ever |

A "violated" run checks one sentence of a comment or message of the code against what
the code does; `PROJECT.json` quotes the sentence under "findings".

### Bounds, and why they are enough

* Blocks. The loops treat DATA and FEC numbers uniformly and compare counts; 4 and 3
  leave room for every order of the three statuses that changes a comparison.
  `BlockReceiver` needs two DATA so that a block can be repaired in part. Larger
  geometries are covered by the proofs.
* `MaxBlock`, `MaxFlushed`, `MaxRestarts` bound block numbers, evictions and
  restarts detected. `MaxBlock = 3` with two buffers lets blocks be skipped, evicted and
  come late; `RestartFactor = 1` (128 in the code) puts the restart window within these numbers.
* `MaxLag = (B - 1) * (D + F)` in `wifi_link` is the assumption the ring is built
  for: an adapter no more than B - 1 blocks behind. `MaxCorrupt = 1` lets a damaged
  packet with any number arrive. In `wifi_link_restart` `MaxFlushed` and
  `MaxRestarts` are above what two runs of five blocks can reach, so they
  never stop a behaviour that fairness should carry on.
* `FecCode`. All of `fec_decode` is linear over the field, so two values per DATA packet
  suffice to tell right from wrong; all sets of erased DATA and FEC numbers up to three are
  tried. Matrices: rank 1 over all 256 bytes (all inverses), rank 2 over five,
  rank 3 over three, which swaps rows up to twice and has singular ones of each rank.
* `PacketHeader`. Arguments of alignment 8, 2 and 1, of a length that differs from the
  alignment, and one the table does not know; 0 to 2 further present words, so that the
  arguments start at 8, 12 or 16 and the check inside `iterator_init` is reached; stated
  lengths from the bare header to more than all arguments need.
* `VideoPlayback`. Two windows, as the code compares the new one with one old one. Two
  activities, each created before, during or after the life of the other. The second gets no surface,
  which keeps the run small: windows concern an activity by itself, and the proofs cover any
  number of activities with any surfaces. `video_stop_hangs` needs one activity only.
* `BpfFilter`. A byte of two bits, so that a word has eight and offsets wrap at 256. Every
  pair of an instruction that fills a register or a cell, or jumps, and any instruction; any
  instruction with `A` = 3 and `X` = 254 (an offset just below the wrap) and alone; each
  with packets of 0, 1 and 5 bytes. The receiver's filters on frames of both headers,
  right, changed in one byte, or one byte short.
* `Hud`. A circle of six degrees with the threshold at a half and the factor of 0.2, as the compass
  has them, and two values with north between them. Three grid units to a degree: a gauge stops
  two short, so that it travels, crosses north both ways, and shows less than it should when it
  comes from below. Two sessions, so that the second finds the port taken. For the
  throttle a bar of three pixels, 20 grid units each, with the factor of 0.05 and the threshold
  of 0.3 of the code.

### Fairness and memory

* `FecSelection`, `PacketHeader`: one thread that never waits goes on (`WF(Next)`).
* `WifiLink`: weak fairness of the receiver loop, which never blocks while an adapter is
  readable, and of the transmitter, which streams as long as it runs. None for a
  restart, nor for any particular fate of a packet: `wifi_link_restart` has one
  adapter that loses nothing and one that may lose all.
* `VideoPlayback`: the threads are scheduled and stores become visible at some time. No
  fairness for Android's callbacks, for errors of the pipeline, or for a thread whose
  `CustomData` has been freed. `StopCompletes` speaks of the newest activity: an
  older one waits for the newest's thread, which may play for ever.
* `BpfFilter`: the interpreter goes on (`WF(Next)`).
* `Hud`: the threads are scheduled, and a drone that streams goes on sending. None for the
  user, for requests, or for failures. `DisplayFollowsDrone` asks that some
  reader live: one that ends is not started again.
* `InitializationReported` is stated for stores that are seen at once. Without that
  (both threads store to one field and then load the other, and the code has no
  barrier) each may miss the other's store and no one reports; the states of
  that kind are part of `video_playback`, which checks the other properties in them.

## 4. What is proved

By TLAPS, for every value of the constants. Assumptions: `BlockAssumption` (D in 1..32
and F in 0..32, the arrays of `process_payload`), `TablesAssumption` and `BytesAssumption` (the
tables of the field, without constants), `FecCodeAssumption` (bytes and square matrices as
input), `ReceiverAssumption`, `LinkAssumption`,
`HeaderAssumption` (the types of a frame, and that the EXT bit says whether further words
follow), `WordAssumption` and `InputAssumption` (a word of four bytes; a program and a packet whose lengths fit in an
`int`), `FilterAssumption` (the address is four bytes; the offsets 2, 3 and 78 are words and
2 and 3 not among the ancillary ones, which start at 0xfffff000), `PlaybackAssumption`,
`LowPassAssumption` (the threshold at most half of the scale, as in both uses),
`TelemetryAssumption` (values are integers, what cannot be parsed is none) and `GaugeAssumption`
(which gauge it is, and that a degree has a grid unit at least). None bounds what a gauge reads.

* `FecBlockProofs`: what the recursive function `Selection` returns. Induction is by a least
  counterexample: of the index pairs at which a fact fails, one with the fewest numbers ahead;
  the function moves on from it to a pair at which the fact holds. That the function satisfies
  its own equation is proved that way too (`SelectionDef`). Shown are that a pair joins
  damaged DATA with a FEC packet that was received (`SelectedFrom`), and that in a block that is
  not reported as failed and has no corrupt FEC all damage is repaired (`AllRepaired`).
* `FecSelectionProofs`: `TypeCorrect`, `ReduceAssertionHolds`, `PriorityHolds`,
  `RepairHolds`, `SelectionRight`. None of the properties is inductive. The invariant `IInv` has
  `Shape` (indices in range), `Counts` (each running counter is the number it stands for
  of what is ahead), `Lists` (both lists strictly ascending and below the indices, so
  that `reduce` meets every entry in one pass), `Priority` (once a corrupt DATA
  is replaced, every missing DATA behind is replaced and the good FECs ahead suffice
  for those ahead), `Repair` (while no FEC is corrupt and the block can be repaired, all
  damage behind is repaired and enough is left) and `Walk` (`erasedIdx` counts the
  entries below `col`). The lemmas `PassData`, `PassFec`, `DamageAhead` say how counts
  ahead change when an index moves on; one lemma per action carries the induction.
  `SelectionRight` adds `Matches`: the pairs made so far, and those the function selects from
  the present indices on, are those it selects from the start. By `Counts` the running
  counters of the loop decide like the function's fresh counts.
* `WifiLinkProofs`, of the ring: `TypeCorrect`, `WindowHolds`, `OrderHolds`, `IntactHolds`. `IInv`
  is the type invariant, the window property, and `OutputBehind` (what was written
  last is older than everything in the ring), without which `OutputInOrder` does not
  follow. The lemmas on `Store` and `Decoded` isolate the nested functions; one lemma
  per action. `IntactWrittenHolds` and `CleanHolds` say what the decoder makes of a buffer that
  leaves the ring, from the facts about `Substitutions`: an intact packet is never replaced, and
  in a block not counted as damaged everything damaged is solved for from intact packets.
  `StreamImplemented`: every step of the ring is a step of `BlockStream` or
  a stutter. It needs `IInv`: that a block has one buffer makes
  `BufferOf` well defined, that a free buffer is empty makes `Open` right, and that the
  victim is the least of a full ring makes it the oldest of the window.
* `WifiLinkProofs`, of the loop: `NoStarvation`, that is `BoundedOvertaking` for any number of adapters. The
  invariant `Overtaken` counts along the scan: an adapter `select` has not reported has been
  passed once per other adapter so far, one it has reported also by each of the
  others in the scan before, in which its packet may have come too late; `Pending` says that an
  adapter in `readset` ahead of the scan still has its packet.
  `NoFalseRestartHolds`, `LateCopyHolds` and `LosslessHolds` are about the transmitter's first
  run and say what the lag bound buys. Their hypotheses are the design's: no adapter lags by
  more than `RestartFactor * B` blocks for the first, by more than B - 1 blocks for the others
  (the cfgs of both runs satisfy them). `FirstRun` is inductive with them: queues are
  in order of sending and at most `MaxLag` old, and no block in the ring is newer than the
  transmitter, so that the newest packet bounds the age of every other. `LosslessKept`: of
  an adapter that hears everything, all packets up to the last it delivered are in their
  buffers, or their block has been written; hence the victim of an eviction is complete.
  The steps of the ring are taken through the refinement (`Window`), not through buffers.
* `FecCodeProofs`: `TypeCorrect`, `InverseRightHolds`, `SingularHasKernel`, `DecodeRestoresHolds`, for every
  geometry, every choice of erased DATA and of FEC packets, and every matrix of every size.
  - *The field.* `TablesAssumption` and `BytesAssumption` say what the tables hold: the 255
    powers of \alpha are all bytes but zero and then start again, the logarithm is their
    index, and numbers below 256 are the bytes. No constant occurs in them, so that TLC's
    evaluation covers every case of them; what follows is proved: `gf_mul` has inverses, is
    associative and commutative and distributes over `^` (first over times \alpha, by bits,
    then by induction over the powers), and it is the product of polynomials (`ProductIsMul`).
  - *Sums* (`Total`) are over any finite set; induction is by a smallest subset that fails.
  - *invert_mat.* A matrix is read as a system of equations m x = y. To clear a column is to
    change x_k and y_k over between the two sides (`Exchange`), and a row swap permutes y. The
    invariant `SolvedBy` says that the equations of the original matrix hold of x and y exactly
    if those of the present matrix hold of the vectors mixed accordingly, where `Follows`
    carries y through the swaps recorded in `indxr` and `indxc`; `SwapBack` takes them off
    in reverse. When all are pivots and no swap is left, the matrix gives x from y, so that it
    is the inverse. When no pivot is found, a vector other than zero in the kernel can be
    written down (`KernelFound`); that the determinant is then zero
    (`KernelMeansZero`) follows from its expansion over permutations: it is linear in a
    column, and zero where two columns are alike.
  - *fec_decode.* Both lists ascend, so `reduce`'s walk meets each entry (`ErasedIdxIs`), and the
    three ways to number coefficients mean the same (`CoefficientsAgree`). After `Reduce`
    the FEC are the matrix times the lost DATA, which the inverse gives back
    (`DecodeInv`). That there is an inverse is `CauchyInv`: while columns are cleared along the
    diagonal, what is below and right of it stays u_i v_j / (a_i + b_j) with no u_i and no v_j
    zero, so that no pivot is zero and no row is ever swapped.
* `PacketHeaderProofs`: `TypeCorrect`, `WalkHolds`, `VerdictHolds`, for every set of frames and every
  802.11 header length. The reference layout is a recursive function of the index
  (its equation is proved by a least counterexample); the C code's padding leads to the
  least aligned offset. `WalkedSoFar` says that the iterator stands where the layout ends
  at the present index and that what it has handed out is the layout up to there, and
  `Verdict` that flags were taken from the FLAGS argument if it was among that.
* `BpfFilterProofs`: `TypeCorrect`, `StaysInsideHolds`, `ReadsInsideHolds`. The
  validator's sums are unsigned and wrap, the interpreter adds a signed offset to a
  pointer; the step that relates them is that both agree modulo the word size and
  that the program is shorter than half of it. `ReadsInside` uses that `Outside` compares
  what is left of the packet, so that no sum it forms can wrap.
  `RxFilterHolds`: the invariant `RxInv` says for each of the 7 or 15 instructions of a filter
  what the registers and the scratch cell hold of the packet (`PrismAt`, `RadioAt`); a lemma
  per group of instructions gives the effect of its step. Two facts are arithmetic. A
  comparison of words is a comparison of their bytes (`NamesSender`, digits in base
  `ByteSize`). And the radiotap length, a shift and a bitwise OR in the program, is the sum
  of the two bytes (`OrIsSum`): bits of a sum of a multiple of a power of two and a
  smaller number are those of the parts, and words with the same bits are the same. Powers of
  two are no operator the library reasons about; that they double and grow comes
  from the number of subsets of 1..n. The shift is any whose power is the number of values of
  a byte, 8 in the program.
* `HudProofs`: `TypeCorrect`, `ShorterWayTaken`. The lemmas say what `smooth` does in each of its
  three branches: a fraction of a distance, rounded, is at most the distance, and a remainder
  of a sum below twice the scale is one subtraction. The invariant adds to the types that a
  reader about to call `setData` has a datagram (`Holding`). That a gauge stays on its scale
  is part of `ShorterWayTaken`, which asks that reading and gauge are on it: off it, it is false.
* `VideoPlaybackProofs`: all safety properties of `VideoPlayback`, for any number of
  activities and windows. `IInv` has `InCall` (what a native call that is under way may rely on),
  `Built` (how far the app thread has come says which fields are set; once there has been a main
  loop the thread leaves it only for a stop), `References` (who counts for the
  reference of a window, in the middle of a swap or a release too), `Leaks` (the windows
  of freed data are those whose references are left), `Joined` (while nobody has
  overtaken an activity, the static handle is that of its thread, and what it frees is that of a
  thread that has ended) and `Reports` (with stores seen at once, an unreported
  window means that the UI thread is about to report it). `ThreadRemoved` is by `Joined`; for an
  activity that was overtaken there is no such invariant, and the claim is false.

### Only model-checked

Liveness (`Terminates`, `RestartRecovered`, `StopCompletes`, `WalkEnds`, `ForwardTerminates`,
`DisplayFollowsDrone`), which the prover cannot do under fairness. Every other property of
a passing run has a theorem. The
three properties of `WifiLink` that speak of losses and lags are proved under the lag bound
they are about. The contents of the field's tables are evaluated, not proved.

## 5. What is not modelled

* Within modelled parts: `data_length` and its clamp at the write; the contents of
  FEC packets (in `BlockReceiver`; `FecCode` has them); statistics in messages;
  messages to the TextView, sizes, bus messages other than errors. `fec_decode` with
  damaged DATA that is not erased appears in `BlockReceiver` (the result is garbage), not in
  `FecCode`.
* `wbc_befiReceiver`'s parameters hide globals of the same names that `process_payload`
  uses; the models take them as equal, as they are for the defaults.
* A radiotap header without the flags field leaves the checksum verdict undefined
  (`HandOver` of `PacketHeader`); such headers do not occur in `WifiLink`, whose frames are
  either corrupt or intact.
* The rate, channel and antenna of a header, which `process_packet` stores and never uses.
* The NALU decoder: no class refers to `RawToNaluDecoder`, so it is no part of the program.
  `TelemMock` and `CompassLowPass` are not used either.
* `pcap_compile` and the rest of libpcap; a filter call without a program, which accepts all.
* Of the HUD, the attitude (three accelerations through `atan`) and the drawing. The grid of
  floats is the same everywhere in the model; theirs is finer near zero. Of the requests, a start
  that takes effect late. Of telemetry, other identifiers (an
  unknown one may resize the map while it is read). Of `MainActivity`, preferences
  and `startWiFiBroadcast`, which only runs shell commands.
* What a use of freed memory may do to others than the thread itself (`VideoPlayback`).
* The system UI hider (template code, no state the rest depends on), the Wi-Fi tools
  (native declarations without an implementation), generated and third-party files
  (GStreamer's loader, `ieee80211_radiotap.h`, the stray copies below `app/src/org`).

Seen while modelling, and not the subject of a run:

* With the factor 128 the restart window is counted in block numbers, while the ring holds
  the last blocks seen, however far apart: after a gap of more than 128 * B blocks, a late
  packet of a block still in the ring makes the receiver drop the ring (`rx.c` 189). The
  message at `rx.c` 192 speaks of the "current retr block buffer window".
* `native_window` is read twice without a lock (`videoPlayback.cpp` 176, 180): the sink may be
  given a window that has been released meanwhile, or none.
* `gst_app_thread` is static (`videoPlayback.cpp` 38): when a second activity has started,
  finalizing the first joins the second's thread, which blocks the UI thread for as long as that
  one plays, and then frees `CustomData` under its own. The comment of `nativeFinalize` (310),
  "remove the native thread and free resources", is false of it.
* The compass stops two units in the last place short of a course: coming from below it shows one
  degree too little from then on (`LowPass.java` 28, `HUDOverlayView.java` 509, 523).
* A throttle above 365 revolutions, or a course that is not from 0 to 360, takes the gauge off its
  scale (`HUDOverlayView.java` 181, `FrSkyTelemetryData.java` 103).
* An error status is an answer like any other (`RestClient.java` 124-133): `responseCode` is never
  read, so that `startWLANStream` goes on to the video whatever the drone has answered.
* The comment of `bpf_validate` wants jumps to be forward (`bpf_filter.c` 606); one further down
  (725) says that backward ones are let through in userland. A filter need not end.
* Codes that `bpf_validate` accepts and the interpreter does not know end the process
  with `abort()`.
* A reader of telemetry that ends sets `connectionFailure`, which nobody reads, and does not
  close its socket; until that is collected, the next session's reader cannot bind.
* The drawing thread is started one line before `isRunning` is set (`HUDOverlayView.java` 141) and
  ends at once if it is faster. It is never told to end: `isRunning` stays set.
* `MainActivity` catches `HttpHostConnectException` to show a message, but `executeRequest` has
  already caught it as an `IOException`.
* `pcap_setfilter` failing is only printed (`rx.c` 137); the receiver then takes all frames.
* The guard at `rx.c` 319 also skips corrupt FEC packets in the case for which its own
  comment wants them used.
* An intact packet of a recent block is discarded when nothing of its block came
  before a newer one, even with a free buffer (`rx.c` 190, 392); the usage text of `-d`
  (`rx.c` 71) suggests otherwise. `LateCopyMerged` therefore speaks of opened blocks.
* `onGStreamerInitialized` is called one line before `g_main_loop_run`
  (`videoPlayback.cpp` 247), or by the UI thread as soon as `main_loop` is set; the comment at
  `VideoPlaybackFull.java` 270 says the main loop is running by then.
* The iterator "knows about extended present headers and handles them" (`radiotap.c` 20)
  in that it skips the further words; it never sets `next_bitmap`, and ends at index 14,
  so their arguments are not handed out.
* The four bytes of the frame check sequence are taken off after the test for a negative
  length (`rx.c` 446, 480), so `payload.bytes` may be negative.
* `nativeFinalize` frees `CustomData` with a reference on `native_window` left (`videoPlayback.cpp`
  310-322), although it says "free resources"; `WindowRefsBalanced` counts it as `leaked`.
* `set_error` (`videoPlayback.cpp` 109) passes the C string, not the Java string it made.

## 6. Plan

Done: the modules of section 2 and their proofs. What is left would be, in this order:

1. `PacketHeader` composed with `RxFilter` before it and `WifiLink`'s queues behind it (absent
   flags, negative lengths), over frames instead of fates.
2. The two sets of geometry parameters of `wbc_befiReceiver`, once one of them is given a
   meaning other than the default.
