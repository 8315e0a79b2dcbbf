# eth-datapath in TLA+

A model of the switching data path of this repository (`src/rtl`) and of the measurements the host
runs on it (`src/host/measure.py`), the TLC runs that check it on small instances, and proofs checked
by TLAPS for every size. The logic is synchronous to one clock: **one step of a model is one clock
edge**, all registers read the values they had before the edge, combinational signals are operators,
and `rst_n` low for a cycle is an action `Reset` that may come at any time. Inputs (arrivals,
readiness, delays) are chosen by `\E`. Where the host takes part, its register accesses are steps of
their own between clock edges.

## 1. Inventory

Frames flow `MAC -> (generator mux) -> rx_shim[classifier] -> voq -> axis_switch -> credit_sender
-> credit_fifo -> tx_shim -> MAC`, one chain per port around one switch. The host reaches
generator, probe and counters through `uart_axil -> axil_csr`.

| Part | State | Operations per clock edge | What is hard | What makes it correct |
|---|---|---|---|---|
| `sync_fifo` | memory, two pointers with a wrap bit, registered read port | write, read, both, reset | full and empty have equal addresses; both ports judge the state before the edge | is a bounded queue |
| `credit_sender` / `credit_fifo` | credits; queue and read port | send, receive, drain, return | sends and returns meet; the receiver drops silently when full; refill of the read port | credits are conserved, no overflow, nothing stranded |
| `rr_arbiter` | mask, held grant | grant, hold, win, lose | the pointer moves only when a grant is won; requests change under a held grant | one sound grant, nobody served twice while another waits |
| `axis_skid` | output register, place of slack | load, stall, spill, drain | ready is a register, so one beat arrives too many | ordered, lossless, stable under stall |
| `voq` | a queue per destination, shared read port, frame-admission flags, counters | admit or refuse a beat, fetch, hand over | admission is decided once per frame; one read port for all queues | whole frames, exact counts, room reserved, no stranded beat |
| `axis_switch` | pairing, masks of two rows of arbiters, slices | request, grant, accept, transfer, release | two stages decide on the same stale requests; pairing ends with the last beat taken | a matching; whole frames in order; inputs not starved |
| seam (`datapath_top`, `formal/sw_seam.sv`) | none of its own | selection of a voq = pairing of the input | a fetched beat and the pairing must agree | as an abstract frame switch |
| `classifier` | captured address, verdict queue with bypass, data buffer | capture, match, release or drain | verdict one frame ahead of its data | every frame judged by its own address |
| `rx_shim` | elastic buffer, error-verdict queue, pending retirements | buffer, drop byte, retire | the MAC never stalls; drops seen a cycle late | error bit stays with its frame; one retirement per frame |
| `frame_gen` and mux | state machine, counters | start, byte, gap | takes the input over in mid-frame; frame length limit is the host's | whole frames |
| `latency_probe` | stamp queue, verdict queue, accumulators | stamp, retire, pair, clear, snapshot | pairing by order alone, a read that lands late | each sample is one frame's latency |
| `axil_csr` / `uart_axil` | registers, handshakes; command parser | write, read; bytes in and out | registers survive reset; bytes lost while busy | a reply belongs to its command |
| `host/measure.py` | place in a trial, range of the search, best gap | one register access at a time, with timeout; trial; search | answers cut short, trials that lose frames or never end, resets | a result belongs to one trial; the search ends at an edge |
| `tx_shim`, board top, vendored UART and MAC | - | wiring, bit timing | - | not modelled (section 8) |

`PROJECT.json` lists the hazards behind the third column with their lines.

## 2. Modules

| Module | Models | Correspondence |
|---|---|---|
| `FifoOps` | one edge of a `sync_fifo` as operators on a sequence | `Rest`, `Added`, `After`, `ReadPort` |
| `FifoQueue` | what `sync_fifo` promises | bounded queue with registered read port |
| `SyncFifo` | `sync_fifo.sv` | pointers, memory; refines `FifoQueue` under `queue <- contents` |
| `OrderedLink` | promise of a link | ordered lossless channel of at most `Depth` beats |
| `CreditLink` | `credit_sender.sv`, `credit_fifo.sv`, the delaying pipes of `formal/credit_link.sv` | a variable `wired` tells whether the two ends are joined by pipes or by wires, as in `datapath_top.sv:243-270` |
| `RoundRobin`, `RrArbiter` | `rr_arbiter.sv` | combinational part; the registered arbiter under its contract. Its `Arb...` names and `reqs` (the input `req`) keep it apart from the switch, with which it shares `SwSeamProofs`: the facts about grants are the same |
| `AxisSkid` | `axis_skid.sv` | one slice as a record and its clock edge as an operator |
| `Egress` | the slice of an output in front of a credit link | extends both; refines `OrderedLink` |
| `Voq`, `VoqPort` | `voq.sv` | one voq as a record; a voq between an ingress and a selecting exit |
| `AxisSwitch` | `axis_switch.sv` | `req`, `gnt`, `acc`, `pairedNext`, `muxed` follow its sections |
| `FrameSwitch` | promise of the switch | whole frames in order, never interleaved |
| `SwSeam`, `MCSwSeam` | `formal/sw_seam.sv`, `datapath_top.sv:219-241, 285-304` | voqs and switch; refines `FrameSwitch` |
| `SwitchLoad` | the harness of `tb/axis_switch_tb.sv` | the switch with everything backlogged |
| `Classifier`, `ClassifierPort`, `MCClassifier` | `classifier.sv` | one record, one operator per signal; a classifier between a source of frames and a reader, with the scoreboard of `tb/classifier_tb.sv:162-197` as history; the table |
| `RxShim`, `RxPort`, `MCRxPort` | `rx_shim.sv` with the classifier inside it | one record around the classifier's, one operator per signal; a source of frames that may touch, with the list of frames not yet retired as history; the table |
| `FrameGen` | `frame_gen.sv` | one record; the settings latched at the start |
| `LatencyProbe` | `latency_probe.sv` | one record; a stamp is the name of its frame, a sample the pair of names, so the accumulators are the list of pairs |
| `HwTrial` | `run_hwgen`, `find_max_rate` of `measure.py` on generator, mux, probe and an abstract data path | one action per register access of the host, one for the clock |
| `AxilCsr` | `axil_csr.sv` | one record; the two halves of the registers |
| `UartAxil` | `uart_axil.sv` | one record; one operator per state of the parser |
| `ControlPlane`, `MCControlPlane` | `read_register`, `write_register` of `measure.py` over the serial line, bridge and registers | host, line, faults; two-byte words |
| `*Proofs` | | theorems (section 6) |

Abstractions. A vector of request or grant bits is the set of set bits, so `x & (~x + 1)` is the
least element. A register with a valid bit is the value or `None`; `in_busy` and `in_out` are one
`paired[j]`. A beat is a model value where only order matters (`CreditLink`, `Egress`) and
`[src, pos, last]`, the port and the place in its frame, where frames matter. Counters of refused
frames count modulo `CountMod`, standing for 2^32. A queue inside a larger module is a sequence, as
`BufferIsQueue` justifies. The conditional `wr_en && !full`, the registered read port and every early
return of the code stay. In `HwTrial` the data path between generator and probe is what its own
modules promise and no more: frames stay in order, each is retired as dropped or passed, a passed one
is refused by a full voq and else leaves, each after any delay.

Two facts about time are built in and named in the modules. A register access over the serial line
takes half a millisecond and a frame is in the data path for some ten microseconds: so in `HwTrial`
what was in the data path at one access has left before the next (`busyWith`, `ticked`). A byte on the
line takes ten thousand cycles, an access of the bridge less than ten: so in `ControlPlane` no byte
comes in during `DO_WRITE` or `DO_READ`; bytes do come in while an answer is sent, and are lost.

Operators marked `Mistake:` are not used by any specification. They are plausible bugs (a dropped
guard, a missing reset, an eager pointer) against which the properties have been tried: with one in
place of the true definition TLC reports the property violated.

## 3. Runs

| Run | Question | Bounds |
|---|---|---|
| `fifo` | is the circular buffer a queue under reads, writes and resets in any order? | depth 4, two words: pointers wrap, every fill level and pointer position occurs. `FlagsExact` compares the outputs `full` and `empty` with the queue: the refinement alone would let a queue be full early |
| `egress` | slice and link, over pipes of any delay or wires: are credits conserved? can the receiver overflow? is it an ordered lossless channel from switch to MAC? is a beat stranded when the switch goes quiet? | depth 5, two beats: all four places of the link (pipe, queue, port, return) and both of the slice hold something at once |
| `arbiter` | soundness and fairness over all mixtures of hold, won and requests | 3 ports: one between, one above, one below the winner |
| `voq` | admission, counting, whole frames, the read port | 2 queues of 4, frames of 1 or 2 beats: the mark is 2, frames are admitted at it and refused above it; counters modulo 3 wrap |
| `switch` | matching, seam, no wanted pair left idle, refinement of `FrameSwitch`; is every input paired, does every pairing end? | 2x2, three flows (one input with two outputs, one output with two inputs), at most 3 frames inside: two contend while a third is queued behind |
| `classifier` | does each frame leave whole with its own verdict's destination, or count as dropped once? can either queue overflow? is a byte left behind, the source shut out? | addresses of 2 bytes, each 0 or 1; three table entries, one shadowed; queues of 5; payload all alike; frames of any length |
| `rx` | is each error bit shown with its own frame? is each frame retired once, in order and as what it is? when can the elastic buffer overflow? is anything left over? | elastic buffer 2, other queues 4; one table entry; frames of 1 to 5 bytes, pauses anywhere between and inside them, bytes that differ in the first of a frame (all that one entry tells apart), one frame in error; after a lost byte only its frame still ends |
| `trial` | does a trial that is judged lossless speak of its own frames? does the search end, at an edge? | frames of 2 bytes, 2 per trial, gaps 0 to 4, room for 1 frame (so trials do lose frames), a stamp queue of 2; one frame from the network, one reset of the board (also in the middle of that frame), deadlines missed at will |
| `serial` | exact reads, acknowledged writes in force, one answer per command, no register changed but by a whole write command that came in; do host and bridge fall into step again? | 2 registers of each half and an address beyond, words of 2 bytes; one fault of any kind: a byte lost either way, a program killed, a reset |
| `switch_dry` | is what an input offers available until the end of the frame, as the switch assumes? **no** | as `switch` |
| `load_flows` | is any *flow* starved? **yes** | 2x2 |
| `trial_loss` | is every latency one frame's? **no** | 3 frames per trial, room for 1 |

The bounds were also moved where time allowed: `trial` holds with frames of 3 bytes, with room for 2
frames, with stamp queues of 1 to 4, and `serial` holds with two faults.

Property by property, with the lines they are about, the modules carry comments. The ones to know:
`RefinesQueue`, `RefinesLink` and `FramesIntact` are refinements of an abstract
specification; `Conservation`, `NoOverflow`, `Reservation`, `Seam`, `Matching` are the invariants the
design rests on; `NoSecondTurn` sharpens the counter bound asserted in `rr_arbiter.sv:120`;
`DropsCounted` compares the counter with a history of what really entered a queue; `ShowsDue` compares
every byte the classifier shows with a scoreboard that judges each frame by itself; `QueueRoom` says
why the verdict queue needs no margin in `s_tready`: it never holds more verdicts than the buffer holds
bytes, so it must not be the shallower of the two (`ClassifierAssumption`; both are 16).

`OwnVerdict` and `RetiredInOrder` compare `rx_shim`'s pairings by order with the frames as they came:
a frame that will be dropped is announced by the classifier possibly before its last byte is even in
the elastic buffer, or, by `drop_pulse`, a cycle after, and in between others are sent. `NothingLeft`
says nothing stays behind that would shift every later pairing. `IdleIsEnough` gives the elastic buffer
its justification: a single idle cycle after each frame is enough, since the classifier spends one
cycle more on a frame than it has bytes; only frames that touch overflow it.

`LosslessMeansOwn` is what a measurement means: when the host finds as many samples as frames were sent,
each sample is from the first bit in to the last bit out of one frame of this trial, with the gap that
was set, whatever trials, losses and resets came before. Four cases are excepted, in which the probe
cannot tell what it measures (section 4). `SearchTight` relates the gap returned to the trials that
were made. `Resyncs` says that after the last fault a host that only tries again is understood again: the bridge may be waiting for
up to `1 + NumBytes` bytes, and each attempt uses some up.

An address of two bytes is short, but has all the cases of six: a frame can end before it is complete,
on the byte that completes it, and after it; a byte left in the register by the frame before can
complete a match. Buffers of 5 hold up to five one-byte frames, whose verdicts then fill the queue.

`Payload`, `MaxErrors` and `MaxBytes` bound the frames of `rx`: TLC takes one value for the bytes after the
first and one frame in error, which is enough to tell whose bit is whose. The theorems about `RxPort`
(section 6) hold for all bytes, any number of errors and frames of any length.

The bound `MaxInside` of `SwSeam` limits the frames inside at one time; it holds back only the
*start* of a frame, so the environment with the bound is a legal environment, and properties are
judged over all timings of what is inside.

## 4. What was found

**A flow can starve** (`load_flows`). `tb/axis_switch_tb.sv:190` fails the test when a flow makes no
progress under full load, and `README.md:49` lists a bounded wait for `axis_switch`. The bound
proved there (`axis_switch.sv:334`) is of an *input*, to whichever output. A flow has none: a free
output grants the input its pointer is at, and when that input accepts, all else it asked for is
withdrawn. With stalls that free the two pairings in the right order, the pointers return to the
same place each round: input 0 always gets output 1 and input 1 always gets output 0, while both are
backlogged for both and both readers are ready infinitely often. Inputs are still served
(`EveryInputPaired`), and no pair is ever left idle (`PairsAtOnce`). The random stalls of the
testbench do not hit it: the counterexample needs a stall pattern in step with the frames. The root
cause is a contract that is not kept: `rr_arbiter` proves its bounded wait for requesters that "hold req
until granted and released" (`rr_arbiter.sv:113`); `axis_switch.sv:67-69` lowers a request as soon as
its input or its output is taken.

**The latencies of a lossy trial are not those of its frames** (`trial_loss`). A frame the classifier
has sent is retired as passed and its stamp waits for the next end of transmission. If a full voq then
refuses the frame (`voq.sv:99-106`), its stamp stays and is paired with the end of the *next* frame,
and so on, one frame further with every refusal. The count of samples still tells that frames were
lost, and `find_max_rate` uses only that; but the minimum, average and maximum latency `run_hwgen`
prints (`measure.py:294`) are wrong for every such trial. On the wire a frame takes 24 byte times more
than the generator counts, so a long train at the default gap of 12 (`measure.py:356`) is one.

**The voq promises less than the switch assumes** (`switch_dry`). Both modules have a contract with the
comment "Requests hold until served". The voq's (`voq.sv:175-189`, here `RequestsHold`) lets what is
available for a destination end with any beat taken. The switch's (`axis_switch.sv:304-319`, here
`AvailableUntilEnd`) assumes that it lasts until the *last* beat of a frame (`f_done` is `xfer_last`),
and line 208 that a paired input always has something available. A voq passes a frame on while it still
arrives; when its queue runs dry inside a frame, `navail` falls (`voq.sv:76`) with the pairing in force.
Bytes of one frame do come with gaps, since the MAC hands them over through an asynchronous FIFO
(`datapath_top.sv:109-136`). `formal/sw_seam.sby` reads both modules with their `FORMAL` sections, so the
assumption binds the real voq there too and such frames are left out of the proof instead of being
checked. Nothing goes wrong in the design: a pairing lasts until `xfer_last` whatever is available, and
the `switch` run, in which queues do run dry inside a frame, has every property of the seam. What is
missing is the proof of the bounded wait (`axis_switch.sv:334`) for such frames; `EveryInputPaired` and
`EveryPairingEnds` take its place, without the bound.

Remarks without a run of their own:

* `Conservation` needs sends and returns to net to zero, but no property of the sender alone notices a
  sender that loses a credit in that case; only the sum over both ends does.
* When the elastic buffer overflows and the byte lost is a middle one of a frame, the frame is retired
  twice, by `lost_pulse` and when its last byte is sent; when it is the last one, two frames merge. The
  properties of `RxPort` therefore end where `lost` begins. Generated frames with `gap_bytes = 0` are
  the ones that touch.
* `LosslessMeansOwn` excepts four cases (`spoilt`), in which the queue of stamps and that of verdicts need
  not be of the same frames; each is needed, as a counterexample shows when it is taken out:
  * *The probe is cleared while the line is not quiet.* A frame from the network that is in the data path
    then leaves a verdict without a stamp. Or it is the train of the trial before, which has outlasted
    its deadline of 30 s (`measure.py:235`): the generator ignores the new start (`frame_gen.sv:96`), and
    what is left of the old train, at the old gap, may be as many frames as are asked for and have not
    been lost (TLC finds this with gaps of 0 to 17 and room for 2 frames). Only a `--count` of some
    million frames takes that long; the default is 5000.
  * *A train begins when of a frame from the network the envelope is in and the stream is not.* The stamp
    has no verdict: the generator's frame comes first (found at the bounds of `trial`).
  * *A frame comes in when the queue of stamps is full* (`latency_probe.sv:128` writes no stamp then).
    The samples may still be as many as the frames sent, because the queue holds the stamp of a frame
    from the network that came before the train (found with a queue of 1). With the 16 places of the
    code it takes 16 frames whose stamps are waiting.
  * *A reset tears a frame from the network.* The line in does not stop at a reset, so the rest of the
    frame is stamped anew, and no verdict need follow: a reset between the clear and the start of the
    train puts this stamp ahead of those of the train, whose count then still comes out right
    (found with room for 2 frames). A reset without a frame on the line is not excepted.

  The host accepts the cases with frames from the network by running trials on an idle line.
* A trial that ends by its deadline can have `sent == count of samples` by accident, which `late` excepts;
  and with `--count 0` every trial is lossless, which the theorem's `Count # 0` excepts.
* `frame_bytes` reaches 2047, beyond the room the voqs reserve; the host refuses more than `MAX_FRAME`
  (`measure.py:366-368`).
* After a command that was cut short, the *first* write may be acknowledged by the bridge for the old
  one, and a read can return another register's value: `clean` excepts what the host cannot know.
  `Resyncs` assumes that no byte but the first of a command looks like `R` or `W`: addresses are
  multiples of 4 and so never do, but values that contain 0x52 or 0x57 could keep the two out of step.

## 5. Fairness

* `Egress!FairEgress`: the clock ticks; a pipe does not keep for ever what it holds; the MAC takes in
  the end a beat it is shown, as it drains one byte per cycle while it transmits. Nothing is assumed of
  the switch, so delivery cannot rest on later traffic.
* `RrArbiter!ArbFairSpec`: a winner wins and releases in the end: `MaxStick` and `MaxBurst`, assumed in
  `rr_arbiter.sv:110-111`, weakened to "in the end".
* `SwitchLoad!FairSpec`: a reader is ready again and again (`MaxReadyGap`, `axis_switch.sv:237`,
  weakened).
* `ClassifierPort!FairSpec`: edges at which the reader is ready come again and again. Nothing is assumed
  of the source.
* `SwSeam!FairSpec`: the clock ticks while something would change without input; a frame that began
  arriving ends (the MAC delivers a frame without stopping); a reader shown a beat takes it in the
  end. Nothing is assumed of when frames start: a frame must not need another to push it out.
* `HwTrial!FairSpec`: what is in the data path moves on, and the program goes on (it is one loop without
  locks; each access has a time-out).
* `ControlPlane!FairSpec`: the clock ticks and a byte on the line arrives; the host goes on, and when its
  program has ended it is started again, which is what an operator does.

A reset may come at any time in every run of the data path; the liveness properties say "or is reset"
where needed. Resets, strays and faults are bounded in `trial` and `serial`: what is claimed there is
what holds after the last one.

## 6. Proofs

All by TLAPS, for all values of the constants that meet the named assumptions.

| Theorem | States | Argument |
|---|---|---|
| `FifoProofs!BufferIsQueue` | `Spec => RefinesQueue` | type correctness is all that has to be kept; from it the contents are the words between the pointers (`Contents`), the wrap bits tell full from empty (`FullEmpty`), and a write next to them changes none that is kept (`SlotsApart`) |
| `FifoProofs!FlagsAreExact` | `Spec => []FlagsExact` | the same: with the pointers in their range the wrap bits tell full from empty (`FullEmpty`) |
| `EgressProofs!CreditsConserved` | `EgressSpec => [](TypeOK /\ Conservation)` | `TypeOK /\ Conservation` is inductive: the sum bounds every part, and the bound is what keeps each register in its type. It is kept for whatever a source offers (`LinkKeepsIInv`), the slice among them |
| `EgressProofs!ReceiverNeverOverflows` | `EgressSpec => []NoOverflow` | a full queue already accounts for all `Depth` credits, so none rides on a beat |
| `EgressProofs!EgressIsChannel` | `EgressSpec => RefinesLink` | slice and link are lines of beats laid end to end; per edge each takes off its front what the next one adds (`SliceMoves`, `LinkMoves`, `ChanMoves`). Needs conservation, since an overflow would lose a beat, and `SkFill`: the place of slack is used only behind a beat |
| `SwSeamProofs!OneSoundGrant` | `ArbSpec => []GrantSound` | among the ports that ask one is the lowest (well-founded induction on finite sets); a held grant stays among the requests, because only a release takes one away |
| `SwSeamProofs!NeverTwice` | `ArbSpec => []NoSecondTurn` | strengthened to `Waits`: those served since a port came lie between it and the last winner, going round; and `HeldWaits`: the one that holds the grant now is not among them |
| `VoqPortProofs!NeverStranded` | `Spec => []NoStrandedBeat` | strengthened to `Held`: with a beat waiting there *is* a selection, and it is that queue. Without this, `None` for no selection is not excluded after the last beat |
| `VoqPortProofs!RoomReserved` | `Spec => []Reservation` | strengthened to `RInv`: the queues are bounded queues and the voq's `sof` is the ingress's "no beat yet"; per edge the queue grows by at most the beat that shrinks what is still to come |
| `VoqPortProofs!VoqTypes` | `Spec => []TypeOK` | the parts of `RInv`, `Held` and the counters |
| `VoqPortProofs!RequestsStand` | `Spec => RequestsHold` | what is available for a destination goes down only by a beat that leaves for it, and a beat leaves only for the selection (`FlowStep`): one that is offered and not taken stays at the read port. A reset of the voq is the other way out. It is the contract of `voq.sv`, not what the switch assumes (section 4) |
| `VoqPortProofs!RefusedAreCounted` | `Spec => []DropsCounted` | strengthened to `CInv`: of the frame that arrives all beats have entered the queue, or none if it is refused. With the room reserved no beat of an admitted frame meets a full queue, so the frame counted at its first beat is the one the history finds outside at its last |
| `VoqPortProofs!FramesStayWhole` | `Spec => []WholeFrames` | strengthened to `WInv`: in what is held for a destination neighbours follow each other (`Linked`), a destination not selected begins with a frame (`Starts`), and each ends where the arriving frame stands (`Closed`) |
| `SwSeamProofs!NeverTwoInputs` | `Spec => []Matching` | inductive by itself once `MatchProperties` says what the two stages give: an accepted output granted only this input, both free |
| `SwSeamProofs!SeamHolds` | `Spec => []Seam` | strengthened to `SeamHeld`, as `Held` above, over all inputs: a pairing that does not see the last beat leave stays, and a fetch happens only in a pairing that stays |
| `SwSeamProofs!NoCycleLost` | `Spec => PairsAtOnce` | wherever the two masks stand, an output with a free requester grants one (`GrantExists`), and an input granted anything accepts one (`PairMade`); the lowest requester exists by well-founded induction |
| `SwSeamProofs!FramesCrossWhole` | `Spec => FramesIntact` | refinement of `FrameSwitch`, below |
| `ClassifierProofs!BufferNeverFull` | `Spec => []BufferRoom` | strengthened to `BInv`; the two halves need each other: a byte accepted finds a place because the fill is right, and the fill stays right because the byte is not dropped |
| `ClassifierProofs!VerdictsFit` | `Spec => []QueueRoom` | by `FewVerdicts`: in the account below every waiting verdict has a last byte, or the frame being judged, of its own, and the buffer holds no more than `DataDepth` of them |
| `ClassifierProofs!ShownIsDue` | `Spec => []ShowsDue` | the same account pairs the front verdict with the front frame, and the history's verdict of a frame is the one the address register gives when it is judged (`VerdictRight`) |
| `ClassifierProofs!MissesAreCounted` | `Spec => []MissesCounted` | strengthened to `MInv`: the misses counted, waiting in the queue or just read from it are those of the history; modulo the counter's width (`ModAdd`) |
| `RxPortProofs!OwnVerdictHolds` | `Spec => []OwnVerdict` | from `Sound`, below: the error bits queued are those of the frames that ended, from the first not retired on, so the head belongs to the frame in force, which the byte that is out ends |
| `RxPortProofs!VerdictRoomHolds` | `Spec => []VerdictRoom` | every bit queued has the last byte of its frame in the data buffer or at its read port, and the classifier takes no byte without room for it: `VerdictDepth >= BufDepth` is what makes the second queue safe |
| `RxPortProofs!RetiredInOrderHolds` | `Spec => []RetiredInOrder` | what is retired is the frame in force, and the scoreboard's oldest entry is the verdict on it; a drop is pulsed one cycle after its frame came in force, when nothing of it can be sent (`Ctl`) |
| `RxPortProofs!IdleIsEnoughHolds` | `Spec => []IdleIsEnough` | `Timing` in `Sound`: while no two frames touched, the elastic buffer holds one byte at most, and what the classifier has taken, with a cycle for each frame end in it, keeps it busy no longer than telling an address takes |
| `RxPortProofs!NothingLeftHolds` | `Spec => []NothingLeft` | at rest with a silent source nothing waits in any buffer (`Settled`), so the last frame that came is the last retired, and the account of error bits leaves none over |
| `ControlPlaneProofs!ReadsAreExact` | `Spec => []ReadExact` | from `Undisturbed`, below: what is sent of an answer is the rest of one word that the register showed |
| `ControlPlaneProofs!AcksAreTrue` | `Spec => []AckedInForce` | likewise: the acknowledgement leaves after the write, and nothing writes in between |
| `ControlPlaneProofs!AnswersAreWhole` | `Spec => []OneAnswer` | likewise: bytes received and the byte being sent are the front of the one answer due |
| `ControlPlaneProofs!OnlyWritesWrite` | `Spec => OnlyWritten` | from `Heard`, which needs no clean line: the bytes that have come in since the bridge last waited for a command are, in each state of the parser, the command so far, byte for byte; and `Handshake`: outside `DO_WRITE` no write handshake of the register file is half done. For an undisturbed command `Undisturbed`, below, says whose it is |
| `HwTrialProofs!SearchIsTight` | `Spec => []SearchTight` | invariant of a binary search, over the set of trials made: below `low` the last gap tried lost a frame, `high + 1` is the best gap and lost none. Nothing is used of the board: the search is right whatever its trials say |
| `HwTrialProofs!LosslessIsOwn` | `Count # 0`, `Spec => []LosslessMeansOwn` | from `TrialInv`, below: as long as no frame is lost every stamp, verdict, frame and sample is at its place in one line of places, and once one is lost the count stays short for good |

Five of the inductive invariants are worth reading before their proofs.

*`ClassifierProofs!CInv`.* The hardware keeps three things in step by order alone: the bytes in the
buffer, the verdicts in the queue and what is shown at the output. `Explained` says that there is an
account of everything accepted so far in which they meet: beat `k` was `D[k]`, of frame `F[k]`, with
verdict `V[F[k]]`; `r` beats have been read, the frames of `w` are judged. The buffer is the beats
from `r` on (`Kept`), the waiting verdicts are those of the frames after the one in force (`Ranked`),
and what is due is the beats with a destination (`Sorted`). A verdict may wait before the last byte of
its frame has come, and bytes may wait whose frame has no verdict yet, and one edge can read a byte,
take a verdict, accept a byte and judge its frame. So there is a lemma for each of these
(`ReadExplained`, `TakeExplained`, `HeaderExplained`, `JudgeExplained`, `BodyExplained`), and
`VerdictClock` puts them together.

*`RxPortProofs!Sound`.* The same idea for the receive side as a whole, where four queues (elastic buffer,
data buffer, verdicts, error bits) and a counter seen a cycle late are paired by order alone. Some
stream explains the state (`Told`): beat `k` was `D[k]`, byte `P[k]` of frame `F[k]`; `V` says of a frame
whether it is dropped, `X` what its error bit is; `w` beats arrived, `x` were taken by the classifier, `o`
read from its buffer, `g` is the frame in force. `Numbered` and `Foretold` tie the functions to each
other, `Elastic` and `Within` what is stored to them, `Scored` the history's list of frames not yet
retired. The numbers are free of the state, so an edge only moves `w`, `x`, `o` and `g`: there is one
lemma for each part and edge (`ElasticStep`, `KeptStep`, `CapturedStep`, `RankedStep`, `ErrorsStep`,
`ScoredStep`, `TimingStep`), and one (`Extend`) that lets the stream go on with any byte, choosing
verdict and error bit of a frame only when its bytes decide them. The delicate part is `Errors`: a miss
is retired before its last byte has come, so the bits may run one behind (`v_pend`), and `First` says
from which frame on they are wanted. `IdleIsEnough` needs `Timing` besides: a count of the cycles the
classifier still owes, against the idle cycle each frame brings. TLC does not evaluate `Sound`, which
speaks of functions on all integers; it checks what follows from it, the five properties, on the `rx` run.

*`ControlPlaneProofs!Undisturbed`.* The bridge is a parser, so the invariant is a phase of the
conversation: while a command that began with the bridge at rest has met no fault, it is `Asking`
(and what is on the line is exactly what the state of the parser has still to read) or `Answering`
(and the line to the board is empty, and what was received, what is being sent and what the bridge
has still to send are together one right answer). `Always` holds without `clean`: the handshakes
between bridge and register file match the parser's state.

*`SwSeamProofs!FInv`.* The stream of beats of a flow lies in four places: queue, read port, slice and
its slack. `Stream(o, s, e)` says of a list of beats that it goes on from a frame open at `o` and
leaves it open at `e`. Then `Voqs`: queues have their types and the room an admitted frame needs;
`Skids`: what a slice shows fits the frame its output is in the middle of; `Streams`: what input `j`
holds for output `i` goes on where the slice will stand, if the two are paired, and at the start of a
frame if not, and ends where the arriving frame stands; `Between`: an output that is not paired will
stand between frames. The last is why frames never interleave, and it is what breaks if a pairing is
given up early. TLC checked the conjunction on the `switch` instance before it was proved.

*`HwTrialProofs!TrialInv`.* A trial passes through the host's program, the generator, the data path and
the probe, and the first says which of the others matter: `Phase` is a conjunction over the places of
the program. From the clear to the start of the train the board is `Pre`: strays only, each stamp with
a verdict or a frame on its way to get one. From then on it is in a `Run`. Everything that comes in has a
*place*, an integer: the train's frames are at `0 .. Count - 1`, strays before and after (`W`). The
run is `Exact` for some `k` and `y`, the numbers of frames stamped and come in whole: the stamps are the
places up to `k`, the verdicts those before them, the frames in flight those up to `y`, what is
queued and being sent those before (`Window`), and the samples are the places from 0 on. Strays are
dropped, so on both sides only places inside the train count (`Clamp`). Or the run is `Lossy`: then the
places retired are ahead of the samples by a frame that is gone, or a stray lies where the first frame
should, and neither is ever made good, so fewer than `Count` samples come. What may happen to a stray
when the generator breaks into it is why the second is there. Each queue moves by one lemma
(`QueueStep`, `WindowStep`), each edge moves `k`, `y` and the heads, and the cases of
`Spoils` are where a step has no place to go. TLC checked `TrialInv` on seven instances first, and each
of them corrected it or the list of exceptions.

Assumptions used: `CreditAssumption` (a positive depth), `DepthAssumption` and `ZeroAssumption` (a depth
that is a power of two, as the code's pointers need), `ArbiterAssumption` (a positive number of ports),
`VoqAssumption` and `SeamAssumption` (a frame fits a queue), `EgressAssumption` and `NoneIsNoBeat`,
with part of `SeamAssumption` (`None` is a value of its own), `SwitchAssumption` (at least one port
each way), `ClassifierAssumption`, `PadAssumption`, `TrialAssumption`, `CsrAssumption` (there are
registers), `BridgeAssumption` (words have bytes; `R` and `W` are different letters; letters and
acknowledgement are numbers) and `HostAssumption` (words are of numbers; no address is `R` or `W`:
they are multiples of 4, the letters are 0x52 and 0x57), `PortAssumption`, and `RxAssumption`: an elastic
buffer of two bytes or more (2048 in the code), as many places for error bits as for bytes in the
classifier's buffer (16 and 16), room there for an address and two bytes more (16 and 6), and a drop
counter of a bit at least. None can be had for less: with fewer places a bit can be lost, with
less room the classifier stalls on an address longer than one idle cycle makes up for, and a counter
that cannot change announces no drop. `TrialAssumption` has no more than that a frame is not shorter than
the header the probe waits for, and that names differ; `GenAssumption` and `ProbeAssumption`, that there
is a header and a place for a stamp.
TLC evaluates each on the runs.

Out of the prover's reach and left to TLC: liveness under fairness and `ENABLED`; what a recursive
definition computes for every input (induction over data). No module that is proved about uses
`RECURSIVE`.

## 7. Only model-checked

Liveness, all of it under the fairness of section 5 and out of the prover's reach: `LinkDelivers`,
`EveryoneServed`, `EveryInputPaired`, `EveryPairingEnds`, `Delivers`, `ReadyAgain`, `SearchEnds`,
`Resyncs`. Every invariant and every action property that a run checks is also proved.

## 8. Not modelled

* Vendored code: the MAC in `lib/eth`, the UART in `lib/uart`; the models see a source that never
  stalls, a reader that drains, a line of bytes.
* Clocks and pins (`boards`), the build scripts, `tx_shim` (renaming).
* The trials of `measure.py` with frames sent by the host (`run_throughput`, `Receiver`, `one_trial`):
  what the capture library delivers, and when, is outside this repository. The tables it prints.
* `latency_probe`: the two error counters, which nothing decides on, and the synchronizers of the
  line-side signals.
* Payload bytes, except as order and place; the FORMAL counters with concrete bounds, replaced by
  fairness. The behaviour of `rx_shim` after an overflow beyond the frame that lost its byte.
* In `HwTrial`, the overflow of the elastic buffer behind generated frames that touch (gap 0), where a frame
  is retired twice. The classifier loses one byte time per frame against the line, so it takes some two
  thousand touching frames to fill the 2048 places (`rx_shim.sv:8`); a frame needs some 24 byte times more on
  the wire than it takes to come in, so long before that a voq of 2048 bytes (`datapath_top.sv:10`) has
  refused one of them. Such a trial has fewer transmissions than frames sent, hence fewer samples, and is not
  judged lossless whatever the extra verdicts do; what its latencies are is said in section 4.

## 9. What is left

1. The receive side in front of a voq, with `FrameFilter`, its promise: the frames whose address matches,
   whole, in order, each with its destination. Today they meet only in the contracts of `voq.sv:146-168`.
2. One model of the whole data path for two ports; each seam is covered by a composition of its own
   (`SwSeam`, `Egress`, `RxShim` over `Classifier`, `HwTrial`).
