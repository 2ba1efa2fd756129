# TLA+ verification of the NearLink stack

The repository is an OpenHarmony NearLink (SparkLink SLE) implementation: a C
protocol stack (`src/services/stack`), C++ services on top of it
(`src/services/service`, `device_manager`, `server`), IPC and language bindings
(`src/frameworks`, `src/interfaces`, `src/ipc_parcel`), and a socket library for
bulk data (`src/socket`).  This project models the parts of the stack that promise the
most and are tested the least: the data path from the application's socket over the
service, transport, DTAP and DLI layers of one device to the same layers of the other,
and the control under it, how links and channels are made and ended and how commands
reach the controller.

## 1. Inventory

| Component | State | Operations | Interacts with | Hard behaviour | What makes it correct |
|---|---|---|---|---|---|
| Data transfer service (`nearlink_sle_datatransfer_service.cpp`) | per connection: tcid, `transState` (available, busy) | `ReceivedData`, `WriteData`, `SendDataStateCallback`, `ReceiveDataCallback` | port thread, data transfer thread; calls transport, called back by it | state read, written and caused on three threads | no wake-up lost, no SDU lost |
| Transport (`transport.c`) | counted `TRANS_Data_S` per send | `TRANS_SendData`, `TRANS_SendDataProc`, `TRANS_DataRecvCbk`, `TRANS_ChannelSetStatus` | posts tasks to the stack thread | 500 ms time-out against a task that still runs | no use after free, no leak |
| Schedule (`nlstk_schedule.c`, `sdf_worker.c`) | worker queue, semaphores | `SchedulePostTask`, `SchedulePostTaskBlocked`, `ScheduleDisable` | all API threads, the stack thread | time-outs, shut-down with queued tasks | semaphore outlives its users |
| DTAP reliable mode (`dtap_trans_reliable.c`) | per channel: transmit and receive windows, timers, kept SDU, partial SDU | send, receive data, ACK, nack, three timers, release | scheduler below, transport above, peer | loss, reordering, wrap, back-pressure, giving up | in order, once, in the end |
| DTAP frames (`dtap_frame*.c`) | none (partial SDU in the channel) | build, parse, fragment, reassemble | DTAP modes | second attempt at a trimmed frame | an SDU arrives whole or not at all |
| DTAP stream mode (`dtap_trans_stream.c`) | expected number, reorder list, timer | send, receive, reorder time-out, join and leave | as above | time-out instead of acknowledgement; the expiry is a task that comes late | order, each frame once, a timer over every gap |
| DTAP basic / transparent modes | ready flag, cache of 65 frames | send, receive, continue | as above | frames before the channel is ready | nothing dropped below the limit |
| DTAP scheduler (`dtap_scheduler.c`) | priority queues, per-link credits and quotas, saved fragments | push, run, complete, connect, disconnect, channel down, number of buffers | DLI, all channels | credits shared by links, half-sent packets | no credit lost, no packet stuck, no fragments mixed |
| DTAP channel table (`dtap_channel.c`) | links and their channels | add, delete, search | CM call-backs, scheduler | re-creation of a live channel | no dangling entry |
| CM dynamic channels (`cm/dyntrans`, `cm/signaling`) | channel list, tcid pool, cached requests with timers, identifier | establish, release, four signals, time-out, link up and down | QOSM and DTAP above, the peer's CM | crossing requests, reused tcids, refused signals, lost link | both ends agree on the channels, every wait ends |
| CM connections (`cm/link`) | requests per device (direct, background), link list, the one CONNECTING node | add, remove, clear, time-out, connection and disconnection events | ADPT, SSAP, BNL above, the controller | one Create_Connection for all; cancelling races completing | what is asked for is sought, host and controller agree |
| SM, SSAP, DEVD, QOSM, HADM, BAL profiles | per device and per profile | protocol requests | CM, DLI | multi-step procedures | request and answer match |
| DLI (`dli`) | command list, credit, registrations; fragments per link | command, event, time-out, disable; cut and reassemble data | CP thread, DLI thread, controller | a credit tested on one thread and set on another; answers against time-outs | credit conserved, a command ends once and in the end |
| SDF, NAI | buffers, timers, event loops; start order | - | everything | - | - |
| Service layer (`adapter`, `common`, profiles) | adapter and system state machines, reconnection | enable, disable, pair, connect | stack API, IPC | enable against disable, profile start-up | states agree with the stack's |
| Device manager, server, IPC, frameworks, `socket`, `utils` | registrations | marshalling, permission checks | applications | - | - |

`PROJECT.json` repeats the list with the status of every part and holds the hazards,
each at its line.

## 2. Plan

Done: (1) the reliable channel, (2) the threads of a write, (3) stream mode, (4) the
scheduler with the DLI's fragments, (5) the DLI's commands, (6) CM's dynamic channels,
(7) CM's connections, (8) the proofs of section 5.  To come, in this order:

1. **Proofs**: the receiving window of `DtapRxWindow` (sorted, within the window, timer
   exactly over a gap); the step-wise part of `DtapReliable => ReliableChannel`.
2. **Basic mode** and the other half of a release: `CmChannel` and `DtapReliable`
   composed, so that giving up is CM's release and not an outcome.
3. **SSAP** (one request at a time per link, its time-out) and the **adapter's and
   system's state machines** of the service layer (enable against disable).

## 3. Modules

| Module | Models | State and actions |
|---|---|---|
| `DtapSeq` | `DTAP_IsFrameSeqSmaller`, `DTAP_GetNextFrameSeq` | Pure operators; `SeqHalf` stands for 2^13 |
| `DtapTxWindow` | sending half of `DTAP_ReliableChannel_S` | A record `tx`; each C function is an operator from a record to a result (new record, frames sent, return code, call-back made).  On its own: `WriteData`, `RecvReqSeq`, `RetransTimer` against an arbitrary peer |
| `DtapRxWindow` | receiving half, reassembly | A record `rx` and operators; no variables |
| `DtapReliable` | two endpoints, callers, link, timers, release | `WriteData`, `RecvFrame` (ACK, data, dropped), `RetransTimer`, `RspTimer`, `ReorderTimer`, `ChannelSetStatus`, `ChannelDel` |
| `ReliableChannel` | the abstract promise | `Accept`, `Deliver`, `GiveUp`, and fairness of `Deliver` |
| `TransSend` | port thread, data transfer thread, stack thread and the objects they share | one action per step between two points where another thread can intervene |
| `DtapStream` | a stream's sender, link and receiver | `SendStreamFrame`, `RecvStreamFrame` (first, expected, ahead, dropped), `TimerExpires`, `ReorderStreamFrameTask`, `Rejoin`; a record `rx` is the receiver's half of `DTAP_Stream_Channel_S` |
| `DliData` | `DLI_SplitData`'s flags, `DLI_AcbPacketReceived` | Pure operators: the flag of a fragment, and what the peer's DLI makes of it |
| `DtapScheduler` | `dtap_scheduler.c` | `buf` (buffers, credits, quotas) and `q` (queues, lists, counts); one action per handler, then `DTAP_SchedulerRun`, one action per turn of its loops, during which no handler runs; every fragment sent is fed to `DliData` at the peer |
| `DliCmd` | command list, events, time-outs | DLI thread (`DliSend`, `Visit`, `SubOne`, `DliEvent`, `CmdTimer`, `LayerDisable`), CP thread (`ExecuteCommand`, `CpReg`, `CpEvent`, `CpTimeout`), controller |
| `CmChannel` | both ends' dynamic channels on one link | `EstablishReq`, `ReleaseReq`, `RecvConnectReq` and the other three signals, `SignalingTimeout`, `LinkLost`, `Disconnected`, `Connected` |
| `CmConcurrentConn` | requests, links, controller | one action per `CM_...Inner` function and event handler; commands go to the controller in order (`cm.out`), its events come back in order (`evts`) |
| `...Proofs` | - | theorems on `DtapTxWindow`, `TransSend`, `DtapStream`, `DtapScheduler`, `CmConcurrentConn`, `CmChannel`, `DliCmd` |
| `ListLemmas` | - | lemmas on the library's list operators, for several of the proofs |
| `MC...` | - | instances for TLC |

`DtapReliable` composes `DtapTxWindow` (by `INSTANCE`, one per endpoint) and
`DtapRxWindow`.  `TransSend` runs the operators of `DtapTxWindow` on its stack thread.
Both are shown to implement the stand-alone `DtapTxWindow`, `TransSend` by a proof, so
the theorems about it apply to them.  `DtapScheduler` composes the sending and the receiving half of
`DliData`.

Where one component must be checked under several kinds of trouble that multiply, the
specification has a constant `Environments`: a set of records that say what callers,
link, peer or memory may do, with budgets for the faults.  A behaviour picks one in
`Init` (`env`), so a run covers all of them, each with its own small bounds.  A property
that only some environments promise says so in its formula (`NeverFull`,
`env.timeouts`, `env.refused`, ...), and its comment says what happens in the others.

Abstractions:

- All DTAP code and all its timers run on the stack's schedule thread (timer
  call-backs are run by the same event loop, `ScheduleTimerAdd`), so a handler is one
  atomic step.  What happens between threads is in `TransSend`.
- An SDU is a model value; `FrameCnt` gives its number of frames, which may be larger
  with the longer duplex header.  A frame keeps its numbers, P bit, retransmission
  count, and which piece of which SDU it is.  CRC and header layout are left out: a
  frame with a wrong CRC is a lost frame.  That a frame kept for a second attempt
  has already been trimmed is kept (`trimmed`).
- Time is abstract: a running timer may expire at any moment.  Durations
  (`DTAP_CalculateRetransTimeout`) are left out.
- A new frame whose `DTAP_SendFrame` fails is queued by the code all the same and is
  here a frame the link lost.  For retransmissions the two outcomes differ and both
  are modelled (`sendOutcomes` of the environment).
- The response timer of a channel always runs (it is periodic and only ever
  restarted).
- Memory allocation inside DTAP succeeds.  In `TransSend` every post to the stack thread
  may fail (`PostResults`): that of the send task, and that of the task that frees the
  semaphore, whose failure frees it at once (`FreeSemLater`, semaphore "refused").
- In `DtapReliable` CM's part of a release is external: once either end has asked, both
  ends may end the channel.
- A packet of the scheduler is its channel, number and how many fragments it takes; a
  fragment is that with an index.  Rates are left out.  A fragment the DLI accepts is
  sent (`Deliver`) or dropped without a word to DTAP (`Drop`), which counts it for ever
  (`lost`); the task that does either is part of the step that posts it.
- In `DtapStream` a clock of milliseconds is kept, because the reorder timer compares
  time stamps; a timer may still expire at any moment.  A handle the code loses while its
  timer runs leaves a timer in `loose`.
- `DliCmd`: a command is its opcode and its place in the list; an event is a kind, an
  opcode, a status and the number of free places.  The controller (external) has room for
  any number of commands, answers in order, reports any part of the room it has left, and
  may lose an event or give it after the timer.  The test and the decrement of
  the atomic credit are two steps.
- `CmChannel`: the link is reliable and ordered while it is up (external: the
  controllers acknowledge and repeat below the DLI); a timer of 21 s outlives the supervision time-out, so it does
  not race an answer on its way.  Negotiated parameters are left out but for their
  refusal.
- `CmConcurrentConn`: a device's background requests by several modules are one.  Handles
  are identified by the device's address.  The controller is external, and assumed from
  the code's comments: it refuses Create_Connection while one is under way, takes a new
  list meanwhile, ends a Create_Connection with the first device found, and reports no
  connection for a device it is about to release.  Whether a connection made by the peer
  ends a Create_Connection is left open.
- The receive path's aggregate frames are left out; nothing in the repository sends
  them.

## 4. Runs

Bounds.  Reliable channel: windows of 2 or 3 places, `SeqHalf` one more than the window
(the tightest sequence space the code's comparison allows, so that wrap and ambiguity
happen after a few frames), one retransmission and one nack before giving up (each count
is reached and passed), two frames in flight each way (one with data both ways),
overtaking by one where the environment says so.  An SDU of two frames makes
fragmentation, exact filling, overflow and the kept SDU happen.  Scheduler: two links
and three channels on two priorities, up to three buffers, packets of one to three
fragments, a queue of two, one failure (a send refused, an allocation, or an accepted fragment
dropped), two packets on a channel and beside them one of
another channel of the link or one of the other link (`OneBeside`): enough for a packet to be
saved half sent, taken down, and followed or overtaken by others.  Stream: numbers below 16, joined at 13 so
that they wrap, a list of two, seven frames, two faults, one rejoining.  Commands: of
two opcodes, a list of two places; four with a controller of one place, a lost event and a
refused send; three with a controller of two places and a lost event; three with one time-out
that overtakes its answer.  Channels: three tcids and identifiers modulo three, so both
are used again; up to two requests per end, also with a refused answer.  Connections: two devices, two modules, two to
four requests and one or two disturbances.  Deadlock checking is off where the callers have
finite work and the system rightly stops after it.

| Run | Question | Result |
|---|---|---|
| `tx_window` | Is the sending window sound against any acknowledgement at any time? | holds |
| `reliable` | Two endpoints: loss, reordering and refused retransmissions with a fragmented SDU; numbers that wrap; data both ways with an upper layer that is full now and then. Sorted window, timer exactly over a gap, nothing freed that was not received, in order and whole | holds |
| `reliable_live` | Do the endpoints implement `ReliableChannel`, liveness included, and does every wait of a caller end? Does each endpoint implement `DtapTxWindow`? | holds, with an SDU kept and sent later |
| `trans_send` | Three threads. With answers in time: no lost wake-up, no forgotten SDU, an implementation of the one-step write. With time-outs before, during and after the task, failing posts, links gone and a shut-down: object life times. No wait for ever in either | holds (`NoLeak` while the stack has its worker; `SemOutlivesUse` unless the free of the semaphore is refused) |
| `stream` | Order and once, across the wrap and however late the expiries; a gap is always timed | holds |
| `scheduler` | Credits, quotas and counts agree with what the controller and the lists hold; packets arrive whole and in order; nothing is left waiting without a cause | holds, with the exceptions named in `PacketsArriveWhole` and `NothingStranded`; a fragment the DLI drops costs its credit until the link goes (`CreditsMatch`) |
| `dli_cmd` | The credit over two threads; each command ends once, and in the end; the call-back is there | holds while no time-out overtakes its answer (that a command ends once: also then), with the exceptions of `CreditConserved` and `EndsOnce` for a controller that reports room for several |
| `cm_channel` | Both ends agree once at rest; pool and list agree; every wait is timed and every request ends | holds; that the ends agree only while DTAP refuses no request and, where both ends may release or a release has replaced a refused answer, for one channel |
| `connections` | What is asked for is sought, and in the right way; host and controller agree on the links; nobody is forgotten; a background request lasts and ends | holds while no command is refused |
| `kept_for_ever` | Does every wait end when an SDU fills the window? | **violated** |
| `cm_stale_timer` | Is a request that DTAP refused forgotten, as the failure path's comment says? | **violated** |
| `removed_connects` | Does a device removed while it is being connected end disconnected? | **violated** |

The violated ones are described, with the lines and the comments they contradict, under
`findings` in `PROJECT.json`.  Where a property holds only with an exception, what happens
in the exception is described with the hazard it belongs to: among them an upper layer
that is full (`InOrder`, `RxListInWindow`), a late answer "full" (`AcceptedIsSentOrKept`),
a refused or dropped fragment (`PacketsArriveWhole`, `NothingStranded`), a refused free of
a semaphore (`SemOutlivesUse`), a time-out that overtakes its answer (`CreditConserved`) and a refused command (`RequestsAreSought`, `NobodyForgotten`).

Properties that are less obvious than their names:

- `BusyIsOwedCallback`, `CacheFreeWhenNotBusy`: the service reads no data while the
  channel is busy and is woken by exactly one call-back.  The window must remember
  that it owes it, and must have room for the one SDU that did not fit.
  `BusyIsOwedUpdate` is the same promise with the three threads between.
- `AckedWasReceived`: relates the two ends, over every answer still in flight.
- `GapIsTimed`: the unwrapped `maxExpectedSeq` and the expiry that forgets another
  timer's handle both look as if they could leave frames held with no timer; they do not,
  because a comparison that is wrong starts a timer too many, never one too few.
- `CreditConserved`: counts, besides the credit, the commands whose credit is in the
  controller, in an event in either queue, or with a timer.  It is exact while the
  controller reports room for one command: then the absolute "set" of the credit is
  correct.  Of any reports it says that the controller is not overrun, unless a command
  is sent while a report is on its way: that report does not count the command.
- `NoHalfOpen` compares the two ends, but only at rest; `WaitIsTimed` and
  `EveryRequestEnds` say that rest comes.
- `RequestsAreSought` relates the requests to the list the controller really has, which
  lies several commands behind.
- `ImplementsTxWindow` maps the service's state to `ToldBusy`: what a caller that acted
  at once on every answer and call-back would know.  It holds until the channel gives
  up; after that a stale call-back can undo a later "busy", which TLC shows when the
  exception is removed.

### Fairness

`DtapReliable!Fairness` assumes that an endpoint with frames in its queue handles one
in the end (the event loop of its thread) and that a running retransmission timer
expires (it is periodic).  Nothing is assumed of the response and reorder timers, of
the callers, or of the link: a link that loses everything leads to the release, which
`ReliableChannel` allows.  Both are weak fairness; that of the
reception is written with its enabling condition, a frame in the queue, because TLC's
`ENABLED` of so large an action is slow.  `TransSend!Fairness` assumes that each thread
serves its queue and that the port thread takes an answer that is there.
`DliCmd!Fairness`: both threads serve their queues, the controller answers what it holds
(or the event is lost), and the timer of a sent command that nothing else will end
expires.  `CmChannel!Fairness`: each end handles the signals in its queue, a timer
expires, a lost link is noticed; nothing is assumed of the upper layers.
`CmConcurrentConn!Fairness`: events are handled, commands taken, direct requests time
out, and a device that is sought is there to be found; the last is an assumption about the
world and only `BgRequestEnds` needs it.

## 5. Proofs

TLAPS proves, for every value of the constants that the named assumptions allow, 28 of
the properties the runs check, among them a refinement.  An inductive invariant is in each
proof module's header or first definitions; each was checked by TLC as an invariant of
the component's run before it was proved.

| Module | Theorem | Statement |
|---|---|---|
| `DtapTxWindowProofs` | `TypeCorrect`, `WindowStaysConsecutive`, `TimerAlwaysGuards`, `CallbackAlwaysOwed`, `NoSduForgotten` | `Spec => []` of the five invariants of run `tx_window` |
| `TransSendProofs` | `NeverUsedAfterFree`, `SemaphoreOutlivesUse`, `NothingLeaked` | object life times: `NoUseAfterFree`, `SemOutlivesUse`, `NoLeak` |
| | `BusyAlwaysOwed`, `AcceptedNeverLost` | no wake-up, no SDU lost: `BusyIsOwedUpdate`, `AcceptedIsSentOrKept` |
| | `SplitWriteImplements` | the three threads implement `DtapTxWindow`: `ImplementsTxWindow` |
| `DtapStreamProofs` | `HeldIsAhead`, `StreamGapIsTimed` | the held frames are sorted and ahead; `GapIsTimed` |
| | `StreamInOrderOnce`, `HalfRangeInOrderOnce` | `InOrderOnce`, where numbers are not used again too soon |
| `DtapSchedulerProofs` | `CoreInvariant`, `CreditsAlwaysMatch`, `QuotasAlwaysShareBuffers`, `CountsAlwaysMatch` | lists and counters are sound; `CreditsMatch`, `QuotasShareBuffers`, `CountsMatch` |
| | `NothingEverStranded` | `NothingStranded` |
| | `OrderInvariant`, `ChannelAlwaysFifo`, `PacketsAlwaysArriveWhole` | what is sent, saved and waiting is in order; `ChannelFifo`, `PacketsArriveWhole` |
| `CmConcurrentConnProofs` | `AlwaysSought`, `NeverConnectedAndPending`, `NobodyIsForgotten`, `LinksAlwaysAgree` | the four invariants of run `connections` |
| `CmChannelProofs` | `SignalsMatchRequests`, `TcidsAlwaysMatch`, `WaitIsAlwaysTimed` | signals in flight match cached requests; `TcidsMatch`, `WaitIsTimed` |
| `DliCmdProofs` | `CallbackAlwaysThere`, `NoneEndsTwice` | `CallbackIsThere`; no command ends twice |
| | `AnswerInvHolds`, `EndsAlwaysOnce`, `CreditAlwaysConserved` | events, credit and commands agree; `EndsOnce`, `CreditConserved` |

`ListLemmas` has what these proofs need of the library's list operators
(`SelectInSeq`, `RemoveAt`, `SelectSeq`, `InsertAt`, `Contains`, ...), of lists without
duplicates and of the sum of a function over a finite set.  It also shows how the
proofs do induction: a theorem of the library with an operator as parameter cannot be
used, but its fact that every non-empty set of naturals has a least element can
(`NatMin`); the loops of the code (the frames handed up together, the frames an
acknowledgement frees) are followed to the first turn at which they would go wrong.

### Assumptions

All are evaluated by TLC in the runs.  `SeqHalfAssumption`: the sequence space is not
empty.  `TxAssumption`, `TransAssumption`: the window is smaller than half the sequence
space (the code has 50 against 8192), every SDU has at least one frame, the callers'
SDUs are different objects.  `StreamAssumption`, `EnvironmentsAssumption`: bounds and
budgets are naturals.  `SchedulerAssumption`: links and channels are finite sets,
a channel is on one of the links and has a priority other than that of the saved
fragments, there are buffers, packets have a size.  `EndsAssumption`: a link has two ends,
tcids are positive (0 is the code's "none"), identifiers have a modulus.  `BoundsAssumption`: the commands are a list,
every controller has room for at least one, budgets are naturals.

`InOrderOnce` is not true of every behaviour: a receiver that hears nothing for half the
range of 16384 numbers cannot tell a new frame from an old one, and nothing in the code
keeps the sender from going on.  `StreamInOrderOnce` therefore assumes `Fresh`: the sender
is less than half the range ahead of every frame in flight and at most half of it ahead of
what was handed up last.  `HalfRangeInOrderOnce` has no such assumption, but a bound on the
sender, `MaxSent - JoinAt <= SeqHalf`, which the run `stream` satisfies: there `Fresh` is
proved.

### The arguments

**Sending window.**  The five invariants are proved together, from their conjunction
`IInv`: none is inductive alone.  That an acknowledgement frees the right frames needs
the list to be consecutive (`FreeAckedIsSuffix`), which needs the ends of the window to
agree with its length (`AckIsInWindow`: a number the code accepts is at a distance of at
most that length), which needs the window to be shorter than half the sequence space
(`SmallerIsCloser`).  The timer part needs the list to be empty exactly when the last
number is acknowledged (`SeqPlusZero`).  The flow-control part needs both directions: a
caller that is busy has a full flag, and a caller that is not has an empty cache, or a
call-back would be given while an SDU is still kept.  Lemmas follow the code: one per C
function (`SlideTxWindowOK`, `RetransOK`, `PackOK`, `SendInnerOK`, `SendOK`,
`StatusChangeOK`, `RecvAckOK`, `RetransTimerOK`), then one step per action in `NextIInv`.

**Threads of a write.**  `SharedInv` says for each SDU who may still touch its objects
(the caller, the queued task, the queued free) and gives the count, the semaphore and
the number of frees as a function of that (`Alive`); the count is exact while the stack
has its worker and a lower bound after.  A semaphore whose free was refused has its own
value, so that the task that still posts it can be told apart.  `ServiceInv` relates what the service believes
to what the window remembers, through the answers and updates in the queues.
`SplitWriteImplements` then maps the service's state to `ToldBusy` and shows each step to
be a step or a stutter of `DtapTxWindow`.  The module takes `DtapTxWindowProofs` by
`INSTANCE` under that mapping, so its lemmas on the window's operators serve here too.

**Stream.**  `RxOK` measures numbers by their distance from the expected one (`Dist`).
All held frames are less than half the range ahead, so the code's comparison is that of
distances; handing frames up shortens all distances alike (`DistFromLater`).  The number
the code compares with does not wrap, but never equals the expected one while something
is held (`LastPlusOneDiffers`), so a timer is started too often and never too rarely.
For the order, `StreamOrder` adds the SDUs: the expected number is that of the SDU after
the last one handed up, and every held frame's SDU is as many further on as its number
(`SdusAre`), also when the receiver joined in the middle.  A fresh frame's number tells
its SDU (`NumberTells`), so a frame taken for the expected one is it and an old one is
refused.  The frames handed up together, by the expected one or by the timer, are
increasing because their distances are (`HandUp`).

**Scheduler.**  `CoreInv` holds the bookkeeping: each counter is the sum over the channels
it stands for, so a step that changes one channel's packets changes each sum by as much
(`QueuedChange`); the credits are what the controller holds and what the DLI dropped
(`Counted`); the lists have no duplicates, so a link or channel is moved, not copied,
by the round robin; and a run in progress points at a packet that is there.  The sums are
shown by induction over the finite set they range over.  `ServedInv`: while a run goes on,
everything it has passed waits for a link that may not send; when it ends, packets wait
only for buffers that will come back.  `OrderInv`: of each channel what was sent, the
rest of the packet that was split and the packets that wait are numbered in this order,
although the rest waits in a queue of another priority; that nothing of the channel
overtakes it needs the run to look at the saved fragments first.  `WholeInv`: the saved
fragments of a link are exactly the rest of what its peer is putting together, and a
packet is only split when there are none.

**Connections.**  No handler waits for an answer, so the invariant speaks of what the
commands on their way will do: the last list command is the wanted one (`Ends`), a
cancellation has a new Create_Connection behind it (`Resumed`), the controller seeks, will
seek, or has told of a connection not yet seen (`Seeks`), and the last event about a device
tells the truth (`ToldTruly`).

**Channels.**  An end forgets a request when an answer has its identifier and drops the
channel the answer names.  A wait stays timed only if both are the same request, although
identifiers wrap and tcids are reused: every request or answer in flight matches the
entry cached under its identifier, and each entry has at most one of them (`Flight`).

**Commands.**  A command is in one place at a time (`Placed`); the list is sent in its
order (`ListInOrder`); a callback is registered from a command's "Reg" to its "UnReg" task
and the registrations of an opcode are counted by the commands that need them
(`RegsOK`).  While the controller reports room for one, the credit is in one of three
states: with the layer, out with one command, or on its way back (`Idle`, `Out`, `Back`),
and so an answer meets its own command, lost events or not.  With several commands out
and no event lost it does so because commands, answers and list are all in one order
(`InTurn`, `QueueInv`): the first command of an opcode in the list is the one its next event
is about.  That the controller is not overrun is in `RoomInv`: the credit, and the number of
every report on its way, fit the room the commands held leave, for a report that no
command crossed counts every command the controller has.  All of it needs that no time-out overtook
an answer; together it is `AnswerInv`.

### Only model-checked

- Liveness (`ImplementsChannel`, `BusyEnds`, `WriteReturns`, `EveryCommandEnds`,
  `EveryRequestEnds`, `BgRequestEnds`), which this prover does not do.
- `DtapRxWindow`, `DtapReliable` and its refinements.  The loop that hands frames up
  (`DTAP_RecvEnhanceFrameInner`) is a fold over an operator, which the prover cannot
  unfold; `AckedWasReceived` and `InOrder` also need a history of what was sent under each
  number, over both ends and the link.
- `NoHalfOpen`, which holds only at rest and in some environments: where both ends may
  release, or an end sends a release in place of an answer DTAP refused, and a tcid is
  used again, an answer to an old release that comes late drops the
  new channel on that tcid, in whatever state it is (`CM_DynTransChannelReleaseRspCbk`
  looks at the tcid only), and the peer keeps its half.  `Upset` names these behaviours.

## 6. Not modelled

See the components with status `not_modelled` or `partly` in `PROJECT.json`, each with
what is left out.  Of the layers modelled here these are basic and transparent mode (a
header and a cache), aggregate frames on reception (nothing in the repository sends
them), the collaboration of two radios, the close of CM's modules, and the set-up of
fixed channels.  SSAP and the service layer's state machines are candidates.  The bulk of
the repository, by lines, is marshalling, permission checks, bindings, command and
attribute encoding, audio policy and cryptography: it has little state a model checker
would reach better than a test.

Smaller hazards met on the way that no property covers, for a reader of the code:

- `nlstk_schedule.c:84`: `g_schedule` is tested without a lock while `ScheduleDisable`
  frees the worker.
- `nlstk_cfgdb.c:406`: a task posted with a time-out is given the address of a variable on
  the caller's stack.
- `dtap_trans_reliable.c:583`: with an upper layer that is full, the `ReqSeq` of a data
  frame acknowledges frames the receiver still holds.  `dtap.c:299`: un-blocking a
  dynamic channel looks for its call-back by tcid and finds none.
- `dtap_trans_stream.c:222`: if the post of the reorder task fails the handle stays set
  and no timer runs.  `dtap_trans_basic.c:133`: one frame more than the limit is cached.
- `dli_layer.c:224`: the second attempt to add a command to a full list cannot succeed.
  `dli_cmd.c:150`: the time-out of an opcode that is not in one table is heard by nobody.
- `cm_signaling_manage.c:67`: identifiers are shared by all links and wrap at 256.
- `cm_concurrent_conn.c:543`: a refused cancel makes a time-out return before the module
  is told.  `cm_event_core.c:87`: a set-up that fails returns before the other requests are
  sought again.  `sle_access_dli.c:206`: without memory for the node of a link the peer
  made, the handler returns with the controller's link up and unknown to the host.
  `sle_access_dli.c:262`: a Disconnect that failed removes the link.
