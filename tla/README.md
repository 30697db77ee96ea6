# rtsp-forward: TLA+ models, checks and proofs

rtsp-forward is a C++ library that serves one live stream to RTSP clients. A host
program feeds RTP packets from one thread (`rtsp_forward_send_rtp`) while another
runs the epoll loop (`rtsp_forward_run`). This directory models the parts of it
where order, concurrency and boundaries decide whether it is right, checks them with
TLC on small instances and proves the safety of each of them with TLAPS, for every
size, bound and number of clients.

`PROJECT.json` lists, for every definition, the source lines it stands for, and
every run, mutant, finding, hazard and theorem.

## Inventory

| Part | State | Operations | Talks to |
|---|---|---|---|
| `RingBuffer` (buffer/) | array, `read_pos_`, `write_pos_`, `readable_size_` | `Write`, `Produce`, `Consume`; `Peek`, `FindChar`, `FindSubstring`, `GetReadableIoVec` | owned, twice, by `Connection` |
| `Connection` (net/) | fd, `read_buffer_`, `write_buffer_`, `send_mutex_`, `consecutive_drops_` | `Recv`, `Send`, `SendV`, `Flush`, `NeedFlush`, `RecordDrop`, `RecordSuccess` | the kernel; called by both threads |
| `EpollLoop` (net/) | epoll fd, `callbacks_`, `running_` | `AddFd`, `ModifyFd`, `RemoveFd`, `Wait`, `Run`, `Stop` | calls back into `RtspServer`; `ModifyFd` also from the stream thread |
| `Socket`, `Listener`, `FdGuard` (net/) | owned fds | create, bind, listen, accept, close | kernel |
| `RtspSession` (core/) | `state_`, `is_udp_`, UDP fds, `last_activity_sec_`, its `Connection` | one handler per method, `ForwardRtp`, `IsTimedOut`, `Close` | `RtspParser`, `RtspBuilder`, `RtpForwarder` |
| `RtspServer` (core/) | `sessions_` under `sessions_mutex_`, timer, SDP, counters | `Start`, `Stop`, `Run`, `BroadcastRtp`, `OnNewConnection`, `OnRead`, `OnWrite`, `OnError`, `CloseConnection`, `CheckTimeouts`, `GetInfo` | everything above |
| `RtpForwarder` (rtp/) | none | `ForwardTcp`, `ForwardUdp` | `Connection::SendV`, `sendto` |
| `RtspParser`, `RtspBuilder` (protocol/) | none | text in and out | `RtspSession` |
| C API (api/), demo | handle | create, start, run, stop, destroy, send, set SDP, info | `RtspServer` |

What is hard here, and the property that makes each part right:

* **Ring buffer**: wrap-around, full and empty with equal positions, data in two
  pieces. It must be a byte queue, and its searches and io vectors must see the
  queue's contents.
* **Connection**: two threads write messages to one socket, with short writes,
  a full buffer, and a lock held across system calls. Messages must not mix, what
  was reported as sent must be there, and nobody may wait for ever.
* **Requests**: a byte stream that TCP cuts anywhere carries requests, interleaved
  frames and whatever else a client sends, through a ring that wraps. What is taken
  for a request must depend on the bytes alone, and a client within the limits must
  be served.
* **Server and epoll loop**: sessions are shared between threads by `shared_ptr`, fd
  numbers are reused, events come in batches, slow clients are marked by one thread
  and closed by the other. The map, the epoll set and the open sockets must agree,
  no socket may leak or be used by the wrong session, marked sessions must go.
* **Timeouts and statistics**: timeouts depend on the session state, time is cut to
  seconds, a timeout may be off. An idle session must go, an active one must not, and a
  slow client is to be counted once.
* **Transport**: SETUP picks one of the alternatives of a header by looking for words
  in it. It must pick one that was offered, and RTP must go that way.
* **Life cycle**: `Stop` races with `Run`, with handlers, with the stream thread and with
  other calls of itself, and the demo calls it from a signal handler. It must return, end
  the loop, and leave no timer and no session behind.

`PROJECT.json` lists 37 hazards with the line where each bites.

## Modules

| Module | Models |
|---|---|
| `ByteFifo` | what a ring buffer promises: a bounded byte queue, writes all or nothing |
| `RingBuffer` | `RingBuffer`, and `Connection::Recv`'s in-place fill (`WritePtr`, recv, `Produce`) |
| `MessageStream` | what `Send` and `SendV` promise: one stream of messages, each call appending all, some or none of its own as its result says |
| `Connection` | one TCP client: `Send`, `SendV`, `Flush` and the parts of `BroadcastRtp`, `ProcessConnectionData`, `OnWrite`, `CheckTimeouts` that use them |
| `RtspSession` | the request handlers as operators on a session record |
| `RtspServer` (+ `MCRtspServer` for symmetry) | the running server: both threads, `sessions_`, the epoll set, fd numbers |
| `RtspParser` | `Parse` and `ParseTransport` as operators |
| `RequestReader` (+ `MCRequestReader` for the messages) | one connection's input: `Recv`, the ring and the loop of `ProcessConnectionData`; extends `RingBuffer` and `RtspParser` |
| `SessionTimeline` (+ `MCSessionTimeline` for the headers) | one session in time: requests, SETUP, forwarding, `CheckTimeouts`, counters; extends `RtspSession` and `RtspParser` |
| `Lifecycle` | create, start, run, stop, destroy and send_rtp on the owner's thread, any number of threads that stop and the stream thread, and the demo's signal handler on two of them |
| `RingBufferProofs`, `ConnectionProofs`, `RtspServerProofs`, `RequestReaderProofs`, `SessionTimelineProofs`, `LifecycleProofs` | theorems about the module of that name |
| `NatLemmas` | least elements, quotients and remainders, for the proofs |

**RingBuffer.** The variables are the class members; `status` is what the last
operation returned. The array starts with arbitrary bytes, as `new char[n]` leaves
it. `Write` and `WriteRefused` are the success and the two early returns of `Write`;
`Fill` is recv into the array followed by `Produce`. The observers are operators.
`contents` is the refinement mapping to `ByteFifo`.

**Connection.** `pc` says where each thread is; a handler is cut into steps where the
code releases `send_mutex_` or calls `ModifyFd`, because another thread can come in
there. A message is a sequence of identified bytes, so the properties can follow
each one; a frame is a header and a payload, as the iovec of `ForwardTcp`.
`write_buffer_` is the byte queue that `RingBuffer` implements. `Stream`, what the
kernel took and what is still buffered, is the refinement mapping to `MessageStream`:
there a flush and a short write are invisible, and a blocked call is a message under
way that nobody else may write into. A result tells whether all, some or none of the
message went in; the count that a partial write returns is left out, because the code
does not report it exactly (`connection.cc:160` may return less than was buffered). What
`Responded` does to the teardown mark is left open: a request may set it or take it
away. The kernel takes `SendRoom` bytes ahead of the
client. `nonblocking` is a choice at accept: the code
gives blocking fds (`socket.cc:150`), and its EAGAIN branches are written for
non-blocking ones, so both are modelled; the violation runs fix the fd as built. A
blocked call can be cut short by a signal handler (a positive count, or EINTR where
the host program's handlers do not restart calls) or by the client's reset. writev on
a reset connection returns EPIPE: a host that does not ignore SIGPIPE would end.

**RtspServer.** `sessions_` maps fd numbers to clients, `session` holds the
RtspSession objects, `owner` says whose socket each fd number is: the kernel gives
out the lowest free number. `udp_fd` stands for the RTP and RTCP sockets, which are
opened and closed together. `Destroy` closes the sockets of a session once neither
the map nor the stream thread's snapshot refers to it, as `shared_ptr` does.
`Wait` returns a batch; `Dispatch` looks the fd up as `EpollLoop::Run` does and the
handlers run in the order read, write, error. A handler is split at the answer's
`Send`, so that forwarding can come between the reply and the change of state.
The bytes of a connection are abstracted to outcomes: sent, buffered, refused, too
large. `AddFd` of a new client and its insertion in the map are one step: both are on
the epoll thread, which is the only one to look at the new fd, and no event for it is
seen before the next wait. (`Lifecycle` has them apart, because Stop comes between.)
Time is abstracted: a session whose timeout is not 0 may be found idle by any timer
event; `SessionTimeline` has the clock.

**RequestReader.** The client's messages are sequences of character codes; `wire` holds
what is under way and `Recv` takes any part of it that fits, into the array itself. The
loop is that of `ProcessConnectionData`: an interleaved frame is skipped once it is
complete, a request is handed on when an empty line is found, the limit is tested when
none is. The session's part is the parser's verdict on the block it is given, and that
block is read from the array as the code reads it: `request_len` bytes from `ReadPtr`,
with anything at all past the end. `recv` may fail at any time (`RecvError`: a reset, or
EINTR, which the code does not try again), which closes the connection. A client is
within the limits if each of its messages is a `ProperRequest` (a known method, an empty
line only at its end, no longer than permitted) or a `ProperFrame` (as long as its
header says), and fits in the buffer. Both are stated of the bytes alone.

**SessionTimeline.** `now` counts ticks, a fraction of a second; the code only sees
seconds, in `last_activity_sec_` and in `IsTimedOut`. The timer expires every
`kTimeoutCheckIntervalSec`, out of step with the seconds, and is served within
`MaxDelay`. SETUP carries a Transport header, a list of alternatives with names and
numbers, through `ParseTransport`; a number goes through the cast of strtol's long to
int (`IntSize` values, 2^32 in the code and 2^18 in the runs, four times the number of
ports) and then to 16 bits. The history variables `active`, `marked`, `phase` and
`agreed` say what happened, apart from what the code remembers of it.

**Lifecycle.** `handle`, the two flags (`running_` of the server, `looping` for
`EpollLoop::running_`), listener, timer and sessions. `RtspServer::Stop` is one step
per statement, since it takes no lock but `sessions_mutex_` for a moment, and any number
of callers may be in it at once: the check of `running_`, its clearing, and the test,
the close and the reset of `timer_fd_` are steps of their own. `stray` records that a
number which is the timer's no longer was closed. `Start` is
one step, since the other threads look at nothing before it sets `running_` at its
end, with the outcomes of every early return. The owner is assumed to wait for the stops
in progress before it starts again or destroys the server; for destroy README_EN.md:212
says so. A client's handler looks its session up, works on it outside the mutex, where it
may fall asleep in a blocking call (`"asleep"`) and wake or not, and may then close it;
`CheckTimeouts` collects under the mutex and closes one by one after it, as the code
does. `sigint_handler` (demo/main.cc) calls get_info and stop
in place of the thread it interrupts (`stop` is indexed by that thread), which stands still
until it returns; `mutex` is `sessions_mutex_`, held over a step so that a handler can
interrupt its holder. Which sessions play, time out or leave is a free
choice: `RtspServer` has the detail.

## Runs

Passing runs (bounds are CONSTANTS of the modules):

| Run | Instance | Shows |
|---|---|---|
| `ring_buffer` | 4 slots, 2 byte values, arguments of 0 to 5 bytes | positions agree; io vectors, `Peek` and both searches match the contents; the ring implements `ByteFifo`, operation by operation and with the same arguments |
| `connection` | buffer 2, kernel 3, header 2, payload 2, response 1; 3 packets, 2 requests, 1 signal; blocking and not | messages stay contiguous and in order; a message reported whole is there whole; the mutex is held in blocked calls; all of it together implements `MessageStream`; handlers return if the fd is non-blocking or the client reads |
| `server` | 2 clients at a time, 3 fd numbers, SETUP over UDP, PLAY, TEARDOWN, 2 requests, drop limit 1 | map, epoll set and kernel agree; the stream thread's sessions keep their fd; no socket leaks; RTP only after the PLAY answer and at most one packet after the end; a marked session is closed; an arrived request is received, although the other client, the timer and the listener compete for the loop |
| `request_reader` | 10 slots, limit 8 bytes, 3 messages: requests at and over the limit, with a body, unknown, stray line ends, frames with and without payload; every division into Recvs | requests depend on the bytes alone; the parser gets them whole unless they straddle a multiple of the buffer size; a client within the limits is served; input is taken or the connection closed |
| `session_timeline` | half seconds, check every second, timeouts 0 or 1 and 2 seconds, drop limit 2, 2 PLAYs, 8 ticks; four headers and none: TCP, UDP before TCP, no port before a good one, a number that is 0 as an int before a good one | closed neither late nor early; a session that keeps its mark goes at the next check; counted as dropped once for each PLAY; SETUP takes mode and ports of one alternative, or refuses only if none can be used, and RTP goes that way |
| `lifecycle` | 1 session, 1 start, 1 thread that stops, 1 signal | the timer is never left open; a Stop ends a loop that has passed its first statement, if handlers asleep in a blocking call wake, and returns in any case, both unless its handler has interrupted the holder of `sessions_mutex_` |

Two things the properties of these runs say in so many words, because a reader of the
code may not expect them: a request that straddles a multiple of the buffer size in the
connection's stream reaches the parser cut off, followed by bytes past the array
(`IntactUnlessStraddling`); a packet sent counts as activity,
so that a UDP client that is gone stays while the stream runs (`IdleIsClosed`). Where the
repository itself says otherwise, a passing property states what does hold and a
violation run, below, what was promised: `MarkedIsClosedInTime` and `MarkedIsReaped`,
`DroppedOncePerPlay`, `AgreedTransportIsUsed`, `NotClosedEarly` and `StopEndsRun` are of
this kind.

Why the bounds are enough: in four slots every wrap and every split of a short
message occurs from every position; the needles are those of one to five bytes. In
`connection` a frame has two bytes more than the buffer holds and one more than the
kernel takes at a time, so that a short write, a blocked call or a flush may end inside
the header, behind it or inside the payload, and the rest fits, fits in part (the
branch at `connection.cc:148-161`) or is refused. In
`server` a client on UDP and another client use all fd numbers, so that every close
is followed by a reuse; the limit of sessions is never in the way there, and that it
holds is a theorem. In `request_reader` the end of the array comes after two
short requests, or inside one, its terminator or a frame once something longer went
before. In `session_timeline` half seconds are what whole seconds cut off, and 8 ticks
are one more than the longer timeout, a check and its delay; both timeouts off is left
out, since no check then closes anything. In `lifecycle` the thread and the signal
handler may be in Stop at once, at different statements of it, on a server that runs, has
failed to start or has not been run; restarts and more sessions are left to the theorems,
which hold for every number of both. The runs of `Connection`,
`RequestReader`, `SessionTimeline` and `Lifecycle` set `CHECK_DEADLOCK FALSE`: workload,
connection and time end in the first three, and the last ends with destroy.

Runs that TLC must refute (what a comment or document says, against what the code
does; details under "findings" in `PROJECT.json`):

| Run | Property | What TLC finds |
|---|---|---|
| `event_loop_blocks` | `EventLoopReturns` | blocking fds: a client that stops reading holds up the epoll thread for ever |
| `lost_epollout` | `BufferedIsArmed` | `OnWrite` removes the EPOLLOUT the stream thread has just asked for |
| `stale_event` | `EventsReachTheirSession` | an event goes to the client that reuses the fd number |
| `udp_fd_race` | `UdpGoesToOwnSocket` | a datagram leaves through another client's socket |
| `stop_promises` | `StopKeepsSomePromise` | one execution in which run never returns after a stop, a session outlives it and the timer's number is closed twice |
| `session_promises` | `SessionKeepsSomePromise` | one session that is un-marked by its own request, counted as dropped twice, sent RTP over UDP after agreeing on TCP, and under the connection timeout though established |

The last two are disjunctions of several lines of the repository, each a definition of
its own: `RunReturnsAfterStop`, `StopClosesAll`, `TimerClosedOnce`; `SlowIsCleaned`,
`DroppedIsCountedOnce`, `TcpSetupUsesTcp`, `EstablishedHasSessionTimeout`. If the
repository is right about any one of them the disjunction holds, so the one
counterexample refutes them all at once. One more disagreement is not
among them, because it has a configuration of its own: with both timeouts 0 `CheckTimeouts` returns before it
looks for marked sessions (`rtsp_server.cc:474`), and the comment at `rtsp_server.cc:214`
fails in that configuration whatever the client does.

Each property of a passing run has a mutant: a plausible slip in one definition
(the operators marked "Mutant" in the modules) that makes it fail.

### Fairness

`Connection`: a thread inside a handler keeps going (WF of its steps), and a reset wakes
a blocked call; nothing is assumed of clients, signals or new work.
`HandlersReturnIfClientReads` states its own assumption on the client. `RtspServer`: WF
for the steps of the epoll thread's loop, which the operating system schedules, but not
for the ends of a Send or a Flush, nothing of the stream thread, and SF for the timer:
it is periodic (`timerfd_settime` with an interval of one second), so of the infinitely
many waits infinitely many see it expired. epoll is level-triggered: a wait reports
every client that can be read. The thread is not assumed to get out of a blocking call:
both liveness properties have as a premise that the epoll thread is again and again not
`Stuck` (in recv on a client with nothing to say, which the stale event of `stale_event`
can cause, or in send for an answer or a flush, as `event_loop_blocks` shows).
`Lifecycle`: `rtsp_forward_run` and `rtsp_forward_stop` go on once called, since
`epoll_wait` has a timeout (`kEpollWaitTimeoutMs`), and the stream thread leaves the
section of `sessions_mutex_` it is in; Stop has SF, since it waits for that mutex while
the loop takes and releases it: a mutex that is free again and again is assumed to be
got. A handler asleep in a blocking call is not assumed to wake (`Wake` has no
fairness): `StopEndsRun` has it as a premise, `StopReturns` does without. No call is
assumed to be made, and signals are finitely many. `RequestReader`: the epoll thread
goes on while there is something to read or to do; an error of recv is never assumed.

## Proofs

`RingBufferProofs` proves, for every capacity and every non-empty set of bytes:

* `RingTypeCorrect`: `Spec => []TypeOK`
* `RingPositionsAgree`: `Spec => []PositionsAgree`
* `RingOperationsMatchFifo`: `Spec => OperationsMatchFifo`
* `RingImplementsFifo`: `Spec => ImplementsFifo`
* `RingPeekReadsOldest`: `Spec => []PeekReadsOldest`
* `RingIoVecIsContents`: `Spec => []IoVecIsContents`
* `RingSearchesFindFirst`: `Spec => []SearchesFindFirst`
* `RingFindsEveryNeedle`: `Spec => []EveryNeedleIsFound`, the same for a needle of any
  length, such as the program's own of four bytes, and any search limit; TLC cannot
  enumerate these

Assumptions: `RequestedCapacity \in Nat` and `Byte # {}`. The inductive invariant is
`IInv == TypeOK /\ PositionsAgree`: neither part alone is enough for the refinement,
since that a `Write` does not overwrite readable bytes needs the write position to be
where the readable bytes end. The argument: the modulus is replaced by a case split
(`ModSmall`, `ModWrapped`, `ModSum`), readable and writable slots are shown to be
distinct (`SlotValues`), the two-part copy stores byte k of the data in the k-th
writable slot and touches no readable one (`CopyStores`), so `contents` is extended
(`Appended`); `Consume` drops from the front (`Dropped`). The two segments `Peek` copies
are a prefix of the contents, byte by byte (`PeekBytes`), and the io vectors are what
`Peek` copies when it is asked for everything (`IoVecHolds`). Both searches, and their
reference, are the least element of one set of hits (`FindCharIsHits`,
`FindSubstringIsHits`, `ReferenceIsHits`).

`LifecycleProofs` proves, for every set of sessions, every set of threads that call stop
and every number of starts and signals:

* `LifecycleTypeCorrect`: `Spec => []TypeOK`
* `LifecycleTimerNotLeaked`: `Spec => []TimerNotLeaked`
* `LifecycleStopLeavesAtMostOne`: `Spec => []StopLeavesAtMostOne`

from `LifecycleInvariant`, `Spec => []IInv` with
`IInv == TypeOK /\ TimerInv /\ LeftInv`. `TimerInv` says that an open timer belongs to
a live server and that someone is bound to close it: `running_` is set, or a Stop is on
its way to it, and that `timer_fd_` outlives the timer only while a Stop is between close
and reset; `TimerNotLeaked` alone says nothing before destroy. `LeftInv` says that
once a Stop has cleared the map and the loop's flag is down, either the map is empty, or
the one client that was on its way is in it and no event or wait that could bring another
is left; the count alone does not exclude a second one. `StopLeavesAtMostOne` bounds what
`stop_promises` shows; it needs two sessions to mean anything, more than the `lifecycle`
run has, and was checked with TLC on two sessions and two starts without the liveness
properties before it was proved. Assumptions: the bounds are
natural numbers.

`RtspServerProofs` proves, for every set of clients, every number of fds, sessions and
requests, every drop limit and both timeouts:

* `ServerTypeCorrect`: `Spec => []TypeOK`
* `ServerSessionsOwnTheirFds`: `Spec => []SessionsOwnTheirFds`
* `ServerHeldSessionsKeepTheirFd`: `Spec => []HeldSessionsKeepTheirFd`
* `ServerNoFdLeak`: `Spec => []NoFdLeak`
* `ServerRtpWhilePlaying`: `Spec => []RtpWhilePlaying`

from `ServerInvariant`. The four properties depend on each other: `FdInv` says that
owner and map agree in both directions (a session has one TCP socket, its `udp_fd` is
its own, and only a live session, in the map or in the snapshot, owns anything), since
accept and SETUP take any number the kernel has free and a close must not free a
number someone else still relies on. `LiveInv` says that a client about to connect is
nowhere yet and that a session nobody refers to is gone. `ThreadInv` says that what
each thread is working on is still there. `PlayInv` and `AnswerInv` say who may still
get a packet: a session that plays has had its answer and no late packet, and neither
has one the stream thread has yet to come to. Assumptions: limits are positive,
timeouts and bounds natural numbers.

`ConnectionProofs` proves, for every size of buffer, kernel room, header, payload and
response, every number of packets, requests and signals, blocking and not:

* `ConnectionTypeCorrect`: `Spec => []TypeOK`
* `ConnectionBlockedHoldsMutex`: `Spec => []BlockedHoldsMutex`
* `ConnectionFramesContiguous`: `Spec => []FramesContiguous`
* `ConnectionReportedWhole`: `Spec => []ReportedWhole`
* `ConnectionImplementsMessageStream`: `Spec => ImplementsMessageStream`

from `ConnectionInvariant`. What the properties say of the byte stream is not
inductive, because a blocked call is in the middle of a message: `CallInv` says that
what is left of the call is the message from `call.sent` on, with an empty buffer
behind it, and `StreamInv` that the stream ends with exactly the bytes before. The
mutex is what keeps the other thread from adding to the stream in between. `HistInv`
ties the results to the messages issued, so that a step adds to one message without a
result and `ReportInv` is kept for the others. Assumptions: sizes are positive.
The refinement comes out of the same case analysis: each lemma about a step also shows
`AbstractStep`. A call that returns is `Finish`, one that goes to sleep or sleeps on is
`Wait`, a request or a packet taken up is `Begin`, and Flush, the registrations and the
resets stutter, because what leaves the front of the buffer is what went to the socket
(`MoveFront`). That nobody writes into another's message (`writing \subseteq {t}` in
`Put`) is where `BlockedHoldsMutex` is needed.

`RequestReaderProofs` proves, for every buffer size, limit and set of messages, and
every division of the bytes into Recvs:

* `ReaderTypeCorrect`: `ReaderSpec => []ReaderTypeOK`
* `ReaderRequestsByBytesAlone`: `ReaderSpec => []RequestsByBytesAlone`
* `ReaderIntactUnlessStraddling`: `ReaderSpec => []IntactUnlessStraddling`
* `ReaderWellBehavedIsServed`: `ReaderSpec => []WellBehavedIsServed`

from `ReaderInvariant`, on top of the ring buffer's invariant and lemmas: the module
extends `RingBuffer`, so `Recv` and the loop are steps of the ring. `WireInv` and
`ContentsInv` place every byte of the stream: consumed, in slot k % capacity_ of the
ring, or on the wire. `LoopInv` says that outside the loop the ring starts with nothing
complete. `CutInv` relates what was handled to the reference; the reference reads the
bytes from the front, the program never sees them again, so the invariant speaks of
every byte sequence that starts with the consumed bytes, whatever will follow them.
The recursive functions (`Stream`, `CutsOf`) are shown to satisfy their equations
by the smallest number of arguments for which they would not. For the last theorem,
`ServedInv` says that what a client within the limits had consumed is always whole
messages, and that their requests are what was handled: the ring then starts with the
next message as far as it has been received (`MessageAhead`), so that the loop finds its
end exactly where it ends and the limit is not met before. Assumptions: characters
are bytes (`Byte \subseteq 0..255`), so that the length in a frame's header is a number;
the limit is at least 4 (`LimitAssumption`; it is 4096, constants.h:45). The buffer may be
of any size, as `rtsp_forward_create` allows, also below the limit. Nothing is assumed of
what the messages contain: being within the limits is a premise of the property, about
the messages that were sent.

`SessionTimelineProofs` proves, for every length of a second, check interval, timeout
and drop limit, every delay shorter than the interval, and every Transport header:

* `TimelineTypeCorrect`: `Spec => []TypeOK`
* `TimelineIdleIsClosed`: `Spec => []IdleIsClosed`
* `TimelineMarkedIsClosedInTime`: `Spec => []MarkedIsClosedInTime`
* `TimelineDroppedOncePerPlay`: `Spec => []DroppedOncePerPlay`
* `TimelineAgreedTransportIsUsed`: `Spec => []AgreedTransportIsUsed`
* `TimelineNotClosedEarly`: `Spec => NotClosedEarly`
* `TimelineSetupTakesAnOffer`: `Spec => SetupTakesAnOffer`

from `TimelineInvariant`. A deadline is not inductive, since nothing in it says when
the next check comes: `IdleInv` and `MarkInv` say what the last check, one interval
before `due`, cannot have missed, and `ClockInv` that the clock is never more than the
delay past `due`. The clock cut to seconds is handled by bounds on quotients
(`DivisionGapBelow`, `DivisionGapAbove`). `DropInv` counts the packet of a snapshot
that may still drop a session which has stopped playing. `PhaseInv` ties the timeout
the state selects to what the client was told. `SetupTakesAnOffer` rests on which
alternative the fields of `ParseTransport` come from, by cases on the first that has a
`client_port`. Assumptions: positive units and limits;
a header is a sequence of alternatives with at most two numbers in each field, any
integers (`TransportsAssumption`); SETUP is not among `Requests`, because it is an
action of its own.

Each inductive invariant was first checked with TLC on the constants of the module's
passing run (for `CutInv`, over a finite set of continuations).

Only model-checked: everything under fairness, which is outside the prover's reach
(`HandlersReturnIfNonBlocking`, `HandlersReturnIfClientReads`, `MarkedIsReaped`,
`RequestIsReceived`, `StopEndsRun`, `StopReturns`, `InputIsTaken`), and the runs that
TLC refutes. A theorem about a property with an exception
(`TimelineAgreedTransportIsUsed`, `TimelineMarkedIsClosedInTime`) has the exception too.
Every invariant, every action property and both refinements of the passing runs are
theorems.

## Not modelled

The text of answers (`RtspBuilder`) and what only goes into them (CSeq, URL, session
ids), logging, status strings, the size limit of RTP packets, argument checks of the C
API, memory exhaustion, and system call errors other than those named above.
`total_connections_` and the dropped-packet count are statistics nothing reads but
`GetInfo`. Three hazards have no property, because what follows is not a behaviour of
the program but of the language or the host: the unlocked `callbacks_` that Stop changes
(a data race), a signal after destroy (use of a freed object), SIGPIPE (its disposition
belongs to the host). A start or a destroy during a stop is excluded by an
assumption of `Lifecycle`; README_EN.md:212 asks the same of the caller of destroy.

## What could follow

The parts meet by argument rather than by a theorem in two places. `Connection` uses
`write_buffer_` as a byte queue and `RingBuffer` is proved to be one, but the two are not
composed in one module, as `RequestReader` does for the read buffer. `RtspServer`
abstracts a forward to its outcome, and `Connection` shows which outcomes there are.
