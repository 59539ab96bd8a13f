# Verification of tight and its gateway

TLA+ models of `src/`, model-checked with TLC on small instances, with proofs
checked by TLAPS.  `PROJECT.json` is the machine-readable index: the lines each
definition models, the runs, the hazards and the theorems.

## The system

**tight** (`src/tight`) is a reliable transport over UDP.  A `TightTransport`
has four threads: the *reactor* (handshakes, heartbeats, reports, timeouts, the
priority queues), the *receiver* (socket to handlers), the *encode* thread
(messages to packets) and the *sender* (packets to socket).  In lite mode the
reactor does the work of all four.

**gateway** (`src/gateway`) is a service on top of one transport: a reactor with
timers and I/O and CPU queues, a blackboard of device states, sessions, rate
limits, metrics and message listeners.  **client** (`src/client`) is a
command-line program.

| Part | Code | Module | Status |
|---|---|---|---|
| Reliable data plane: numbering, gaps, reports, retransmission | `report.cpp`, first half of `Reassembler::handle_data`, `send_data_packet`, `handle_ack` | `DataPlane` | partly: late-packet and probe statistics left out |
| Command channel | `command.cpp`, `send_command`, `handle_command`, `flush_commands` | `CommandChannel` | modelled |
| Link life cycle | the handlers of handshake, heartbeat and Bye, `check_offline`, `connect` | `Link` | partly: one record per end |
| Send path and lite mode | `send_message`, `process_send_queue`, `encode_loop`, `sender_loop`, `drain_*`, `set_lite_mode` | `SendPath` | partly: no `stop()`, a message is one packet |
| Fragmentation and reassembly | `fragmenter.cpp`, second half of `Reassembler::handle_data`, `try_assemble`, expiry in `check_offline` | `Reassembly` | partly: no wrap of the message id |
| FEC | `fec.cpp` | `Fec` | modelled, as operators |
| Gateway reactor, inbox, blocking queue | `gateway_reactor.hpp`, `gateway_channel.hpp`, `blocking_queue.hpp`, `GatewayServer::start` and `stop` | `GatewayReactor` | partly: no task statistics, no unlimited waits |
| Gateway sessions, blackboard, rate limiter, listeners | `gateway_server.hpp`, `gateway_session.hpp`, `gateway_blackboard.hpp`, `gateway_ratelimit.hpp`, `*_listener.hpp`, `gateway_auth.hpp` | `GatewaySessions` | partly: one metric, built-in listeners |
| Bandwidth, clock, speed test | `bandwidth.cpp`, `peer.hpp` | - | not modelled |
| Wire format, checksums, cryptography | `packet_codec.cpp`, `crc32.cpp`, `crypto.cpp` | - | not modelled |
| Platform layer, logging, configuration, HTTP endpoint, client | | - | not modelled |

## Modules

`SeqMaps` has the operators for `std::map` fields, partial functions on sequence
numbers.  Each component module has an `MC` module with the constants of its
runs and a `Proofs` module.  `SequenceFacts` has the lemmas about sequences that the
proofs share.

**DataPlane**: one direction of a link.  Sender: `sequence_out`, `pending`
(`m_pending`, each entry with its `m_retries`), `resending` (the copies
`Report::handle` makes before it re-sends without the lock), `encoding` and
`hollow` (the second critical section of `send_data_packet`, which may re-create
an entry).  Receiver: `next_expected_seq` (the ack cursor), `recv_seqs`,
`missing_seqs`.  A critical section under `m_mu` is one action.  Datagrams are
lost, delayed, reordered and duplicated.  A time point is kept as an age in
ticks; a tick is one report interval.  The link is Established or Online at the
receiving end throughout, so the guard of `send_reports` on the state
(`transport.cpp:1225`) is always true; `ClearPending` is the sending end's
`check_offline`.

**CommandChannel**: the numbered commands of one direction, the reorder buffer
`cmd_held`, the gap timer, and the two threads that collect commands under the
lock and fire callbacks after it.  `OrderedDelivery` is what the channel
promises: commands come out in increasing order, none twice, between two resets.
`CommandChannel` implements it with `collected` as the refinement mapping.

**Link**: two ends, each with one `Peer` record; the handshake packets, Acks,
heartbeats and Bye in flight in both directions.  The reactor's `check_offline`
and the receiver's handlers are cut where they write `m_state`, clear `m_pending` and
fire the event, since no lock is common to them.  `told` is the last event the
application was given; `connect` to an address that has already connected here
replaces that record and tells nobody, which `outdated` remembers until the next event.  Processes crash, stop and
restart (`epoch` stands for the key pair of a run, `key` for the one a session
key was derived from).  No application data flows, so a Report acts only as a
heartbeat.

**SendPath**: `send_message` to the socket.  A message is one packet.
`process_send_queue` is cut where it releases `m_send_mutex`, so the application
may add messages meanwhile.  A message for a peer without a record (`link = "none"`)
or with a Closed one is given up.  `set_lite_mode` is cut at each store, join and
spawn; the receiver thread, which has no queue here, is left out of both.  `turn` counts
the iterations of `drain_encode` and `drain_sender`, whose limits are constants.  The token bucket is a choice between sending and holding back.

**Fec**: GF(2^8) by its tables of powers, the Vandermonde encoder and the Gaussian
decoder of `fec.cpp`.  `PowersAssumption`, which TLC evaluates, ties the table of
powers to the recurrence in `GfTables`.

**Reassembly**: one direction of a link, with the real bytes of its fragments and
parities.  The network is the set `sent`: until `Lifetime` any fragment of a message
may arrive, any number of times, in any order, or never.  The receiver thread is
cut where it indexes `m_incoming` without the lock (`Index`), stores, assembles and
finishes; `Expire` is the part of `check_offline` that erases, on the reactor thread.
Use of an erased entry sets `undefined`.  The sending process may restart and number
its messages from one again.  The erasure code is a parameter (`Encode`, `Decode`); the
run gives it the operators of `Fec`.  What the receiving end relies on has a name:
`ErasureCode` (any q parities replace any q data fragments, fewer replace none), `AllFit`
(the limits let every message pass) and `QuietRestarts` (a restart comes after the
copies are gone and `check_offline` has forgotten them).  `MCReassembly` has TLC
evaluate all three for its instance, the first with the tables and the Gaussian
elimination of `fec.cpp`.

**GatewayReactor**: the reactor thread, the CPU and I/O workers, the caller of `start`
and `stop`, and the receiver thread that fills the inbox.  A task is a batch of
messages, a timer's function (or, after it was moved away, none), an evolver or an
application's.  `due` is a timer's deadline relative to now; a `stall` is a tick
that finds a timer already due.  Each access to a queue is one action.  `start`
returning early because the transport does not start (`gateway_server.hpp:112`) changes
none of the variables.

**GatewaySessions**: the board and its entries, used by the receiver thread `rx`
(messages and peer events) and the CPU thread `cpu` (listeners, then their deferred
operations; `heartbeat_check` and `session_cleanup`).  Mutexes are held across steps
only where the code takes a second one: `rx` at "marking" has the entry and wants the
board, `cpu` at "copying" has the board and wants the entries.  `rx` keeps the pointer
`DataBoard::device` gave it after the board's lock is released; `dangling` says that
the entry was erased meanwhile, and its use ends the behaviour in `Undefined`.  A
scenario fixes the messages, the peers that come online, the timer functions that
run and the time that passes.  `StartBatch` takes the inbox as one batch: what may
happen in between is `GatewayReactor`'s subject.

The modules share the field names of `Peer` and overlap in `m_pending` and
`m_state`: `DataPlane` has the reconnection of its sender, `SendPath` the changes
of the peer's state, as steps that may happen at any time.

## Runs

| Run | Shows |
|---|---|
| `DataPlaneSafety` | `CursorAccounted`: the cursor passes only what was received, given up, evicted or is tracked. `RepeatedUntilConfirmed`: a report lists every unconfirmed sequence below its cursor. `PruneJustified`: the sender forgets nothing without a reason. `ResendBound`: no packet is re-sent more than `kMaxRetries` times |
| `DataPlaneLive` | the cursor passes every gap; the retransmission buffer drains |
| `CommandSafety` | the channel implements `OrderedDelivery`; held commands lie ahead of the cursor and are fired in the end |
| `LinkSafety` | `UpOnlyKeyed`: a link is up only with equal tokens and, unless a process was replaced or both ends call `connect`, with a key. `ForgottenOnlyAcked`, for both ends: a reliable packet is forgotten in the step that handles its Ack, after the packet itself left the network, or when a dead link is cleared, the record replaced, or the process ends |
| `LinkLive` | both ends become Online; a dead end is noticed; in lite mode the last event agrees with the state |
| `SendSafety` | queues keep their limits; no message vanishes between queues before a switch of mode; none is sent twice while two consumers take from the same queues; higher priority first; order within a priority while the peer is Online; every message is sent or given up; `set_lite_mode` returns |
| `ReassemblySafety` | `DeliveredIntact`: what comes out is what went in, whichever fragments were recovered. `DeliveredOnce`, `EnoughDelivered`: a message is delivered once, as soon as as many fragments are handled as it has data fragments. `IncomingReclaimed`: an incomplete message is given up |
| `ReactorSafety` | `ProcessedInOrder`, `Accounted`: messages are processed once and in order, or refused by a full or closed queue. `FunctionKept`: no path loses a timer's function before its first run. `QuietAfterStop`: nothing runs after `stop`. If every task ends (`TasksEnd`): `StopReturns`, and `AcceptedProcessed`, `TimersRun`: no hand-over strands a message or a timer's first run |
| `SessionsSafety` | `ConnectedHasSession`; `GreetedOnce`: one greeting per connection; `RepliesInOrder`; `AnswersReachAsker`: an answer goes to the peer that asked, if it alone uses the device name and the device was not closed or removed; `HelloSpacing`, `HelloAnswered`: hellos keep the rate limit, and each one is answered |

`TypeOK` is among the invariants of the DataPlane, CommandChannel and SendPath runs, where
it carries bounds the code has to keep; in Link, Reassembly, GatewayReactor and
GatewaySessions it documents the state, and holds when it is added to their
configurations.

Violation runs: each shows a behaviour of the code that a comment or a document
of the repository excludes.  `PROJECT.json` quotes the line.

| Run | The code |
|---|---|
| `LinkStaleKey` | a server restarted during the handshake takes the answer meant for the earlier process; both ends go Online with keys that do not match |
| `ReactorTimers` | `process_timers` moves a timer's function into the task and puts the timer back without it: it runs once |
| `SessionsLock` | `create_session` takes entry and board in one order, `device_snapshot` in the other: the peer callback and the CPU thread wait for each other |

### Further observations

Found with the same modules under other constants; change a run's
configuration as the last column says to reproduce one.

| The code | Property | Configuration |
|---|---|---|
| a skipped gap leaves the reports when the RTT grows, and is then taken as confirmed, against `report.cpp:60` (`report.cpp:28`) | `RepeatedUntilConfirmed` | `DataPlaneSafety` with `Rtts <- SlowRtts` |
| the list of a report is cut at 256, its cursor is not (`report.cpp:94`) | `RepeatedUntilConfirmed` | `DataPlaneSafety` with `MaxSeq = 4`, `MaxReports = 1`, `LostCap = 1` |
| with 3.5 RTT beyond the give-up age a gap is erased without being skipped, and the cursor stays (`report.cpp:53`) | `CursorAdvances` | `DataPlaneLive` with `Rtts <- VerySlowRtts` |
| what is lost before the first arrival is confirmed by the first report (`reassembler.cpp:70`) | `DroppedOnlyExhausted` | `DataPlaneSafety` |
| a sequence that arrives ahead of the cursor stays in the missing table (`reassembler.cpp:78`) | `ArrivalStopsReports` | `DataPlaneSafety` |
| the reorder wait restarts at each skip (`command.cpp:79`) | `HeldAtMostWait` | `CommandSafety` with `MaxCmd = 5`, `MaxResets = 0` |
| two threads fire the commands they have collected in order after they release the lock, so callbacks overtake each other (`transport.cpp:867`) | `FiredInOrder` | `CommandSafety` with `MaxResets = 0` |
| the one Handshake sent after an outage stays in `m_pending` and is not repeated, so the link stays down, against `usage.md:232` (`transport.cpp:1276`) | `Reconnects` | `LinkLive` with `MaxLosses = 0`, `MaxOutages = 1`, `MaxExits = 0` |
| a client that connects before the server listens never repeats its Handshake (`transport.cpp:1197`) | `ConnectsBoth` | `LinkLive` with `RestartSpec`, `Listening <- None`, `MaxLosses = 0`, `MaxExits = 0` |
| a lost HandshakeAck is not repeated; heartbeats keep the link Established (`transport.cpp:693`) | `ConnectsBoth` | `LinkLive` with `MaxLosses = 2`, `Losable <- OnlyHandshakeAck`, `MaxExits = 0` |
| a restarted end goes Online on a late Online packet, without a key (`transport.cpp:722`) | `UpOnlyKeyed` without `exits = 0` | `LinkStaleKey` |
| `connect` replaces the record of a peer that has already connected here, with its key, and a late Online packet brings the new one up (`transport.cpp:391`, `:722`) | `UpOnlyKeyed` without `Connectors # Ends` | `LinkSafety` with `Connectors <- Pair`, `Listening <- Pair`, `Tokens <- SameToken`, `MaxSeq = 5`, `MaxOutages = 0` |
| leaving full mode discards the outbound queue, against `litemode/01_requirements.md:78` (`transport.cpp:1187`) | `NothingVanishes` without `switches = 0` | `SendSafety` |
| entering full mode may leave a packet in `m_lite_pending` (`transport.cpp:192`) | `Departs` without `switches > 0` | `SendSafety` |
| a message refused by a full encode queue goes back empty and is sent so, against `api_reference.md:48` (`transport.cpp:1335`) | `PayloadKept` | `SendSafety` |
| ... and with priority 0 | `HigherFirst` without `q[i].whole` | `SendSafety` |
| in full mode the receiver thread uses an entry of `m_incoming` that `check_offline` has erased (`reassembler.cpp:113`) | `Defined` | `ReassemblySafety` |
| a sender that restarts within `dead_timeout` reuses ids that are still in `m_completed` or half assembled (`reassembler.cpp:98`) | `EnoughDelivered` | `ReassemblySafety` with `RestartPause = 0`, and `MCReassembly` not assuming `QuietRestarts` |

In the gateway, read off the modules and the code they map:

* after `stop` and a second `start` the queues and the inbox are still closed, so every
  message is refused, and each timer is scheduled twice (`gateway_reactor.hpp:67`,
  `gateway_server.hpp:149`); `Accounted` counts the messages as dropped;
* `now` is read before the snapshot and subtracted without sign, so `heartbeat_check`
  closes a device that became active in between, or that is marked and has no
  session yet (`gateway_server.hpp:475`);
* `session_cleanup` erases a device that connected after the snapshot, and an entry the
  receiver thread has a pointer to (`gateway_server.hpp:495`, `:267`): `Undefined` is
  reached;
* a Closed event leaves `m_connected` set (`gateway_server.hpp:373`), so a device that
  comes back before `heartbeat_check` has run gets neither session nor greeting;
* `active_connections` counts hellos and byes, not connected devices: peer events do
  not count, and `heartbeat_check` counts down what was never counted;
* a hello without a device name that is refused is answered to the empty id
  (`hello_listener.hpp:52`), and one whose entry was cleaned up before it was
  processed to the name of the device: `AnswersReachAsker` leaves both out;
* the first peer that uses a device name stays its address (`gateway_server.hpp:270`),
  unless a peer of that id comes online while it is not connected (`:347`): with `Uses`
  cut to the senders of messages, `AnswersReachAsker` fails in the last of the scenarios;
* `test_e2e.cpp:220` expects a second `hello_ack` for one device name within seconds, which
  `HelloSpacing` excludes; the test is kept for reference and not run
  (`CMakeLists.txt:79`), and `usage_guide.md:237` and `test_ratelimit.cpp` have the ten
  seconds of the code;
* a ping does not count as activity, against `usage_guide.md:118`;
* a message whose length exceeds `max_message_bytes` is delivered empty
  (`reassembler.cpp:174`), where the comment above says that it is dropped.

In full mode `EventsReflectState` without its first condition fails (`check_offline`
and the receiver's handlers write `m_state` and fire events without a common
lock), and so does `SentOnce` without `NeverRaised` (`set_lite_mode(false)` and the
reactor may both send the packet in `m_lite_pending`).  With `Lite = TRUE`,
`FiredInOrder` holds; with `Retransmit = FALSE`, `CursorAdvances` holds.

### Bounds

* DataPlane: three or four sequences are enough for a received packet, a gap and
  one behind it, with one given to a control packet.  `kMaxRetries = 1` still
  has a first and a refused retry; the give-up age is then three ticks.  Two
  reports in flight overtake each other.  `LostCap` and `MissingCap` do not bind
  in the runs.
* CommandChannel: four commands make a gap with commands held behind it, filled
  late, skipped, or met by a duplicate; a reset leaves commands of the earlier
  numbering in flight.  The theorems cover any number.
* Link: `DeadTicks = 2` tells a late heartbeat from a dead link.  `LinkSafety` has one
  outage, packets that overtake one another, and a server that may start after
  the client's first Handshake; `LinkLive` has one loss and one process that ends.
  `Prompt` lets time pass only when nothing is waiting to be handled: a packet
  takes less than a heartbeat period.  `MaxSeq` caps endless handshake attempts.
  Only one end connects in the runs, so `connect` finds no record to replace; with
  `LinkLive`'s constants but `Connectors <- Pair` it does, and `EventsReflectState` holds.
  The theorems cover any number of connecting ends.
* SendPath: two priorities, three messages, queues of one or two places; every one of
  them is full in some states.  `MaxEvents` bounds the changes of the link and the
  calls of `set_lite_mode` together by two, so a switch there and back is included.
  `LiteTasks` and `LitePackets` are one, so a drain ends at its limit as often as at an
  empty queue.
* Reassembly: one message per sending process, of one, two or three fragments of five
  bytes, with every parity count the code can choose, and a restart.  Entries of
  different ids share no state, so a second id adds only interleavings; the theorems
  cover any number of ids, messages and restarts.  `Lifetime`
  is below `DeadTicks`: a copy that arrives after `m_completed` forgot the message
  would be delivered again.
* GatewayReactor: queues of one place, so that each hand-over meets a full queue; one
  timer with a threshold of zero ticks; in turn two messages, a submitted task, two
  stalls, or a second `start`.
* GatewaySessions: seven scenarios, each with the messages, events and timer functions
  of one story (see `MCSessions`); two peers, a name of their own and one that
  equals a peer's id, so that both threads work on one entry.  The theorems cover
  any scenario.

`ReactorSafety`, `ReactorTimers`, `SessionsSafety` and `SessionsLock` switch the deadlock
check off: a stopped server stops, and a scenario ends.  In the other runs clocks
and reactors always have a step.

### Fairness

Every thread is a loop that never leaves while the transport runs, so weak
fairness of its steps is what the scheduler gives.  The clock ticks.  Beyond
that: DataPlane assumes that not every report is lost (strong fairness of a
report that is kept), which any network that carries data gives; Link assumes
that an outage ends (`RestartSpec` also that a stopped process is started);
SendPath assumes that the token bucket, refilled by the clock, lets a waiting
packet go (strong fairness of `LiteSend`).  Which packets are lost is bounded by
`MaxLosses` and outages in Link, where a packet that is not lost is handled in the end; DataPlane assumes the arrival of no data packet.
Reassembly assumes that the receiver thread finishes each packet and that the
reactor and the clock go on; no fragment needs to arrive.  The clocks of Reassembly and
GatewayReactor are strongly fair because only the model makes them wait: for a
thread's step to end.  In GatewayReactor nothing makes a task end: a worker has fairness
for its loop, none for what it runs.  The properties that need it say so with
`TasksEnd` (each worker is again and again outside a task), and the condition is not
idle: `SessionsLock` shows a `heartbeat_check` that never ends, and then `join` in
`stop` (`gateway_reactor.hpp:71`) does not return.  GatewaySessions has weak fairness of
both threads; a thread that waits for a mutex has no step, which is what `SessionsLock` shows.

## Proofs

For every value of the constants that satisfies the named assumptions
(`BoundsAssumption`, `FlagsAssumption`, `CommandAssumption`, `LiteAssumption`,
`LinkAssumption`, `LinkFlags`, `SendPathAssumption`, `StartAssumption`,
`ReassemblyAssumption`, `ReactorAssumption`, `SessionsAssumption`: bounds are natural
numbers, intervals are positive, a link has two ends, a fragment carries more than
four bytes (`fragmenter.cpp:33`), a message has less than 2^16, and no copy of it arrives
after `dead_timeout`; `CooldownAssumption`: the bucket for hellos holds one hello, as its
constructor says).  Each inductive invariant was model-checked on the instance of the
component's safety run before it was proved.

**DataPlane**

* `TypeCorrect` with `TypeInv`: `TypeOK` is inductive once the cursor is known to
  be past the first sequence seen.
* `CursorSafe` with `GapInv`: everything buffered was received, and every sequence
  below the cursor is received, given up or tracked.
* `ResendsBounded` with `ResendInv`: copies are re-sent outside the lock and
  counted after, so the bound needs that the count in `m_retries` is exact
  (`CountExact`), that a copy is taken only below the limit (`CopiesBelow`), and
  what a hollow entry may do (`HollowCopies`).
* `ReportsTruthful` and `PruneSafe` with `ReportInv`, under `SteadyReports`: every
  RTT's loss threshold fits in a report interval, and a report has room for
  every gap.  `SkippedOld` is the heart: a gap the cursor has passed is old
  enough to be listed in the next report.  The first two
  of the further observations show that neither half of the condition can be dropped.

**CommandChannel**: `CommandTypes`, `HeldCommandsAhead`, `CommandOrder` with `Inv`: every
step of the command channel is a step of `OrderedDelivery` or changes nothing it sees.

**Link** (`LinkInvariant`: `IInv` holds)

* `KeyedTheorem`: handle_handshake_ack and handle_online check neither token nor key,
  so the invariant speaks of the packets in flight.  `TokenInv`: these two are only ever
  on their way between ends whose tokens agree.  `KeyInv`: a HandshakeAck comes from an
  end that has its key, and an Online goes to one; a key is lost only with the
  process or with the record that `connect` replaces, which is why the property has its
  two conditions.
* `EventsTheorem` with `EventInv`: in lite mode one thread does the work, so an event
  that is still to be fired agrees with the state it was decided in.
* `AckedTheorem`, an action property, with `NumberInv`: while no process has ended and
  only one end connects, the reliable packets an end has on their way have different
  numbers, all below its counter, and an Ack that comes back names none of them.  The
  step that sends an Ack takes the packet from the network, so the packet must have no
  double there; that no later packet gets its number again needs the counter.  A record
  that `connect` replaces starts to number from one, which is why the property has
  the same two conditions.

**SendPath** (`PathInvariant`: `IInv` holds)

* The queues, the threads' hands, `m_lite_pending` and the socket are *places*, each with a
  sequence of messages and a rank, its distance from the socket (`Line`).  Every step
  before `set_lite_mode(false)` takes the first message of a place to the end of one
  nearer to the socket, exchanges what two places hold, gives a message up, puts one
  back, or adds a new one at the start (`LineStep`).  Four lemmas about such moves show
  that no message is in two places, that none disappears and that the order of a
  priority is kept, whatever the places are; the rest is to show, action by
  action, which move it is.
* `OnceTheorem`, `VanishTheorem`, `InOrderTheorem` read this off `LineInv`, each under the
  condition of its property: no `set_lite_mode(false)`, no switch at all, and no switch
  and no change of the link.  `ThreadInv` says
  when a hand is empty and that the reactor at "holding" has the packet of
  `m_lite_pending` in its hand, which counts once.
* `HigherTheorem`: an action property, from `PriorityInv`: what is in the queue of a
  priority has it, or was put back empty.
* `TypeTheorem` with `RoomInv` and `TurnInv`: the reactor puts messages back while the
  application adds new ones, and both look at the limit under the same lock.  The
  number of messages in all queues is the cardinality of a set of positions, so one
  more message is one more position.  In full mode the limit is `QueueLimit`, which
  `LiteQueueLimit` does not exceed.

**Reassembly** (`Invariance`: `IInv` holds; all of it under `~undefined`)

`OnceTheorem` supposes `ErasureCode` and `QuietRestarts`; `EnoughTheorem` and
`IntactTheorem` also suppose `AllFit`.  `LiteTheorem` supposes nothing: in lite mode
`undefined` is never set.

* Data.  `PartCount`: of d data fragments and any parities, those at hand are d or more
  exactly when the parities make up for the missing ones.  So by `ErasureCode` an entry
  becomes complete if and only if d fragments of its message are in it (`RecoveredFacts`).
  A fragment that was received has its real size, a recovered one the full width, so
  the stream of a message may have zeros behind its end, and only there
  (`StreamFacts`); the length in front then cuts out the message (`BuildFacts`).
* What the receiving end has.  `EntryInv`: an entry holds fragments of the current
  process's message as they were sent.  `Tracked`: they are exactly those that arrived,
  until they are enough; then the message is completed, or the receiver thread is
  about to complete it.  `Counted`: the messages delivered under an id, with the one
  that `Pending` says is due, are the messages sent under it of which enough arrived.
* Time.  `Recent`: the age of an entry, or of a completed message, is at most the age of
  the message while copies may still arrive, and is at least the silence of the
  sender less `Lifetime`.  From the first, `check_offline` forgets nothing that still
  matters (`ExpireStep`); from the second, both maps are empty when a new process
  sends under old ids (`RestartStep`).
* Induction is needed once, for the recursive function in `Stream`; it is taken from
  the library as a fact about sets of numbers (`InductionHolds`), without an operator
  parameter.

**GatewayReactor** (`ReactorInvariant`: `IInv` holds)

* `OrderTheorem` with `OrderInv`: the numbers rise along processed, the task in the CPU
  thread's hands, the CPU queue, the batch of the reactor and the inbox.
  `HandOver` says that the batch is held only between `swap_out` and the push.
* `AccountedTheorem` with `CountInv`; `FunctionTheorem` with `KeptInv`, which is stronger for
  the code as it is: the function is in exactly one place, and nowhere before the
  timer is scheduled.
* `QuietTheorem`, an action property, with `NoThreads`: at the end of `stop` both
  workers are joined and the reactor thread is off.

**GatewaySessions**

* `SessionTheorem` with `IInv`: a connected device has a session.  The receiver thread
  writes through a pointer it got earlier, so the invariant says that the entry is
  still there unless the pointer dangles (`Found`), and that an entry is connected
  without a session only between the two critical sections of the peer event
  (`OnlyBetween`).  The interleavings are those of `heartbeat_check`, `session_cleanup`,
  every listener and the peer event.
* `GreetedTheorem` with `GreetInv`: for each device, greetings given and the one the
  peer event still owes are at most the connections ended and the present one.  One
  step per action; the ones that change either side are the marking, the greeting,
  bye, and the two sweeps.
* `SpacingTheorem` with `SpacingInv`: a bucket never holds more than what has run in since
  the last hello of its name was admitted.  A refused check turns elapsed time into
  tokens and keeps the sum.  Without `CooldownAssumption` a bucket admits several
  hellos in a row, as it should.
* `RepliesTheorem` with `OrderInv`: the numbers rise from the operations that are done over
  those that wait to the batch and the inbox, and the next message has a higher one.
* `AskerTheorem` with `PeerInv` and `AskerInv`: an entry names a peer that uses the name, and
  while a message is on its way and its device was not closed or removed, the entry
  names a peer at all; so `send_to_device`, which looks it up last, finds the one that asked.

Only model-checked: every liveness property (the prover has no fairness); that the code
of `fec.cpp` satisfies `ErasureCode`, which needs the algebra of GF(2^8) and induction
over the folds of the decoder (TLC evaluates it for the messages of the run); and
what the runs show under the constants of
the further observations.

## Not modelled

* Bandwidth estimation, clock synchronisation, speed test: floating-point estimates
  over measured times.  The other modules take what they produce (RTT, late ratio,
  whether the token bucket lets a packet go) as arbitrary inputs.
* Wire format, checksums, cryptography: byte layout and bit-level algorithms, which
  the repository's test vectors cover.  Packets are records; Link models which key
  pair a session key comes from.
* Several `Peer` records for one id, the peer table, and the lifetime of a `Peer` that
  `connect` erases: Link has one record per end.
* Data races whose outcome is a torn `std::map` (`send_control` without `m_mu`,
  `transport.cpp:917`): the outcome is not a state of the program.
* Widths: 2^32 sequences, 2^31 message ids, 256 data fragments of one message are out
  of TLC's reach.
* The metrics other than `active_connections`, task statistics, evolvers, the downstream
  entries of the board and `activate_session`, `update_status`, `validate_jwt`, which
  nothing in the repository calls.
* `stop()` of the transport: Link has it as a step of the process; its effect on the queues of SendPath is left out.
* Platform layer, logging, configuration, the HTTP endpoint and the client: input and
  output.

## Plan

1. **Compositions**: Link with CommandChannel (the two resets of a handshake), Link
   with DataPlane (a peer that restarts behind the same address).
2. **Send path**: `stop()` and a second `start()`; the locks of the peer table and the
   callback fired under `m_peers_mutex`.
3. **Proofs**: `ErasureCode` for the operators of `Fec`: the field, and the Vandermonde
   determinants behind the Gaussian elimination.

A hazard of `PROJECT.json` that no property covers has a note that says why.
