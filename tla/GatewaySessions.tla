---------------------------- MODULE GatewaySessions ----------------------------
(***************************************************************************)
(* What the gateway does with its devices: the data board and the sessions *)
(* on it, the listeners, the rate limiter, and the two timer functions     *)
(* that close and remove devices.                                          *)
(*                                                                         *)
(* Two threads meet on the board.  The transport's receiver thread (rx)    *)
(* runs on_tight_message and on_tight_peer_event; the CPU thread (cpu)     *)
(* runs batches of messages, the deferred IO after each, heartbeat_check   *)
(* and session_cleanup, one at a time.  How a message gets from one to the *)
(* other is module GatewayReactor; here the inbox is all of that way.  The *)
(* board has a mutex, and every entry has one; an action ends where a      *)
(* thread lets go of its last mutex, or where it asks for a second one.    *)
(***************************************************************************)
EXTENDS Integers, Sequences, FiniteSets, FiniteSetsExt, SeqMaps

CONSTANTS Peers,          \* tight peer ids
          Names,          \* device names
          Scenarios,      \* bounds: what the devices send, which peers come
                          \* online, which timer functions run, how much time passes
          Bucket,         \* dimension -> rate per tick, capacity, cost of a request
          HeartTimeout,   \* 2 * heartbeat_seconds, in ticks
          SessionTimeout  \* session_timeout, in ticks

NoName == "no name"
None == "none"
Never == -1
Ids == Peers \cup Names \cup {NoName}
Dimensions == {"connection", "bandwidth"}

\* A message as parse_upstream_json leaves it: an audio frame, and a hello that
\* names no device, belong to the peer they come from.
Message == [type : {"hello", "ping", "bye", "audio", "forward"}, from : Peers,
            name : Names \cup {NoName}, complete : BOOLEAN]
device_id(m) == IF m.type = "audio" \/ (m.type = "hello" /\ m.name = NoName)
                THEN m.from ELSE m.name

ASSUME SessionsAssumption ==
    /\ NoName \notin Peers \cup Names /\ None \notin Peers
    /\ \A s \in Scenarios :
          /\ s.messages \in Seq(Message) /\ s.peers \subseteq Peers /\ s.ticks \in Nat
          /\ s.tasks \subseteq {"heartbeat_check", "session_cleanup"}
    /\ Bucket \in [Dimensions -> [rate : Nat, capacity : Nat, cost : Nat]]
    /\ HeartTimeout \in Nat /\ SessionTimeout \in Nat

\* The bucket for hellos holds one hello: {1.0 / 10.0, 1.0, ...}, at a cost of 1.
ASSUME CooldownAssumption == Bucket["connection"].capacity <= Bucket["connection"].cost

VARIABLES board,      \* m_devices: id -> session, peer, connected, last activity
          inbox, batch,
          pending,    \* m_pending_io
          tokens,     \* RateLimiter::m_tokens
          gauge,      \* MetricsState::m_active_connections
          rx, cpu,    \* where the two threads stand
          scenario, received, online, tasks, ticks, sessions,
          replies,    \* history: what was handed to the transport for which message
          greeted,    \* history: id -> "connected" events sent
          ended,      \* history: id -> times it was closed or removed
          admitted    \* history: name -> ticks since it was last admitted

state == <<board, inbox, batch, pending, tokens, gauge>>
bounds == <<scenario, received, online, tasks, ticks, sessions>>
history == <<replies, greeted, ended, admitted>>
vars == <<state, rx, cpu, bounds, history>>

Idle == [pc |-> "idle"]
Blank == [session |-> 0, peer |-> None, connected |-> FALSE, last |-> Never]

Init ==
    /\ board = Empty /\ inbox = <<>> /\ batch = <<>> /\ pending = <<>>
    /\ tokens = Empty /\ gauge = 0 /\ rx = Idle /\ cpu = Idle
    /\ scenario \in Scenarios
    /\ received = 0 /\ online = {} /\ tasks = scenario.tasks /\ ticks = 0 /\ sessions = 0
    /\ replies = <<>> /\ admitted = Empty
    /\ greeted = [d \in Ids |-> 0] /\ ended = [d \in Ids |-> 0]

-----------------------------------------------------------------------------
(***************************************************************************)
(* The mutexes, the board and the sessions                                 *)
(***************************************************************************)

\* rx waits for the board inside create_session, holding the entry it made;
\* cpu waits for the entries inside device_snapshot, holding the board.
EntryFree(d) == ~(rx.pc = "marking" /\ rx.id = d /\ ~rx.dangling)
BoardFree == cpu.pc # "copying"

\* DataBoard::device: the entry, made on demand.
device(b, d) == IF d \in DOMAIN b THEN b ELSE With(b, d, Blank)

Update(d, e) == board' = With(board, d, e)

\* Mutant: a device that is connected keeps the session it has.
KeepingCreated(e) ==
    [e EXCEPT !.session = IF e.connected THEN e.session ELSE sessions + 1,
              !.connected = TRUE, !.last = 0]

\* create_session, with the entry's mutex held, up to mark_changed.
Created(e) == [e EXCEPT !.session = sessions + 1, !.connected = TRUE, !.last = 0]

\* close_session
Closed(e) == [e EXCEPT !.connected = FALSE, !.last = 0]

\* send_to_device: to the peer of the entry, or else to the id itself.
Target(b, d) == IF device(b, d)[d].peer = None THEN d ELSE device(b, d)[d].peer

-----------------------------------------------------------------------------
(***************************************************************************)
(* The rate limiter                                                        *)
(***************************************************************************)

Full(dim) == [tokens |-> Bucket[dim].capacity, idle |-> 0]
Tokens(d, dim) == IF <<d, dim>> \in DOMAIN tokens THEN tokens[<<d, dim>>] ELSE Full(dim)
\* Mutant: full again as soon as time has passed.
RefilledAtOnce(d, dim) ==
    IF Tokens(d, dim).idle > 0 THEN Bucket[dim].capacity ELSE Tokens(d, dim).tokens

Refilled(d, dim) ==
    Min({Bucket[dim].capacity, Tokens(d, dim).tokens + Tokens(d, dim).idle * Bucket[dim].rate})

Allowed(d, dim) == Refilled(d, dim) >= Bucket[dim].cost

Check(d, dim) ==
    tokens' = With(tokens, <<d, dim>>,
                   [tokens |-> Refilled(d, dim) - (IF Allowed(d, dim) THEN Bucket[dim].cost ELSE 0),
                    idle |-> 0])

-----------------------------------------------------------------------------
(***************************************************************************)
(* The receiver thread                                                     *)
(***************************************************************************)

\* on_tight_message: the entry is looked up, and used once the board is free
\* again; dangling when session_cleanup has erased it in between.
Lookup(d, pc) ==
    /\ BoardFree
    /\ board' = device(board, d)
    /\ rx' = [pc |-> pc, id |-> d, dangling |-> FALSE]

Receive ==
    /\ rx.pc = "idle"
    /\ received < Len(scenario.messages)
    /\ received' = received + 1
    /\ Lookup(device_id(scenario.messages[received']), "message")
    /\ UNCHANGED <<inbox, batch, pending, tokens, gauge, cpu, scenario, online, tasks, ticks,
                   sessions, history>>

\* Mutant: the peer is not noted.
DeliverOnly ==
    /\ rx.pc = "message"
    /\ ~rx.dangling
    /\ inbox' = Append(inbox, received)
    /\ rx' = Idle
    /\ UNCHANGED <<board, batch, pending, tokens, gauge, cpu, bounds, history>>

\* The first peer that spoke for a device stays the one it is reached by.
Deliver ==
    /\ rx.pc = "message"
    /\ ~rx.dangling
    /\ LET e == board[rx.id]
       IN  IF e.peer # None THEN UNCHANGED board
           ELSE Update(rx.id, [e EXCEPT !.peer = scenario.messages[received].from])
    /\ inbox' = Append(inbox, received)
    /\ rx' = Idle
    /\ UNCHANGED <<batch, pending, tokens, gauge, cpu, bounds, history>>

\* on_tight_peer_event, Online or Established.
PeerOnline(p) ==
    /\ rx.pc = "idle"
    /\ p \in scenario.peers
    /\ online' = online \cup {p}
    /\ Lookup(p, "event")
    /\ UNCHANGED <<inbox, batch, pending, tokens, gauge, cpu, scenario, received, tasks, ticks,
                   sessions, history>>

\* Mutant: every event counts as a new connection.
MarkAlways ==
    /\ rx.pc = "event"
    /\ ~rx.dangling
    /\ Update(rx.id, [board[rx.id] EXCEPT !.connected = TRUE, !.peer = rx.id])
    /\ rx' = [rx EXCEPT !.pc = "new"]
    /\ UNCHANGED <<inbox, batch, pending, tokens, gauge, cpu, bounds, history>>

\* Only a device that was not connected gets a session and a greeting.
MarkConnected ==
    /\ rx.pc = "event"
    /\ ~rx.dangling
    /\ IF board[rx.id].connected
       THEN rx' = Idle /\ UNCHANGED board
       ELSE /\ Update(rx.id, [board[rx.id] EXCEPT !.connected = TRUE, !.peer = rx.id])
            /\ rx' = [rx EXCEPT !.pc = "new"]
    /\ UNCHANGED <<inbox, batch, pending, tokens, gauge, cpu, bounds, history>>

\* create_session and the two send_to_device look the entry up again.
LookupAgain ==
    /\ rx.pc \in {"new", "greet", "status"}
    /\ Lookup(rx.id, CASE rx.pc = "new" -> "create" [] rx.pc = "greet" -> "greeting"
                       [] rx.pc = "status" -> "sending")
    /\ UNCHANGED <<inbox, batch, pending, tokens, gauge, cpu, bounds, history>>

CreateOnline ==
    /\ rx.pc = "create"
    /\ ~rx.dangling
    /\ Update(rx.id, Created(board[rx.id]))
    /\ sessions' = sessions + 1
    /\ rx' = [rx EXCEPT !.pc = "marking"]
    /\ UNCHANGED <<inbox, batch, pending, tokens, gauge, cpu, scenario, received, online, tasks,
                   ticks, history>>

\* mark_changed, which takes the board's mutex while the entry's is held.
MarkChanged ==
    /\ rx.pc = "marking"
    /\ ~rx.dangling
    /\ BoardFree
    /\ rx' = [rx EXCEPT !.pc = "greet"]
    /\ UNCHANGED <<state, cpu, bounds, history>>

\* "connected", then the status.
Greet ==
    /\ rx.pc \in {"greeting", "sending"}
    /\ ~rx.dangling
    /\ greeted' = IF rx.pc = "greeting" THEN [greeted EXCEPT ![rx.id] = @ + 1] ELSE greeted
    /\ rx' = IF rx.pc = "greeting" THEN [rx EXCEPT !.pc = "status"] ELSE Idle
    /\ UNCHANGED <<state, cpu, bounds, replies, ended, admitted>>

\* What follows the use of an erased entry is undefined: the model ends there.
Undefined == [pc |-> "undefined"]
UseErased ==
    /\ rx.pc \in {"message", "event", "create", "marking", "greeting", "sending"}
    /\ rx.dangling
    /\ rx' = Undefined /\ cpu' = Undefined
    /\ UNCHANGED <<state, bounds, history>>

\* Closed: the board is told that something changed, and nothing else.
PeerClosed(p) ==
    /\ BoardFree
    /\ p \in online
    /\ online' = online \ {p}
    /\ UNCHANGED <<state, rx, cpu, scenario, received, tasks, ticks, sessions, history>>

-----------------------------------------------------------------------------
(***************************************************************************)
(* The CPU thread: process_message_batch                                   *)
(***************************************************************************)

StartBatch ==
    /\ cpu.pc = "idle"
    /\ inbox # <<>>
    /\ batch' = inbox
    /\ inbox' = <<>>
    /\ cpu' = [pc |-> "batch"]
    /\ UNCHANGED <<board, pending, tokens, gauge, rx, bounds, history>>

\* The message whose listener runs, and the operations listeners schedule.
Current == scenario.messages[Head(batch)]
Reply(kind, d) == [msg |-> Head(batch), kind |-> kind, to |-> d]
Downstream == Reply("downstream", None)

\* Mutant: the latest operation first.
ListenerFirst(type, ops) ==
    /\ cpu.pc = "batch"
    /\ batch # <<>>
    /\ Current.type = type
    /\ batch' = Tail(batch)
    /\ pending' = ops \o pending
    /\ UNCHANGED <<inbox, rx, cpu, scenario, received, online, tasks, ticks, replies,
                   greeted>>

\* What every listener has in common: the message is done, its IO is deferred.
Listener(type, ops) ==
    /\ cpu.pc = "batch"
    /\ batch # <<>>
    /\ Current.type = type
    /\ batch' = Tail(batch)
    /\ pending' = pending \o ops
    /\ UNCHANGED <<inbox, rx, cpu, scenario, received, online, tasks, ticks, replies,
                   greeted>>

\* Mutant: dropped without an answer.
HelloDropped ==
    /\ Listener("hello", <<>>)
    /\ ~Allowed(Current.name, "connection")
    /\ Check(Current.name, "connection")
    /\ UNCHANGED <<board, gauge, sessions, ended, admitted>>

\* on_hello: refused by the rate limiter.
HelloLimited ==
    /\ Listener("hello", <<Reply("hello_err", Current.name)>>)
    /\ ~Allowed(Current.name, "connection")
    /\ Check(Current.name, "connection")
    /\ UNCHANGED <<board, gauge, sessions, ended, admitted>>

Authentic == Current.complete /\ Current.name # NoName

\* on_auth_result
HelloRefused ==
    /\ Listener("hello", <<Reply("hello_err", device_id(Current))>>)
    /\ Allowed(Current.name, "connection")
    /\ ~Authentic
    /\ Check(Current.name, "connection")
    /\ admitted' = With(admitted, Current.name, 0)
    /\ UNCHANGED <<board, gauge, sessions, ended>>

HelloAccepted ==
    LET d == device_id(Current)
    IN  /\ Listener("hello", <<Reply("hello_ack", d), Downstream>>)
        /\ Allowed(Current.name, "connection")
        /\ Authentic
        /\ EntryFree(d)
        /\ Check(Current.name, "connection")
        /\ gauge' = gauge + 1
        /\ Update(d, Created(device(board, d)[d]))
        /\ sessions' = sessions + 1
        /\ admitted' = With(admitted, Current.name, 0)
        /\ UNCHANGED ended

\* on_audio_frame: a frame within the bandwidth counts as activity.
AudioFrame ==
    LET d == device_id(Current)
    IN  /\ Listener("audio", IF Allowed(d, "bandwidth") THEN <<Downstream>> ELSE <<>>)
        /\ EntryFree(d)
        /\ Check(d, "bandwidth")
        /\ IF Allowed(d, "bandwidth")
           THEN Update(d, [device(board, d)[d] EXCEPT !.last = 0]) ELSE UNCHANGED board
        /\ UNCHANGED <<gauge, sessions, ended, admitted>>

\* on_bye; on_connection_close stops at zero.
Bye ==
    LET d == device_id(Current)
    IN  /\ Listener("bye", <<Downstream>>)
        /\ EntryFree(d)
        /\ Update(d, Closed(device(board, d)[d]))
        /\ gauge' = IF gauge > 0 THEN gauge - 1 ELSE 0
        /\ ended' = [ended EXCEPT ![d] = @ + 1]
        /\ UNCHANGED <<tokens, sessions, admitted>>

\* on_ping
Ping ==
    /\ Listener("ping", <<Reply("pong", device_id(Current))>>)
    /\ UNCHANGED <<board, tokens, gauge, sessions, ended, admitted>>

\* on_config_update, on_function_call_output, on_audio_boundary
Forward ==
    /\ Listener("forward", <<Downstream>>)
    /\ UNCHANGED <<board, tokens, gauge, sessions, ended, admitted>>

\* execute_pending_io, one operation: send_to_device or the downstream callback.
PendingIo ==
    LET op == Head(pending)
    IN  /\ cpu.pc = "batch"
        /\ batch = <<>>
        /\ pending # <<>>
        /\ IF op.kind = "downstream"
           THEN replies' = Append(replies, op) /\ UNCHANGED board
           ELSE /\ EntryFree(op.to)
                /\ board' = device(board, op.to)
                /\ replies' = Append(replies, [op EXCEPT !.to = Target(board, op.to)])
        /\ pending' = Tail(pending)
        /\ UNCHANGED <<inbox, batch, tokens, gauge, rx, cpu, bounds, greeted, ended,
                       admitted>>

EndBatch ==
    /\ cpu.pc = "batch"
    /\ batch = <<>> /\ pending = <<>>
    /\ cpu' = Idle
    /\ UNCHANGED <<state, rx, bounds, history>>

-----------------------------------------------------------------------------
(***************************************************************************)
(* The CPU thread: heartbeat_check and session_cleanup                     *)
(***************************************************************************)

\* now = unix_millis(), before the board is looked at.
TaskNow(t) ==
    /\ cpu.pc = "idle"
    /\ t \in tasks
    /\ tasks' = tasks \ {t}
    /\ cpu' = [pc |-> "now", task |-> t, age |-> 0]
    /\ UNCHANGED <<state, rx, scenario, received, online, ticks, sessions, history>>

\* device_snapshot: the board's mutex, then those of the entries.
SnapshotBoard ==
    /\ cpu.pc = "now"
    /\ cpu' = [cpu EXCEPT !.pc = "copying"]
    /\ UNCHANGED <<state, rx, bounds, history>>

\* now - m_last_activity_ms, unsigned: an activity later than now, like one
\* that never was, gives more than any limit.
Expired(last, limit) == last = Never \/ last < cpu.age \/ last - cpu.age > limit

Overdue(e) ==
    IF cpu.task = "heartbeat_check" THEN e.connected /\ Expired(e.last, HeartTimeout)
    ELSE ~e.connected /\ Expired(e.last, SessionTimeout)

SnapshotEntries ==
    /\ cpu.pc = "copying"
    /\ \A d \in DOMAIN board : EntryFree(d)
    /\ cpu' = [pc |-> "sweep", task |-> cpu.task, todo |-> {d \in DOMAIN board : Overdue(board[d])}]
    /\ UNCHANGED <<state, rx, bounds, history>>

\* One device of the snapshot, whatever has become of it since.
CloseOverdue(d) ==
    /\ EntryFree(d)
    /\ Update(d, Closed(device(board, d)[d]))
    /\ gauge' = IF gauge > 0 THEN gauge - 1 ELSE 0
    /\ UNCHANGED rx

RemoveOverdue(d) ==
    /\ board' = Without(board, {d})
    /\ rx' = IF rx # Idle /\ rx.id = d THEN [rx EXCEPT !.dangling = TRUE] ELSE rx
    /\ UNCHANGED gauge

Sweep(d) ==
    /\ cpu.pc = "sweep"
    /\ d \in cpu.todo
    /\ cpu' = [cpu EXCEPT !.todo = @ \ {d}]
    /\ IF cpu.task = "heartbeat_check" THEN CloseOverdue(d) ELSE RemoveOverdue(d)
    /\ ended' = [ended EXCEPT ![d] = @ + 1]
    /\ UNCHANGED <<inbox, batch, pending, tokens, bounds, replies, greeted, admitted>>

EndTask ==
    /\ cpu.pc = "sweep"
    /\ cpu.todo = {}
    /\ cpu' = Idle
    /\ UNCHANGED <<state, rx, bounds, history>>

-----------------------------------------------------------------------------
Tick ==
    /\ ticks < scenario.ticks
    /\ ticks' = ticks + 1
    /\ board' = [d \in DOMAIN board |->
                   [board[d] EXCEPT !.last = IF @ = Never THEN @ ELSE @ + 1]]
    /\ tokens' = [k \in DOMAIN tokens |-> [tokens[k] EXCEPT !.idle = @ + 1]]
    /\ admitted' = [n \in DOMAIN admitted |-> admitted[n] + 1]
    /\ cpu' = IF cpu.pc \in {"now", "copying"} THEN [cpu EXCEPT !.age = @ + 1] ELSE cpu
    /\ UNCHANGED <<inbox, batch, pending, gauge, rx, scenario, received, online, tasks, sessions,
                   replies, greeted, ended>>

RxStep ==
    Deliver \/ MarkConnected \/ LookupAgain \/ CreateOnline \/ MarkChanged \/ Greet \/ UseErased

CpuStep ==
    \/ StartBatch
    \/ HelloLimited \/ HelloRefused \/ HelloAccepted \/ AudioFrame \/ Bye \/ Ping \/ Forward
    \/ PendingIo \/ EndBatch
    \/ SnapshotBoard \/ SnapshotEntries \/ (\E d \in Ids : Sweep(d)) \/ EndTask

Next ==
    \/ Receive
    \/ \E p \in Peers : PeerOnline(p) \/ PeerClosed(p)
    \/ RxStep
    \/ CpuStep
    \/ \E t \in {"heartbeat_check", "session_cleanup"} : TaskNow(t)
    \/ Tick

Spec == Init /\ [][Next]_vars

\* Both threads keep running.
FairSpec == Spec /\ WF_vars(RxStep) /\ WF_vars(CpuStep)

-----------------------------------------------------------------------------
(***************************************************************************)
(* Properties                                                              *)
(***************************************************************************)

\* Types; the gauge of connections does not wrap below zero.
TypeOK ==
    /\ DOMAIN board \subseteq Ids
    /\ \A d \in DOMAIN board :
          /\ board[d].session \in 0..sessions /\ board[d].peer \in Peers \cup {None}
          /\ board[d].connected \in BOOLEAN /\ board[d].last \in {Never} \cup 0..ticks
    /\ gauge \in Nat
    /\ \A k \in DOMAIN tokens : tokens[k].tokens \in 0..Bucket[k[2]].capacity

\* A device that shows as connected has a session, except between the two
\* critical sections of on_tight_peer_event: no order of its steps with hellos,
\* byes, the heartbeat check and the removal of the entry leaves it without.
ConnectedHasSession ==
    \A d \in DOMAIN board :
        board[d].connected /\ board[d].session = 0 => rx.pc \in {"new", "create"} /\ rx.id = d

\* Messages in the order they were received, the answers to each and what is
\* passed on of it in the order the listener scheduled them, none of it twice.
RepliesInOrder ==
    \A i, j \in DOMAIN replies :
        i < j => \/ replies[i].msg < replies[j].msg
                 \/ replies[i].msg = replies[j].msg /\ replies[j].kind = "downstream"
                    /\ replies[i].kind # "downstream"

\* "RATE_LIMITED": hellos of one device name that reach authentication are at
\* least the time apart in which the bucket fills up for one.
HelloSpacing ==
    [][\A n \in DOMAIN admitted :
          admitted'[n] < admitted[n]
             => admitted[n] * Bucket["connection"].rate >= Bucket["connection"].cost]_vars

\* Answers go to the peer that asked, as long as a device name is used by one
\* peer only, be it for its messages or as its own id when it comes online, and
\* the device was neither closed nor removed.
Uses(d) ==
    {scenario.messages[i].from :
        i \in {k \in DOMAIN scenario.messages : device_id(scenario.messages[k]) = d}}
      \cup (scenario.peers \cap {d})
Exclusive(d) == \A p, q \in Uses(d) : p = q

AnswersReachAsker ==
    \A i \in DOMAIN replies :
        LET m == scenario.messages[replies[i].msg]
        IN  replies[i].kind # "downstream" /\ Exclusive(device_id(m)) /\ m.name # NoName
               /\ ended[device_id(m)] = 0
               => replies[i].to = m.from

\* A device is greeted with "connected" at most once for each time it was
\* disconnected: a hello, an audio frame and a link that comes back while it
\* is connected do not greet it again.
GreetedOnce == \A d \in Ids : greeted[d] <= 1 + ended[d]

\* The two threads wait for each other: rx holds an entry and wants the board,
\* cpu holds the board and wants that entry.
LockedUp == rx.pc = "marking" /\ cpu.pc = "copying"

\* Every hello taken in is answered by one hello_ack or hello_err, unless the
\* threads lock up or an erased entry is used.
Answers(i) == {k \in DOMAIN replies : replies[k].msg = i /\ replies[k].kind # "downstream"}
HelloAnswered ==
    \A i \in 1..Max({Len(s.messages) : s \in Scenarios}) :
        (i \in Range(inbox) /\ scenario.messages[i].type = "hello")
            ~> (Cardinality(Answers(i)) = 1 \/ LockedUp \/ rx = Undefined)

\* api_reference.md: a callback must not call anything that blocks for long.
\* The gateway's own peer callback returns.
CallbackReturns == rx.pc = "event" ~> (rx.pc = "idle" \/ rx = Undefined)
===============================================================================
