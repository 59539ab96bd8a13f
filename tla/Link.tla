---------------------------------- MODULE Link ----------------------------------
(***************************************************************************)
(* The life of a link between two endpoints of tight: connect(), the three *)
(* handshake packets, heartbeats, the dead-peer timeout, automatic         *)
(* reconnection, Bye, and the peer events the application is told of.      *)
(* Each end is one TightTransport with its one Peer record for the other   *)
(* end.  The receiver thread runs the handlers, the reactor thread runs    *)
(* send_handshakes, send_heartbeats and check_offline; neither takes the   *)
(* peer's mutex to read or write m_state, so their steps interleave.  In   *)
(* lite mode (lite = TRUE) one thread does everything.                     *)
(*                                                                         *)
(* Time is counted in heartbeat periods.  The network loses packets one by *)
(* one (at most MaxLosses, of the types in Losable) or all of them for a   *)
(* while (an outage); a packet may overtake the Window - 1 sent before it.  *)
(* No application data flows, so a Report acknowledges nothing and only     *)
(* counts as one more heartbeat: DataPlane has that half of m_pending.     *)
(* Encryption is enabled at both ends.                                     *)
(***************************************************************************)
EXTENDS Integers, Sequences, FiniteSets

CONSTANTS Ends,          \* the two endpoints
          Connectors,    \* those whose application calls connect()
          Listening,     \* those already started in the initial state
          Tokens,        \* the choices of config.token of each end
          LiteModes,     \* the choices of config.lite_mode
          MaxSeq,        \* bound: control sequence numbers an end may use
          DeadTicks,     \* dead_timeout / heartbeat
          MaxLosses,     \* bound: packets lost singly
          Losable,       \* the packet types that may be lost singly
          Window,        \* bound: a packet overtakes fewer than Window others
          MaxOutages,    \* bound: times the network goes down
          MaxExits,      \* bound: times a process crashes or stops
          MaxEpoch,      \* bound: runs of a process
          Prompt         \* packets and reactor rounds take less than a tick

ASSUME LinkAssumption ==
    /\ \E e, f \in Ends : e # f /\ Ends = {e, f}
    /\ Connectors \subseteq Ends /\ Listening \subseteq Ends
    /\ MaxSeq \in Nat \ {0} /\ DeadTicks \in Nat \ {0}
    /\ MaxLosses \in Nat /\ MaxOutages \in Nat /\ MaxExits \in Nat
    /\ MaxEpoch \in Nat \ {0} /\ Window \in Nat \ {0}

ASSUME LinkFlags == Prompt \in BOOLEAN /\ LiteModes \subseteq BOOLEAN

VARIABLES token,         \* config.token
          lite,          \* config.lite_mode: no receiver thread
          state,         \* m_state; "off": no process, "none": no Peer record
          reconnect,     \* m_reconnect: the record was made by connect()
          sequence_out,  \* m_sequence_out
          pending,       \* the keys of m_pending
          epoch,         \* which run of the process (its key pair)
          key,           \* m_crypto_key: the peer's key pair it is derived
                         \* from, 0 while m_crypto_ready is false
          quiet,         \* ticks since m_last_recv
          due,           \* the heartbeat period is over
          reactor,       \* where check_offline stands
          firing,        \* the event the receiver thread is about to fire
          told,          \* the last PeerEvent.state the application saw
          outdated,      \* history: that event was about a record which
                         \* connect() has replaced since
          net,           \* packets in flight to each end, as they were sent
          up,            \* FALSE during an outage
          losses, outages, exits

endVars == <<state, reconnect, sequence_out, pending, epoch, key>>
clockVars == <<quiet, due>>
threadVars == <<reactor, firing, told, outdated>>
config == <<token, lite>>
faultVars == <<config, up, losses, outages, exits>>
vars == <<endVars, clockVars, threadVars, net, faultVars>>

LinkStates == {"Closed", "Handshake", "Established", "Online"}
Alive == {"Established", "Online"}
Reliable == {"Handshake", "HandshakeAck", "Online"}
Types == Reliable \cup {"Ack", "Heartbeat", "Bye"}
Packets == [type : Types, seq : 0..MaxSeq, key : 0..MaxEpoch]

Other(e) == CHOOSE f \in Ends : f # e

Running(e) == state[e] # "off"

\* The peer record of a fresh process, of connect() and of a first packet.
NewPeer(e, s, r) ==
    /\ state' = [state EXCEPT ![e] = s]
    /\ reconnect' = [reconnect EXCEPT ![e] = r]
    /\ key' = [key EXCEPT ![e] = 0]

\* The application has seen event s of the present record.
Tell(e, s) ==
    /\ told' = [told EXCEPT ![e] = s]
    /\ outdated' = [outdated EXCEPT ![e] = FALSE]

Init ==
    /\ token \in Tokens /\ lite \in LiteModes
    /\ state = [e \in Ends |-> IF e \in Listening THEN "none" ELSE "off"]
    /\ reconnect = [e \in Ends |-> FALSE]
    /\ sequence_out = [e \in Ends |-> 1]
    /\ pending = [e \in Ends |-> {}]
    /\ epoch = [e \in Ends |-> IF e \in Listening THEN 1 ELSE 0]
    /\ key = [e \in Ends |-> 0]
    /\ quiet = [e \in Ends |-> 0]
    /\ due = [e \in Ends |-> TRUE]
    /\ reactor = [e \in Ends |-> "idle"]
    /\ firing = [e \in Ends |-> "none"]
    /\ told = [e \in Ends |-> "none"] /\ outdated = [e \in Ends |-> FALSE]
    /\ net = [e \in Ends |-> <<>>]
    /\ up = TRUE
    /\ losses = 0 /\ outages = 0 /\ exits = 0

-----------------------------------------------------------------------------
(***************************************************************************)
(* Sending                                                                 *)
(***************************************************************************)

Packet(e, t, s) == [type |-> t, seq |-> s, key |-> epoch[e]]

\* e puts the packets ps on the network: all are lost during an outage.
Queued(e, ps) == net[Other(e)] \o (IF up THEN ps ELSE <<>>)

Send(e, ps) == net' = [net EXCEPT ![Other(e)] = Queued(e, ps)]

\* Packets that carry a sequence number, sent in the order of ts, the first
\* one numbered n.
Numbered(e, n, ts) == [i \in DOMAIN ts |-> Packet(e, ts[i], n + i - 1)]

\* send_control(ackable) for each type of ts: numbers used and remembered.
Remember(e, n, kept, ts) ==
    /\ n + Len(ts) <= MaxSeq + 1
    /\ sequence_out' = [sequence_out EXCEPT ![e] = n + Len(ts)]
    /\ pending' = [pending EXCEPT ![e] = kept \cup (n..(n + Len(ts) - 1))]

SendControl(e, ts) == Remember(e, sequence_out[e], pending[e], ts)

SendHandshake(e) ==
    /\ SendControl(e, <<"Handshake">>)
    /\ Send(e, Numbered(e, sequence_out[e], <<"Handshake">>))

\* The Ack of a packet of the three reliable types.
SendAckPacket(e, m) ==
    IF m.type \in Reliable THEN <<Packet(e, "Ack", m.seq)>> ELSE <<>>

-----------------------------------------------------------------------------
(***************************************************************************)
(* The application                                                         *)
(***************************************************************************)

\* connect() makes a record, replacing one that a first packet had made under
\* another id, or revives a closed one.  The application is told nothing, and
\* keeps the last event of the record that is gone.  (A repeated connect() on
\* an open record would only send one more Handshake; the model leaves it out.)
Connect(e) ==
    /\ e \in Connectors /\ Running(e)
    /\ ~reconnect[e] \/ state[e] = "Closed"
    /\ IF reconnect[e]
         THEN /\ SendHandshake(e)
              /\ state' = [state EXCEPT ![e] = "Handshake"]
              /\ UNCHANGED <<reconnect, key, outdated>>
         ELSE /\ Remember(e, 1, {}, <<"Handshake">>)
              /\ Send(e, Numbered(e, 1, <<"Handshake">>))
              /\ NewPeer(e, "Handshake", TRUE)
              /\ outdated' = [outdated EXCEPT ![e] = told[e] # "none"]
    /\ reactor[e] = "idle" /\ firing[e] = "none"
    /\ UNCHANGED <<epoch, clockVars, reactor, firing, told, faultVars>>

\* The constructor, which makes a new key pair, and start().
Start(e) ==
    /\ state[e] = "off" /\ epoch[e] < MaxEpoch
    /\ NewPeer(e, "none", FALSE)
    /\ epoch' = [epoch EXCEPT ![e] = @ + 1]
    /\ UNCHANGED <<sequence_out, pending, clockVars, threadVars, net, faultVars>>

\* The process ends: on a crash without a word, on stop() or in the
\* destructor after send_byes.
Exit(e, byes) ==
    /\ Running(e) /\ exits < MaxExits
    /\ exits' = exits + 1
    /\ Send(e, byes)
    /\ NewPeer(e, "off", FALSE) /\ Tell(e, "none")
    /\ reactor' = [reactor EXCEPT ![e] = "idle"]
    /\ firing' = [firing EXCEPT ![e] = "none"]
    /\ sequence_out' = [sequence_out EXCEPT ![e] = 1]
    /\ pending' = [pending EXCEPT ![e] = {}]
    /\ quiet' = [quiet EXCEPT ![e] = 0]
    /\ UNCHANGED <<epoch, due, config, up, losses, outages>>

Crash(e) == Exit(e, <<>>)

Stop(e) ==
    Exit(e, IF state[e] \in {"none", "Closed"} THEN <<>> ELSE <<Packet(e, "Bye", 0)>>)

-----------------------------------------------------------------------------
(***************************************************************************)
(* The receiver thread                                                     *)
(***************************************************************************)

\* The receiver is free to handle a packet.
ReceiverFree(e) == firing[e] = "none" /\ (lite => reactor[e] = "idle")

\* find_or_create_peer_by_addr for a packet from an unknown address; the
\* packet is then handled in a step of its own.
Accept(e) ==
    /\ state[e] = "none" /\ ReceiverFree(e)
    /\ net[e] # <<>>
    /\ NewPeer(e, "Handshake", FALSE)
    /\ UNCHANGED <<sequence_out, pending, epoch, clockVars, threadVars, net, faultVars>>

\* The i-th packet of s is gone.
Drop(s, i) == SubSeq(s, 1, i - 1) \o SubSeq(s, i + 1, Len(s))

\* handle_packet: the packet leaves the network, the handler's packets out
\* enter it, and then the Ack, whatever its handler did.
Take(e, i, out) ==
    net' = [net EXCEPT ![e] = Drop(@, i),
                       ![Other(e)] = Queued(e, out \o SendAckPacket(e, net[e][i]))]

\* A handler's last word: the new state and the event that goes with it.
Becomes(e, s) ==
    /\ state' = [state EXCEPT ![e] = s]
    /\ firing' = [firing EXCEPT ![e] = s]

\* The session key is derived from the own key pair and the one whose public
\* key the packet carries.
DeriveSessionKey(e, m) == key' = [key EXCEPT ![e] = m.key]

\* Mutant: an end that accepted the link sends no HandshakeAck.
HandshakeOnlyAnswer(e) ==
    IF reconnect[e] THEN <<"HandshakeAck">> ELSE <<"Handshake">>

\* A node that accepted the link answers with a Handshake of its own; a
\* connector has sent one already.
Answer(e) ==
    IF reconnect[e] THEN <<"HandshakeAck">> ELSE <<"Handshake", "HandshakeAck">>

\* Mutant: the token is not compared.
UncheckedHandshake(e, i) ==
    /\ net[e][i].type = "Handshake"
    /\ DeriveSessionKey(e, net[e][i])
    /\ SendControl(e, Answer(e))
    /\ Take(e, i, Numbered(e, sequence_out[e], Answer(e)))
    /\ IF state[e] \in Alive THEN UNCHANGED <<state, firing>>
                             ELSE Becomes(e, "Established")

HandleHandshake(e, i) ==
    /\ net[e][i].type = "Handshake"
    /\ IF token[Other(e)] # token[e]
         THEN /\ Take(e, i, <<>>)
              /\ UNCHANGED <<state, firing, key, sequence_out, pending>>
         ELSE /\ DeriveSessionKey(e, net[e][i])
              /\ SendControl(e, Answer(e))
              /\ Take(e, i, Numbered(e, sequence_out[e], Answer(e)))
              /\ IF state[e] \in Alive THEN UNCHANGED <<state, firing>>
                                       ELSE Becomes(e, "Established")

HandleHandshakeAck(e, i) ==
    /\ net[e][i].type = "HandshakeAck"
    /\ DeriveSessionKey(e, net[e][i])
    /\ IF state[e] \in {"Handshake", "Established"}
         THEN /\ SendControl(e, <<"Online">>)
              /\ Take(e, i, Numbered(e, sequence_out[e], <<"Online">>))
              /\ Becomes(e, "Online")
         ELSE /\ Take(e, i, <<>>)
              /\ UNCHANGED <<state, firing, sequence_out, pending>>

HandleOnline(e, i) ==
    /\ net[e][i].type = "Online"
    /\ Take(e, i, <<>>)
    /\ IF state[e] = "Online" THEN UNCHANGED <<state, firing>>
                              ELSE Becomes(e, "Online")
    /\ UNCHANGED <<key, sequence_out, pending>>

HandleHeartbeat(e, i) ==
    /\ net[e][i].type = "Heartbeat"
    /\ Take(e, i, <<>>)
    /\ UNCHANGED <<state, firing, key, sequence_out, pending>>

\* Mutant: a Bye closes the link without an event.
SilentBye(e, i) ==
    /\ net[e][i].type = "Bye"
    /\ Take(e, i, <<>>)
    /\ state' = [state EXCEPT ![e] = "Closed"]
    /\ UNCHANGED <<firing, key, sequence_out, pending>>

HandleBye(e, i) ==
    /\ net[e][i].type = "Bye"
    /\ Take(e, i, <<>>)
    /\ IF state[e] = "Closed" THEN UNCHANGED <<state, firing>>
                              ELSE Becomes(e, "Closed")
    /\ UNCHANGED <<key, sequence_out, pending>>

\* Mutant: an Ack confirms every earlier packet too.
CumulativeAck(e, i) ==
    /\ net[e][i].type = "Ack"
    /\ Take(e, i, <<>>)
    /\ pending' = [pending EXCEPT ![e] = {s \in @ : s > net[e][i].seq}]
    /\ UNCHANGED <<state, firing, key, sequence_out>>

HandleAck(e, i) ==
    /\ net[e][i].type = "Ack"
    /\ Take(e, i, <<>>)
    /\ pending' = [pending EXCEPT ![e] = @ \ {net[e][i].seq}]
    /\ UNCHANGED <<state, firing, key, sequence_out>>

Handle(e, i) ==
    \/ HandleHandshake(e, i) \/ HandleHandshakeAck(e, i) \/ HandleOnline(e, i)
    \/ HandleHeartbeat(e, i) \/ HandleBye(e, i) \/ HandleAck(e, i)

\* The packets of s that may arrive next.
Arriving(s) == {i \in DOMAIN s : i <= Window}

Receive(e) ==
    /\ state[e] \in LinkStates /\ ReceiverFree(e)
    /\ \E i \in Arriving(net[e]) : Handle(e, i)
    /\ quiet' = [quiet EXCEPT ![e] = 0]
    /\ UNCHANGED <<reconnect, epoch, due, reactor, told, outdated, faultVars>>

\* fire_peer_event at the end of a handler.
FireReceiver(e) ==
    /\ firing[e] # "none"
    /\ Tell(e, firing[e])
    /\ firing' = [firing EXCEPT ![e] = "none"]
    /\ UNCHANGED <<endVars, clockVars, reactor, net, faultVars>>

-----------------------------------------------------------------------------
(***************************************************************************)
(* The reactor thread                                                      *)
(***************************************************************************)

ReactorFree(e) == reactor[e] = "idle" /\ (lite => firing[e] = "none")

\* A Handshake goes out only while nothing awaits an Ack.
SendHandshakes(e) ==
    /\ ReactorFree(e)
    /\ state[e] = "Handshake" /\ pending[e] = {}
    /\ SendHandshake(e)
    /\ UNCHANGED <<state, reconnect, epoch, key, clockVars, threadVars, faultVars>>

\* (At most one heartbeat is in flight to an end, to bound the model.)
SendHeartbeats(e) ==
    /\ ReactorFree(e)
    /\ state[e] \in Alive /\ due[e]
    /\ \A i \in DOMAIN net[Other(e)] : net[Other(e)][i].type # "Heartbeat"
    /\ Send(e, <<Packet(e, "Heartbeat", 0)>>)
    /\ due' = [due EXCEPT ![e] = FALSE]
    /\ UNCHANGED <<endVars, quiet, threadVars, faultVars>>

\* Mutant: only an end that is Online is watched.
OnlineOnlyCheckOffline(e) ==
    /\ ReactorFree(e)
    /\ state[e] = "Online" /\ quiet[e] >= DeadTicks
    /\ reactor' = [reactor EXCEPT ![e] = "dead"]
    /\ UNCHANGED <<endVars, clockVars, firing, told, outdated, net, faultVars>>

\* check_offline finds the peer silent for dead_timeout ...
CheckOffline(e) ==
    /\ ReactorFree(e)
    /\ state[e] \in Alive /\ quiet[e] >= DeadTicks
    /\ reactor' = [reactor EXCEPT ![e] = "dead"]
    /\ UNCHANGED <<endVars, clockVars, firing, told, outdated, net, faultVars>>

\* ... closes the link ...
CloseDead(e) ==
    /\ reactor[e] = "dead"
    /\ state' = [state EXCEPT ![e] = "Closed"]
    /\ reactor' = [reactor EXCEPT ![e] = "clearing"]
    /\ UNCHANGED <<reconnect, sequence_out, pending, epoch, key, clockVars, firing, told,
                   outdated, net, faultVars>>

\* ... under the peer's mutex forgets what awaits an Ack by now ...
ClearPending(e) ==
    /\ reactor[e] = "clearing"
    /\ pending' = [pending EXCEPT ![e] = {}]
    /\ reactor' = [reactor EXCEPT ![e] = "closed"]
    /\ UNCHANGED <<state, reconnect, sequence_out, epoch, key, clockVars, firing, told,
                   outdated, net, faultVars>>

\* ... tells the application ...
FireClosed(e) ==
    /\ reactor[e] = "closed"
    /\ Tell(e, "Closed")
    /\ reactor' = [reactor EXCEPT ![e] = "fired"]
    /\ UNCHANGED <<endVars, clockVars, firing, net, faultVars>>

\* ... and, on a link made by connect(), goes back to Handshake.
Rearm(e) ==
    /\ reactor[e] = "fired"
    /\ IF reconnect[e]
         THEN /\ state' = [state EXCEPT ![e] = "Handshake"]
              /\ quiet' = [quiet EXCEPT ![e] = 0]
         ELSE UNCHANGED <<state, quiet>>
    /\ reactor' = [reactor EXCEPT ![e] = "idle"]
    /\ UNCHANGED <<reconnect, sequence_out, pending, epoch, key, due, firing, told,
                   outdated, net, faultVars>>

Reactor(e) ==
    CheckOffline(e) \/ CloseDead(e) \/ ClearPending(e) \/ FireClosed(e) \/ Rearm(e)

-----------------------------------------------------------------------------
(***************************************************************************)
(* The network and the clock                                               *)
(***************************************************************************)

Lose ==
    /\ losses < MaxLosses
    /\ losses' = losses + 1
    /\ \E e \in Ends : \E i \in DOMAIN net[e] :
          /\ net[e][i].type \in Losable
          /\ net' = [net EXCEPT ![e] = Drop(@, i)]
    /\ UNCHANGED <<endVars, clockVars, threadVars, config, up, outages, exits>>

\* A packet that reaches a host with no process is gone.
Unreachable ==
    /\ \E e \in Ends :
          /\ ~Running(e) /\ net[e] # <<>>
          /\ net' = [net EXCEPT ![e] = <<>>]
    /\ UNCHANGED <<endVars, clockVars, threadVars, faultVars>>

Outage ==
    /\ up /\ outages < MaxOutages
    /\ up' = FALSE
    /\ outages' = outages + 1
    /\ UNCHANGED <<endVars, clockVars, threadVars, net, config, losses, exits>>

Restore ==
    /\ ~up
    /\ up' = TRUE
    /\ UNCHANGED <<endVars, clockVars, threadVars, net, config, losses, outages, exits>>

\* Nothing is left to do in this tick (but Handshakes beyond the bound).
Settled ==
    \A e \in Ends :
         /\ net[e] = <<>>
         /\ reactor[e] = "idle" /\ firing[e] = "none"
         /\ ~(state[e] \in Alive /\ (due[e] \/ quiet[e] >= DeadTicks))
         /\ ~(state[e] = "Handshake" /\ pending[e] = {} /\ sequence_out[e] <= MaxSeq)

Tick ==
    /\ Prompt => Settled
    /\ quiet' = [e \in Ends |->
                   IF state[e] \in Alive /\ quiet[e] < DeadTicks THEN quiet[e] + 1
                                                                 ELSE quiet[e]]
    /\ due' = [e \in Ends |-> TRUE]
    /\ UNCHANGED <<endVars, threadVars, net, faultVars>>

Next ==
    \/ \E e \in Ends :
         \/ Connect(e) \/ Start(e) \/ Crash(e) \/ Stop(e)
         \/ Accept(e) \/ Receive(e) \/ FireReceiver(e)
         \/ SendHandshakes(e) \/ SendHeartbeats(e) \/ Reactor(e)
    \/ Lose \/ Unreachable \/ Outage \/ Restore \/ Tick

Spec == Init /\ [][Next]_vars

\* Threads and clocks run, sockets are read, the application calls connect()
\* once, an outage ends.
Fairness ==
    /\ \A e \in Ends :
         /\ WF_vars(~reconnect[e] /\ Connect(e))
         /\ WF_vars(Accept(e)) /\ WF_vars(Receive(e)) /\ WF_vars(FireReceiver(e))
         /\ WF_vars(SendHandshakes(e)) /\ WF_vars(SendHeartbeats(e))
         /\ WF_vars(Reactor(e))
    /\ WF_vars(Unreachable) /\ WF_vars(Restore) /\ WF_vars(Tick)

FairSpec == Spec /\ Fairness

\* Moreover a process that is down is started at some time.
RestartSpec == FairSpec /\ \A e \in Ends : WF_vars(Start(e))

-----------------------------------------------------------------------------
(***************************************************************************)
(* Properties                                                              *)
(***************************************************************************)

\* Every variable has its type; what awaits an Ack was numbered and sent.
TypeOK ==
    /\ token \in Tokens /\ lite \in LiteModes
    /\ state \in [Ends -> LinkStates \cup {"off", "none"}]
    /\ reconnect \in [Ends -> BOOLEAN]
    /\ sequence_out \in [Ends -> 1..(MaxSeq + 1)]
    /\ pending \in [Ends -> SUBSET (1..MaxSeq)]
    /\ \A e \in Ends : \A s \in pending[e] : s < sequence_out[e]
    /\ epoch \in [Ends -> 0..MaxEpoch] /\ key \in [Ends -> 0..MaxEpoch]
    /\ quiet \in [Ends -> 0..DeadTicks] /\ due \in [Ends -> BOOLEAN]
    /\ reactor \in [Ends -> {"idle", "dead", "clearing", "closed", "fired"}]
    /\ firing \in [Ends -> {"none"} \cup LinkStates]
    /\ told \in [Ends -> {"none"} \cup LinkStates] /\ outdated \in [Ends -> BOOLEAN]
    /\ net \in [Ends -> Seq(Packets)]
    /\ up \in BOOLEAN
    /\ losses \in 0..MaxLosses /\ outages \in 0..MaxOutages /\ exits \in 0..MaxExits

\* handle_handshake checks the token and derives the session key before the
\* link is Established; HandshakeAck and Online check no token, yet an end
\* is Established or Online only when the tokens agree and, if no process was
\* replaced by a new one and one end only calls connect(), it holds a key.
UpOnlyKeyed ==
    \A e \in Ends :
        state[e] \in Alive => /\ token[e] = token[Other(e)]
                              /\ exits = 0 /\ Connectors # Ends => key[e] # 0

\* All is quiet on a link that is Online at both ends.
Quiescent ==
    \A e \in Ends : /\ state[e] = "Online" /\ net[e] = <<>>
                    /\ e \in Connectors => reconnect[e]

\* derive_session_key: "both ends therefore derive the same key".  On a link
\* that is Online and quiet, a key is derived from the key pair the other end
\* has now, also when that end was restarted, if both have one.
KeysAgree ==
    Quiescent /\ (\A e \in Ends : key[e] # 0)
        => \A e \in Ends : key[e] = epoch[Other(e)]

\* The application only has PeerEvent.state to know whether the link is
\* Online: when no event is on its way, the last one it saw says Online
\* exactly when m_state is Online, and says Closed when m_state is Closed,
\* unless connect() has replaced the record it was about, of which there is no
\* event.  This is the promise of lite mode, where one thread fires every event.
EventsReflectState ==
    \A e \in Ends :
        (lite /\ reactor[e] = "idle" /\ firing[e] = "none" /\ ~outdated[e]) =>
            /\ (told[e] = "Online") <=> (state[e] = "Online")
            /\ state[e] = "Closed" => told[e] = "Closed"

\* A reliable packet that e numbered s is still on its way.
Travels(e, s) ==
    \E i \in DOMAIN net[Other(e)] :
        net[Other(e)][i].type \in Reliable /\ net[Other(e)][i].seq = s

\* An Ack erases the packet it is for and no other, however late it comes and
\* wherever the counter has got to: a reliable packet is forgotten only in the
\* step that handles its Ack, and then it has left the network unless numbers
\* were used twice, in the step of check_offline that clears m_pending of a
\* dead link, in that of connect() that replaces the record, or when the
\* process ends.
ForgottenOnlyAcked ==
    [][\A e \in Ends : \A s \in pending[e] \ pending'[e] :
          \/ /\ \E i \in DOMAIN net[e] : net[e][i].type = "Ack" /\ net[e][i].seq = s
             /\ exits = 0 /\ Connectors # Ends => ~Travels(e, s)
          \/ reactor[e] = "clearing" /\ reactor'[e] = "closed"
          \/ ~reconnect[e] /\ reconnect'[e]
          \/ state'[e] = "off"]_vars

BothOnline == \A e \in Ends : state[e] = "Online"

\* connect() leads to a link that is Online at both ends, and stays so once
\* faults have stopped, if no process ends.
ConnectsBoth == [](exits = 0) => <>[]BothOnline

\* check_offline with m_reconnect: a link that was Online at both ends comes
\* back after every interruption.
Reconnects == <>BothOnline => []<>BothOnline

\* check_offline: the end of a process is noticed at the other end, which is
\* not left Established or Online, and whose application is not left with an
\* Online event.
DeathNoticed ==
    \A e \in Ends :
        <>[](state[Other(e)] = "off") => <>[](state[e] \notin Alive /\ told[e] # "Online")

=============================================================================
