--------------------------- MODULE CommandChannel ---------------------------
(***************************************************************************)
(* The command channel of one direction of a link (command.cpp): the       *)
(* sender numbers its commands, the network loses, duplicates and reorders *)
(* them, and the receiver hands them to the application in order, holding  *)
(* an early command for a bounded time and then skipping the gap.          *)
(*                                                                         *)
(* Two threads of the receiving end collect commands under Peer::m_mu and  *)
(* fire the callbacks after releasing it: the receiver thread              *)
(* (handle_command) and the reactor (flush_commands).  In lite mode both   *)
(* run on the one reactor thread.                                          *)
(***************************************************************************)
EXTENDS Integers, FiniteSets, SeqMaps

CONSTANTS
    MaxCmd,       \* bound: commands numbered between two resets
    MaxResets,    \* bound: resets of either end
    kMaxWaitRtt,  \* CommandChannel::kMaxWaitRtt (3)
    TickMs,       \* length of a tick, in ms
    Rtts,         \* values of BandwidthController::rtt, in ms (0: no sample)
    MaxAge,       \* bound: ages are counted up to here, in ticks
    Lite          \* lite mode: one thread at the receiving end

ASSUME CommandAssumption ==
    /\ MaxCmd \in Nat \ {0}
    /\ MaxResets \in Nat
    /\ kMaxWaitRtt \in Nat
    /\ TickMs \in Nat \ {0}
    /\ Rtts \subseteq Nat
    /\ Rtts # {}
    /\ MaxAge \in Nat

ASSUME LiteAssumption == Lite \in BOOLEAN

VARIABLES
    cmd_seq_out,        \* sender: m_cmd_seq_out
    wire,               \* sequences of Command packets in flight
    cmd_next_expected,  \* m_cmd_next_expected; 0 while not m_cmd_initialized
    cmd_held,           \* m_cmd_held: sequence -> ticks it has been held
    cmd_gap,            \* ticks since m_cmd_gap_since
    rtt,                \* the RTT estimate of the receiving end
    ready,              \* thread -> commands collected and not yet fired
    collected,          \* history: commands collected in this session
    delivered,          \* history: commands fired in this session
    resets              \* resets so far, of both ends

vars == <<cmd_seq_out, wire, cmd_next_expected, cmd_held, cmd_gap, rtt, ready,
          collected, delivered, resets>>

Cmds == 1..MaxCmd
Threads == {"receiver", "reactor"}
cmd_initialized == cmd_next_expected # 0

(* The reorder wait of expire_locked, in ms.                               *)
Wait == kMaxWaitRtt * (IF rtt > 0 THEN rtt ELSE 10)
Older(age) == IF age < MaxAge THEN age + 1 ELSE age

(* A thread handles the next packet or timer once it has fired what it     *)
(* collected before.                                                       *)
Idle(t) == \A u \in Threads : (u = t \/ Lite) => ready[u] = {}

Init ==
    /\ cmd_seq_out = 1
    /\ wire = {}
    /\ cmd_next_expected = 0
    /\ cmd_held = Empty
    /\ cmd_gap = 0
    /\ rtt \in Rtts
    /\ ready = [t \in Threads |-> {}]
    /\ collected = {}
    /\ delivered = {}
    /\ resets = 0

(* send_command: the packet enters the network or is lost.                 *)
SendCommand ==
    /\ cmd_seq_out \in Cmds
    /\ cmd_seq_out' = cmd_seq_out + 1
    /\ wire' \in {wire, wire \cup {cmd_seq_out}}
    /\ UNCHANGED <<cmd_next_expected, cmd_held, cmd_gap, rtt, ready, collected,
                   delivered, resets>>

Collect(t, out) ==
    /\ ready' = [ready EXCEPT ![t] = @ \cup out]
    /\ collected' = collected \cup out

-----------------------------------------------------------------------------
(* expire_locked, from the held map h and the gap's age g.                 *)
Expired(h, g) == DOMAIN h # {} /\ g * TickMs >= Wait

Expire(t, h, g) ==
    \E low \in DOMAIN h, m \in Cmds \cup {MaxCmd + 1} :
        /\ \A k \in DOMAIN h : low <= k
        /\ IsCursor(m, low, DOMAIN h)
        /\ cmd_next_expected' = m
        /\ cmd_held' = Without(h, low..(m - 1))
        /\ cmd_gap' = IF DOMAIN cmd_held' = {} THEN g ELSE 0
        /\ Collect(t, low..(m - 1))

(* Mutants: the held run is not drained; the cursor moves once too often.  *)
UndrainedInOrder(s) ==
    /\ cmd_next_expected' = s + 1
    /\ Collect("receiver", {s})
    /\ UNCHANGED <<cmd_held, cmd_gap>>

TwiceCountedInOrder(s) ==
    \E m \in Cmds \cup {MaxCmd + 1} :
        /\ IsCursor(m, s + 1, DOMAIN cmd_held)
        /\ cmd_next_expected' = m + 1
        /\ cmd_held' = Without(cmd_held, s..(m - 1))
        /\ Collect("receiver", s..(m - 1))
        /\ UNCHANGED cmd_gap

(* CommandChannel::handle, by the position of the packet's sequence s      *)
(* against the expected one n.                                             *)
InOrder(s) ==
    \E m \in Cmds \cup {MaxCmd + 1} :
        /\ IsCursor(m, s + 1, DOMAIN cmd_held)
        /\ cmd_next_expected' = m
        /\ cmd_held' = Without(cmd_held, s..(m - 1))
        /\ Collect("receiver", s..(m - 1))
        /\ UNCHANGED cmd_gap

(* Mutant: each early packet, a duplicate too, restarts the wait.          *)
RestartingHold(s) ==
    /\ cmd_held' = IF s \in DOMAIN cmd_held THEN cmd_held ELSE With(cmd_held, s, 0)
    /\ cmd_gap' = 0
    /\ UNCHANGED <<cmd_next_expected, ready, collected>>

Hold(s) ==
    LET h == IF s \in DOMAIN cmd_held THEN cmd_held ELSE With(cmd_held, s, 0)
        g == IF DOMAIN cmd_held = {} THEN 0 ELSE cmd_gap
    IN  IF Expired(h, g)
        THEN Expire("receiver", h, g)
        ELSE /\ cmd_held' = h
             /\ cmd_gap' = g
             /\ UNCHANGED <<cmd_next_expected, ready, collected>>

(* Mutant: a late command is delivered.                                    *)
DeliveredLate(s) ==
    Collect("receiver", {s}) /\ UNCHANGED <<cmd_next_expected, cmd_held, cmd_gap>>

Drop(s) ==
    UNCHANGED <<cmd_next_expected, cmd_held, cmd_gap, ready, collected>>

Handle(s) ==
    /\ Idle("receiver")
    /\ wire' \in {wire, wire \ {s}}
    /\ LET n == IF cmd_initialized THEN cmd_next_expected ELSE s
       IN  \/ s < n /\ Drop(s)
           \/ s = n /\ InOrder(s)
           \/ s > n /\ Hold(s)
    /\ UNCHANGED <<cmd_seq_out, rtt, delivered, resets>>

(* flush_commands on the reactor.                                          *)
FlushExpired ==
    /\ Idle("reactor")
    /\ Expired(cmd_held, cmd_gap)
    /\ Expire("reactor", cmd_held, cmd_gap)
    /\ UNCHANGED <<cmd_seq_out, wire, rtt, delivered, resets>>

(* fire_command for the lowest command the thread has collected.           *)
Fire(t) ==
    \E s \in ready[t] :
        /\ \A k \in ready[t] : s <= k
        /\ ready' = [ready EXCEPT ![t] = @ \ {s}]
        /\ delivered' = delivered \cup {s}
        /\ UNCHANGED <<cmd_seq_out, wire, cmd_next_expected, cmd_held, cmd_gap,
                       rtt, collected, resets>>

-----------------------------------------------------------------------------
(* CommandChannel::reset at the sending and at the receiving end, on a     *)
(* Handshake or HandshakeAck that end handles.                             *)
ResetSender ==
    /\ resets < MaxResets
    /\ resets' = resets + 1
    /\ cmd_seq_out' = 1
    /\ UNCHANGED <<wire, cmd_next_expected, cmd_held, cmd_gap, rtt, ready,
                   collected, delivered>>

ResetReceiver ==
    /\ Idle("receiver")
    /\ resets < MaxResets
    /\ resets' = resets + 1
    /\ cmd_next_expected' = 0
    /\ cmd_held' = Empty
    /\ cmd_gap' = 0
    /\ collected' = {}
    /\ delivered' = {}
    /\ UNCHANGED <<cmd_seq_out, wire, rtt, ready>>

(* The bandwidth controller's RTT estimate moves.                          *)
RttSample ==
    /\ rtt' \in Rtts \ {rtt}
    /\ UNCHANGED <<cmd_seq_out, wire, cmd_next_expected, cmd_held, cmd_gap, ready,
                   collected, delivered, resets>>

(* Time passes; the reactor flushes every 10 ms, so an expired gap is      *)
(* skipped before the clock moves on.                                      *)
Tick ==
    /\ ~Expired(cmd_held, cmd_gap)
    /\ cmd_gap' = Older(cmd_gap)
    /\ cmd_held' = [s \in DOMAIN cmd_held |-> Older(cmd_held[s])]
    /\ UNCHANGED <<cmd_seq_out, wire, cmd_next_expected, rtt, ready, collected,
                   delivered, resets>>

Next ==
    \/ SendCommand
    \/ \E s \in wire : Handle(s)
    \/ FlushExpired
    \/ \E t \in Threads : Fire(t)
    \/ ResetSender
    \/ ResetReceiver
    \/ RttSample
    \/ Tick

Spec == Init /\ [][Next]_vars

(* The reactor keeps turning, so the clock advances or the expired gap is  *)
(* flushed, and callbacks return.                                          *)
FairSpec ==
    /\ Spec
    /\ WF_vars(Tick \/ FlushExpired)
    /\ \A t \in Threads : WF_vars(Fire(t))

-----------------------------------------------------------------------------
(* The Peer fields of the command channel have their declared types.       *)
TypeOK ==
    /\ cmd_seq_out \in 1..(MaxCmd + 1)
    /\ wire \subseteq Cmds
    /\ cmd_next_expected \in 0..(MaxCmd + 1)
    /\ DOMAIN cmd_held \subseteq Cmds
    /\ cmd_held \in [DOMAIN cmd_held -> Nat]
    /\ cmd_gap \in Nat
    /\ rtt \in Rtts
    /\ ready \in [Threads -> SUBSET Cmds]
    /\ collected \subseteq Cmds
    /\ delivered \subseteq Cmds
    /\ resets \in 0..MaxResets

(* Between two resets the channel hands commands over in sequence order    *)
(* and none twice (command.hpp:8), however packets are lost, duplicated,   *)
(* reordered or left over from an earlier session, and whichever thread    *)
(* collects them: it implements OrderedDelivery.                           *)
Abstract == INSTANCE OrderedDelivery WITH log <- collected
ImplementsOrderedDelivery == Abstract!Spec

(* The application sees the commands in order: each callback fires for a   *)
(* later command than every callback before it in the session.             *)
FiredInOrder ==
    [][\A s \in delivered' \ delivered : \A k \in delivered : k < s]_vars

(* A held command is waiting for an earlier one: everything held lies      *)
(* strictly beyond the expected sequence, and everything handed over lies  *)
(* before it (drain_locked leaves no deliverable command behind).          *)
HeldAhead ==
    /\ \A s \in DOMAIN cmd_held : cmd_initialized /\ s > cmd_next_expected
    /\ \A s \in collected : s < cmd_next_expected

(* Once resets have stopped, a held command is eventually fired, even if   *)
(* nothing arrives any more.                                               *)
HeldDelivered ==
    \A s \in Cmds : resets = MaxResets /\ s \in DOMAIN cmd_held ~> s \in delivered

(* command.hpp:8, an early command is held for at most 3 RTT.              *)
HeldAtMostWait == \A s \in DOMAIN cmd_held : cmd_held[s] * TickMs <= Wait

=============================================================================
