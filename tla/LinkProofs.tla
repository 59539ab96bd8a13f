------------------------------ MODULE LinkProofs ------------------------------
(***************************************************************************)
(* What holds of a link for any bounds, tokens, modes, losses and outages. *)
(***************************************************************************)
EXTENDS Link, SequenceFacts

\* The packets of a sequence.
Elements(s) == {s[i] : i \in DOMAIN s}

InFlight(e) == Elements(net[e])
Agree(e) == token[e] = token[Other(e)]
Down(e) == state[e] \in {"off", "none"}

\* A process has a key pair, which its packets carry; a process without a peer
\* record has no session key and nothing to time out.
ProcessInv ==
    \A e \in Ends : /\ Running(e) => epoch[e] # 0
                    /\ Down(e) => key[e] = 0 /\ ~reconnect[e] /\ reactor[e] = "idle"
                    /\ \A p \in InFlight(e) : p.key # 0

\* The two packets whose handlers check no token are only ever on their way
\* between ends whose tokens agree.
TokenInv ==
    \A e \in Ends :
        /\ state[e] \in Alive => Agree(e)
        /\ \A p \in InFlight(e) : p.type \in {"HandshakeAck", "Online"} => Agree(e)

OneConnector == exits = 0 /\ Connectors # Ends

\* A HandshakeAck comes from an end that has its key, and so does an Online go
\* to one; before the one end that calls connect() has done so, no record is
\* there that it could replace.
KeyInv ==
    OneConnector =>
        \A e \in Ends :
            /\ state[e] \in Alive => key[e] # 0
            /\ \A p \in InFlight(e) : /\ p.type = "Online" => key[e] # 0
                                      /\ p.type = "HandshakeAck" => key[Other(e)] # 0
            /\ e \in Connectors /\ ~reconnect[e] =>
                  \A f \in Ends : Down(f) /\ InFlight(f) = {}

\* In lite mode a thread that is about to fire an event has set the state it
\* tells of, and no other step of that end comes in between.
EventInv ==
    lite => \A e \in Ends :
        /\ reactor[e] = "idle" \/ firing[e] = "none"
        /\ firing[e] # "none" => state[e] = firing[e]
        /\ reactor[e] \in {"clearing", "closed", "fired"} => state[e] = "Closed"
        /\ reactor[e] = "fired" => told[e] = "Closed"

Clash(p, q) == p.type \in Reliable /\ q.type \in Reliable /\ p.seq = q.seq

\* No number is on two reliable packets of s.
Distinct(s) == \A i, j \in DOMAIN s : Clash(s[i], s[j]) => i = j

\* What e has numbered and not lost has numbers of its own below the counter,
\* and an Ack on its way to e names none of it.
NumbersAt(e) ==
    /\ Distinct(net[e])
    /\ \A p \in InFlight(Other(e)) : p.type \in Reliable => p.seq < sequence_out[e]
    /\ \A p \in InFlight(e) : p.type = "Ack" =>
          /\ p.seq < sequence_out[e]
          /\ \A q \in InFlight(Other(e)) : q.type \in Reliable => q.seq # p.seq

\* A replaced record or process starts to number from 1 again.
NumberInv == OneConnector => \A e \in Ends : NumbersAt(e)

IInv == /\ TypeOK /\ ProcessInv /\ TokenInv /\ KeyInv /\ NumberInv
        /\ EventInv /\ EventsReflectState

LEMMA TwoEnds ==
    ASSUME NEW e \in Ends
    PROVE  /\ Other(e) \in Ends /\ Other(e) # e
           /\ Ends = {e, Other(e)} /\ Other(Other(e)) = e
<1>1. PICK a, b \in Ends : a # b /\ Ends = {a, b}
  BY LinkAssumption, Zenon
<1>2. Other(e) \in Ends /\ Other(e) # e
  BY <1>1, Zenon DEF Other
<1>3. Other(Other(e)) \in Ends /\ Other(Other(e)) # Other(e)
  BY <1>1, <1>2, Zenon DEF Other
<1> QED
  BY <1>1, <1>2, <1>3, Zenon

-----------------------------------------------------------------------------
(***************************************************************************)
(* Sequences of packets                                                    *)
(***************************************************************************)

LEMMA ConcatElements ==
    ASSUME NEW S, NEW s \in Seq(S), NEW t \in Seq(S)
    PROVE  s \o t \in Seq(S) /\ Elements(s \o t) = Elements(s) \cup Elements(t)
<1>1. /\ s \o t \in Seq(S) /\ Len(s \o t) = Len(s) + Len(t)
      /\ \A i \in 1..(Len(s) + Len(t)) :
            (s \o t)[i] = IF i <= Len(s) THEN s[i] ELSE t[i - Len(s)]
  BY ConcatFacts, Zenon
<1>2. /\ Len(s) \in Nat /\ Len(t) \in Nat
      /\ DOMAIN s = 1..Len(s) /\ DOMAIN t = 1..Len(t)
      /\ DOMAIN (s \o t) = 1..(Len(s) + Len(t))
  BY <1>1, LenFacts, Zenon
<1>3. Elements(s \o t) \subseteq Elements(s) \cup Elements(t)
  <2> SUFFICES ASSUME NEW i \in 1..(Len(s) + Len(t))
               PROVE  (s \o t)[i] \in Elements(s) \cup Elements(t)
    BY <1>2, Zenon DEF Elements
  <2>1. CASE i <= Len(s)
    BY <1>1, <1>2, <2>1 DEF Elements
  <2>2. CASE i > Len(s)
    <3>1. i - Len(s) \in DOMAIN t /\ (s \o t)[i] = t[i - Len(s)]
      BY <1>1, <1>2, <2>2
    <3> QED
      BY <3>1, Zenon DEF Elements
  <2> QED
    BY <1>2, <2>1, <2>2
<1>4. Elements(s) \subseteq Elements(s \o t)
  <2> SUFFICES ASSUME NEW i \in 1..Len(s)
               PROVE  s[i] \in Elements(s \o t)
    BY <1>2, Zenon DEF Elements
  <2>1. i \in DOMAIN (s \o t) /\ (s \o t)[i] = s[i]
    BY <1>1, <1>2
  <2> QED
    BY <2>1, Zenon DEF Elements
<1>5. Elements(t) \subseteq Elements(s \o t)
  <2> SUFFICES ASSUME NEW i \in 1..Len(t)
               PROVE  t[i] \in Elements(s \o t)
    BY <1>2, Zenon DEF Elements
  <2>1. i + Len(s) \in DOMAIN (s \o t) /\ (s \o t)[i + Len(s)] = t[i]
    BY <1>1, <1>2
  <2> QED
    BY <2>1, Zenon DEF Elements
<1> QED
  BY <1>1, <1>3, <1>4, <1>5, Zenon

LEMMA DropElements ==
    ASSUME NEW S, NEW s \in Seq(S), NEW i \in DOMAIN s
    PROVE  Drop(s, i) \in Seq(S) /\ Elements(Drop(s, i)) \subseteq Elements(s)
<1>1. Len(s) \in Nat /\ DOMAIN s = 1..Len(s) /\ \A j \in 1..Len(s) : s[j] \in Elements(s)
  BY LenFacts, Zenon DEF Elements
<1>2. SubSeq(s, 1, i - 1) \in Seq(Elements(s))
  <2>1. 1 \in Int /\ i - 1 \in Int /\ \A j \in 1..(i - 1) : s[j] \in Elements(s)
    BY <1>1
  <2> QED
    BY <2>1, SubSeqFacts, Zenon
<1>3. SubSeq(s, i + 1, Len(s)) \in Seq(Elements(s))
  <2>1. i + 1 \in Int /\ Len(s) \in Int /\ \A j \in (i + 1)..Len(s) : s[j] \in Elements(s)
    BY <1>1
  <2> QED
    BY <2>1, SubSeqFacts, Zenon
<1>4. Drop(s, i) \in Seq(Elements(s))
  BY <1>2, <1>3, ConcatFacts, Zenon DEF Drop
<1>5. Elements(s) \subseteq S
  BY <1>1, LenFacts DEF Elements
<1> QED
  BY <1>4, <1>5, LargerSeq, LenFacts DEF Elements

\* What e puts on the network.
LEMMA QueuedElements ==
    ASSUME TypeOK, NEW e \in Ends, NEW ps \in Seq(Packets)
    PROVE  /\ Queued(e, ps) \in Seq(Packets)
           /\ Elements(Queued(e, ps)) \subseteq InFlight(Other(e)) \cup Elements(ps)
<1>1. net[Other(e)] \in Seq(Packets)
  BY TwoEnds, Zenon DEF TypeOK
<1>2. << >> \in Seq(Packets) /\ Elements(<< >>) = {}
  BY EmptyFacts DEF Elements
<1>3. CASE up
  BY <1>1, <1>3, ConcatElements DEF Queued, InFlight
<1>4. CASE ~up
  BY <1>1, <1>2, <1>4, ConcatElements DEF Queued, InFlight
<1> QED
  BY <1>3, <1>4, Zenon

LEMMA NumberedElements ==
    ASSUME TypeOK, NEW e \in Ends, NEW n \in 1..MaxSeq, NEW ts \in Seq(Types),
           n + Len(ts) <= MaxSeq + 1
    PROVE  /\ Numbered(e, n, ts) \in Seq(Packets)
           /\ \A p \in Elements(Numbered(e, n, ts)) :
                 p.key = epoch[e] /\ p.type \in Elements(ts)
<1>1. Len(ts) \in Nat /\ DOMAIN ts = 1..Len(ts) /\ \A i \in 1..Len(ts) : ts[i] \in Types
  BY LenFacts, Zenon
<1>2. MaxSeq \in Nat /\ epoch[e] \in 0..MaxEpoch
  BY LinkAssumption, Zenon DEF TypeOK
<1>3. ASSUME NEW i \in 1..Len(ts)
      PROVE  /\ Packet(e, ts[i], n + i - 1) \in Packets
             /\ Packet(e, ts[i], n + i - 1).key = epoch[e]
             /\ Packet(e, ts[i], n + i - 1).type = ts[i]
  BY <1>1, <1>2 DEF Packet, Packets
<1>4. Numbered(e, n, ts) \in [1..Len(ts) -> Packets]
  BY <1>1, <1>3, Zenon DEF Numbered
<1>5. Numbered(e, n, ts) \in Seq(Packets)
  BY <1>1, <1>4
<1> QED
  BY <1>1, <1>3, <1>5, Zenon DEF Numbered, Elements

LEMMA RememberTypes ==
    ASSUME TypeOK, NEW e \in Ends, NEW n \in 1..(MaxSeq + 1), NEW kept \in SUBSET (1..(n - 1)),
           NEW ts \in Seq(Types), ts # << >>, Remember(e, n, kept, ts)
    PROVE  /\ n \in 1..MaxSeq /\ n + Len(ts) <= MaxSeq + 1
           /\ sequence_out' \in [Ends -> 1..(MaxSeq + 1)]
           /\ pending' \in [Ends -> SUBSET (1..MaxSeq)]
           /\ \A f \in Ends : \A s \in pending'[f] : s < sequence_out'[f]
<1>1. Len(ts) \in Nat \ {0} /\ MaxSeq \in Nat
  BY TailFacts, LinkAssumption, Zenon
<1>2. n \in 1..MaxSeq /\ n + Len(ts) <= MaxSeq + 1
  BY <1>1 DEF Remember
<1>3. /\ sequence_out'[e] = n + Len(ts)
      /\ pending'[e] = kept \cup (n..(n + Len(ts) - 1))
      /\ \A f \in Ends \ {e} : sequence_out'[f] = sequence_out[f] /\ pending'[f] = pending[f]
      /\ sequence_out' \in [Ends -> 1..(MaxSeq + 1)]
  BY <1>1, <1>2 DEF Remember, TypeOK
<1> DEFINE last == n + Len(ts) - 1
<1>4. kept \cup (n..last) \in SUBSET (1..MaxSeq)
  <2>1. last \in Int /\ last <= MaxSeq /\ n \in Int /\ 1 <= n
    BY <1>1, <1>2
  <2>2. ASSUME NEW s \in kept PROVE s \in 1..MaxSeq
    BY <1>1, <1>2
  <2>3. ASSUME NEW s \in n..last PROVE s \in 1..MaxSeq
    BY <1>1, <2>1
  <2> QED
    BY <2>2, <2>3, Zenon
<1>5. pending' \in [Ends -> SUBSET (1..MaxSeq)]
  BY <1>4, Zenon DEF Remember, TypeOK
<1>6. ASSUME NEW f \in Ends, NEW s \in pending'[f]
      PROVE  s < sequence_out'[f]
  <2>1. CASE f = e
    <3>1. s \in kept \/ s \in n..last
      BY <1>3, <2>1, Zenon
    <3>2. sequence_out'[f] = n + Len(ts)
      BY <1>3, <2>1, Zenon
    <3>3. ASSUME s \in 1..(n - 1) PROVE s < n + Len(ts)
      BY <1>1, <1>2, <3>3
    <3>4. ASSUME s \in n..last PROVE s < n + Len(ts)
      BY <1>1, <1>2, <3>4
    <3> QED
      BY <3>1, <3>2, <3>3, <3>4, Zenon
  <2>2. CASE f # e
    BY <1>3, <2>2, Zenon DEF TypeOK
  <2> QED
    BY <2>1, <2>2, Zenon
<1> QED
  BY <1>2, <1>3, <1>5, <1>6, Zenon

\* A packet with a number of its own is one of a few short runs.
LEMMA ControlRuns ==
    /\ \A t \in Types : <<t>> \in Seq(Types) /\ <<t>> # << >> /\ Elements(<<t>>) = {t}
    /\ \A e \in Ends : /\ Answer(e) \in Seq(Types) /\ Answer(e) # << >>
                       /\ Elements(Answer(e)) \subseteq {"Handshake", "HandshakeAck"}
<1>1. ASSUME NEW t \in Types
      PROVE  <<t>> \in Seq(Types) /\ <<t>> # << >> /\ Elements(<<t>>) = {t}
  <2>1. <<t>> \in Seq(Types) /\ DOMAIN <<t>> = {1} /\ <<t>>[1] = t
    OBVIOUS
  <2>2. <<t>> # << >>
    BY Zenon
  <2> QED
    BY <2>1, <2>2, Zenon DEF Elements
<1>2. ASSUME NEW e \in Ends
      PROVE  /\ Answer(e) \in Seq(Types) /\ Answer(e) # << >>
             /\ Elements(Answer(e)) \subseteq {"Handshake", "HandshakeAck"}
  <2>1. CASE reconnect[e]
    <3>1. Answer(e) = <<"HandshakeAck">> /\ "HandshakeAck" \in Types
      BY <2>1, Zenon DEF Answer, Types, Reliable
    <3> QED
      BY <1>1, <3>1, Zenon
  <2>2. CASE ~reconnect[e]
    <3> DEFINE a == <<"Handshake", "HandshakeAck">>
    <3>1. Answer(e) = a /\ {"Handshake", "HandshakeAck"} \subseteq Types
      BY <2>2, Zenon DEF Answer, Types, Reliable
    <3>2. a # << >> /\ DOMAIN a = {1, 2} /\ a[1] = "Handshake" /\ a[2] = "HandshakeAck"
      OBVIOUS
    <3>3. a \in Seq(Types)
      BY <3>1
    <3> QED
      BY <3>1, <3>2, <3>3, Zenon DEF Elements
  <2> QED
    BY <2>1, <2>2, Zenon
<1> QED
  BY <1>1, <1>2, Zenon

LEMMA AckElements ==
    ASSUME TypeOK, NEW e \in Ends, NEW i \in DOMAIN net[e]
    PROVE  /\ net[e][i] \in Packets /\ net[e][i] \in InFlight(e)
           /\ SendAckPacket(e, net[e][i]) \in Seq(Packets)
           /\ \A p \in Elements(SendAckPacket(e, net[e][i])) :
                 p.key = epoch[e] /\ p.type = "Ack"
<1>1. net[e] \in Seq(Packets) /\ epoch[e] \in 0..MaxEpoch
  BY Zenon DEF TypeOK
<1>2. net[e][i] \in Packets /\ net[e][i] \in InFlight(e)
  BY <1>1, LenFacts, Zenon DEF InFlight, Elements
<1>3. Packet(e, "Ack", net[e][i].seq) \in Packets
  BY <1>1, <1>2, Zenon DEF Packet, Packets, Types
<1> QED
  BY <1>2, <1>3 DEF SendAckPacket, Elements, Packet

LEMMA SendNet ==
    ASSUME TypeOK, NEW e \in Ends, NEW ps \in Seq(Packets), Send(e, ps)
    PROVE  /\ net' \in [Ends -> Seq(Packets)]
           /\ InFlight(e)' = InFlight(e)
           /\ InFlight(Other(e))' \subseteq InFlight(Other(e)) \cup Elements(ps)
<1>1. Other(e) \in Ends /\ Other(e) # e /\ net \in [Ends -> Seq(Packets)]
  BY TwoEnds, Zenon DEF TypeOK
<1>2. net'[e] = net[e] /\ net'[Other(e)] = Queued(e, ps)
  BY <1>1, Zenon DEF Send
<1>3. net' \in [Ends -> Seq(Packets)]
  BY <1>1, QueuedElements, Zenon DEF Send
<1> QED
  BY <1>2, <1>3, QueuedElements, Zenon DEF InFlight

LEMMA TakeNet ==
    ASSUME TypeOK, NEW e \in Ends, NEW i \in DOMAIN net[e], NEW out \in Seq(Packets),
           Take(e, i, out)
    PROVE  /\ net' \in [Ends -> Seq(Packets)]
           /\ InFlight(e)' \subseteq InFlight(e)
           /\ \A p \in InFlight(Other(e))' :
                 \/ p \in InFlight(Other(e))
                 \/ p \in Elements(out)
                 \/ p.key = epoch[e] /\ p.type = "Ack"
<1> DEFINE acks == SendAckPacket(e, net[e][i])
<1>1. Other(e) \in Ends /\ Other(e) # e /\ net \in [Ends -> Seq(Packets)]
  BY TwoEnds, Zenon DEF TypeOK
<1>2. /\ acks \in Seq(Packets)
      /\ \A p \in Elements(acks) : p.key = epoch[e] /\ p.type = "Ack"
  BY AckElements, Zenon
<1>3. /\ out \o acks \in Seq(Packets)
      /\ Elements(out \o acks) = Elements(out) \cup Elements(acks)
  BY <1>2, ConcatElements
<1>4. /\ Queued(e, out \o acks) \in Seq(Packets)
      /\ Elements(Queued(e, out \o acks))
            \subseteq InFlight(Other(e)) \cup Elements(out) \cup Elements(acks)
  <2> HIDE DEF acks
  <2> QED
    BY <1>3, QueuedElements, Zenon
<1>5. Drop(net[e], i) \in Seq(Packets) /\ Elements(Drop(net[e], i)) \subseteq InFlight(e)
  BY <1>1, DropElements, Zenon DEF InFlight
<1>6. net' = [net EXCEPT ![e] = Drop(net[e], i), ![Other(e)] = Queued(e, out \o acks)]
  BY <1>1, Zenon DEF Take
<1> HIDE DEF acks
<1>7. net'[e] = Drop(net[e], i) /\ net'[Other(e)] = Queued(e, out \o acks)
  BY <1>1, <1>6, Zenon
<1>8. net' \in [Ends -> Seq(Packets)]
  BY <1>1, <1>4, <1>5, <1>6, Zenon
<1> QED
  BY <1>2, <1>4, <1>5, <1>7, <1>8, Zenon DEF InFlight

-----------------------------------------------------------------------------
(***************************************************************************)
(* Types                                                                   *)
(***************************************************************************)

\* What a handler may change, and what it leaves on the network: only the
\* HandshakeAck of a Handshake that was accepted and the Online that answers
\* a HandshakeAck are packets whose handlers trust them.
HandlerResult(e, i) ==
    LET m == net[e][i]
    IN  /\ state' \in [Ends -> LinkStates \cup {"off", "none"}]
        /\ firing' \in [Ends -> {"none"} \cup LinkStates]
        /\ key' \in [Ends -> 0..MaxEpoch]
        /\ sequence_out' \in [Ends -> 1..(MaxSeq + 1)]
        /\ pending' \in [Ends -> SUBSET (1..MaxSeq)]
        /\ \A f \in Ends : \A s \in pending'[f] : s < sequence_out'[f]
        /\ net' \in [Ends -> Seq(Packets)]
        /\ \A f \in Ends \ {e} :
              state'[f] = state[f] /\ firing'[f] = firing[f] /\ key'[f] = key[f]
        /\ \/ state'[e] = state[e] /\ firing'[e] = firing[e]
           \/ state'[e] \in LinkStates /\ firing'[e] = state'[e]
        /\ key'[e] = key[e] \/ key'[e] = m.key
        /\ state'[e] \in Alive =>
              \/ state[e] \in Alive
              \/ m.type = "Handshake" /\ Agree(e) /\ key'[e] = m.key
              \/ m.type = "HandshakeAck" /\ key'[e] = m.key
              \/ m.type = "Online"
        /\ InFlight(e)' \subseteq InFlight(e)
        /\ \A p \in InFlight(Other(e))' :
              \/ p \in InFlight(Other(e))
              \/ /\ p.key = epoch[e]
                 /\ p.type = "HandshakeAck" => Agree(e) /\ key'[e] = m.key
                 /\ p.type = "Online" => m.type = "HandshakeAck"

LEMMA BecomesTypes ==
    ASSUME TypeOK, NEW e \in Ends, NEW s \in LinkStates, Becomes(e, s)
    PROVE  /\ state' \in [Ends -> LinkStates \cup {"off", "none"}]
           /\ firing' \in [Ends -> {"none"} \cup LinkStates]
           /\ state'[e] = s /\ firing'[e] = s
           /\ \A f \in Ends \ {e} : state'[f] = state[f] /\ firing'[f] = firing[f]
BY Zenon DEF Becomes, TypeOK

LEMMA DeriveTypes ==
    ASSUME TypeOK, NEW e \in Ends, NEW m \in Packets, DeriveSessionKey(e, m)
    PROVE  /\ key' \in [Ends -> 0..MaxEpoch] /\ key'[e] = m.key
           /\ \A f \in Ends \ {e} : key'[f] = key[f]
BY Zenon DEF DeriveSessionKey, TypeOK, Packets

\* send_control and the packets that go with it.
LEMMA ControlTypes ==
    ASSUME TypeOK, NEW e \in Ends, NEW ts \in Seq(Types), ts # << >>, SendControl(e, ts)
    PROVE  /\ sequence_out' \in [Ends -> 1..(MaxSeq + 1)]
           /\ pending' \in [Ends -> SUBSET (1..MaxSeq)]
           /\ \A f \in Ends : \A s \in pending'[f] : s < sequence_out'[f]
           /\ Numbered(e, sequence_out[e], ts) \in Seq(Packets)
           /\ \A p \in Elements(Numbered(e, sequence_out[e], ts)) :
                 p.key = epoch[e] /\ p.type \in Elements(ts)
<1>1. MaxSeq \in Nat /\ sequence_out[e] \in 1..(MaxSeq + 1)
  BY LinkAssumption, Zenon DEF TypeOK
<1>2. pending[e] \in SUBSET (1..(sequence_out[e] - 1))
  BY <1>1 DEF TypeOK
<1>3. Remember(e, sequence_out[e], pending[e], ts)
  BY Zenon DEF SendControl
<1>4. /\ sequence_out[e] \in 1..MaxSeq /\ sequence_out[e] + Len(ts) <= MaxSeq + 1
      /\ sequence_out' \in [Ends -> 1..(MaxSeq + 1)]
      /\ pending' \in [Ends -> SUBSET (1..MaxSeq)]
      /\ \A f \in Ends : \A s \in pending'[f] : s < sequence_out'[f]
  BY <1>1, <1>2, <1>3, RememberTypes, Zenon
<1> QED
  BY <1>4, NumberedElements, Zenon

LEMMA HandleResult ==
    ASSUME TypeOK, NEW e \in Ends, NEW i \in DOMAIN net[e], Handle(e, i)
    PROVE  HandlerResult(e, i)
<1> DEFINE m == net[e][i]
<1>1. m \in Packets /\ m \in InFlight(e)
  BY AckElements, Zenon
<1>2. << >> \in Seq(Packets) /\ Elements(<< >>) = {}
  BY EmptyFacts DEF Elements
<1>3. {"Established", "Online", "Closed"} \subseteq LinkStates
  BY Zenon DEF LinkStates
<1>4. CASE HandleHandshake(e, i)
  <2>1. CASE token[Other(e)] # token[e]
    <3>1. Take(e, i, << >>) /\ UNCHANGED <<state, firing, key, sequence_out, pending>>
      BY <1>4, <2>1, Zenon DEF HandleHandshake
    <3> QED
      BY <1>2, <3>1, TakeNet, Zenon DEF HandlerResult, TypeOK
  <2>2. CASE token[Other(e)] = token[e]
    <3>1. /\ DeriveSessionKey(e, m) /\ SendControl(e, Answer(e))
          /\ Take(e, i, Numbered(e, sequence_out[e], Answer(e)))
          /\ m.type = "Handshake" /\ Agree(e)
      BY <1>4, <2>2, Zenon DEF HandleHandshake, Agree
    <3>2. /\ state' \in [Ends -> LinkStates \cup {"off", "none"}]
          /\ firing' \in [Ends -> {"none"} \cup LinkStates]
          /\ \A f \in Ends \ {e} : state'[f] = state[f] /\ firing'[f] = firing[f]
          /\ \/ state'[e] = state[e] /\ firing'[e] = firing[e]
             \/ state'[e] \in LinkStates /\ firing'[e] = state'[e]
      <4>1. CASE state[e] \in Alive
        BY <1>4, <2>2, <4>1, Zenon DEF HandleHandshake, TypeOK
      <4>2. CASE state[e] \notin Alive
        <5>1. Becomes(e, "Established")
          BY <1>4, <2>2, <4>2, Zenon DEF HandleHandshake
        <5> QED
          BY <1>3, <5>1, BecomesTypes, Zenon
      <4> QED
        BY <4>1, <4>2, Zenon
    <3>3. /\ key' \in [Ends -> 0..MaxEpoch] /\ key'[e] = m.key
          /\ \A f \in Ends \ {e} : key'[f] = key[f]
      BY <1>1, <3>1, DeriveTypes, Zenon
    <3>4. /\ sequence_out' \in [Ends -> 1..(MaxSeq + 1)]
          /\ pending' \in [Ends -> SUBSET (1..MaxSeq)]
          /\ \A f \in Ends : \A s \in pending'[f] : s < sequence_out'[f]
          /\ Numbered(e, sequence_out[e], Answer(e)) \in Seq(Packets)
          /\ \A p \in Elements(Numbered(e, sequence_out[e], Answer(e))) :
                 p.key = epoch[e] /\ p.type \in {"Handshake", "HandshakeAck"}
      BY <3>1, ControlRuns, ControlTypes, Zenon
    <3>5. /\ net' \in [Ends -> Seq(Packets)]
          /\ InFlight(e)' \subseteq InFlight(e)
          /\ \A p \in InFlight(Other(e))' :
                \/ p \in InFlight(Other(e))
                \/ p.key = epoch[e] /\ p.type \in {"Ack", "Handshake", "HandshakeAck"}
      BY <3>1, <3>4, TakeNet
    <3> QED
      BY <3>1, <3>2, <3>3, <3>4, <3>5, Zenon DEF HandlerResult
  <2> QED
    BY <2>1, <2>2, Zenon
<1>5. CASE HandleHandshakeAck(e, i)
  <2>1. m.type = "HandshakeAck" /\ DeriveSessionKey(e, m)
    BY <1>5, Zenon DEF HandleHandshakeAck
  <2>2. /\ key' \in [Ends -> 0..MaxEpoch] /\ key'[e] = m.key
        /\ \A f \in Ends \ {e} : key'[f] = key[f]
    BY <1>1, <2>1, DeriveTypes, Zenon
  <2>3. CASE state[e] \in {"Handshake", "Established"}
    <3>1. /\ SendControl(e, <<"Online">>) /\ Becomes(e, "Online")
          /\ Take(e, i, Numbered(e, sequence_out[e], <<"Online">>))
      BY <1>5, <2>3, Zenon DEF HandleHandshakeAck
    <3>2. "Online" \in Types
      BY Zenon DEF Types, Reliable
    <3>3. /\ sequence_out' \in [Ends -> 1..(MaxSeq + 1)]
          /\ pending' \in [Ends -> SUBSET (1..MaxSeq)]
          /\ \A f \in Ends : \A s \in pending'[f] : s < sequence_out'[f]
          /\ Numbered(e, sequence_out[e], <<"Online">>) \in Seq(Packets)
          /\ \A p \in Elements(Numbered(e, sequence_out[e], <<"Online">>)) :
                 p.key = epoch[e] /\ p.type = "Online"
      <4> DEFINE ts == <<"Online">>
      <4>1. ts \in Seq(Types) /\ ts # << >> /\ Elements(ts) = {"Online"}
        BY <3>2, ControlRuns, Zenon
      <4>2. SendControl(e, ts)
        BY <3>1, Zenon
      <4> HIDE DEF ts
      <4>3. /\ sequence_out' \in [Ends -> 1..(MaxSeq + 1)]
            /\ pending' \in [Ends -> SUBSET (1..MaxSeq)]
            /\ \A f \in Ends : \A s \in pending'[f] : s < sequence_out'[f]
            /\ Numbered(e, sequence_out[e], ts) \in Seq(Packets)
            /\ \A p \in Elements(Numbered(e, sequence_out[e], ts)) :
                 p.key = epoch[e] /\ p.type \in {"Online"}
        BY <4>1, <4>2, ControlTypes, Zenon
      <4> QED
        BY <4>3, Zenon DEF ts
    <3>4. /\ net' \in [Ends -> Seq(Packets)]
          /\ InFlight(e)' \subseteq InFlight(e)
          /\ \A p \in InFlight(Other(e))' :
                p \in InFlight(Other(e)) \/ (p.key = epoch[e] /\ p.type \in {"Ack", "Online"})
      BY <3>1, <3>3, TakeNet, Zenon
    <3>5. /\ state' \in [Ends -> LinkStates \cup {"off", "none"}]
          /\ firing' \in [Ends -> {"none"} \cup LinkStates]
          /\ state'[e] = "Online" /\ firing'[e] = "Online"
          /\ \A f \in Ends \ {e} : state'[f] = state[f] /\ firing'[f] = firing[f]
      BY <1>3, <3>1, BecomesTypes, Zenon
    <3> QED
      BY <1>3, <2>1, <2>2, <3>3, <3>4, <3>5, Zenon DEF HandlerResult
  <2>4. CASE state[e] \notin {"Handshake", "Established"}
    <3>1. Take(e, i, << >>) /\ UNCHANGED <<state, firing, sequence_out, pending>>
      BY <1>5, <2>4, Zenon DEF HandleHandshakeAck
    <3> QED
      BY <1>2, <2>1, <2>2, <3>1, TakeNet, ZenonT(60) DEF HandlerResult, TypeOK
  <2> QED
    BY <2>3, <2>4, Zenon
<1>6. CASE HandleOnline(e, i) \/ HandleBye(e, i)
  <2>1. /\ Take(e, i, << >>) /\ UNCHANGED <<key, sequence_out, pending>>
        /\ \/ UNCHANGED <<state, firing>>
           \/ Becomes(e, "Online") /\ m.type = "Online"
           \/ Becomes(e, "Closed")
    BY <1>6, Zenon DEF HandleOnline, HandleBye
  <2>2. /\ net' \in [Ends -> Seq(Packets)]
        /\ InFlight(e)' \subseteq InFlight(e)
        /\ \A p \in InFlight(Other(e))' :
              p \in InFlight(Other(e)) \/ (p.key = epoch[e] /\ p.type = "Ack")
    BY <1>2, <2>1, TakeNet, Zenon
  <2>3. CASE UNCHANGED <<state, firing>>
    BY <2>1, <2>2, <2>3, Zenon DEF HandlerResult, TypeOK
  <2>4. CASE Becomes(e, "Online") /\ m.type = "Online"
    <3>1. /\ state' \in [Ends -> LinkStates \cup {"off", "none"}]
          /\ firing' \in [Ends -> {"none"} \cup LinkStates]
          /\ state'[e] = "Online" /\ firing'[e] = "Online"
          /\ \A f \in Ends \ {e} : state'[f] = state[f] /\ firing'[f] = firing[f]
      BY <1>3, <2>4, BecomesTypes, Zenon
    <3> QED
      BY <1>3, <2>1, <2>2, <2>4, <3>1, Zenon DEF HandlerResult, TypeOK
  <2>5. CASE Becomes(e, "Closed")
    <3>1. /\ state' \in [Ends -> LinkStates \cup {"off", "none"}]
          /\ firing' \in [Ends -> {"none"} \cup LinkStates]
          /\ state'[e] = "Closed" /\ firing'[e] = "Closed"
          /\ \A f \in Ends \ {e} : state'[f] = state[f] /\ firing'[f] = firing[f]
      BY <1>3, <2>5, BecomesTypes, Zenon
    <3> QED
      BY <1>3, <2>1, <2>2, <3>1, Zenon DEF HandlerResult, TypeOK, Alive
  <2> QED
    BY <2>1, <2>3, <2>4, <2>5, Zenon
<1>7. CASE HandleHeartbeat(e, i)
  <2>1. Take(e, i, << >>) /\ UNCHANGED <<state, firing, key, sequence_out, pending>>
    BY <1>7, Zenon DEF HandleHeartbeat
  <2> QED
    BY <1>2, <2>1, TakeNet, Zenon DEF HandlerResult, TypeOK
<1>8. CASE HandleAck(e, i)
  <2>1. /\ Take(e, i, << >>) /\ UNCHANGED <<state, firing, key, sequence_out>>
        /\ pending' = [pending EXCEPT ![e] = @ \ {m.seq}]
    BY <1>8, Zenon DEF HandleAck
  <2>2. /\ pending' \in [Ends -> SUBSET (1..MaxSeq)]
        /\ \A f \in Ends : pending'[f] \subseteq pending[f]
    BY <2>1, Zenon DEF TypeOK
  <2>3. \A f \in Ends : \A s \in pending'[f] : s < sequence_out'[f]
    BY <2>1, <2>2, Zenon DEF TypeOK
  <2> QED
    BY <1>2, <2>1, <2>2, <2>3, TakeNet, Zenon DEF HandlerResult, TypeOK
<1> QED
  BY <1>4, <1>5, <1>6, <1>7, <1>8, Zenon DEF Handle

LEMMA InitTypes == Init => TypeOK
<1> SUFFICES ASSUME Init PROVE TypeOK
  BY Zenon
<1>1. /\ MaxSeq \in Nat \ {0} /\ MaxEpoch \in Nat \ {0} /\ DeadTicks \in Nat \ {0}
      /\ MaxLosses \in Nat /\ MaxOutages \in Nat /\ MaxExits \in Nat
  BY LinkAssumption, Zenon
<1>2. << >> \in Seq(Packets)
  BY EmptyFacts, Zenon
<1>3. /\ token \in Tokens /\ lite \in LiteModes
      /\ state \in [Ends -> LinkStates \cup {"off", "none"}]
      /\ reconnect \in [Ends -> BOOLEAN]
      /\ sequence_out \in [Ends -> 1..(MaxSeq + 1)]
      /\ pending \in [Ends -> SUBSET (1..MaxSeq)]
      /\ \A e \in Ends : \A s \in pending[e] : s < sequence_out[e]
  BY <1>1 DEF Init
<1>4. /\ epoch \in [Ends -> 0..MaxEpoch] /\ key \in [Ends -> 0..MaxEpoch]
      /\ quiet \in [Ends -> 0..DeadTicks] /\ due \in [Ends -> BOOLEAN]
  BY <1>1 DEF Init
<1>5. /\ reactor \in [Ends -> {"idle", "dead", "clearing", "closed", "fired"}]
      /\ firing \in [Ends -> {"none"} \cup LinkStates]
      /\ told \in [Ends -> {"none"} \cup LinkStates] /\ outdated \in [Ends -> BOOLEAN]
      /\ net \in [Ends -> Seq(Packets)]
      /\ up \in BOOLEAN
      /\ losses \in 0..MaxLosses /\ outages \in 0..MaxOutages /\ exits \in 0..MaxExits
  BY <1>1, <1>2 DEF Init
<1> QED
  BY <1>3, <1>4, <1>5, Zenon DEF TypeOK

LEMMA NewPeerTypes ==
    ASSUME TypeOK, NEW e \in Ends, NEW s \in LinkStates \cup {"off", "none"},
           NEW r \in BOOLEAN, NewPeer(e, s, r)
    PROVE  /\ state' \in [Ends -> LinkStates \cup {"off", "none"}] /\ state'[e] = s
           /\ reconnect' \in [Ends -> BOOLEAN] /\ reconnect'[e] = r
           /\ key' \in [Ends -> 0..MaxEpoch] /\ key'[e] = 0
           /\ \A f \in Ends \ {e} : /\ state'[f] = state[f] /\ reconnect'[f] = reconnect[f]
                                    /\ key'[f] = key[f]
<1>1. 0 \in 0..MaxEpoch
  BY LinkAssumption
<1> QED
  BY <1>1, Zenon DEF NewPeer, TypeOK

LEMMA TellTypes ==
    ASSUME TypeOK, NEW e \in Ends, NEW s \in {"none"} \cup LinkStates, Tell(e, s)
    PROVE  /\ told' \in [Ends -> {"none"} \cup LinkStates] /\ told'[e] = s
           /\ outdated' \in [Ends -> BOOLEAN] /\ outdated'[e] = FALSE
           /\ \A f \in Ends \ {e} : told'[f] = told[f] /\ outdated'[f] = outdated[f]
BY Zenon DEF Tell, TypeOK

\* connect() and send_handshakes: one Handshake with a number.
LEMMA HandshakeTypes ==
    ASSUME TypeOK, NEW e \in Ends,
           \/ SendHandshake(e)
           \/ Remember(e, 1, {}, <<"Handshake">>) /\ Send(e, Numbered(e, 1, <<"Handshake">>))
    PROVE  /\ sequence_out' \in [Ends -> 1..(MaxSeq + 1)]
           /\ pending' \in [Ends -> SUBSET (1..MaxSeq)]
           /\ \A f \in Ends : \A s \in pending'[f] : s < sequence_out'[f]
           /\ net' \in [Ends -> Seq(Packets)]
           /\ InFlight(e)' = InFlight(e)
           /\ \A p \in InFlight(Other(e))' :
                 p \in InFlight(Other(e)) \/ (p.key = epoch[e] /\ p.type = "Handshake")
<1> DEFINE ts == <<"Handshake">>
<1>1. ts \in Seq(Types) /\ ts # << >> /\ Elements(ts) = {"Handshake"}
  <2>1. "Handshake" \in Types
    BY Zenon DEF Types, Reliable
  <2> QED
    BY <2>1, ControlRuns, Zenon
<1> HIDE DEF ts
<1>2. CASE SendHandshake(e)
  <2>1. SendControl(e, ts) /\ Send(e, Numbered(e, sequence_out[e], ts))
    BY <1>2, Zenon DEF SendHandshake, ts
  <2>2. /\ sequence_out' \in [Ends -> 1..(MaxSeq + 1)]
        /\ pending' \in [Ends -> SUBSET (1..MaxSeq)]
        /\ \A f \in Ends : \A s \in pending'[f] : s < sequence_out'[f]
        /\ Numbered(e, sequence_out[e], ts) \in Seq(Packets)
        /\ \A p \in Elements(Numbered(e, sequence_out[e], ts)) :
              p.key = epoch[e] /\ p.type = "Handshake"
    BY <1>1, <2>1, ControlTypes, Zenon
  <2> QED
    BY <2>1, <2>2, SendNet, Zenon
<1>3. CASE Remember(e, 1, {}, ts) /\ Send(e, Numbered(e, 1, ts))
  <2>1. 1 \in 1..(MaxSeq + 1) /\ {} \in SUBSET (1..(1 - 1))
    BY LinkAssumption
  <2>2. /\ 1 \in 1..MaxSeq /\ 1 + Len(ts) <= MaxSeq + 1
        /\ sequence_out' \in [Ends -> 1..(MaxSeq + 1)]
        /\ pending' \in [Ends -> SUBSET (1..MaxSeq)]
        /\ \A f \in Ends : \A s \in pending'[f] : s < sequence_out'[f]
    BY <1>1, <1>3, <2>1, RememberTypes, Zenon
  <2>3. /\ Numbered(e, 1, ts) \in Seq(Packets)
        /\ \A p \in Elements(Numbered(e, 1, ts)) : p.key = epoch[e] /\ p.type = "Handshake"
    BY <1>1, <2>2, NumberedElements, Zenon
  <2> QED
    BY <1>3, <2>2, <2>3, SendNet, Zenon
<1> QED
  BY <1>2, <1>3, Zenon DEF ts

\* One packet without a number, or none.
LEMMA PlainTypes ==
    ASSUME TypeOK, NEW e \in Ends, NEW t \in {"Heartbeat", "Bye"}, NEW ps,
           ps = << >> \/ ps = <<Packet(e, t, 0)>>, Send(e, ps)
    PROVE  /\ net' \in [Ends -> Seq(Packets)]
           /\ InFlight(e)' = InFlight(e)
           /\ \A p \in InFlight(Other(e))' :
                 p \in InFlight(Other(e)) \/ (p.key = epoch[e] /\ p.type = t)
<1>1. Packet(e, t, 0) \in Packets /\ Packet(e, t, 0).key = epoch[e] /\ Packet(e, t, 0).type = t
  BY LinkAssumption, SMTT(60) DEF Packet, Packets, Types, TypeOK
<1>2. /\ ps \in Seq(Packets)
      /\ \A p \in Elements(ps) : p.key = epoch[e] /\ p.type = t
  <2>1. CASE ps = << >>
    BY <2>1, EmptyFacts DEF Elements
  <2>2. CASE ps = <<Packet(e, t, 0)>>
    <3> DEFINE x == Packet(e, t, 0)
    <3>1. x \in Packets /\ x.key = epoch[e] /\ x.type = t /\ ps = <<x>>
      BY <1>1, <2>2, Zenon
    <3> HIDE DEF x
    <3>2. ps \in Seq(Packets) /\ DOMAIN ps = {1} /\ ps[1] = x
      BY <3>1
    <3> QED
      BY <3>1, <3>2, Zenon DEF Elements
  <2> QED
    BY <2>1, <2>2, Zenon
<1> QED
  BY <1>2, SendNet, Zenon

LEMMA TypeStep == TypeOK /\ [Next]_vars => TypeOK'
<1> SUFFICES ASSUME TypeOK, [Next]_vars PROVE TypeOK'
  BY Zenon
<1> USE DEF vars, endVars, clockVars, threadVars, faultVars, config
<1>1. /\ MaxSeq \in Nat \ {0} /\ MaxEpoch \in Nat \ {0} /\ DeadTicks \in Nat \ {0}
      /\ MaxLosses \in Nat /\ MaxOutages \in Nat /\ MaxExits \in Nat
  BY LinkAssumption, Zenon
<1>2. ASSUME NEW e \in Ends, Connect(e) PROVE TypeOK'
  <2>1. /\ sequence_out' \in [Ends -> 1..(MaxSeq + 1)]
        /\ pending' \in [Ends -> SUBSET (1..MaxSeq)]
        /\ \A f \in Ends : \A s \in pending'[f] : s < sequence_out'[f]
        /\ net' \in [Ends -> Seq(Packets)]
    BY <1>2, HandshakeTypes, Zenon DEF Connect
  <2>2. /\ state' \in [Ends -> LinkStates \cup {"off", "none"}]
        /\ reconnect' \in [Ends -> BOOLEAN] /\ key' \in [Ends -> 0..MaxEpoch]
        /\ outdated' \in [Ends -> BOOLEAN]
    <3>1. CASE reconnect[e]
      BY <1>2, <3>1, Zenon DEF Connect, TypeOK, LinkStates
    <3>2. CASE ~reconnect[e]
      <4>1. outdated' = [outdated EXCEPT ![e] = told[e] # "none"]
        BY <1>2, <3>2, Zenon DEF Connect
      <4>2. outdated' \in [Ends -> BOOLEAN]
        BY <4>1, Zenon DEF TypeOK
      <4> QED
        BY <1>2, <3>2, <4>2, NewPeerTypes, Zenon DEF Connect, LinkStates
    <3> QED
      BY <3>1, <3>2, Zenon
  <2> QED
    BY <1>2, <2>1, <2>2, Zenon DEF Connect, TypeOK
<1>3. ASSUME NEW e \in Ends, Start(e) PROVE TypeOK'
  <2>1. /\ state' \in [Ends -> LinkStates \cup {"off", "none"}]
        /\ reconnect' \in [Ends -> BOOLEAN] /\ key' \in [Ends -> 0..MaxEpoch]
    BY <1>3, NewPeerTypes, Zenon DEF Start
  <2>2. epoch' \in [Ends -> 0..MaxEpoch]
    <3>1. epoch[e] + 1 \in 0..MaxEpoch
      BY <1>1, <1>3 DEF Start, TypeOK
    <3> QED
      BY <1>3, <3>1, Zenon DEF Start, TypeOK
  <2> QED
    BY <1>3, <2>1, <2>2, Zenon DEF Start, TypeOK
<1>4. ASSUME NEW e \in Ends, NEW byes, Exit(e, byes),
             byes = << >> \/ byes = <<Packet(e, "Bye", 0)>>
      PROVE  TypeOK'
  <2>1. /\ state' \in [Ends -> LinkStates \cup {"off", "none"}]
        /\ reconnect' \in [Ends -> BOOLEAN] /\ key' \in [Ends -> 0..MaxEpoch]
        /\ told' \in [Ends -> {"none"} \cup LinkStates] /\ outdated' \in [Ends -> BOOLEAN]
    BY <1>4, NewPeerTypes, TellTypes, Zenon DEF Exit
  <2>2. net' \in [Ends -> Seq(Packets)]
    BY <1>4, PlainTypes, Zenon DEF Exit
  <2>3. /\ reactor' \in [Ends -> {"idle", "dead", "clearing", "closed", "fired"}]
        /\ firing' \in [Ends -> {"none"} \cup LinkStates]
    BY <1>4, Zenon DEF Exit, TypeOK
  <2>4. exits' \in 0..MaxExits /\ quiet' \in [Ends -> 0..DeadTicks]
    BY <1>1, <1>4 DEF Exit, TypeOK
  <2>5. sequence_out' \in [Ends -> 1..(MaxSeq + 1)] /\ pending' \in [Ends -> SUBSET (1..MaxSeq)]
    BY <1>1, <1>4 DEF Exit, TypeOK
  <2>6. \A f \in Ends : \A s \in pending'[f] : s < sequence_out'[f]
    <3>1. \A f \in Ends : pending'[f] = {} \/ (pending'[f] = pending[f]
                                              /\ sequence_out'[f] = sequence_out[f])
      BY <1>4, Zenon DEF Exit, TypeOK
    <3> QED
      BY <3>1, Zenon DEF TypeOK
  <2> QED
    BY <1>4, <2>1, <2>2, <2>3, <2>4, <2>5, <2>6, Zenon DEF Exit, TypeOK
<1>5. ASSUME NEW e \in Ends, Accept(e) PROVE TypeOK'
  <2>1. /\ state' \in [Ends -> LinkStates \cup {"off", "none"}]
        /\ reconnect' \in [Ends -> BOOLEAN] /\ key' \in [Ends -> 0..MaxEpoch]
    BY <1>5, NewPeerTypes, Zenon DEF Accept, LinkStates
  <2> QED
    BY <1>5, <2>1, Zenon DEF Accept, TypeOK
<1>6. ASSUME NEW e \in Ends, Receive(e) PROVE TypeOK'
  <2>1. PICK i \in DOMAIN net[e] : Handle(e, i)
    BY <1>6, Zenon DEF Receive, Arriving
  <2>2. HandlerResult(e, i)
    BY <2>1, HandleResult, Zenon
  <2>3. quiet' \in [Ends -> 0..DeadTicks]
    BY <1>1, <1>6 DEF Receive, TypeOK
  <2> QED
    BY <1>6, <2>2, <2>3, Zenon DEF Receive, HandlerResult, TypeOK
<1>7. ASSUME NEW e \in Ends, FireReceiver(e) PROVE TypeOK'
  BY <1>7, TellTypes, Zenon DEF FireReceiver, TypeOK
<1>8. ASSUME NEW e \in Ends, SendHandshakes(e) PROVE TypeOK'
  <2>1. /\ sequence_out' \in [Ends -> 1..(MaxSeq + 1)]
        /\ pending' \in [Ends -> SUBSET (1..MaxSeq)]
        /\ \A f \in Ends : \A s \in pending'[f] : s < sequence_out'[f]
        /\ net' \in [Ends -> Seq(Packets)]
    BY <1>8, HandshakeTypes, Zenon DEF SendHandshakes
  <2> QED
    BY <1>8, <2>1, Zenon DEF SendHandshakes, TypeOK
<1>9. ASSUME NEW e \in Ends, SendHeartbeats(e) PROVE TypeOK'
  <2>1. net' \in [Ends -> Seq(Packets)]
    BY <1>9, PlainTypes, Zenon DEF SendHeartbeats
  <2> QED
    BY <1>9, <2>1, Zenon DEF SendHeartbeats, TypeOK
<1>10. ASSUME NEW e \in Ends, Reactor(e) PROVE TypeOK'
  <2>1. CASE CheckOffline(e)
    BY <2>1, Zenon DEF CheckOffline, TypeOK
  <2>5. CASE CloseDead(e)
    BY <2>5, Zenon DEF CloseDead, TypeOK, LinkStates
  <2>4. CASE FireClosed(e)
    <3>1. "Closed" \in {"none"} \cup LinkStates /\ Tell(e, "Closed")
      BY <2>4, Zenon DEF FireClosed, LinkStates
    <3>2. told' \in [Ends -> {"none"} \cup LinkStates] /\ outdated' \in [Ends -> BOOLEAN]
      BY <3>1, TellTypes, Zenon
    <3> QED
      BY <2>4, <3>2, Zenon DEF FireClosed, TypeOK
  <2>2. CASE ClearPending(e)
    <3>1. pending' \in [Ends -> SUBSET (1..MaxSeq)] /\ \A f \in Ends : pending'[f] \subseteq pending[f]
      BY <2>2, Zenon DEF ClearPending, TypeOK
    <3>2. \A f \in Ends : \A s \in pending'[f] : s < sequence_out'[f]
      BY <2>2, <3>1, Zenon DEF ClearPending, TypeOK
    <3> QED
      BY <2>2, <3>1, <3>2, Zenon DEF ClearPending, TypeOK
  <2>3. CASE Rearm(e)
    <3>1. quiet' = quiet \/ quiet' = [quiet EXCEPT ![e] = 0]
      BY <2>3, Zenon DEF Rearm
    <3>2. quiet \in [Ends -> 0..DeadTicks] /\ 0 \in 0..DeadTicks
      BY <1>1 DEF TypeOK
    <3>3. quiet' \in [Ends -> 0..DeadTicks]
      BY <3>1, <3>2, Zenon
    <3>4. /\ state' \in [Ends -> LinkStates \cup {"off", "none"}]
          /\ reactor' \in [Ends -> {"idle", "dead", "clearing", "closed", "fired"}]
      BY <2>3, Zenon DEF Rearm, TypeOK, LinkStates
    <3> QED
      BY <2>3, <3>3, <3>4, Zenon DEF Rearm, TypeOK
  <2> QED
    BY <1>10, <2>1, <2>2, <2>3, <2>4, <2>5, Zenon DEF Reactor
<1>11. CASE Lose
  <2>1. PICK e \in Ends : \E i \in DOMAIN net[e] : net' = [net EXCEPT ![e] = Drop(@, i)]
    BY <1>11, Zenon DEF Lose
  <2>2. PICK i \in DOMAIN net[e] : net' = [net EXCEPT ![e] = Drop(net[e], i)]
    BY <2>1, Zenon
  <2>3. Drop(net[e], i) \in Seq(Packets)
    BY DropElements, Zenon DEF TypeOK
  <2>4. net' \in [Ends -> Seq(Packets)]
    BY <2>2, <2>3, Zenon DEF TypeOK
  <2>5. losses' \in 0..MaxLosses
    BY <1>1, <1>11 DEF Lose, TypeOK
  <2> QED
    BY <1>11, <2>4, <2>5, Zenon DEF Lose, TypeOK
<1>12. CASE Unreachable
  <2>1. net' \in [Ends -> Seq(Packets)]
    BY <1>12, EmptyFacts DEF Unreachable, TypeOK
  <2> QED
    BY <1>12, <2>1, Zenon DEF Unreachable, TypeOK
<1>13. CASE Outage \/ Restore
  <2>1. up' \in BOOLEAN
    BY <1>13, Zenon DEF Outage, Restore
  <2>2. outages' = outages \/ (outages < MaxOutages /\ outages' = outages + 1)
    BY <1>13, Zenon DEF Outage, Restore
  <2>3. outages' \in 0..MaxOutages
    BY <1>1, <2>2 DEF TypeOK
  <2> QED
    BY <1>13, <2>1, <2>3, Zenon DEF Outage, Restore, TypeOK
<1>14. CASE Tick
  <2>1. quiet' \in [Ends -> 0..DeadTicks] /\ due' \in [Ends -> BOOLEAN]
    BY <1>1, <1>14 DEF Tick, TypeOK
  <2> QED
    BY <1>14, <2>1, Zenon DEF Tick, TypeOK
<1>15. CASE UNCHANGED vars
  BY <1>15, Zenon DEF TypeOK
<1>16. ASSUME NEW e \in Ends, Crash(e) \/ Stop(e) PROVE TypeOK'
  BY <1>4, <1>16, Zenon DEF Crash, Stop
<1> QED
  BY <1>2, <1>3, <1>5, <1>6, <1>7, <1>8, <1>9, <1>10, <1>11, <1>12, <1>13, <1>14,
     <1>15, <1>16 DEF Next

-----------------------------------------------------------------------------
(***************************************************************************)
(* Tokens and keys                                                         *)
(***************************************************************************)

\* A step of a process that keeps running, by what it does to the state of
\* its end and to the network.
LEMMA StepKeeps ==
    ASSUME TypeOK, ProcessInv, TokenInv, KeyInv, NEW e \in Ends,
           UNCHANGED <<token, exits, epoch>>, epoch[e] # 0, ~Down(e)',
           \A f \in Ends \ {e} : /\ state'[f] = state[f] /\ key'[f] = key[f]
                                 /\ reactor'[f] = reactor[f] /\ reconnect'[f] = reconnect[f],
           InFlight(e)' \subseteq InFlight(e),
           \A p \in InFlight(Other(e))' :
              \/ p \in InFlight(Other(e))
              \/ /\ p.key = epoch[e]
                 /\ p.type = "HandshakeAck" => Agree(e) /\ key'[e] # 0
                 /\ p.type = "Online" => /\ Agree(e)
                                         /\ OneConnector => key[Other(e)] # 0,
           state'[e] \in Alive => Agree(e) /\ (OneConnector => key'[e] # 0),
           OneConnector /\ key[e] # 0 => key'[e] # 0,
           reconnect[e] => reconnect'[e],
           ~Down(e) \/ InFlight(e) # {} \/ (e \in Connectors /\ reconnect'[e])
    PROVE  (ProcessInv /\ TokenInv /\ KeyInv)'
<1> DEFINE o == Other(e)
<1>1. o \in Ends /\ o # e /\ Ends = {e, o} /\ Other(o) = e
  BY TwoEnds, Zenon
<1> HIDE DEF o
<1>2. /\ state'[o] = state[o] /\ key'[o] = key[o] /\ reactor'[o] = reactor[o]
      /\ reconnect'[o] = reconnect[o]
  BY <1>1, Zenon
<1>3. \A f \in Ends : Agree(f)' = Agree(f) /\ Agree(f) = Agree(e)
  BY <1>1 DEF Agree, o
<1>4. \A p \in InFlight(o)' :
        \/ p \in InFlight(o)
        \/ /\ p.key = epoch[e]
           /\ p.type = "HandshakeAck" => Agree(e) /\ key'[e] # 0
           /\ p.type = "Online" => Agree(e) /\ (OneConnector => key[o] # 0)
  BY Zenon DEF o
<1>5. ProcessInv'
  <2>1. /\ Running(e)' => epoch'[e] # 0
        /\ Down(e)' => key'[e] = 0 /\ ~reconnect'[e] /\ reactor'[e] = "idle"
        /\ \A p \in InFlight(e)' : p.key # 0
    BY Zenon DEF ProcessInv
  <2>2. /\ Running(o)' => epoch'[o] # 0
        /\ Down(o)' => key'[o] = 0 /\ ~reconnect'[o] /\ reactor'[o] = "idle"
    BY <1>1, <1>2, Zenon DEF ProcessInv, Running, Down
  <2>3. \A p \in InFlight(o)' : p.key # 0
    BY <1>1, <1>4, Zenon DEF ProcessInv
  <2> QED
    BY <1>1, <2>1, <2>2, <2>3, Zenon DEF ProcessInv
<1>6. TokenInv'
  <2>1. /\ state'[e] \in Alive => Agree(e)
        /\ \A p \in InFlight(e)' : p.type \in {"HandshakeAck", "Online"} => Agree(e)
    BY Zenon DEF TokenInv
  <2>2. /\ state'[o] \in Alive => Agree(o)
        /\ \A p \in InFlight(o)' : p.type \in {"HandshakeAck", "Online"} => Agree(o)
    BY <1>1, <1>2, <1>3, <1>4, Zenon DEF TokenInv
  <2> QED
    BY <1>1, <1>3, <2>1, <2>2, Zenon DEF TokenInv
<1>7. KeyInv'
  <2> SUFFICES ASSUME OneConnector
               PROVE  \A f \in Ends :
                        /\ state'[f] \in Alive => key'[f] # 0
                        /\ \A p \in InFlight(f)' :
                              /\ p.type = "Online" => key'[f] # 0
                              /\ p.type = "HandshakeAck" => key'[Other(f)] # 0
                        /\ f \in Connectors /\ ~reconnect'[f] =>
                              \A g \in Ends : Down(g)' /\ InFlight(g)' = {}
    BY Zenon DEF KeyInv, OneConnector
  <2>1. \A f \in Ends :
          /\ state[f] \in Alive => key[f] # 0
          /\ \A p \in InFlight(f) : /\ p.type = "Online" => key[f] # 0
                                    /\ p.type = "HandshakeAck" => key[Other(f)] # 0
          /\ f \in Connectors /\ ~reconnect[f] => \A g \in Ends : Down(g) /\ InFlight(g) = {}
    BY Zenon DEF KeyInv
  <2>2. /\ state'[e] \in Alive => key'[e] # 0
        /\ \A p \in InFlight(e)' : /\ p.type = "Online" => key'[e] # 0
                                   /\ p.type = "HandshakeAck" => key'[o] # 0
    BY <1>1, <1>2, <2>1, Zenon DEF o
  <2>3. /\ state'[o] \in Alive => key'[o] # 0
        /\ \A p \in InFlight(o)' : /\ p.type = "Online" => key'[o] # 0
                                   /\ p.type = "HandshakeAck" => key'[e] # 0
    BY <1>1, <1>2, <1>4, <2>1
  <2>4. ASSUME NEW f \in Ends, f \in Connectors, ~reconnect'[f] PROVE FALSE
    <3>1. ~reconnect[f]
      BY <1>1, <1>2, <2>4, Zenon
    <3>2. \A g \in Ends : Down(g) /\ InFlight(g) = {}
      BY <2>1, <2>4, <3>1, Zenon
    <3>3. e \in Connectors /\ reconnect'[e]
      BY <3>2, Zenon
    <3>4. f = o /\ o \in Connectors
      BY <1>1, <2>4, <3>3, Zenon
    <3> QED
      BY <1>1, <3>3, <3>4, LinkAssumption DEF OneConnector
  <2> QED
    BY <1>1, <2>2, <2>3, <2>4, Zenon DEF o
<1> QED
  BY <1>5, <1>6, <1>7, Zenon

\* Nothing but the packets on the way changes, and these get fewer.
LEMMA NetShrinks ==
    ASSUME TypeOK, ProcessInv, TokenInv, KeyInv,
           UNCHANGED <<token, exits, epoch, state, key, reactor, reconnect>>,
           \A f \in Ends : InFlight(f)' \subseteq InFlight(f)
    PROVE  (ProcessInv /\ TokenInv /\ KeyInv)'
<1>1. \A f \in Ends : /\ Agree(f)' = Agree(f) /\ Running(f)' = Running(f)
                      /\ Down(f)' = Down(f)
  BY Zenon DEF Agree, Running, Down
<1>2. ProcessInv'
  BY <1>1, Zenon DEF ProcessInv
<1>3. TokenInv'
  BY <1>1, Zenon DEF TokenInv
<1>4. KeyInv'
  <2>1. OneConnector' = OneConnector
    BY Zenon DEF OneConnector
  <2> QED
    BY <1>1, <2>1, Zenon DEF KeyInv
<1> QED
  BY <1>2, <1>3, <1>4, Zenon

LEMMA KeyStep ==
    ASSUME TypeOK, ProcessInv, TokenInv, KeyInv, [Next]_vars
    PROVE  (ProcessInv /\ TokenInv /\ KeyInv)'
<1> USE DEF vars, endVars, clockVars, threadVars, faultVars, config
<1>1. ASSUME NEW e \in Ends, Connect(e) PROVE (ProcessInv /\ TokenInv /\ KeyInv)'
  <2>1. /\ InFlight(e)' = InFlight(e)
        /\ \A p \in InFlight(Other(e))' :
              p \in InFlight(Other(e)) \/ (p.key = epoch[e] /\ p.type = "Handshake")
    BY <1>1, HandshakeTypes, Zenon DEF Connect
  <2>2. /\ UNCHANGED <<token, exits, epoch, reactor>> /\ epoch[e] # 0
    BY <1>1, Zenon DEF Connect, ProcessInv
  <2>3. CASE reconnect[e]
    <3>1. /\ state' = [state EXCEPT ![e] = "Handshake"] /\ UNCHANGED <<reconnect, key>>
          /\ state[e] = "Closed"
      BY <1>1, <2>3, Zenon DEF Connect
    <3>2. ~Down(e) /\ ~Down(e)' /\ state'[e] \notin Alive
      BY <3>1, Zenon DEF Down, Alive, TypeOK
    <3>3. \A f \in Ends \ {e} : state'[f] = state[f]
      BY <3>1, Zenon DEF TypeOK
    <3> QED
      BY <2>1, <2>2, <3>1, <3>2, <3>3, StepKeeps, Zenon
  <2>4. CASE ~reconnect[e]
    <3>1. NewPeer(e, "Handshake", TRUE) /\ e \in Connectors
      BY <1>1, <2>4, Zenon DEF Connect
    <3>2. /\ state'[e] = "Handshake" /\ reconnect'[e] /\ key'[e] = 0
          /\ \A f \in Ends \ {e} : /\ state'[f] = state[f] /\ reconnect'[f] = reconnect[f]
                                   /\ key'[f] = key[f]
      BY <3>1, NewPeerTypes, Zenon DEF LinkStates
    <3>3. ~Down(e)' /\ state'[e] \notin Alive
      BY <3>2, Zenon DEF Down, Alive
    <3>4. OneConnector => key[e] = 0
      BY <2>4, <3>1, Zenon DEF KeyInv, ProcessInv
    <3> QED
      BY <2>1, <2>2, <2>4, <3>1, <3>2, <3>3, <3>4, StepKeeps
  <2> QED
    BY <2>3, <2>4, Zenon
<1>2. ASSUME NEW e \in Ends, Start(e) PROVE (ProcessInv /\ TokenInv /\ KeyInv)'
  <2>1. /\ state[e] = "off" /\ epoch' = [epoch EXCEPT ![e] = @ + 1]
        /\ UNCHANGED <<token, exits, reactor, net>>
    BY <1>2, Zenon DEF Start
  <2>2. /\ state'[e] = "none" /\ reconnect'[e] = FALSE /\ key'[e] = 0
        /\ \A f \in Ends \ {e} : /\ state'[f] = state[f] /\ reconnect'[f] = reconnect[f]
                                 /\ key'[f] = key[f]
    BY <1>2, NewPeerTypes, Zenon DEF Start
  <2>3. Down(e) /\ key[e] = 0 /\ ~reconnect[e] /\ reactor[e] = "idle"
    BY <2>1, Zenon DEF Down, ProcessInv
  <2>4. \A f \in Ends : /\ key'[f] = key[f] /\ reconnect'[f] = reconnect[f]
                        /\ Down(f)' = Down(f) /\ InFlight(f)' = InFlight(f)
                        /\ (state'[f] \in Alive) = (state[f] \in Alive)
                        /\ Agree(f)' = Agree(f)
    <3>1. reconnect[e] = FALSE
      <4>1. reconnect[e] \in BOOLEAN
        BY Zenon DEF TypeOK
      <4> QED
        BY <2>3, <4>1, Zenon
    <3>2. \A f \in Ends : key'[f] = key[f] /\ reconnect'[f] = reconnect[f]
      BY <2>2, <2>3, <3>1, Zenon
    <3>3. \A f \in Ends : InFlight(f)' = InFlight(f) /\ Agree(f)' = Agree(f)
      BY <2>1, Zenon DEF InFlight, Agree
    <3>4. \A f \in Ends : /\ Down(f)' = Down(f)
                          /\ (state'[f] \in Alive) = (state[f] \in Alive)
      <4>1. Down(e)' = Down(e) /\ (state'[e] \in Alive) = (state[e] \in Alive)
        BY <2>1, <2>2 DEF Down, Alive
      <4>2. ASSUME NEW f \in Ends, f # e
            PROVE  /\ Down(f)' = Down(f)
                   /\ (state'[f] \in Alive) = (state[f] \in Alive)
        BY <2>2, <4>2, Zenon DEF Down, Alive
      <4> QED
        BY <4>1, <4>2, Zenon
    <3> QED
      BY <3>2, <3>3, <3>4, Zenon
  <2>5. \A f \in Ends : Running(f)' => epoch'[f] # 0
    <3>1. epoch[e] + 1 # 0
      <4>1. epoch[e] \in 0..MaxEpoch /\ MaxEpoch \in Nat
        BY LinkAssumption, Zenon DEF TypeOK
      <4> QED
        BY <4>1
    <3>2. epoch'[e] # 0 /\ \A f \in Ends \ {e} : epoch'[f] = epoch[f]
      BY <2>1, <3>1, Zenon DEF TypeOK
    <3> QED
      BY <2>2, <3>2, Zenon DEF Running, ProcessInv
  <2>6. ProcessInv'
    BY <2>1, <2>4, <2>5 DEF ProcessInv
  <2>7. TokenInv'
    BY <2>4, Zenon DEF TokenInv
  <2>8. KeyInv'
    <3>1. OneConnector' = OneConnector
      BY <2>1, Zenon DEF OneConnector
    <3>2. \A f \in Ends : key'[Other(f)] = key[Other(f)]
      BY <2>4, TwoEnds, Zenon
    <3> QED
      BY <2>4, <3>1, <3>2 DEF KeyInv
  <2> QED
    BY <2>6, <2>7, <2>8, Zenon
<1>3. ASSUME NEW e \in Ends, NEW byes, Exit(e, byes),
             byes = << >> \/ byes = <<Packet(e, "Bye", 0)>>
      PROVE  (ProcessInv /\ TokenInv /\ KeyInv)'
  <2>1. /\ Running(e) /\ exits' = exits + 1 /\ UNCHANGED <<token, epoch>>
        /\ reactor' = [reactor EXCEPT ![e] = "idle"]
    BY <1>3, Zenon DEF Exit
  <2>2. /\ state'[e] = "off" /\ reconnect'[e] = FALSE /\ key'[e] = 0
        /\ \A f \in Ends \ {e} : /\ state'[f] = state[f] /\ reconnect'[f] = reconnect[f]
                                 /\ key'[f] = key[f]
    BY <1>3, NewPeerTypes, Zenon DEF Exit
  <2>3. /\ InFlight(e)' = InFlight(e)
        /\ \A p \in InFlight(Other(e))' :
              p \in InFlight(Other(e)) \/ (p.key = epoch[e] /\ p.type = "Bye")
    BY <1>3, PlainTypes, Zenon DEF Exit
  <2>4. /\ reactor'[e] = "idle" /\ \A f \in Ends \ {e} : reactor'[f] = reactor[f]
    BY <2>1, Zenon DEF TypeOK
  <2>5. epoch[e] # 0 /\ Ends = {e, Other(e)}
    BY <2>1, TwoEnds, Zenon DEF ProcessInv
  <2>6. ProcessInv'
    <3>1. \A f \in Ends : /\ Running(f)' => epoch'[f] # 0
                          /\ Down(f)' => key'[f] = 0 /\ ~reconnect'[f] /\ reactor'[f] = "idle"
      BY <2>1, <2>2, <2>4 DEF ProcessInv, Running, Down
    <3>2. \A f \in Ends : \A p \in InFlight(f)' : p.key # 0
      BY <2>3, <2>5, Zenon DEF ProcessInv
    <3> QED
      BY <3>1, <3>2, Zenon DEF ProcessInv
  <2>7. TokenInv'
    <3>1. \A f \in Ends : (state'[f] \in Alive => Agree(f)) /\ Agree(f)' = Agree(f)
      BY <2>1, <2>2, Zenon DEF TokenInv, Alive, Agree
    <3>2. \A f \in Ends : \A p \in InFlight(f)' :
             p.type \in {"HandshakeAck", "Online"} => Agree(f)
      BY <2>3, <2>5, Zenon DEF TokenInv
    <3> QED
      BY <3>1, <3>2, Zenon DEF TokenInv
  <2>8. KeyInv'
    <3>1. exits' # 0
      BY <2>1, LinkAssumption DEF TypeOK
    <3> QED
      BY <3>1, Zenon DEF KeyInv, OneConnector
  <2> QED
    BY <2>6, <2>7, <2>8, Zenon
<1>4. ASSUME NEW e \in Ends, Accept(e) PROVE (ProcessInv /\ TokenInv /\ KeyInv)'
  <2>1. /\ state[e] = "none" /\ net[e] # << >> /\ UNCHANGED <<token, exits, epoch, reactor, net>>
        /\ NewPeer(e, "Handshake", FALSE)
    BY <1>4, Zenon DEF Accept
  <2>2. /\ state'[e] = "Handshake" /\ key'[e] = 0
        /\ \A f \in Ends \ {e} : /\ state'[f] = state[f] /\ reconnect'[f] = reconnect[f]
                                 /\ key'[f] = key[f]
    BY <2>1, NewPeerTypes, Zenon DEF LinkStates
  <2>3. ~Down(e)' /\ state'[e] \notin Alive
    BY <2>2, Zenon DEF Down, Alive
  <2>4. key[e] = 0 /\ ~reconnect[e] /\ epoch[e] # 0
    BY <2>1, Zenon DEF ProcessInv, Down, Running
  <2>5. InFlight(e) # {}
    <3>1. net[e] \in Seq(Packets)
      BY Zenon DEF TypeOK
    <3>2. Len(net[e]) \in Nat \ {0} /\ DOMAIN net[e] = 1..Len(net[e])
      BY <2>1, <3>1, EmptyFacts, LenFacts, Zenon
    <3>3. 1 \in DOMAIN net[e]
      BY <3>2
    <3>4. net[e][1] \in InFlight(e)
      BY <3>3, AckElements, Zenon
    <3> QED
      BY <3>4, Zenon
  <2>6. \A f \in Ends : InFlight(f)' = InFlight(f)
    BY <2>1, Zenon DEF InFlight
  <2> QED
    BY <2>1, <2>2, <2>3, <2>4, <2>5, <2>6, TwoEnds, StepKeeps, Zenon
<1>5. ASSUME NEW e \in Ends, Receive(e) PROVE (ProcessInv /\ TokenInv /\ KeyInv)'
  <2>1. PICK i \in DOMAIN net[e] : Handle(e, i)
    BY <1>5, Zenon DEF Receive, Arriving
  <2> DEFINE m == net[e][i]
  <2>2. HandlerResult(e, i)
    BY <2>1, HandleResult, Zenon
  <2>3. m \in InFlight(e) /\ m.key # 0
    BY AckElements, Zenon DEF ProcessInv
  <2>4. /\ UNCHANGED <<token, exits, epoch, reactor, reconnect>>
        /\ state[e] \in LinkStates
    BY <1>5, Zenon DEF Receive
  <2>5. ~Down(e) /\ epoch[e] # 0
    BY <2>4, Zenon DEF Down, LinkStates, ProcessInv, Running
  <2>6. ~Down(e)'
    BY <2>2, <2>4, Zenon DEF HandlerResult, Down, LinkStates
  <2>7. Other(e) \in Ends /\ Other(Other(e)) = e
    BY TwoEnds, Zenon
  <2>8. m.type \in {"HandshakeAck", "Online"} => Agree(e)
    BY <2>3, Zenon DEF TokenInv
  <2>9. /\ OneConnector /\ m.type = "HandshakeAck" => key[Other(e)] # 0
        /\ OneConnector /\ m.type = "Online" => key[e] # 0
        /\ OneConnector /\ state[e] \in Alive => key[e] # 0
    BY <2>3, Zenon DEF KeyInv
  <2>10. state'[e] \in Alive => Agree(e) /\ (OneConnector => key'[e] # 0)
    BY <2>2, <2>3, <2>8, <2>9, Zenon DEF HandlerResult, TokenInv
  <2>11. key[e] # 0 => key'[e] # 0
    BY <2>2, <2>3, Zenon DEF HandlerResult
  <2>12. \A p \in InFlight(Other(e))' :
              \/ p \in InFlight(Other(e))
              \/ /\ p.key = epoch[e]
                 /\ p.type = "HandshakeAck" => Agree(e) /\ key'[e] # 0
                 /\ p.type = "Online" => /\ Agree(e)
                                         /\ OneConnector => key[Other(e)] # 0
    BY <2>2, <2>3, <2>8, <2>9 DEF HandlerResult
  <2>13. /\ InFlight(e)' \subseteq InFlight(e)
         /\ \A f \in Ends \ {e} : state'[f] = state[f] /\ key'[f] = key[f]
    BY <2>2, Zenon DEF HandlerResult
  <2> QED
    BY <2>4, <2>5, <2>6, <2>10, <2>11, <2>12, <2>13, StepKeeps, Zenon
<1>6. ASSUME NEW e \in Ends, SendHandshakes(e) PROVE (ProcessInv /\ TokenInv /\ KeyInv)'
  <2>1. /\ InFlight(e)' = InFlight(e)
        /\ \A p \in InFlight(Other(e))' :
              p \in InFlight(Other(e)) \/ (p.key = epoch[e] /\ p.type = "Handshake")
    BY <1>6, HandshakeTypes, Zenon DEF SendHandshakes
  <2>2. /\ UNCHANGED <<token, exits, epoch, state, key, reconnect, reactor>>
        /\ state[e] = "Handshake"
    BY <1>6, Zenon DEF SendHandshakes
  <2>3. ~Down(e) /\ ~Down(e)' /\ epoch[e] # 0 /\ state'[e] \notin Alive
    BY <2>2, Zenon DEF Down, ProcessInv, Running, Alive
  <2> QED
    BY <2>1, <2>2, <2>3, StepKeeps, Zenon
<1>7. ASSUME NEW e \in Ends, SendHeartbeats(e) PROVE (ProcessInv /\ TokenInv /\ KeyInv)'
  <2>1. /\ InFlight(e)' = InFlight(e)
        /\ \A p \in InFlight(Other(e))' :
              p \in InFlight(Other(e)) \/ (p.key = epoch[e] /\ p.type = "Heartbeat")
    BY <1>7, PlainTypes, Zenon DEF SendHeartbeats
  <2>2. /\ UNCHANGED <<token, exits, epoch, state, key, reconnect, reactor>>
        /\ state[e] \in Alive
    BY <1>7, Zenon DEF SendHeartbeats
  <2>3. /\ ~Down(e) /\ ~Down(e)' /\ epoch[e] # 0
        /\ Agree(e) /\ (OneConnector => key[e] # 0)
    BY <2>2, Zenon DEF Down, ProcessInv, Running, Alive, TokenInv, KeyInv
  <2> QED
    BY <2>1, <2>2, <2>3, StepKeeps, Zenon
<1>8. ASSUME NEW e \in Ends, Reactor(e) PROVE (ProcessInv /\ TokenInv /\ KeyInv)'
  <2>1. /\ UNCHANGED <<token, exits, epoch, key, reconnect, net>>
        /\ \A f \in Ends \ {e} : state'[f] = state[f] /\ reactor'[f] = reactor[f]
        /\ \A f \in Ends : InFlight(f)' = InFlight(f)
    BY <1>8, SMTT(60) DEF Reactor, CheckOffline, CloseDead, ClearPending, FireClosed, Rearm, TypeOK, InFlight
  <2>2. ~Down(e)
    BY <1>8, Zenon DEF Reactor, CheckOffline, CloseDead, ClearPending, FireClosed, Rearm, ProcessInv, Down, Alive
  <2>3. state'[e] = state[e] \/ state'[e] \in {"Closed", "Handshake"}
    BY <1>8 DEF Reactor, CheckOffline, CloseDead, ClearPending, FireClosed, Rearm, TypeOK
  <2>4. ~Down(e)' /\ epoch[e] # 0
    BY <2>2, <2>3, Zenon DEF Down, ProcessInv, Running
  <2>5. state'[e] \in Alive => Agree(e) /\ (OneConnector => key[e] # 0)
    BY <2>3, Zenon DEF Alive, TokenInv, KeyInv
  <2> QED
    BY <2>1, <2>2, <2>4, <2>5, TwoEnds, StepKeeps, Zenon
<1>9. CASE Lose \/ Unreachable
  <2>1. \A f \in Ends : InFlight(f)' \subseteq InFlight(f)
    <3>1. CASE Lose
      <4>1. PICK e \in Ends : \E i \in DOMAIN net[e] : net' = [net EXCEPT ![e] = Drop(@, i)]
        BY <3>1, Zenon DEF Lose
      <4>2. PICK i \in DOMAIN net[e] : net' = [net EXCEPT ![e] = Drop(net[e], i)]
        BY <4>1, Zenon
      <4>3. Elements(Drop(net[e], i)) \subseteq InFlight(e)
        BY DropElements, Zenon DEF TypeOK, InFlight
      <4>4. \A f \in Ends : net'[f] = IF f = e THEN Drop(net[e], i) ELSE net[f]
        BY <4>2, Zenon DEF TypeOK
      <4> QED
        BY <4>3, <4>4, Zenon DEF InFlight
    <3>2. CASE Unreachable
      <4>1. \A f \in Ends : net'[f] = << >> \/ net'[f] = net[f]
        BY <3>2, Zenon DEF Unreachable, TypeOK
      <4>2. Elements(<< >>) = {}
        BY EmptyFacts DEF Elements
      <4> QED
        BY <4>1, <4>2, Zenon DEF InFlight
    <3> QED
      BY <1>9, <3>1, <3>2, Zenon
  <2>2. UNCHANGED <<token, exits, epoch, state, key, reactor, reconnect>>
    BY <1>9, Zenon DEF Lose, Unreachable
  <2> QED
    BY <2>1, <2>2, NetShrinks, Zenon
<1>10. CASE Outage \/ Restore \/ Tick \/ (\E e \in Ends : FireReceiver(e)) \/ UNCHANGED vars
  <2>1. UNCHANGED <<token, exits, epoch, state, key, reactor, reconnect, net>>
    BY <1>10, Zenon DEF Outage, Restore, Tick, FireReceiver
  <2> QED
    BY <2>1, NetShrinks, Zenon DEF InFlight
<1>11. ASSUME NEW e \in Ends, Crash(e) \/ Stop(e) PROVE (ProcessInv /\ TokenInv /\ KeyInv)'
  BY <1>3, <1>11, Zenon DEF Crash, Stop
<1> QED
  BY <1>1, <1>2, <1>4, <1>5, <1>6, <1>7, <1>8, <1>9, <1>10, <1>11 DEF Next

-----------------------------------------------------------------------------
(***************************************************************************)
(* Events                                                                  *)
(***************************************************************************)

\* What EventInv and EventsReflectState say of one end.
EventAt(e) ==
    /\ reactor[e] = "idle" \/ firing[e] = "none"
    /\ firing[e] # "none" => state[e] = firing[e]
    /\ reactor[e] \in {"clearing", "closed", "fired"} => state[e] = "Closed"
    /\ reactor[e] = "fired" => told[e] = "Closed"
    /\ reactor[e] = "idle" /\ firing[e] = "none" /\ ~outdated[e] =>
          /\ (told[e] = "Online") <=> (state[e] = "Online")
          /\ state[e] = "Closed" => told[e] = "Closed"

LEMMA EventStep ==
    ASSUME TypeOK, EventInv, EventsReflectState, [Next]_vars
    PROVE  EventInv' /\ EventsReflectState'
<1> USE DEF vars, endVars, clockVars, threadVars, faultVars, config
<1>1. UNCHANGED lite
  BY ZenonT(60) DEF Next, Connect, Start, Crash, Stop, Exit, Accept, Receive, FireReceiver,
         SendHandshakes, SendHeartbeats, Reactor, CheckOffline, CloseDead, ClearPending,
         FireClosed, Rearm, Lose, Unreachable, Outage, Restore, Tick
<1> SUFFICES ASSUME lite PROVE \A e \in Ends : EventAt(e)'
  BY <1>1, Zenon DEF EventInv, EventsReflectState, EventAt
<1>2. \A e \in Ends : EventAt(e)
  BY Zenon DEF EventInv, EventsReflectState, EventAt
<1> DEFINE Same(f) == /\ state'[f] = state[f] /\ reactor'[f] = reactor[f]
                      /\ firing'[f] = firing[f] /\ told'[f] = told[f]
                      /\ outdated'[f] = outdated[f]
<1>3. ASSUME NEW e \in Ends, Same(e) PROVE EventAt(e)'
  BY <1>2, <1>3, Zenon DEF EventAt
<1>4. ASSUME NEW e \in Ends, EventAt(e)', \A f \in Ends \ {e} : Same(f)
      PROVE  \A f \in Ends : EventAt(f)'
  BY <1>3, <1>4, Zenon
<1>5. ASSUME NEW e \in Ends, Connect(e) PROVE \A f \in Ends : EventAt(f)'
  <2>1. reactor[e] = "idle" /\ firing[e] = "none" /\ UNCHANGED <<reactor, firing, told>>
    BY <1>5, Zenon DEF Connect
  <2>2. CASE reconnect[e]
    <3>1. /\ state[e] = "Closed" /\ state' = [state EXCEPT ![e] = "Handshake"]
          /\ UNCHANGED outdated
      BY <1>5, <2>2, Zenon DEF Connect
    <3>2. state'[e] = "Handshake" /\ (outdated'[e] \/ told'[e] = "Closed")
      BY <1>2, <2>1, <3>1 DEF EventAt, TypeOK
    <3>3. EventAt(e)'
      BY <2>1, <3>2, Zenon DEF EventAt
    <3>4. \A f \in Ends \ {e} : Same(f)
      BY <2>1, <3>1, Zenon DEF TypeOK
    <3> QED
      BY <1>4, <3>3, <3>4, Zenon
  <2>3. CASE ~reconnect[e]
    <3>1. /\ NewPeer(e, "Handshake", TRUE)
          /\ outdated' = [outdated EXCEPT ![e] = told[e] # "none"]
      BY <1>5, <2>3, Zenon DEF Connect
    <3>2. /\ state'[e] = "Handshake"
          /\ \A f \in Ends \ {e} : state'[f] = state[f]
      BY <3>1, NewPeerTypes, Zenon DEF LinkStates
    <3>3. /\ outdated'[e] \/ told'[e] = "none"
          /\ \A f \in Ends \ {e} : outdated'[f] = outdated[f]
      BY <2>1, <3>1, Zenon DEF TypeOK
    <3>4. EventAt(e)'
      BY <2>1, <3>2, <3>3, Zenon DEF EventAt
    <3> QED
      BY <1>4, <2>1, <3>2, <3>3, <3>4, Zenon
  <2> QED
    BY <2>2, <2>3, Zenon
<1>6. ASSUME NEW e \in Ends, Start(e) \/ Accept(e) \/ Crash(e) \/ Stop(e)
      PROVE  \A f \in Ends : EventAt(f)'
  <2>1. /\ state'[e] \in {"off", "none", "Handshake"}
        /\ \A f \in Ends \ {e} : state'[f] = state[f]
    BY <1>6, NewPeerTypes, Zenon DEF Start, Accept, Crash, Stop, Exit, LinkStates
  <2>2. CASE Start(e) \/ Accept(e)
    <3>1. UNCHANGED <<reactor, firing, told, outdated>> /\ Down(e)
      BY <2>2, Zenon DEF Start, Accept, Down
    <3>2. firing[e] = "none"
      BY <1>2, <3>1, Zenon DEF EventAt, Down, TypeOK, LinkStates
    <3>3. reactor[e] \in {"idle", "dead"}
      BY <1>2, <3>1, Zenon DEF EventAt, Down, TypeOK
    <3>4. EventAt(e)'
      BY <1>2, <2>1, <3>1, <3>2, <3>3, Zenon DEF EventAt, Down
    <3> QED
      BY <1>4, <2>1, <3>1, <3>4, Zenon
  <2>3. CASE Crash(e) \/ Stop(e)
    <3>1. /\ reactor' = [reactor EXCEPT ![e] = "idle"]
          /\ firing' = [firing EXCEPT ![e] = "none"]
          /\ Tell(e, "none")
      BY <2>3, Zenon DEF Crash, Stop, Exit
    <3>2. /\ reactor'[e] = "idle" /\ firing'[e] = "none"
          /\ \A f \in Ends \ {e} : reactor'[f] = reactor[f] /\ firing'[f] = firing[f]
      BY <3>1 DEF TypeOK
    <3>3. /\ told'[e] = "none"
          /\ \A f \in Ends \ {e} : told'[f] = told[f] /\ outdated'[f] = outdated[f]
      BY <3>1, TellTypes, Zenon
    <3>4. EventAt(e)'
      BY <2>1, <3>2, <3>3, Zenon DEF EventAt
    <3> QED
      BY <1>4, <2>1, <3>2, <3>3, <3>4, Zenon
  <2> QED
    BY <1>6, <2>2, <2>3, Zenon
<1>7. ASSUME NEW e \in Ends, Receive(e) PROVE \A f \in Ends : EventAt(f)'
  <2>1. PICK i \in DOMAIN net[e] : Handle(e, i)
    BY <1>7, Zenon DEF Receive, Arriving
  <2>2. HandlerResult(e, i)
    BY <2>1, HandleResult, Zenon
  <2>3. /\ UNCHANGED <<reactor, told, outdated>>
        /\ reactor[e] = "idle" /\ firing[e] = "none"
    BY <1>7, Zenon DEF Receive, ReceiverFree
  <2>4. /\ \/ state'[e] = state[e] /\ firing'[e] = firing[e]
           \/ state'[e] = firing'[e] /\ firing'[e] # "none"
        /\ \A f \in Ends \ {e} : state'[f] = state[f] /\ firing'[f] = firing[f]
    BY <2>2, Zenon DEF HandlerResult, LinkStates
  <2>5. EventAt(e)'
    BY <1>2, <2>3, <2>4, Zenon DEF EventAt
  <2> QED
    BY <1>4, <2>3, <2>4, <2>5, Zenon
<1>8. ASSUME NEW e \in Ends, FireReceiver(e) PROVE \A f \in Ends : EventAt(f)'
  <2>1. /\ UNCHANGED <<state, reactor>> /\ firing[e] # "none"
        /\ Tell(e, firing[e]) /\ firing' = [firing EXCEPT ![e] = "none"]
    BY <1>8, Zenon DEF FireReceiver
  <2>2. /\ told'[e] = firing[e] /\ firing'[e] = "none"
        /\ \A f \in Ends \ {e} : Same(f)
    BY <2>1, TellTypes, ZenonT(60) DEF TypeOK
  <2>3. reactor[e] = "idle" /\ state[e] = firing[e]
    BY <1>2, <2>1, Zenon DEF EventAt
  <2>4. EventAt(e)'
    BY <2>1, <2>2, <2>3, Zenon DEF EventAt
  <2> QED
    BY <1>4, <2>2, <2>4, Zenon
<1>9. ASSUME NEW e \in Ends, Reactor(e) PROVE \A f \in Ends : EventAt(f)'
  <2>1. CASE CheckOffline(e)
    <3>1. /\ UNCHANGED <<state, firing, told, outdated>> /\ firing[e] = "none"
          /\ reactor'[e] = "dead" /\ \A f \in Ends \ {e} : reactor'[f] = reactor[f]
      BY <2>1, Zenon DEF CheckOffline, ReactorFree, TypeOK
    <3> QED
      BY <1>4, <3>1, Zenon DEF EventAt
  <2>2. CASE CloseDead(e)
    <3>1. /\ UNCHANGED <<firing, told, outdated>> /\ reactor[e] = "dead"
          /\ reactor'[e] = "clearing" /\ state'[e] = "Closed"
          /\ \A f \in Ends \ {e} : reactor'[f] = reactor[f] /\ state'[f] = state[f]
      BY <2>2 DEF CloseDead, TypeOK
    <3>2. firing[e] = "none"
      BY <1>2, <3>1, Zenon DEF EventAt
    <3> QED
      BY <1>4, <3>1, <3>2, Zenon DEF EventAt
  <2>5. CASE ClearPending(e)
    <3>1. /\ UNCHANGED <<state, firing, told, outdated>> /\ reactor[e] = "clearing"
          /\ reactor'[e] = "closed" /\ \A f \in Ends \ {e} : reactor'[f] = reactor[f]
      BY <2>5, Zenon DEF ClearPending, TypeOK
    <3>2. firing[e] = "none" /\ state[e] = "Closed"
      BY <1>2, <3>1, Zenon DEF EventAt
    <3> QED
      BY <1>4, <3>1, <3>2, Zenon DEF EventAt
  <2>3. CASE FireClosed(e)
    <3>1. /\ UNCHANGED <<firing, state>> /\ reactor[e] = "closed"
          /\ reactor'[e] = "fired" /\ told'[e] = "Closed"
          /\ \A f \in Ends \ {e} : /\ reactor'[f] = reactor[f] /\ told'[f] = told[f]
                                   /\ outdated'[f] = outdated[f]
      <4>1. /\ UNCHANGED <<firing, state>> /\ reactor[e] = "closed" /\ Tell(e, "Closed")
            /\ reactor'[e] = "fired" /\ \A f \in Ends \ {e} : reactor'[f] = reactor[f]
        BY <2>3, Zenon DEF FireClosed, TypeOK
      <4>2. "Closed" \in {"none"} \cup LinkStates
        BY Zenon DEF LinkStates
      <4>3. /\ told'[e] = "Closed"
            /\ \A f \in Ends \ {e} : told'[f] = told[f] /\ outdated'[f] = outdated[f]
        BY <4>1, <4>2, TellTypes, Zenon
      <4> QED
        BY <4>1, <4>3, Zenon
    <3>2. firing[e] = "none" /\ state[e] = "Closed"
      BY <1>2, <3>1, Zenon DEF EventAt
    <3> QED
      BY <1>4, <3>1, <3>2, Zenon DEF EventAt
  <2>4. CASE Rearm(e)
    <3>1. /\ UNCHANGED <<firing, told, outdated>> /\ reactor[e] = "fired"
          /\ reactor' = [reactor EXCEPT ![e] = "idle"]
          /\ state' = state \/ state' = [state EXCEPT ![e] = "Handshake"]
      BY <2>4, Zenon DEF Rearm
    <3>2. /\ reactor'[e] = "idle" /\ state'[e] \in {state[e], "Handshake"}
          /\ \A f \in Ends \ {e} : reactor'[f] = reactor[f] /\ state'[f] = state[f]
      BY <3>1 DEF TypeOK
    <3>3. firing[e] = "none" /\ state[e] = "Closed" /\ told[e] = "Closed"
      BY <1>2, <3>1, Zenon DEF EventAt
    <3>4. EventAt(e)'
      BY <3>1, <3>2, <3>3, Zenon DEF EventAt
    <3> QED
      BY <1>4, <3>1, <3>2, <3>4, Zenon
  <2> QED
    BY <1>9, <2>1, <2>2, <2>3, <2>4, <2>5, Zenon DEF Reactor
<1>10. CASE \/ Outage \/ Restore \/ Tick \/ Lose \/ Unreachable \/ UNCHANGED vars
            \/ \E e \in Ends : SendHandshakes(e) \/ SendHeartbeats(e)
  <2>1. UNCHANGED <<state, reactor, firing, told, outdated>>
    BY <1>10, Zenon DEF Outage, Restore, Tick, Lose, Unreachable, SendHandshakes, SendHeartbeats
  <2> QED
    BY <1>3, <2>1, Zenon
<1> QED
  BY <1>5, <1>6, <1>7, <1>8, <1>9, <1>10, Zenon DEF Next

-----------------------------------------------------------------------------
(***************************************************************************)
(* Numbers                                                                 *)
(***************************************************************************)

LEMMA DropDistinct ==
    ASSUME NEW S, NEW s \in Seq(S), NEW i \in DOMAIN s, Distinct(s)
    PROVE  Distinct(Drop(s, i)) /\ \A p \in Elements(Drop(s, i)) : ~Clash(p, s[i])
<1> DEFINE d == Drop(s, i)
           At(k) == IF k < i THEN k ELSE k + 1
           a == SubSeq(s, 1, i - 1)
           z == SubSeq(s, i + 1, Len(s))
<1>1. Len(s) \in Nat /\ DOMAIN s = 1..Len(s) /\ i \in 1..Len(s)
  BY LenFacts, Zenon
<1>2. /\ a \in Seq(S) /\ Len(a) = i - 1
      /\ \A k \in 1..(i - 1) : a[k] = s[k]
  BY <1>1
<1>3. /\ z \in Seq(S) /\ Len(z) = Len(s) - i
      /\ \A k \in 1..(Len(s) - i) : z[k] = s[k + i]
  BY <1>1
<1>10. d = a \o z
  BY Zenon DEF Drop
<1> HIDE DEF a, z, d
<1>4. d \in Seq(S) /\ Len(d) = Len(s) - 1
  <2>2. a \o z \in Seq(S) /\ Len(a \o z) = Len(a) + Len(z)
    BY <1>2, <1>3, ConcatFacts, Zenon
  <2>1. d \in Seq(S) /\ Len(d) = (i - 1) + (Len(s) - i)
    BY <1>2, <1>3, <1>10, <2>2
  <2> QED
    BY <1>1, <2>1
<1>5. DOMAIN d = 1..(Len(s) - 1)
  BY <1>4, LenFacts, Zenon
<1>6. ASSUME NEW k \in 1..(Len(s) - 1)
      PROVE  At(k) \in DOMAIN s /\ At(k) # i /\ d[k] = s[At(k)]
  <2>1. k \in 1..((i - 1) + (Len(s) - i))
    BY <1>1
  <2>2. d[k] = IF k <= i - 1 THEN a[k] ELSE z[k - (i - 1)]
    <3>1. k \in 1..(Len(a) + Len(z))
      BY <1>2, <1>3, <2>1, Zenon
    <3>2. (a \o z)[k] = IF k <= Len(a) THEN a[k] ELSE z[k - Len(a)]
      BY <1>2, <1>3, <3>1, ConcatFacts, Zenon
    <3> QED
      BY <1>2, <1>10, <3>2, Zenon
  <2>3. CASE k < i
    <3>1. k \in 1..(i - 1) /\ k <= i - 1 /\ At(k) = k /\ k \in 1..Len(s) /\ k # i
      BY <1>1, <2>3
    <3> QED
      BY <1>1, <1>2, <2>2, <3>1, Zenon
  <2>4. CASE k >= i
    <3>1. /\ k - (i - 1) \in 1..(Len(s) - i) /\ ~(k <= i - 1) /\ (k - (i - 1)) + i = k + 1
          /\ At(k) = k + 1 /\ k + 1 \in 1..Len(s) /\ k + 1 # i
      BY <1>1, <2>4
    <3> QED
      BY <1>1, <1>3, <2>2, <3>1, Zenon
  <2> QED
    BY <1>1, <2>3, <2>4
<1>7. ASSUME NEW k \in 1..(Len(s) - 1), NEW l \in 1..(Len(s) - 1), At(k) = At(l)
      PROVE  k = l
  BY <1>1, <1>7
<1> HIDE DEF At, d
<1>8. Distinct(d)
  <2> SUFFICES ASSUME NEW k \in 1..(Len(s) - 1), NEW l \in 1..(Len(s) - 1), Clash(d[k], d[l])
               PROVE  k = l
    BY <1>5, Zenon DEF Distinct
  <2>1. At(k) = At(l)
    BY <1>6, Zenon DEF Distinct
  <2> QED
    BY <1>7, <2>1, Zenon
<1>9. \A p \in Elements(d) : ~Clash(p, s[i])
  BY <1>5, <1>6, Zenon DEF Elements, Distinct
<1> QED
  BY <1>8, <1>9, Zenon DEF d

LEMMA ConcatDistinct ==
    ASSUME NEW S, NEW s \in Seq(S), NEW t \in Seq(S), Distinct(s), Distinct(t),
           \A p \in Elements(s), q \in Elements(t) : ~Clash(p, q)
    PROVE  Distinct(s \o t)
<1> DEFINE c == s \o t
<1>1. /\ Len(s) \in Nat /\ Len(t) \in Nat /\ DOMAIN s = 1..Len(s) /\ DOMAIN t = 1..Len(t)
      /\ DOMAIN c = 1..(Len(s) + Len(t))
      /\ \A i \in 1..(Len(s) + Len(t)) : c[i] = IF i <= Len(s) THEN s[i] ELSE t[i - Len(s)]
  <2>1. /\ c \in Seq(S) /\ Len(c) = Len(s) + Len(t)
        /\ \A i \in 1..(Len(s) + Len(t)) : c[i] = IF i <= Len(s) THEN s[i] ELSE t[i - Len(s)]
    BY ConcatFacts, Zenon
  <2> HIDE DEF c
  <2>2. DOMAIN c = 1..(Len(s) + Len(t))
    BY <2>1, LenFacts, Zenon
  <2>3. Len(s) \in Nat /\ Len(t) \in Nat /\ DOMAIN s = 1..Len(s) /\ DOMAIN t = 1..Len(t)
    BY LenFacts, Zenon
  <2> QED
    BY <2>1, <2>2, <2>3, Zenon
<1>2. ASSUME NEW i \in DOMAIN c, i <= Len(s)
      PROVE  i \in DOMAIN s /\ c[i] = s[i] /\ c[i] \in Elements(s)
  <2>1. i \in DOMAIN s /\ c[i] = s[i]
    BY <1>1, <1>2
  <2> QED
    BY <2>1, Zenon DEF Elements
<1>3. ASSUME NEW i \in DOMAIN c, ~(i <= Len(s))
      PROVE  /\ i - Len(s) \in DOMAIN t /\ c[i] = t[i - Len(s)] /\ c[i] \in Elements(t)
             /\ (i - Len(s)) + Len(s) = i
  <2>1. i - Len(s) \in DOMAIN t /\ c[i] = t[i - Len(s)] /\ (i - Len(s)) + Len(s) = i
    BY <1>1, <1>3
  <2> QED
    BY <2>1, Zenon DEF Elements
<1>4. ASSUME NEW p, NEW q, Clash(p, q) PROVE Clash(q, p)
  BY <1>4, Zenon DEF Clash
<1> SUFFICES ASSUME NEW i \in DOMAIN c, NEW j \in DOMAIN c, Clash(c[i], c[j])
             PROVE  i = j
  BY Zenon DEF Distinct
<1> HIDE DEF c
<1>5. CASE i <= Len(s) /\ j <= Len(s)
  BY <1>2, <1>5, Zenon DEF Distinct
<1>6. CASE ~(i <= Len(s)) /\ ~(j <= Len(s))
  <2>1. i - Len(s) = j - Len(s)
    BY <1>3, <1>6, Zenon DEF Distinct
  <2> QED
    BY <1>3, <1>6, <2>1, Zenon
<1>7. CASE i <= Len(s) /\ ~(j <= Len(s))
  BY <1>2, <1>3, <1>7, Zenon
<1>8. CASE ~(i <= Len(s)) /\ j <= Len(s)
  BY <1>2, <1>3, <1>4, <1>8, Zenon
<1> QED
  BY <1>5, <1>6, <1>7, <1>8, Zenon

\* A run of numbered packets.
LEMMA NumberedDistinct ==
    ASSUME TypeOK, NEW e \in Ends, NEW n \in 1..MaxSeq, NEW ts \in Seq(Types),
           n + Len(ts) <= MaxSeq + 1
    PROVE  /\ Distinct(Numbered(e, n, ts))
           /\ \A p \in Elements(Numbered(e, n, ts)) :
                 p.seq \in Nat /\ n <= p.seq /\ p.seq < n + Len(ts)
<1> DEFINE ps == Numbered(e, n, ts)
<1>1. Len(ts) \in Nat /\ DOMAIN ts = 1..Len(ts) /\ MaxSeq \in Nat
  BY LenFacts, LinkAssumption, Zenon
<1>2. DOMAIN ps = DOMAIN ts /\ \A i \in DOMAIN ts : ps[i].seq = n + i - 1
  BY DEF Numbered, Packet
<1> HIDE DEF ps
<1>3. ASSUME NEW i \in DOMAIN ts, NEW j \in DOMAIN ts, ps[i].seq = ps[j].seq
      PROVE  i = j
  BY <1>1, <1>2, <1>3
<1>4. Distinct(ps)
  BY <1>2, <1>3, Zenon DEF Distinct, Clash
<1>5. ASSUME NEW i \in DOMAIN ts
      PROVE  ps[i].seq \in Nat /\ n <= ps[i].seq /\ ps[i].seq < n + Len(ts)
  BY <1>1, <1>2
<1>6. \A p \in Elements(ps) : p.seq \in Nat /\ n <= p.seq /\ p.seq < n + Len(ts)
  BY <1>2, <1>5, Zenon DEF Elements
<1> QED
  BY <1>4, <1>6, Zenon DEF ps

\* A step of e that leaves rest of what was on its way to it and sends ps:
\* reliable packets have new numbers, from b on, and an Ack confirms a packet
\* that is gone.
SendsNew(e, rest, ps, b) ==
    /\ net'[e] = rest /\ net'[Other(e)] = Queued(e, ps)
    /\ Distinct(rest) /\ Elements(rest) \subseteq InFlight(e) /\ Distinct(ps)
    /\ b <= sequence_out'[e] /\ sequence_out' \in [Ends -> 1..(MaxSeq + 1)]
    /\ sequence_out'[Other(e)] = sequence_out[Other(e)]
    /\ \A p \in InFlight(Other(e)) : p.type \in Reliable => p.seq < b
    /\ \A p \in InFlight(e) : p.type = "Ack" =>
          p.seq < b /\ \A q \in InFlight(Other(e)) : q.type \in Reliable => q.seq # p.seq
    /\ \A p \in Elements(ps) : p.type \in Reliable => b <= p.seq /\ p.seq < sequence_out'[e]
    /\ \A p \in Elements(ps) : p.type = "Ack" =>
          /\ p.seq < sequence_out[Other(e)]
          /\ \A q \in Elements(rest) : q.type \in Reliable => q.seq # p.seq

LEMMA Outgoing ==
    ASSUME TypeOK, NEW e \in Ends, NumbersAt(Other(e)),
           NEW rest, NEW ps \in Seq(Packets), NEW b \in Int, SendsNew(e, rest, ps, b)
    PROVE  \A f \in Ends : NumbersAt(f)'
<1> USE DEF SendsNew
<1> DEFINE o == Other(e)
<1>1. o \in Ends /\ Ends = {e, o} /\ Other(o) = e
  BY TwoEnds, Zenon
<1>2. /\ net[o] \in Seq(Packets) /\ sequence_out'[e] \in Int /\ MaxSeq \in Nat
      /\ \A p \in InFlight(e) : p \in Packets
      /\ \A p \in InFlight(o) : p \in Packets
      /\ \A p \in Elements(ps) : p \in Packets
  <2>1. net[o] \in Seq(Packets) /\ net[e] \in Seq(Packets)
    BY <1>1, Zenon DEF TypeOK
  <2>2. ASSUME NEW x \in Seq(Packets), NEW p \in Elements(x) PROVE p \in Packets
    <3>1. DOMAIN x = 1..Len(x) /\ \A k \in 1..Len(x) : x[k] \in Packets
      BY <2>2, LenFacts, Zenon
    <3> QED
      BY <2>2, <3>1, Zenon DEF Elements
  <2>3. sequence_out'[e] \in Int /\ MaxSeq \in Nat
    BY LinkAssumption
  <2> QED
    BY <2>1, <2>2, <2>3, Zenon DEF InFlight
<1>3. \A p \in Packets : p.seq \in Int
  BY <1>2 DEF Packets
<1>4. ASSUME NEW p \in InFlight(o), NEW q \in Elements(ps) PROVE ~Clash(p, q)
  <2>1. p.type \in Reliable /\ q.type \in Reliable => p.seq < b /\ b <= q.seq
    BY <1>4, Zenon
  <2>2. p.seq \in Int /\ q.seq \in Int
    BY <1>2, <1>3, <1>4, Zenon
  <2> QED
    BY <2>1, <2>2 DEF Clash
<1>5. Distinct(net'[o])
  <2>3. net'[o] = Queued(e, ps) /\ Distinct(ps) /\ Distinct(net[o])
    BY <1>1, Zenon DEF NumbersAt
  <2> HIDE DEF SendsNew
  <2>1. CASE up
    <3>1. Distinct(net[o] \o ps)
      BY <1>2, <1>4, <2>3, ConcatDistinct, Zenon DEF InFlight
    <3> QED
      BY <2>1, <2>3, <3>1, Zenon DEF Queued
  <2>2. CASE ~up
    <3>1. net'[o] = net[o]
      BY <1>2, <2>2, <2>3, ConcatEmpty, Zenon DEF Queued
    <3> QED
      BY <2>3, <3>1, Zenon
  <2> QED
    BY <2>1, <2>2, Zenon
<1>6. InFlight(e)' \subseteq InFlight(e) /\ InFlight(e)' = Elements(rest)
  BY Zenon DEF InFlight
<1>7. InFlight(o)' \subseteq InFlight(o) \cup Elements(ps)
  BY QueuedElements, Zenon DEF InFlight
<1>8. ASSUME NEW p \in InFlight(o)', p.type \in Reliable PROVE p.seq < sequence_out'[e]
  <2>1. CASE p \in InFlight(o)
    <3>1. p.seq < b /\ p.seq \in Int
      BY <1>2, <1>3, <1>8, <2>1, Zenon
    <3> QED
      BY <1>2, <3>1
  <2> QED
    BY <1>7, <1>8, <2>1, Zenon
<1>9. ASSUME NEW p \in InFlight(e)', p.type = "Ack"
      PROVE  /\ p.seq < sequence_out'[e]
             /\ \A q \in InFlight(o)' : q.type \in Reliable => q.seq # p.seq
  <2>1. p.seq < b /\ p.seq \in Int
    BY <1>2, <1>3, <1>6, <1>9, Zenon
  <2>2. ASSUME NEW q \in InFlight(o)', q.type \in Reliable PROVE q.seq # p.seq
    <3>1. CASE q \in InFlight(o)
      BY <1>6, <1>9, <2>2, <3>1, Zenon
    <3>2. CASE q \in Elements(ps)
      <4>1. b <= q.seq /\ q.seq \in Int
        BY <1>2, <1>3, <2>2, <3>2, Zenon
      <4> QED
        BY <2>1, <4>1
    <3> QED
      BY <1>7, <3>1, <3>2, Zenon
  <2>3. p.seq < sequence_out'[e]
    BY <1>2, <2>1
  <2> QED
    BY <2>2, <2>3, Zenon
<1>10. NumbersAt(e)'
  BY <1>1, <1>8, <1>9, Zenon DEF NumbersAt
<1>11. ASSUME NEW p \in InFlight(o)', p.type = "Ack"
       PROVE  /\ p.seq < sequence_out'[o]
              /\ \A q \in InFlight(e)' : q.type \in Reliable => q.seq # p.seq
  <2>1. CASE p \in InFlight(o)
    BY <1>1, <1>6, <1>11, <2>1, Zenon DEF NumbersAt
  <2>2. CASE p \in Elements(ps)
    BY <1>6, <1>11, <2>2, Zenon
  <2> QED
    BY <1>7, <2>1, <2>2, Zenon
<1>12. \A p \in InFlight(e)' : p.type \in Reliable => p.seq < sequence_out'[o]
  BY <1>1, <1>6, Zenon DEF NumbersAt
<1>13. NumbersAt(o)'
  BY <1>1, <1>5, <1>11, <1>12, Zenon DEF NumbersAt
<1> QED
  BY <1>1, <1>10, <1>13, Zenon

LEMMA SendNumbers ==
    ASSUME TypeOK, \A f \in Ends : NumbersAt(f), NEW e \in Ends, NEW ps \in Seq(Packets),
           Send(e, ps), Distinct(ps), NEW b \in Int,
           b <= sequence_out'[e], sequence_out' \in [Ends -> 1..(MaxSeq + 1)],
           \A f \in Ends \ {e} : sequence_out'[f] = sequence_out[f],
           b = sequence_out[e] \/ \A f \in Ends : InFlight(f) = {},
           \A p \in Elements(ps) :
               /\ p.type # "Ack"
               /\ p.type \in Reliable => b <= p.seq /\ p.seq < sequence_out'[e]
    PROVE  \A f \in Ends : NumbersAt(f)'
<1>1. Other(e) \in Ends /\ Other(e) # e
  BY TwoEnds, Zenon
<1>2. net'[e] = net[e] /\ net'[Other(e)] = Queued(e, ps)
  BY <1>1, Zenon DEF Send, TypeOK
<1>3. /\ Distinct(net[e]) /\ Distinct(net[Other(e)]) /\ Elements(net[e]) \subseteq InFlight(e)
      /\ sequence_out'[Other(e)] = sequence_out[Other(e)]
  BY <1>1, Zenon DEF NumbersAt, InFlight
<1>4. /\ \A p \in InFlight(Other(e)) : p.type \in Reliable => p.seq < b
      /\ \A p \in InFlight(e) : p.type = "Ack" =>
            p.seq < b /\ \A q \in InFlight(Other(e)) : q.type \in Reliable => q.seq # p.seq
  <2>1. CASE b = sequence_out[e]
    BY <2>1, Zenon DEF NumbersAt
  <2>2. CASE \A f \in Ends : InFlight(f) = {}
    BY <1>1, <2>2, Zenon
  <2> QED
    BY <2>1, <2>2, Zenon
<1>5. SendsNew(e, net[e], ps, b)
  BY <1>2, <1>3, <1>4, Zenon DEF SendsNew
<1> QED
  BY <1>1, <1>5, Outgoing, Zenon

LEMMA TakeNumbers ==
    ASSUME TypeOK, \A f \in Ends : NumbersAt(f), NEW e \in Ends, NEW i \in DOMAIN net[e],
           NEW out \in Seq(Packets), Take(e, i, out), Distinct(out),
           sequence_out[e] <= sequence_out'[e], sequence_out' \in [Ends -> 1..(MaxSeq + 1)],
           \A f \in Ends \ {e} : sequence_out'[f] = sequence_out[f],
           \A p \in Elements(out) :
               /\ p.type # "Ack"
               /\ p.type \in Reliable => sequence_out[e] <= p.seq /\ p.seq < sequence_out'[e]
    PROVE  \A f \in Ends : NumbersAt(f)'
<1> DEFINE m == net[e][i]
           acks == SendAckPacket(e, m)
           rest == Drop(net[e], i)
<1>1. Other(e) \in Ends /\ Other(e) # e /\ Other(Other(e)) = e
  BY TwoEnds, Zenon
<1>2. m \in Packets /\ m \in InFlight(e) /\ acks \in Seq(Packets)
  BY AckElements, Zenon
<1>3. \A p \in Elements(acks) : p.type = "Ack" /\ p.seq = m.seq /\ m.type \in Reliable
  <2> DEFINE a == Packet(e, "Ack", m.seq)
  <2>1. a.type = "Ack" /\ a.seq = m.seq
    BY DEF Packet
  <2>2. CASE m.type \in Reliable
    <3>1. acks = <<a>>
      BY <2>2, Zenon DEF SendAckPacket
    <3> HIDE DEF a
    <3>2. DOMAIN <<a>> = {1} /\ <<a>>[1] = a
      OBVIOUS
    <3> QED
      BY <2>1, <2>2, <3>1, <3>2, Zenon DEF Elements
  <2>3. CASE m.type \notin Reliable
    <3>1. acks = << >>
      BY <2>3, Zenon DEF SendAckPacket
    <3>2. Elements(<< >>) = {}
      BY EmptyFacts DEF Elements
    <3> QED
      BY <3>1, <3>2, Zenon
  <2> QED
    BY <2>2, <2>3, Zenon
<1>4. "Ack" \notin Reliable
  BY Zenon DEF Reliable
<1>5. Distinct(acks)
  BY <1>3, <1>4, Zenon DEF Distinct, Clash, Elements
<1>6. net'[e] = rest /\ net'[Other(e)] = Queued(e, out \o acks)
  <2>1. net' = [net EXCEPT ![e] = rest, ![Other(e)] = Queued(e, out \o acks)]
    BY <1>1, Zenon DEF Take, TypeOK
  <2> HIDE DEF acks, rest
  <2> QED
    BY <1>1, <2>1, Zenon DEF TypeOK
<1>7. net[e] \in Seq(Packets) /\ Distinct(net[e]) /\ Distinct(net[Other(e)])
  BY <1>1, Zenon DEF TypeOK, NumbersAt
<1>8. /\ Distinct(rest) /\ Elements(rest) \subseteq InFlight(e)
      /\ \A p \in Elements(rest) : ~Clash(p, m)
  BY <1>7, DropDistinct, DropElements, Zenon DEF InFlight
<1> HIDE DEF acks, rest, m
<1>9. out \o acks \in Seq(Packets) /\ Elements(out \o acks) = Elements(out) \cup Elements(acks)
  BY <1>2, ConcatElements, ZenonT(60)
<1>10. Distinct(out \o acks)
  <2>1. \A p \in Elements(out), q \in Elements(acks) : ~Clash(p, q)
    BY <1>3, <1>4, Zenon DEF Clash
  <2> QED
    BY <1>2, <1>5, <2>1, ConcatDistinct, Zenon
<1>11. \A p \in Elements(out \o acks) :
          p.type \in Reliable => sequence_out[e] <= p.seq /\ p.seq < sequence_out'[e]
  BY <1>3, <1>4, <1>9, Zenon
<1>12. \A p \in Elements(out \o acks) : p.type = "Ack" =>
          /\ p.seq < sequence_out[Other(e)]
          /\ \A q \in Elements(rest) : q.type \in Reliable => q.seq # p.seq
  <2>1. m.type \in Reliable => m.seq < sequence_out[Other(e)]
    BY <1>1, <1>2, Zenon DEF NumbersAt
  <2> QED
    BY <1>3, <1>8, <1>9, <2>1, Zenon DEF Clash
<1>13. /\ sequence_out[e] \in Int /\ NumbersAt(Other(e))
       /\ sequence_out'[Other(e)] = sequence_out[Other(e)]
  <2>1. sequence_out[e] \in 1..(MaxSeq + 1) /\ MaxSeq \in Nat
    BY LinkAssumption, Zenon DEF TypeOK
  <2>2. sequence_out[e] \in Int
    BY <2>1
  <2> QED
    BY <1>1, <2>2, Zenon
<1>14. /\ \A p \in InFlight(Other(e)) : p.type \in Reliable => p.seq < sequence_out[e]
       /\ \A p \in InFlight(e) : p.type = "Ack" =>
            /\ p.seq < sequence_out[e]
            /\ \A q \in InFlight(Other(e)) : q.type \in Reliable => q.seq # p.seq
  BY Zenon DEF NumbersAt
<1> DEFINE ps == out \o acks
<1>15. /\ ps \in Seq(Packets) /\ Distinct(ps) /\ net'[Other(e)] = Queued(e, ps)
       /\ \A p \in Elements(ps) :
             p.type \in Reliable => sequence_out[e] <= p.seq /\ p.seq < sequence_out'[e]
       /\ \A p \in Elements(ps) : p.type = "Ack" =>
             /\ p.seq < sequence_out[Other(e)]
             /\ \A q \in Elements(rest) : q.type \in Reliable => q.seq # p.seq
  BY <1>6, <1>9, <1>10, <1>11, <1>12, Zenon
<1> HIDE DEF ps
<1>16. SendsNew(e, rest, ps, sequence_out[e])
  BY <1>6, <1>8, <1>13, <1>14, <1>15, Zenon DEF SendsNew
<1> QED
  BY <1>13, <1>15, <1>16, Outgoing, Zenon

\* send_control numbers its packets from the counter on.
LEMMA ControlNumbers ==
    ASSUME TypeOK, NEW e \in Ends, NEW ts \in Seq(Types), ts # << >>, SendControl(e, ts),
           \A t \in Elements(ts) : t # "Ack"
    PROVE  /\ Distinct(Numbered(e, sequence_out[e], ts))
           /\ Numbered(e, sequence_out[e], ts) \in Seq(Packets)
           /\ sequence_out[e] <= sequence_out'[e] /\ sequence_out' \in [Ends -> 1..(MaxSeq + 1)]
           /\ \A f \in Ends \ {e} : sequence_out'[f] = sequence_out[f]
           /\ \A p \in Elements(Numbered(e, sequence_out[e], ts)) :
                 p.type # "Ack" /\ sequence_out[e] <= p.seq /\ p.seq < sequence_out'[e]
<1>1. /\ sequence_out' \in [Ends -> 1..(MaxSeq + 1)]
      /\ Numbered(e, sequence_out[e], ts) \in Seq(Packets)
      /\ \A p \in Elements(Numbered(e, sequence_out[e], ts)) : p.type \in Elements(ts)
  BY ControlTypes, Zenon
<1>2. /\ sequence_out' = [sequence_out EXCEPT ![e] = sequence_out[e] + Len(ts)]
      /\ sequence_out[e] + Len(ts) <= MaxSeq + 1
  BY Zenon DEF SendControl, Remember
<1>3. /\ sequence_out'[e] = sequence_out[e] + Len(ts)
      /\ \A f \in Ends \ {e} : sequence_out'[f] = sequence_out[f]
  BY <1>2, Zenon DEF TypeOK
<1>4. Len(ts) \in Nat \ {0} /\ MaxSeq \in Nat /\ sequence_out[e] \in 1..(MaxSeq + 1)
  BY TailFacts, LinkAssumption, Zenon DEF TypeOK
<1>5. sequence_out[e] \in 1..MaxSeq /\ sequence_out[e] <= sequence_out'[e]
  BY <1>2, <1>3, <1>4
<1>6. /\ Distinct(Numbered(e, sequence_out[e], ts))
      /\ \A p \in Elements(Numbered(e, sequence_out[e], ts)) :
            sequence_out[e] <= p.seq /\ p.seq < sequence_out[e] + Len(ts)
  BY <1>2, <1>5, NumberedDistinct, Zenon
<1> QED
  BY <1>1, <1>3, <1>5, <1>6, Zenon

LEMMA HandlerNumbers ==
    ASSUME TypeOK, \A f \in Ends : NumbersAt(f), NEW e \in Ends, NEW i \in DOMAIN net[e],
           Handle(e, i)
    PROVE  \A f \in Ends : NumbersAt(f)'
<1>1. ASSUME Take(e, i, << >>), UNCHANGED sequence_out PROVE \A f \in Ends : NumbersAt(f)'
  <2>1. << >> \in Seq(Packets) /\ Elements(<< >>) = {} /\ Distinct(<< >>)
    BY EmptyFacts DEF Elements, Distinct
  <2>2. sequence_out[e] <= sequence_out'[e] /\ sequence_out' \in [Ends -> 1..(MaxSeq + 1)]
    BY <1>1, LinkAssumption DEF TypeOK
  <2> QED
    BY <1>1, <2>1, <2>2, TakeNumbers, Zenon
<1>2. ASSUME NEW ts \in Seq(Types), ts # << >>, \A t \in Elements(ts) : t # "Ack",
             SendControl(e, ts), Take(e, i, Numbered(e, sequence_out[e], ts))
      PROVE  \A f \in Ends : NumbersAt(f)'
  BY <1>2, ControlNumbers, TakeNumbers, ZenonT(60)
<1>3. CASE HandleHandshake(e, i)
  <2>1. CASE token[Other(e)] # token[e]
    BY <1>1, <1>3, <2>1, Zenon DEF HandleHandshake
  <2>2. CASE token[Other(e)] = token[e]
    <3>1. SendControl(e, Answer(e)) /\ Take(e, i, Numbered(e, sequence_out[e], Answer(e)))
      BY <1>3, <2>2, Zenon DEF HandleHandshake
    <3>2. /\ Answer(e) \in Seq(Types) /\ Answer(e) # << >>
          /\ \A t \in Elements(Answer(e)) : t # "Ack"
      BY ControlRuns, Zenon
    <3> QED
      BY <1>2, <3>1, <3>2, Zenon
  <2> QED
    BY <2>1, <2>2, Zenon
<1>4. CASE HandleHandshakeAck(e, i)
  <2>1. CASE state[e] \in {"Handshake", "Established"}
    <3> DEFINE ts == <<"Online">>
    <3>1. SendControl(e, ts) /\ Take(e, i, Numbered(e, sequence_out[e], ts))
      BY <1>4, <2>1, Zenon DEF HandleHandshakeAck
    <3>2. "Online" \in Types
      BY Zenon DEF Types, Reliable
    <3>3. ts \in Seq(Types) /\ ts # << >> /\ Elements(ts) = {"Online"}
      BY <3>2, ControlRuns, Zenon
    <3> HIDE DEF ts
    <3> QED
      BY <1>2, <3>1, <3>3, Zenon
  <2>2. CASE state[e] \notin {"Handshake", "Established"}
    BY <1>1, <1>4, <2>2, Zenon DEF HandleHandshakeAck
  <2> QED
    BY <2>1, <2>2, Zenon
<1>5. CASE HandleOnline(e, i) \/ HandleHeartbeat(e, i) \/ HandleBye(e, i) \/ HandleAck(e, i)
  BY <1>1, <1>5, Zenon DEF HandleOnline, HandleHeartbeat, HandleBye, HandleAck
<1> QED
  BY <1>3, <1>4, <1>5, Zenon DEF Handle

LEMMA NumberStep ==
    ASSUME TypeOK, KeyInv, NumberInv, [Next]_vars
    PROVE  NumberInv'
<1> USE DEF vars, endVars, clockVars, threadVars, faultVars, config
<1>1. ASSUME NEW e \in Ends, Crash(e) \/ Stop(e) PROVE ~OneConnector'
  <2>1. exits' = exits + 1
    BY <1>1, Zenon DEF Crash, Stop, Exit
  <2>2. exits' # 0
    BY <2>1, LinkAssumption DEF TypeOK
  <2> QED
    BY <2>2, Zenon DEF OneConnector
<1>2. UNCHANGED exits \/ \E e \in Ends : Crash(e) \/ Stop(e)
  BY Zenon DEF Next, Connect, Start, Accept, Receive, FireReceiver,
         SendHandshakes, SendHeartbeats, Reactor, CheckOffline, CloseDead, ClearPending,
         FireClosed, Rearm, Lose, Unreachable, Outage, Restore, Tick
<1> SUFFICES ASSUME OneConnector' PROVE \A f \in Ends : NumbersAt(f)'
  BY Zenon DEF NumberInv
<1>3. OneConnector /\ \A f \in Ends : NumbersAt(f)
  BY <1>1, <1>2, Zenon DEF OneConnector, NumberInv
<1>4. /\ MaxSeq \in Nat \ {0} /\ \A e \in Ends : sequence_out[e] \in Int
      /\ \A e \in Ends : sequence_out[e] <= sequence_out[e]
  BY LinkAssumption DEF TypeOK
<1> DEFINE ts == <<"Handshake">>
<1>5. ts \in Seq(Types) /\ ts # << >> /\ Elements(ts) = {"Handshake"} /\ Len(ts) = 1
  <2>1. "Handshake" \in Types /\ Len(ts) = 1
    BY Zenon DEF Types, Reliable
  <2> QED
    BY <2>1, ControlRuns, Zenon
<1>6. ASSUME NEW e \in Ends, SendHandshake(e) PROVE \A f \in Ends : NumbersAt(f)'
  <2>1. SendControl(e, ts) /\ Send(e, Numbered(e, sequence_out[e], ts))
    BY <1>6, Zenon DEF SendHandshake
  <2> HIDE DEF ts
  <2>2. /\ Distinct(Numbered(e, sequence_out[e], ts))
        /\ Numbered(e, sequence_out[e], ts) \in Seq(Packets)
        /\ sequence_out[e] <= sequence_out'[e] /\ sequence_out' \in [Ends -> 1..(MaxSeq + 1)]
        /\ \A f \in Ends \ {e} : sequence_out'[f] = sequence_out[f]
        /\ \A p \in Elements(Numbered(e, sequence_out[e], ts)) :
              p.type # "Ack" /\ sequence_out[e] <= p.seq /\ p.seq < sequence_out'[e]
    BY <1>5, <2>1, ControlNumbers, Zenon
  <2> QED
    BY <1>3, <1>4, <2>1, <2>2, SendNumbers, Zenon
<1>7. ASSUME NEW e \in Ends, Connect(e), ~reconnect[e] PROVE \A f \in Ends : NumbersAt(f)'
  <2>1. Remember(e, 1, {}, ts) /\ Send(e, Numbered(e, 1, ts)) /\ e \in Connectors
    BY <1>7, Zenon DEF Connect
  <2>2. \A f \in Ends : InFlight(f) = {}
    BY <1>3, <1>7, <2>1, Zenon DEF KeyInv
  <2> HIDE DEF ts
  <2>3. 1 \in 1..MaxSeq /\ 1 + Len(ts) <= MaxSeq + 1 /\ 1 \in Int
    BY <1>4, <1>5
  <2>4. sequence_out' = [sequence_out EXCEPT ![e] = 1 + Len(ts)] /\ 1 + Len(ts) \in 1..(MaxSeq + 1)
    <3>1. sequence_out' = [sequence_out EXCEPT ![e] = 1 + Len(ts)]
      BY <2>1, Zenon DEF Remember
    <3> QED
      BY <1>4, <1>5, <3>1
  <2>5. /\ sequence_out' \in [Ends -> 1..(MaxSeq + 1)] /\ sequence_out'[e] = 1 + Len(ts)
        /\ \A f \in Ends \ {e} : sequence_out'[f] = sequence_out[f]
    BY <2>4, Zenon DEF TypeOK
  <2>6. 1 <= sequence_out'[e]
    BY <1>5, <2>5
  <2>7. /\ Distinct(Numbered(e, 1, ts)) /\ Numbered(e, 1, ts) \in Seq(Packets)
        /\ \A p \in Elements(Numbered(e, 1, ts)) :
              1 <= p.seq /\ p.seq < 1 + Len(ts) /\ p.type = "Handshake"
    BY <1>5, <2>3, NumberedDistinct, NumberedElements, Zenon
  <2> QED
    BY <1>3, <2>1, <2>2, <2>3, <2>5, <2>6, <2>7, SendNumbers, Zenon
<1>8. ASSUME NEW e \in Ends, SendHeartbeats(e) PROVE \A f \in Ends : NumbersAt(f)'
  <2> DEFINE x == Packet(e, "Heartbeat", 0)
  <2>1. Send(e, <<x>>) /\ UNCHANGED sequence_out
    BY <1>8, Zenon DEF SendHeartbeats
  <2>2. x \in Packets /\ x.type # "Ack" /\ x.type \notin Reliable
    BY LinkAssumption, SMTT(60) DEF Packet, Packets, Types, Reliable, TypeOK
  <2> HIDE DEF x
  <2>3. <<x>> \in Seq(Packets) /\ DOMAIN <<x>> = {1} /\ <<x>>[1] = x
    BY <2>2
  <2>4. Distinct(<<x>>) /\ Elements(<<x>>) = {x}
    BY <2>3, Zenon DEF Distinct, Elements
  <2>5. sequence_out' \in [Ends -> 1..(MaxSeq + 1)]
    BY <2>1, Zenon DEF TypeOK
  <2> QED
    BY <1>3, <1>4, <2>1, <2>2, <2>3, <2>4, <2>5, SendNumbers, Zenon
<1>9. ASSUME NEW e \in Ends, Receive(e) PROVE \A f \in Ends : NumbersAt(f)'
  <2>1. PICK i \in DOMAIN net[e] : Handle(e, i)
    BY <1>9, Zenon DEF Receive, Arriving
  <2> QED
    BY <1>3, <2>1, HandlerNumbers, Zenon
<1>10. ASSUME UNCHANGED sequence_out,
              \A f \in Ends : Distinct(net'[f]) /\ InFlight(f)' \subseteq InFlight(f)
       PROVE  \A f \in Ends : NumbersAt(f)'
  BY <1>3, <1>10, TwoEnds, Zenon DEF NumbersAt
<1>11. ASSUME UNCHANGED <<sequence_out, net>> PROVE \A f \in Ends : NumbersAt(f)'
  BY <1>3, <1>11, Zenon DEF NumbersAt, InFlight
<1>12. CASE Lose
  <2>1. PICK e \in Ends : \E i \in DOMAIN net[e] : net' = [net EXCEPT ![e] = Drop(@, i)]
    BY <1>12, Zenon DEF Lose
  <2>2. PICK i \in DOMAIN net[e] : net' = [net EXCEPT ![e] = Drop(net[e], i)]
    BY <2>1, Zenon
  <2>3. net[e] \in Seq(Packets) /\ Distinct(net[e])
    BY <1>3, Zenon DEF TypeOK, NumbersAt
  <2>4. Distinct(Drop(net[e], i)) /\ Elements(Drop(net[e], i)) \subseteq Elements(net[e])
    BY <2>3, DropDistinct, DropElements, Zenon
  <2>5. \A f \in Ends : net'[f] = IF f = e THEN Drop(net[e], i) ELSE net[f]
    BY <2>2, Zenon DEF TypeOK
  <2>6. UNCHANGED sequence_out
    BY <1>12, Zenon DEF Lose
  <2> QED
    BY <1>3, <1>10, <2>4, <2>5, <2>6, Zenon DEF InFlight, NumbersAt
<1>13. CASE Unreachable
  <2>1. UNCHANGED sequence_out /\ \A f \in Ends : net'[f] = << >> \/ net'[f] = net[f]
    BY <1>13, Zenon DEF Unreachable, TypeOK
  <2>2. Elements(<< >>) = {} /\ Distinct(<< >>)
    BY EmptyFacts DEF Elements, Distinct
  <2> QED
    BY <1>3, <1>10, <2>1, <2>2, Zenon DEF InFlight, NumbersAt
<1>14. ASSUME NEW e \in Ends, Connect(e) PROVE \A f \in Ends : NumbersAt(f)'
  BY <1>6, <1>7, <1>14, Zenon DEF Connect
<1>15. CASE \/ Outage \/ Restore \/ Tick \/ UNCHANGED vars
            \/ \E e \in Ends : Start(e) \/ Accept(e) \/ FireReceiver(e) \/ Reactor(e)
  <2>1. UNCHANGED <<sequence_out, net>>
    BY <1>15, Zenon DEF Outage, Restore, Tick, Start, Accept, FireReceiver, Reactor,
       CheckOffline, CloseDead, ClearPending, FireClosed, Rearm
  <2> QED
    BY <1>11, <2>1, Zenon
<1>16. \A e \in Ends : ~Crash(e) /\ ~Stop(e)
  BY <1>1, Zenon
<1>17. ASSUME NEW e \in Ends, SendHandshakes(e) PROVE \A f \in Ends : NumbersAt(f)'
  BY <1>6, <1>17, Zenon DEF SendHandshakes
<1> QED
  BY <1>8, <1>9, <1>12, <1>13, <1>14, <1>15, <1>16, <1>17, Zenon DEF Next

-----------------------------------------------------------------------------
(***************************************************************************)
(* The theorems                                                            *)
(***************************************************************************)

LEMMA InitInv == Init => IInv
<1> SUFFICES ASSUME Init PROVE IInv
  BY Zenon
<1>1. TypeOK
  BY InitTypes, Zenon
<1>2. ASSUME NEW e \in Ends
      PROVE  /\ reconnect[e] = FALSE /\ key[e] = 0 /\ reactor[e] = "idle"
             /\ firing[e] = "none" /\ told[e] = "none" /\ InFlight(e) = {}
  <2>1. net[e] = << >>
    BY Zenon DEF Init
  <2>2. InFlight(e) = {}
    BY <2>1, EmptyFacts DEF InFlight, Elements
  <2> QED
    BY <2>2, Zenon DEF Init
<1>3. ASSUME NEW e \in Ends
      PROVE  Down(e) /\ state[e] \notin Alive /\ (Running(e) => epoch[e] # 0)
  <2>1. CASE e \in Listening
    <3>1. state[e] = "none"
      BY <2>1, Zenon DEF Init
    <3>2. epoch[e] = 1
      BY <2>1, Zenon DEF Init
    <3> QED
      BY <3>1, <3>2 DEF Down, Alive
  <2>2. CASE e \notin Listening
    <3>1. state[e] = "off"
      BY <2>2, Zenon DEF Init
    <3> QED
      BY <3>1, Zenon DEF Running, Down, Alive
  <2> QED
    BY <2>1, <2>2, Zenon
<1>4. ProcessInv
  BY <1>2, <1>3, Zenon DEF ProcessInv
<1>5. TokenInv
  BY <1>2, <1>3, Zenon DEF TokenInv
<1>6. KeyInv
  BY <1>2, <1>3, Zenon DEF KeyInv
<1>7. EventInv /\ EventsReflectState
  BY <1>2, <1>3, Zenon DEF EventInv, EventsReflectState, Down
<1>8. NumberInv
  <2>1. ASSUME NEW e \in Ends PROVE Distinct(net[e])
    <3>1. net[e] = << >>
      BY Zenon DEF Init
    <3> QED
      BY <3>1 DEF Distinct
  <2> QED
    BY <1>2, <2>1, TwoEnds, Zenon DEF NumberInv, NumbersAt
<1> QED
  BY <1>1, <1>4, <1>5, <1>6, <1>7, <1>8, Zenon DEF IInv

\* Every state of a link satisfies the inductive invariant.
THEOREM LinkInvariant == Spec => []IInv
<1>1. IInv /\ [Next]_vars => IInv'
  BY TypeStep, KeyStep, NumberStep, EventStep, Zenon DEF IInv
<1> QED
  BY InitInv, <1>1, PTL DEF Spec

\* handle_handshake checks the token and derives the key, handle_handshake_ack
\* and handle_online check nothing: whatever is lost, overtaken or late and
\* whenever the two threads of an end run, an end is up only if the tokens
\* agree, and with a session key if no process was replaced and one end only
\* calls connect().
THEOREM KeyedTheorem == Spec => []UpOnlyKeyed
<1>1. IInv => UpOnlyKeyed
  BY Zenon DEF IInv, TokenInv, KeyInv, OneConnector, Agree, UpOnlyKeyed
<1> QED
  BY LinkInvariant, <1>1, PTL

\* fire_peer_event in lite mode: once no event is on its way, what the
\* application was told last is Online exactly when the link is.
THEOREM EventsTheorem == Spec => []EventsReflectState
<1>1. IInv => EventsReflectState
  BY Zenon DEF IInv
<1> QED
  BY LinkInvariant, <1>1, PTL

LEMMA AckedStep ==
    ASSUME TypeOK, NumberInv, [Next]_vars, NEW e \in Ends, NEW s \in pending[e] \ pending'[e]
    PROVE  \/ /\ \E i \in DOMAIN net[e] : net[e][i].type = "Ack" /\ net[e][i].seq = s
              /\ exits = 0 /\ Connectors # Ends => ~Travels(e, s)
           \/ reactor[e] = "clearing" /\ reactor'[e] = "closed"
           \/ ~reconnect[e] /\ reconnect'[e]
           \/ state'[e] = "off"
<1> USE DEF vars, endVars, clockVars, threadVars, faultVars, config
<1>1. ASSUME NEW f \in Ends, NEW ts, SendControl(f, ts) PROVE FALSE
  <2>1. pending' = [pending EXCEPT ![f] = @ \cup
                      (sequence_out[f]..(sequence_out[f] + Len(ts) - 1))]
    BY <1>1, Zenon DEF SendControl, Remember
  <2> QED
    BY <2>1, Zenon DEF TypeOK
<1>2. ASSUME NEW f \in Ends, Connect(f) PROVE ~reconnect[e] /\ reconnect'[e]
  <2>1. CASE reconnect[f]
    BY <1>1, <1>2, <2>1, Zenon DEF Connect, SendHandshake
  <2>2. CASE ~reconnect[f]
    <3>1. (\E x : pending' = [pending EXCEPT ![f] = x]) /\ NewPeer(f, "Handshake", TRUE)
      BY <1>2, <2>2, Zenon DEF Connect, Remember
    <3>2. f = e
      BY <3>1, Zenon DEF TypeOK
    <3>3. reconnect'[f]
      BY <3>1, Zenon DEF NewPeer, TypeOK
    <3> QED
      BY <2>2, <3>2, <3>3, Zenon
  <2> QED
    BY <2>1, <2>2, Zenon
<1>3. ASSUME NEW f \in Ends, NEW byes, Exit(f, byes) PROVE state'[e] = "off"
  BY <1>3, Zenon DEF Exit, NewPeer, TypeOK
<1>4. ASSUME NEW f \in Ends, Receive(f)
      PROVE  /\ \E i \in DOMAIN net[e] : net[e][i].type = "Ack" /\ net[e][i].seq = s
             /\ exits = 0 /\ Connectors # Ends => ~Travels(e, s)
  <2>1. PICK i \in DOMAIN net[f] : Handle(f, i)
    BY <1>4, Zenon DEF Receive, Arriving
  <2>2. HandleAck(f, i)
    BY <1>1, <2>1, Zenon DEF Handle, HandleHandshake, HandleHandshakeAck, HandleOnline,
                      HandleHeartbeat, HandleBye
  <2>3. pending' = [pending EXCEPT ![f] = @ \ {net[f][i].seq}] /\ net[f][i].type = "Ack"
    BY <2>2, Zenon DEF HandleAck
  <2>4. f = e /\ s = net[f][i].seq
    BY <2>3, Zenon DEF TypeOK
  <2>5. ASSUME OneConnector PROVE ~Travels(e, s)
    <3>1. net[e][i] \in InFlight(e) /\ net[e][i].type = "Ack" /\ net[e][i].seq = s
      BY <2>3, <2>4, AckElements, Zenon
    <3>2. \A q \in InFlight(Other(e)) : q.type \in Reliable => q.seq # s
      BY <2>5, <3>1, Zenon DEF NumberInv, NumbersAt
    <3> QED
      BY <3>2, Zenon DEF Travels, InFlight, Elements
  <2> QED
    BY <2>3, <2>4, <2>5, Zenon DEF OneConnector
<1>5. ASSUME NEW f \in Ends, Reactor(f) PROVE reactor[e] = "clearing" /\ reactor'[e] = "closed"
  <2>1. ClearPending(f)
    BY <1>5, Zenon DEF Reactor, CheckOffline, CloseDead, FireClosed, Rearm
  <2>2. /\ pending' = [pending EXCEPT ![f] = {}] /\ reactor[f] = "clearing"
        /\ reactor' = [reactor EXCEPT ![f] = "closed"]
    BY <2>1, Zenon DEF ClearPending
  <2> QED
    BY <2>2, Zenon DEF TypeOK
<1>6. ASSUME NEW f \in Ends, SendHandshakes(f) PROVE FALSE
  BY <1>1, <1>6, Zenon DEF SendHandshakes, SendHandshake
<1>7. ASSUME UNCHANGED pending PROVE FALSE
  BY <1>7, Zenon
<1> QED
  BY <1>2, <1>3, <1>4, <1>5, <1>6, <1>7, Zenon DEF Next, Crash, Stop, Start, Accept, FireReceiver,
     SendHeartbeats, Lose, Unreachable, Outage, Restore, Tick

\* handle_ack erases the one packet that the Ack names, which has reached the
\* other end if no process was replaced and one end only calls connect(); every
\* other step keeps m_pending, but for the one of check_offline that clears it,
\* the connect() that replaces the record and the end of the process.
THEOREM AckedTheorem == Spec => ForgottenOnlyAcked
<1> DEFINE Forgets ==
      \A e \in Ends : \A s \in pending[e] \ pending'[e] :
          \/ /\ \E i \in DOMAIN net[e] : net[e][i].type = "Ack" /\ net[e][i].seq = s
             /\ exits = 0 /\ Connectors # Ends => ~Travels(e, s)
          \/ reactor[e] = "clearing" /\ reactor'[e] = "closed"
          \/ ~reconnect[e] /\ reconnect'[e]
          \/ state'[e] = "off"
<1>1. IInv /\ [Next]_vars => [Forgets]_vars
  BY AckedStep, Zenon DEF IInv
<1>2. ForgottenOnlyAcked <=> [][Forgets]_vars
  BY Zenon DEF ForgottenOnlyAcked
<1> HIDE DEF Forgets
<1> QED
  BY LinkInvariant, <1>1, <1>2, PTL DEF Spec

=============================================================================
