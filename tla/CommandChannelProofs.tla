------------------------ MODULE CommandChannelProofs ------------------------
(***************************************************************************)
(* Proofs about CommandChannel, for any number of commands and resets, any *)
(* RTTs and both threading modes.  HeldAhead is what makes the promise of  *)
(* OrderedDelivery inductive: what is collected next lies at or beyond the *)
(* expected sequence, and everything collected before lies below it.       *)
(***************************************************************************)
EXTENDS CommandChannel, TLAPS

Inv == TypeOK /\ HeldAhead

LEMMA InvInit == Init => Inv
BY CommandAssumption
DEF Init, Inv, TypeOK, HeldAhead, Empty, Cmds, Threads, cmd_initialized

(* One batch: the commands from low up to the cursor m are collected and   *)
(* leave the held map h, whose keys all lie at or beyond low.              *)
LEMMA BatchStep ==
    ASSUME TypeOK, HeldAhead, NEW h, NEW low \in Cmds,
           NEW m \in Cmds \cup {MaxCmd + 1}, NEW t \in Threads,
           DOMAIN h \subseteq Cmds, h \in [DOMAIN h -> Nat],
           \A k \in DOMAIN h : low <= k,
           low >= cmd_next_expected,
           m > low, m \notin DOMAIN h,
           cmd_next_expected' = m,
           cmd_held' = Without(h, low..(m - 1)),
           Collect(t, low..(m - 1))
    PROVE  /\ HeldAhead'
           /\ DOMAIN cmd_held' \subseteq Cmds
           /\ cmd_held' \in [DOMAIN cmd_held' -> Nat]
           /\ ready' \in [Threads -> SUBSET Cmds]
           /\ collected' \subseteq Cmds
           /\ Abstract!Deliver
<1>1. DOMAIN cmd_held' = DOMAIN h \ (low..(m - 1))
    BY Zenon DEF Without
<1>2. cmd_held' \in [DOMAIN cmd_held' -> Nat]
    BY Zenon DEF Without
<1>3. low..(m - 1) \subseteq Cmds
    BY CommandAssumption DEF Cmds
<1>4. ready' = [ready EXCEPT ![t] = @ \cup (low..(m - 1))]
    BY Zenon DEF Collect
<1>5. ready' \in [Threads -> SUBSET Cmds]
    BY <1>3, <1>4, Zenon DEF TypeOK
<1>6. collected' = collected \cup (low..(m - 1))
    BY Zenon DEF Collect
<1>7. cmd_next_expected \in Nat /\ low \in Nat /\ m \in Nat /\ m # 0
    BY CommandAssumption, SMTT(60) DEF TypeOK, Cmds
<1>8. ASSUME NEW s \in DOMAIN cmd_held' PROVE s > m
    <2>1. s \in Nat /\ low <= s /\ s # m /\ s \notin low..(m - 1)
        BY <1>1, CommandAssumption DEF Cmds
    <2> QED BY <1>7, <2>1
<1>9. ASSUME NEW s \in collected' PROVE s < m
    <2>1. CASE s \in low..(m - 1)
        BY <1>7, <2>1
    <2>2. CASE s \in collected
        <3>1. s \in Nat /\ s < cmd_next_expected
            BY <2>2, CommandAssumption, SMTT(60) DEF HeldAhead, TypeOK, Cmds
        <3> QED BY <1>7, <3>1
    <2> QED BY <1>6, <2>1, <2>2
<1>10. HeldAhead'
    BY <1>7, <1>8, <1>9, Zenon DEF HeldAhead, cmd_initialized
<1>11. Abstract!Deliver
    <2> SUFFICES ASSUME NEW s \in collected' \ collected, NEW k \in collected
                 PROVE  k < s
        BY <1>3, <1>6, Zenon DEF Abstract!Deliver, TypeOK
    <2>1. s \in low..(m - 1)
        BY <1>6, Zenon
    <2>2. k \in Nat /\ k < cmd_next_expected
        BY CommandAssumption, SMTT(60) DEF HeldAhead, TypeOK, Cmds
    <2> QED BY <1>7, <2>1, <2>2
<1> QED BY <1>1, <1>2, <1>3, <1>5, <1>6, <1>10, <1>11 DEF TypeOK

(* Expire on a held map of the right type keeps the invariant.             *)
LEMMA ExpireStep ==
    ASSUME TypeOK, HeldAhead, NEW h, NEW g \in Nat, NEW t \in Threads,
           DOMAIN h \subseteq Cmds, h \in [DOMAIN h -> Nat],
           \A k \in DOMAIN h : k > cmd_next_expected,
           Expire(t, h, g),
           UNCHANGED <<cmd_seq_out, rtt, delivered, resets>>, wire' \subseteq wire
    PROVE  Inv' /\ Abstract!Deliver
<1>1. PICK low \in DOMAIN h, m \in Cmds \cup {MaxCmd + 1} :
          /\ \A k \in DOMAIN h : low <= k
          /\ IsCursor(m, low, DOMAIN h)
          /\ cmd_next_expected' = m
          /\ cmd_held' = Without(h, low..(m - 1))
          /\ Collect(t, low..(m - 1))
    BY Zenon DEF Expire
<1>2. cmd_gap' \in Nat
    BY DEF Expire
<1>3. m \notin DOMAIN h /\ m >= low
    BY <1>1, Zenon DEF IsCursor
<1>4. m > low /\ low >= cmd_next_expected /\ low \in Cmds
    BY <1>3, CommandAssumption DEF TypeOK, Cmds
<1>5. /\ HeldAhead'
      /\ DOMAIN cmd_held' \subseteq Cmds
      /\ cmd_held' \in [DOMAIN cmd_held' -> Nat]
      /\ ready' \in [Threads -> SUBSET Cmds]
      /\ collected' \subseteq Cmds
      /\ Abstract!Deliver
    BY <1>1, <1>3, <1>4, BatchStep, Zenon
<1>6. cmd_next_expected' \in 0..(MaxCmd + 1)
    BY <1>1, CommandAssumption DEF Cmds
<1> QED BY <1>2, <1>5, <1>6 DEF Inv, TypeOK

LEMMA Step == Inv /\ [Next]_vars => Inv' /\ [Abstract!Next]_collected
<1> SUFFICES ASSUME Inv, [Next]_vars PROVE Inv' /\ [Abstract!Next]_collected
    BY Zenon
<1>0. TypeOK /\ HeldAhead
    BY Zenon DEF Inv
<1>1. CASE SendCommand
    <2>1. cmd_seq_out' \in 1..(MaxCmd + 1) /\ wire' \subseteq Cmds
        BY <1>0, <1>1, CommandAssumption DEF SendCommand, TypeOK, Cmds
    <2>2. UNCHANGED <<cmd_next_expected, cmd_held, cmd_gap, rtt, ready, collected,
                      delivered, resets>>
        BY <1>1, Zenon DEF SendCommand
    <2> QED BY <1>0, <2>1, <2>2 DEF Inv, TypeOK, HeldAhead, cmd_initialized
<1>2. ASSUME NEW s \in wire, Handle(s)
      PROVE  Inv' /\ [Abstract!Next]_collected
    <2> DEFINE n == IF cmd_initialized THEN cmd_next_expected ELSE s
    <2>1. /\ wire' \subseteq wire
          /\ UNCHANGED <<cmd_seq_out, rtt, delivered, resets>>
          /\ \/ s < n /\ Drop(s)
             \/ s = n /\ InOrder(s)
             \/ s > n /\ Hold(s)
        BY <1>2, Zenon DEF Handle
    <2>2. s \in Cmds /\ "receiver" \in Threads
        BY <1>0, Zenon DEF TypeOK, Threads
    <2>3. CASE Drop(s)
        BY <1>0, <2>1, <2>3, Zenon DEF Drop, Inv, TypeOK, HeldAhead, cmd_initialized
    <2>4. CASE s = n /\ InOrder(s)
        <3>1. PICK m \in Cmds \cup {MaxCmd + 1} :
                  /\ IsCursor(m, s + 1, DOMAIN cmd_held)
                  /\ cmd_next_expected' = m
                  /\ cmd_held' = Without(cmd_held, s..(m - 1))
                  /\ Collect("receiver", s..(m - 1))
                  /\ UNCHANGED cmd_gap
            BY <2>4, Zenon DEF InOrder
        <3>2. s >= cmd_next_expected
            BY <1>0, <2>2, <2>4, CommandAssumption DEF TypeOK, cmd_initialized, Cmds
        <3>3. \A k \in DOMAIN cmd_held : s <= k
            BY <1>0, <2>2, <2>4, CommandAssumption DEF TypeOK, HeldAhead, Cmds
        <3>4. m > s /\ m \notin DOMAIN cmd_held
            BY <2>2, <3>1, CommandAssumption DEF IsCursor, Cmds
        <3>5. /\ HeldAhead'
              /\ DOMAIN cmd_held' \subseteq Cmds
              /\ cmd_held' \in [DOMAIN cmd_held' -> Nat]
              /\ ready' \in [Threads -> SUBSET Cmds]
              /\ collected' \subseteq Cmds
              /\ Abstract!Deliver
            <4>1. DOMAIN cmd_held \subseteq Cmds /\ cmd_held \in [DOMAIN cmd_held -> Nat]
                BY <1>0, Zenon DEF TypeOK
            <4> QED BY <1>0, <2>2, <3>1, <3>2, <3>3, <3>4, <4>1, BatchStep
        <3>6. cmd_next_expected' \in 0..(MaxCmd + 1)
            BY <3>1, CommandAssumption DEF Cmds
        <3> QED BY <1>0, <2>1, <3>1, <3>5, <3>6 DEF Inv, TypeOK, Abstract!Next
    <2>5. CASE s > n /\ Hold(s)
        <3> DEFINE h == IF s \in DOMAIN cmd_held THEN cmd_held
                        ELSE With(cmd_held, s, 0)
                   g == IF DOMAIN cmd_held = {} THEN 0 ELSE cmd_gap
        <3>1. /\ DOMAIN h = DOMAIN cmd_held \cup {s}
              /\ h \in [DOMAIN h -> Nat]
            BY <1>0, Zenon DEF TypeOK, With
        <3>2. g \in Nat
            BY <1>0, Zenon DEF TypeOK
        <3>3. cmd_initialized /\ s > cmd_next_expected
            BY <2>2, <2>5, CommandAssumption DEF Cmds
        <3>4. DOMAIN h \subseteq Cmds /\ \A k \in DOMAIN h : k > cmd_next_expected
            BY <1>0, <2>2, <3>1, <3>3, Zenon DEF TypeOK, HeldAhead
        <3>5. CASE Expired(h, g)
            <4>1. Expire("receiver", h, g)
                BY <2>5, <3>5, Zenon DEF Hold
            <4>2. Inv' /\ Abstract!Deliver
                <5> HIDE DEF h, g
                <5> QED BY <1>0, <2>1, <2>2, <3>1, <3>2, <3>4, <4>1, ExpireStep
            <4> QED BY <4>2 DEF Abstract!Next
        <3>6. CASE ~Expired(h, g)
            <4>1. /\ cmd_held' = h
                  /\ cmd_gap' = g
                  /\ UNCHANGED <<cmd_next_expected, ready, collected>>
                BY <2>5, <3>6, Zenon DEF Hold
            <4> HIDE DEF h, g
            <4>2. HeldAhead'
                BY <1>0, <3>3, <3>4, <4>1, Zenon DEF HeldAhead, cmd_initialized
            <4>3. TypeOK'
                BY <1>0, <2>1, <3>1, <3>2, <3>4, <4>1, Zenon DEF TypeOK
            <4> QED BY <4>1, <4>2, <4>3 DEF Inv
        <3> QED BY <3>5, <3>6
    <2> QED BY <2>1, <2>3, <2>4, <2>5
<1>3. CASE FlushExpired
    <2>1. /\ DOMAIN cmd_held \subseteq Cmds /\ cmd_held \in [DOMAIN cmd_held -> Nat]
          /\ cmd_gap \in Nat
          /\ \A k \in DOMAIN cmd_held : k > cmd_next_expected
          /\ "reactor" \in Threads
        BY <1>0, Zenon DEF TypeOK, HeldAhead, Threads
    <2>2. /\ Expire("reactor", cmd_held, cmd_gap)
          /\ UNCHANGED <<cmd_seq_out, rtt, delivered, resets>> /\ wire' \subseteq wire
        BY <1>3, Zenon DEF FlushExpired
    <2>3. Inv' /\ Abstract!Deliver
        BY <1>0, <2>1, <2>2, ExpireStep, Zenon
    <2> QED BY <2>3 DEF Abstract!Next
<1>4. ASSUME NEW t \in Threads, Fire(t)
      PROVE  Inv' /\ [Abstract!Next]_collected
    <2>1. PICK s \in ready[t] :
              /\ ready' = [ready EXCEPT ![t] = @ \ {s}]
              /\ delivered' = delivered \cup {s}
              /\ UNCHANGED <<cmd_seq_out, wire, cmd_next_expected, cmd_held,
                             cmd_gap, rtt, collected, resets>>
        BY <1>4, Zenon DEF Fire
    <2>2. ready' \in [Threads -> SUBSET Cmds] /\ delivered' \subseteq Cmds
        BY <1>0, <2>1, Zenon DEF TypeOK
    <2> QED BY <1>0, <2>1, <2>2 DEF Inv, TypeOK, HeldAhead, cmd_initialized
<1>5. CASE ResetSender
    <2>1. /\ resets' \in 0..MaxResets /\ cmd_seq_out' \in 1..(MaxCmd + 1)
          /\ UNCHANGED <<wire, cmd_next_expected, cmd_held, cmd_gap, rtt, ready,
                         collected, delivered>>
        BY <1>0, <1>5, CommandAssumption DEF ResetSender, TypeOK
    <2> QED BY <1>0, <2>1 DEF Inv, TypeOK, HeldAhead, cmd_initialized
<1>6. CASE ResetReceiver
    <2>1. /\ resets' \in 0..MaxResets /\ cmd_next_expected' \in 0..(MaxCmd + 1)
          /\ cmd_held' = Empty /\ cmd_gap' = 0
          /\ collected' = {} /\ delivered' = {}
          /\ UNCHANGED <<cmd_seq_out, wire, rtt, ready>>
        BY <1>0, <1>6, CommandAssumption DEF ResetReceiver, TypeOK
    <2>2. DOMAIN cmd_held' = {} /\ cmd_held' \in [DOMAIN cmd_held' -> Nat]
        BY <2>1, Zenon DEF Empty
    <2>3. HeldAhead'
        BY <2>1, <2>2, Zenon DEF HeldAhead
    <2>4. TypeOK'
        BY <1>0, <2>1, <2>2, Zenon DEF TypeOK
    <2> QED BY <2>1, <2>3, <2>4 DEF Inv, Abstract!Next, Abstract!Restart
<1>7. CASE RttSample
    BY <1>0, <1>7, Zenon DEF RttSample, Inv, TypeOK, HeldAhead, cmd_initialized
<1>8. CASE Tick
    <2>1. /\ cmd_gap' = Older(cmd_gap)
          /\ cmd_held' = [s \in DOMAIN cmd_held |-> Older(cmd_held[s])]
          /\ UNCHANGED <<cmd_seq_out, wire, cmd_next_expected, rtt, ready,
                         collected, delivered, resets>>
        BY <1>8, Zenon DEF Tick
    <2>2. /\ cmd_gap' \in Nat /\ DOMAIN cmd_held' = DOMAIN cmd_held
          /\ cmd_held' \in [DOMAIN cmd_held' -> Nat]
        BY <1>0, <2>1, CommandAssumption DEF Older, TypeOK
    <2> QED BY <1>0, <2>1, <2>2 DEF Inv, TypeOK, HeldAhead, cmd_initialized
<1>9. CASE UNCHANGED vars
    BY <1>0, <1>9, Zenon DEF vars, Inv, TypeOK, HeldAhead, cmd_initialized
<1> QED BY <1>1, <1>2, <1>3, <1>4, <1>5, <1>6, <1>7, <1>8, <1>9 DEF Next

(* The Peer fields of the command channel keep their types.                *)
THEOREM CommandTypes == Spec => []TypeOK
<1>1. Spec => []Inv
    BY InvInit, Step, PTL DEF Spec
<1> QED BY <1>1, PTL DEF Inv

(* Nothing deliverable stays in the held map: everything held waits for an *)
(* earlier command, and everything handed over lies before the expected.   *)
THEOREM HeldCommandsAhead == Spec => []HeldAhead
<1>1. Spec => []Inv
    BY InvInit, Step, PTL DEF Spec
<1> QED BY <1>1, PTL DEF Inv

(* The channel implements OrderedDelivery: within a session, commands are  *)
(* collected in order and none twice, in either threading mode.            *)
THEOREM CommandOrder == Spec => ImplementsOrderedDelivery
<1>1. Init => Abstract!Init
    BY Zenon DEF Init, Abstract!Init
<1>2. Spec => []Inv
    BY InvInit, Step, PTL DEF Spec
<1>3. Inv /\ [Next]_vars => [Abstract!Next]_collected
    BY Step, Zenon
<1> QED BY <1>1, <1>2, <1>3, PTL DEF Spec, ImplementsOrderedDelivery, Abstract!Spec

=============================================================================
