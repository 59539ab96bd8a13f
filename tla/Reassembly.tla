------------------------------ MODULE Reassembly ------------------------------
(***************************************************************************)
(* Messages cut into fragments with parity (fragmenter.cpp) and put        *)
(* together again from any sufficient part of them (the second half of     *)
(* Reassembler::handle_data, try_assemble), for one direction of a link.   *)
(* Fragments carry their real bytes; the erasure code is a parameter, and  *)
(* module Fec the one the program has.                                     *)
(*                                                                         *)
(* Two threads of the receiving end use m_incoming: the receiver thread,   *)
(* which holds a reference to the entry it works on across several         *)
(* critical sections, and the reactor, whose check_offline erases old      *)
(* entries.  In lite mode both run on the one reactor thread.              *)
(***************************************************************************)
EXTENDS Integers, Sequences, FiniteSets, SeqMaps

CONSTANTS Payloads,         \* the messages each process may send, as sequences
                            \* of bytes
          FragPayload,      \* frag_payload: mtu - kHeaderSize
          MaxMessageBytes,  \* max_message_bytes() of the receiving end
          MaxMsg,           \* bound: messages one sending process sends
          MaxRestarts,      \* bound: restarts of the sending process
          RestartPause,     \* ticks from its last message to a restart
          Lifetime,         \* ticks a copy of a fragment may arrive after
                            \* its message was sent, retransmissions included
          DeadTicks,        \* config.dead_timeout, in ticks
          Modes,            \* the choices of config.lite_mode
          Encode(_, _, _),  \* ReedSolomon::encode: data fragments, number of the
                            \* parity fragment, width
          Decode(_, _, _, _)  \* ReedSolomon::decode: data fragments at hand, their
                            \* full number, parity fragments at hand, width

Bytes == 0..255

ASSUME ReassemblyAssumption ==
    /\ \A s \in 0..MaxRestarts : /\ Payloads[s] \subseteq Seq(Bytes)
                                /\ \A m \in Payloads[s] : Len(m) < 256 * 256
    /\ FragPayload \in Nat /\ FragPayload > 4
    /\ MaxMessageBytes \in Nat \ {0}
    /\ MaxMsg \in Nat \ {0} /\ MaxRestarts \in Nat /\ RestartPause \in Nat
    /\ DeadTicks \in Nat \ {0} /\ Lifetime \in 0..(DeadTicks - 1)
    /\ Modes \subseteq BOOLEAN

VARIABLES session,     \* which process the sender is
          msg_id_out,  \* sender: m_msg_id_out
          sent,        \* <<session, id>> -> the message, its parity count and
                       \* the ticks since it was sent
          silence,     \* ticks since the last message was sent
          incoming,    \* m_incoming: id -> entry
          completed,   \* m_completed: id -> ticks since
          rx,          \* where the receiver thread stands, and its packet
          lite,        \* m_lite_mode
          undefined,   \* an erased entry was used
          arrived,     \* history: <<session, id>> -> fragments handled, while
                       \* they are too few
          enough,      \* history: messages with enough fragments handled
          delivered    \* history: id -> payloads handed over, in order

sender == <<session, msg_id_out, sent, silence>>
receiver == <<incoming, completed, rx, undefined>>
history == <<arrived, enough, delivered>>
vars == <<sender, receiver, lite, history>>

Ids == 1..MaxMsg
Sessions == 0..MaxRestarts

-----------------------------------------------------------------------------
(***************************************************************************)
(* fragment_and_send                                                       *)
(***************************************************************************)

Smaller(a, b) == IF a <= b THEN a ELSE b

\* The message behind its length, four bytes with the highest first.
full(m) == <<0, 0, Len(m) \div 256, Len(m) % 256>> \o m

data_count(m) == (Len(full(m)) + FragPayload - 1) \div FragPayload

\* Data fragment i of the message.
Span(m, i) ==
    SubSeq(full(m), i * FragPayload + 1, Smaller((i + 1) * FragPayload, Len(full(m))))

\* What compute_parity_count_for can return for d fragments: the smallest
\* number from 1.2 * H * d up, within 1..3, where the entropy H of the late
\* ratio is anything in 0..1.
ParityCounts(d) == 1..Smaller(3, (12 * d + 9) \div 10)

Padded(s) == [i \in 1..FragPayload |-> IF i <= Len(s) THEN s[i] ELSE 0]

Spans(m) == [i \in 0..(data_count(m) - 1) |-> Span(m, i)]

\* The bytes of fragment i, parity behind the data, and how many of them count.
Content(m, i) == IF i < data_count(m) THEN Padded(Span(m, i))
                 ELSE Encode(Spans(m), i - data_count(m), FragPayload)
Size(m, i) == IF i < data_count(m) THEN Len(Span(m, i)) ELSE FragPayload

\* Packet idx of a message sent with p parity fragments.
Packet(id, m, p, idx) ==
    [id |-> id, idx |-> idx, cnt |-> data_count(m) + p, flags |-> data_count(m),
     reserved |-> Size(m, idx), payload |-> Content(m, idx)]

Init ==
    /\ session = 0 /\ msg_id_out = 1 /\ sent = Empty /\ silence = 0
    /\ incoming = Empty /\ completed = Empty
    /\ rx = [pc |-> "idle"]
    /\ lite \in Modes
    /\ undefined = FALSE
    /\ arrived = Empty /\ enough = {} /\ delivered = [id \in Ids |-> <<>>]

Send ==
    /\ msg_id_out \in Ids
    /\ msg_id_out' = msg_id_out + 1
    /\ \E m \in Payloads[session] : \E p \in ParityCounts(data_count(m)) :
           sent' = With(sent, <<session, msg_id_out>>, [msg |-> m, parity |-> p, age |-> 0])
    /\ arrived' = With(arrived, <<session, msg_id_out>>, {})
    /\ silence' = 0
    /\ UNCHANGED <<session, receiver, lite, enough, delivered>>

\* The sending process dies and comes back behind the same address: its
\* counter starts again, the receiving end keeps the peer it knows.
Restart ==
    /\ session < MaxRestarts
    /\ silence >= RestartPause
    /\ session' = session + 1
    /\ msg_id_out' = 1
    /\ UNCHANGED <<sent, silence, receiver, lite, history>>

-----------------------------------------------------------------------------
(***************************************************************************)
(* handle_data on the receiver thread, from the fragment count on          *)
(***************************************************************************)

max_fragments == MaxMessageBytes \div 64 + 8

\* history: fragment idx of message k, which needs d of them, is handled
Handled(k, idx, d) ==
    IF k \notin DOMAIN arrived THEN UNCHANGED <<arrived, enough>>
    ELSE IF Cardinality(arrived[k] \cup {idx}) < d
    THEN arrived' = [arrived EXCEPT ![k] = @ \cup {idx}] /\ UNCHANGED enough
    ELSE arrived' = Without(arrived, {k}) /\ enough' = enough \cup {k}

\* Some copy of a fragment arrives; one of a completed message, or of a
\* message of too many fragments, is dropped.
Arrive(k, idx) ==
    LET m == sent[k]
        f == Packet(k[2], m.msg, m.parity, idx)
    IN  /\ rx.pc = "idle"
        /\ m.age <= Lifetime
        /\ Handled(k, idx, f.flags)
        /\ rx' = IF f.id \in DOMAIN completed \/ f.cnt > max_fragments
                 THEN [pc |-> "idle"]
                 ELSE [pc |-> "index", packet |-> f]
        /\ UNCHANGED <<sender, incoming, completed, undefined, lite, delivered>>

\* m_incoming[message_id], without a lock: a new entry is blank, its
\* m_first_seen the beginning of time.
Blank == [total |-> 0, age |-> DeadTicks]

Index ==
    /\ rx.pc = "index"
    /\ incoming' = IF rx.packet.id \in DOMAIN incoming THEN incoming
                   ELSE With(incoming, rx.packet.id, Blank)
    /\ rx' = [rx EXCEPT !.pc = "store"]
    /\ UNCHANGED <<sender, completed, undefined, lite, history>>

\* The reference is used after check_offline erased the entry.
Dangling ==
    /\ rx.pc \in {"store", "assemble"}
    /\ rx.packet.id \notin DOMAIN incoming
    /\ undefined' = TRUE
    /\ rx' = [pc |-> "idle"]
    /\ UNCHANGED <<sender, incoming, completed, lite, history>>

Fresh(f) == [total |-> f.cnt, data |-> f.flags, fragments |-> Empty, sizes |-> Empty,
             age |-> 0]

\* The first copy of a fragment is kept.
Stored(e, f) ==
    IF f.idx \in DOMAIN e.fragments THEN e
    ELSE [e EXCEPT !.fragments = With(@, f.idx, f.payload),
                   !.sizes = With(@, f.idx, f.reserved)]

Store ==
    LET f == rx.packet
        e == IF incoming[f.id] = Blank THEN Fresh(f) ELSE incoming[f.id]
    IN  /\ rx.pc = "store"
        /\ f.id \in DOMAIN incoming
        /\ incoming' = [incoming EXCEPT ![f.id] = IF e.total = f.cnt THEN Stored(e, f) ELSE e]
        /\ rx' = IF e.total = f.cnt THEN [rx EXCEPT !.pc = "assemble"] ELSE [pc |-> "idle"]
        /\ UNCHANGED <<sender, completed, undefined, lite, history>>

-----------------------------------------------------------------------------
(***************************************************************************)
(* try_assemble                                                            *)
(***************************************************************************)

\* The d data fragments one after the other, each up to its size.
Stream(fragments, sizes, d) ==
    LET part(i) == SubSeq(fragments[i], 1, Smaller(sizes[i], Len(fragments[i])))
        upto[n \in 0..d] == IF n = 0 THEN <<>> ELSE upto[n - 1] \o part(n - 1)
    IN  upto[d]

\* Mutant: the length in front of the message is not looked at.
UntrimmedMsg(fragments, sizes, d) ==
    LET stream == Stream(fragments, sizes, d)
    IN  SubSeq(stream, 5, Len(stream))

\* The message in d data fragments: the announced number of bytes behind the
\* length; nothing if the length is above the limit.
build_msg(fragments, sizes, d) ==
    LET stream == Stream(fragments, sizes, d)
        large == stream[1] + stream[2] > 0
        total == 256 * stream[3] + stream[4]
    IN  IF Len(stream) < 4 \/ large \/ total > MaxMessageBytes
        THEN <<>>
        ELSE SubSeq(stream, 5, Smaller(total + 4, Len(stream)))

\* The entry with its missing data fragments recovered from the parity
\* fragments at hand, or as it is if they do not suffice.
Recovered(e) ==
    LET d == e.data
        data == [i \in DOMAIN e.fragments \cap 0..(d - 1) |-> e.fragments[i]]
        held == {p \in 0..(e.total - d - 1) : d + p \in DOMAIN e.fragments}
        all == Decode(data, d, [p \in held |-> e.fragments[d + p]], FragPayload)
    IN  [e EXCEPT !.fragments = [i \in DOMAIN @ \cup DOMAIN all |->
                                     IF i \in DOMAIN @ THEN @[i] ELSE all[i]],
                  !.sizes = [i \in DOMAIN @ \cup DOMAIN all |->
                                     IF i \in DOMAIN @ THEN @[i] ELSE FragPayload]]

Complete(e) == (0..(e.data - 1)) \subseteq DOMAIN e.fragments

\* The message is handed over if all data fragments are there or recovered.
Assemble ==
    LET id == rx.packet.id
        e == Recovered(incoming[id])
    IN  /\ rx.pc = "assemble"
        /\ id \in DOMAIN incoming
        /\ incoming' = [incoming EXCEPT ![id] = e]
        /\ IF e.total >= 2 /\ Complete(e)
           THEN /\ delivered' = [delivered EXCEPT ![id] =
                                    Append(@, build_msg(e.fragments, e.sizes, e.data))]
                /\ rx' = [rx EXCEPT !.pc = "complete"]
           ELSE rx' = [pc |-> "idle"] /\ UNCHANGED delivered
        /\ UNCHANGED <<sender, completed, undefined, lite, arrived, enough>>

\* Mutant: the message is not remembered as completed.
ForgettingFinish ==
    /\ rx.pc = "complete"
    /\ incoming' = Without(incoming, {rx.packet.id})
    /\ rx' = [pc |-> "idle"]
    /\ UNCHANGED <<sender, completed, undefined, lite, history>>

Finish ==
    /\ rx.pc = "complete"
    /\ completed' = With(completed, rx.packet.id, 0)
    /\ incoming' = Without(incoming, {rx.packet.id})
    /\ rx' = [pc |-> "idle"]
    /\ UNCHANGED <<sender, undefined, lite, history>>

-----------------------------------------------------------------------------
(***************************************************************************)
(* check_offline on the reactor: both maps forget what is too old.         *)
(***************************************************************************)

\* Mutant: an entry is given up a tick early.
OldSooner(f) == {id \in DOMAIN f : f[id].age >= DeadTicks - 1}

Old(f) == {id \in DOMAIN f : f[id].age >= DeadTicks}
OldCompleted == {id \in DOMAIN completed : completed[id] >= DeadTicks}

\* Mutant: an old message gets another term.
RenewingExpire ==
    /\ lite => rx.pc = "idle"
    /\ Old(incoming) \cup OldCompleted # {}
    /\ incoming' = [id \in DOMAIN incoming |->
                       IF id \in Old(incoming) THEN [incoming[id] EXCEPT !.age = 0]
                                               ELSE incoming[id]]
    /\ completed' = Without(completed, OldCompleted)
    /\ UNCHANGED <<sender, rx, undefined, lite, history>>

Expire ==
    /\ lite => rx.pc = "idle"
    /\ Old(incoming) \cup OldCompleted # {}
    /\ incoming' = Without(incoming, Old(incoming))
    /\ completed' = Without(completed, OldCompleted)
    /\ UNCHANGED <<sender, rx, undefined, lite, history>>

\* Time passes.  A packet is handled within a tick, and check_offline runs
\* every 10 ms, so nothing too old is left when the clock moves on.
Older(age, max) == IF age < max THEN age + 1 ELSE age

Tick ==
    /\ rx.pc = "idle"
    /\ Old(incoming) \cup OldCompleted = {}
    /\ sent' = [k \in DOMAIN sent |-> [sent[k] EXCEPT !.age = Older(@, Lifetime + 1)]]
    /\ silence' = Older(silence, RestartPause)
    /\ incoming' = [id \in DOMAIN incoming |-> [incoming[id] EXCEPT !.age = @ + 1]]
    /\ completed' = [id \in DOMAIN completed |-> completed[id] + 1]
    /\ UNCHANGED <<session, msg_id_out, rx, undefined, lite, history>>

ReceiverStep == Index \/ Dangling \/ Store \/ Assemble \/ Finish

Next ==
    \/ Send
    \/ Restart
    \/ \E k \in DOMAIN sent : \E idx \in 0..(data_count(sent[k].msg) + sent[k].parity - 1) :
           Arrive(k, idx)
    \/ ReceiverStep
    \/ Expire
    \/ Tick

Spec == Init /\ [][Next]_vars

\* The receiver thread finishes with a packet, the reactor keeps turning.
FairSpec ==
    /\ Spec
    /\ []<>(rx.pc = "idle")
    /\ SF_vars(Expire)
    /\ SF_vars(Tick)

-----------------------------------------------------------------------------
(***************************************************************************)
(* What the receiving end relies on.                                       *)
(***************************************************************************)

\* Any q parity fragments of a message replace any q of its data fragments
\* (fec.hpp:8, architecture.md:111), and fewer replace none.
ErasureCode ==
    \A s \in Sessions : \A m \in Payloads[s] :
        \A p \in ParityCounts(data_count(m)) :
        \A D \in SUBSET (0..(data_count(m) - 1)) : \A Q \in SUBSET (0..(p - 1)) :
            LET data == [i \in D |-> Padded(Span(m, i))]
                all == [i \in 0..(data_count(m) - 1) |-> Padded(Span(m, i))]
                parity == [q \in Q |-> Encode(Spans(m), q, FragPayload)]
                missing == (0..(data_count(m) - 1)) \ D
            IN  Decode(data, data_count(m), parity, FragPayload) =
                    IF Cardinality(missing) <= Cardinality(Q) THEN all ELSE data

\* The receiving end's limits let every message pass.
AllFit ==
    \A s \in Sessions : \A m \in Payloads[s] :
        /\ Len(m) <= MaxMessageBytes
        /\ \A p \in ParityCounts(data_count(m)) : data_count(m) + p <= max_fragments

\* When a new process sends under the old ids, all of the old process's
\* fragments have arrived or are lost and check_offline has forgotten them.
QuietRestarts == RestartPause > Lifetime + DeadTicks

-----------------------------------------------------------------------------
\* The fields of the peer that hold messages have their declared types, and
\* an entry holds no more than its fragments.
TypeOK ==
    /\ session \in Sessions /\ msg_id_out \in 1..(MaxMsg + 1)
    /\ DOMAIN sent \subseteq Sessions \X Ids
    /\ DOMAIN incoming \cup DOMAIN completed \subseteq Ids
    /\ \A id \in DOMAIN incoming :
           \/ incoming[id] = Blank
           \/ /\ DOMAIN incoming[id].fragments \subseteq 0..(incoming[id].total - 1)
              /\ DOMAIN incoming[id].sizes = DOMAIN incoming[id].fragments
    /\ rx.pc \in {"idle", "index", "store", "assemble", "complete"}
    /\ {lite, undefined} \subseteq BOOLEAN
    /\ enough \subseteq DOMAIN sent /\ enough \cap DOMAIN arrived = {}

Sent(id) == {k \in DOMAIN sent : k[2] = id}

\* What the application gets under a message id is what was sent under it,
\* byte for byte, whichever fragments were lost and recovered (fec.hpp:8).
DeliveredIntact ==
    ~undefined => \A id \in Ids : \A i \in 1..Len(delivered[id]) :
        \E k \in Sent(id) : sent[k].msg = delivered[id][i]

\* No message is delivered twice, and none before as many fragments arrived as
\* it has data fragments (m_completed).
DeliveredOnce ==
    ~undefined => \A id \in Ids : Len(delivered[id]) <= Cardinality(Sent(id) \cap enough)

\* As soon as as many fragments of a message have been handled as it has data
\* fragments, whichever they are, it is delivered: any p parity fragments
\* replace any p data fragments (architecture.md:111).
EnoughDelivered ==
    ~undefined /\ rx.pc = "idle" =>
        \A id \in Ids : Len(delivered[id]) >= Cardinality(Sent(id) \cap enough)

\* The memory of a message that never becomes complete is given back.
IncomingReclaimed ==
    \A id \in Ids : id \in DOMAIN incoming ~> id \notin DOMAIN incoming

\* No entry is used after check_offline erased it: what Peer::m_mu is for
\* (architecture.md:41).  It holds in lite mode, where one thread does both.
Defined == ~undefined
=============================================================================
