----------------------------- MODULE DataPlane -----------------------------
(***************************************************************************)
(* Numbered packets of one direction of a tight link: the sender's         *)
(* retransmission buffer (m_pending), the receiver's gap tracking          *)
(* (Reassembler::handle_data, first half), and the Report packets that     *)
(* carry the ack cursor and the lost sequences back (Report::build_payload *)
(* and Report::handle).                                                    *)
(*                                                                         *)
(* Threads.  The sender side is the encode thread (send_data_packet), the  *)
(* receiver thread (handle_report, handle_ack) and the reactor             *)
(* (send_control, check_offline); the receiving side is its receiver       *)
(* thread (handle_data) and its reactor (send_reports).  Each critical     *)
(* section under Peer::m_mu is one action.                                 *)
(*                                                                         *)
(* Network.  A datagram may be lost (it never enters the in-flight set),   *)
(* delayed and reordered (it leaves the set at any time) and duplicated    *)
(* (it is handled without leaving the set).                                *)
(*                                                                         *)
(* Time.  A std::map from sequence to time point is kept as a map to the   *)
(* entry's age in ticks of TickMs; Tick makes every age one larger, up to  *)
(* the first age beyond every threshold.                                   *)
(***************************************************************************)
EXTENDS Integers, FiniteSets, SeqMaps

CONSTANTS
    MaxSeq,          \* bound: sequences the sender hands out
    MaxControl,      \* bound: how many of them go to control packets
    MaxReports,      \* bound: reports in flight at once
    kMaxRetries,     \* Report::kMaxRetries (10)
    LostCap,         \* sequences one report can list (256)
    MissingCap,      \* hard cap of m_missing_seqs (4096)
    report_interval, \* TightConfig::report_interval, in ms
    TickMs,          \* length of a tick, in ms
    Rtts,            \* values of m_sender_rtt_us a heartbeat may carry, in ms
    Retransmit,      \* both ends have retransmit_enabled (the negotiated flag)
    Outages          \* whether the sender's link may go dead and reconnect

ASSUME BoundsAssumption ==
    /\ MaxSeq \in Nat \ {0}
    /\ MaxControl \in Nat
    /\ MaxReports \in Nat \ {0}
    /\ kMaxRetries \in Nat
    /\ LostCap \in Nat
    /\ MissingCap \in Nat
    /\ report_interval \in Nat \ {0}
    /\ TickMs \in Nat \ {0}
    /\ Rtts \subseteq Nat
    /\ Rtts # {}

ASSUME FlagsAssumption == Retransmit \in BOOLEAN /\ Outages \in BOOLEAN

VARIABLES
    \* sender: Peer fields of the transmitting end
    sequence_out,       \* m_sequence_out
    pending,            \* m_pending: sequence -> m_retries
    control,            \* sequences given to control packets by send_control
    hollow,             \* pending entries re-created empty by line 1109
    encoding,           \* sequence whose m_bytes is still to be written, or 0
    resending,          \* Report::handle's snapshot: sequence -> hollow copy?
    \* receiver: Peer fields of the receiving end
    first_seq,          \* the sequence that set m_seq_initialized, or 0
    next_expected_seq,
    recv_seqs,
    missing_seqs,       \* m_missing_seqs: sequence -> age in ticks
    sender_rtt,         \* m_sender_rtt_us
    since_report,       \* ticks since m_last_report_sent
    \* network
    wire,               \* sequences of numbered packets in flight
    reports,            \* Report packets in flight
    acks,               \* Ack packets in flight
    \* history
    received,           \* sequences handled at least once by the receiving end
    abandoned,          \* gaps the receiver erased without receiving them
    resends             \* times each sequence was put on the wire again

senderVars == <<sequence_out, pending, control, hollow, encoding, resending>>
receiverVars == <<first_seq, next_expected_seq, recv_seqs, missing_seqs,
                  sender_rtt, since_report>>
historyVars == <<received, abandoned, resends>>
vars == <<senderVars, receiverVars, wire, reports, acks, historyVars>>

Seqs == 1..MaxSeq
seq_initialized == first_seq # 0
Reports == [ack : 0..MaxSeq, lost : SUBSET Seqs]

-----------------------------------------------------------------------------
(* Time thresholds of Report::build_payload, in ms.                        *)

LossThreshold(rtt) ==
    LET r == IF rtt > 0 THEN rtt ELSE 10
    IN  IF r < 10 THEN 100 ELSE (r * 7) \div 2

GiveUp == report_interval * (kMaxRetries + 2)

Older(age) == IF age * TickMs > GiveUp THEN age ELSE age + 1
ReportDue == since_report * TickMs >= report_interval

Cursors == 0..(MaxSeq + 1)

-----------------------------------------------------------------------------
(* Peer as default-initialised; m_last_report_sent is the clock's epoch,   *)
(* so the first report is due at once.                                     *)
Init ==
    /\ sequence_out = 1
    /\ pending = Empty
    /\ control = {}
    /\ hollow = {}
    /\ encoding = 0
    /\ resending = Empty
    /\ next_expected_seq = 0
    /\ recv_seqs = {}
    /\ missing_seqs = Empty
    /\ sender_rtt = 0
    /\ since_report = report_interval
    /\ wire = {}
    /\ reports = {}
    /\ acks = {}
    /\ received = {}
    /\ abandoned = {}
    /\ first_seq = 0
    /\ resends = [s \in Seqs |-> 0]

(* send_raw followed by the socket: the datagram enters the network, or is *)
(* dropped by a full outbound queue or on the way.                         *)
Transmit(s) == wire' \in {wire, wire \cup {s}}

(* Encode thread, send_data_packet up to send_raw: a data fragment takes   *)
(* the next sequence and, with retransmission on, a pending entry.         *)
SendData ==
    /\ encoding = 0
    /\ sequence_out \in Seqs
    /\ sequence_out' = sequence_out + 1
    /\ IF Retransmit
         THEN /\ pending' = With(pending, sequence_out, 0)
              /\ encoding' = sequence_out
         ELSE UNCHANGED <<pending, encoding>>
    /\ Transmit(sequence_out)
    /\ UNCHANGED <<control, hollow, resending, receiverVars, reports, acks,
                   historyVars>>

(* Encode thread, the second critical section of send_data_packet: m_bytes *)
(* is written through m_pending[seq], which creates an empty entry when    *)
(* the sequence has left the map in between.                               *)
RecordBytes ==
    /\ encoding # 0
    /\ IF encoding \in DOMAIN pending
         THEN UNCHANGED <<pending, hollow>>
         ELSE /\ pending' = With(pending, encoding, 0)
              /\ hollow' = hollow \cup {encoding}
    /\ encoding' = 0
    /\ UNCHANGED <<sequence_out, control, resending, receiverVars, wire, reports,
                   acks, historyVars>>

(* send_control with ackable: Handshake, HandshakeAck and Online packets   *)
(* draw from the same sequence counter and share the pending map.          *)
SendControl ==
    /\ Cardinality(control) < MaxControl
    /\ sequence_out \in Seqs
    /\ sequence_out' = sequence_out + 1
    /\ pending' = With(pending, sequence_out, 0)
    /\ control' = control \cup {sequence_out}
    /\ Transmit(sequence_out)
    /\ UNCHANGED <<hollow, encoding, resending, receiverVars, reports, acks,
                   historyVars>>

(* check_offline on the sending end: the dead link's pending map is        *)
(* cleared; neither the sequence counter nor the peer's cursor is.         *)
ClearPending ==
    /\ Outages
    /\ pending # Empty
    /\ pending' = Empty
    /\ hollow' = {}
    /\ UNCHANGED <<sequence_out, control, encoding, resending, receiverVars, wire,
                   reports, acks, historyVars>>

-----------------------------------------------------------------------------
(* The network hands over a datagram and may keep a duplicate of it.       *)
Take(s) == s \in wire /\ wire' \in {wire, wire \ {s}}

(* Mutant: the cursor starts one too far.                                  *)
OffByOneFirstData(s) ==
    /\ ~seq_initialized
    /\ next_expected_seq' = s + 2
    /\ first_seq' = s
    /\ UNCHANGED <<recv_seqs, missing_seqs>>

(* Receiver thread, Reassembler::handle_data under m_mu, by the position   *)
(* of the sequence against the cursor.                                     *)
FirstData(s) ==
    /\ ~seq_initialized
    /\ next_expected_seq' = s + 1
    /\ first_seq' = s
    /\ UNCHANGED <<recv_seqs, missing_seqs>>

Gaps(s) == {g \in next_expected_seq..(s - 1) : g \notin recv_seqs}

AheadData(s) ==
    /\ seq_initialized
    /\ s >= next_expected_seq
    /\ missing_seqs' = [g \in DOMAIN missing_seqs \cup Gaps(s) |->
                           IF g \in DOMAIN missing_seqs THEN missing_seqs[g]
                                                        ELSE 0]
    /\ \E m \in Cursors :
         /\ IsCursor(m, next_expected_seq, recv_seqs \cup {s})
         /\ next_expected_seq' = m
         /\ recv_seqs' = {k \in recv_seqs \cup {s} : k >= m}
    /\ UNCHANGED first_seq

(* Mutant: a late packet erases every earlier gap too.                     *)
EraseUpToLateData(s) ==
    /\ seq_initialized
    /\ s < next_expected_seq
    /\ missing_seqs' = Without(missing_seqs, 1..s)
    /\ UNCHANGED <<next_expected_seq, recv_seqs, first_seq>>

LateData(s) ==
    /\ seq_initialized
    /\ s < next_expected_seq
    /\ missing_seqs' = Without(missing_seqs, {s})
    /\ \E m \in Cursors :
         /\ IsCursor(m, next_expected_seq, recv_seqs)
         /\ next_expected_seq' = m
         /\ recv_seqs' = {k \in recv_seqs : k >= m}
    /\ UNCHANGED first_seq

HandleData(s) ==
    /\ Take(s)
    /\ s \notin control
    /\ FirstData(s) \/ AheadData(s) \/ LateData(s)
    /\ received' = received \cup {s}
    /\ UNCHANGED <<senderVars, sender_rtt, since_report, reports, acks,
                   abandoned, resends>>

(* handle_packet of a control packet: its sequence is acknowledged by an   *)
(* Ack packet and never enters the gap tracking.                           *)
HandleControl(s) ==
    /\ Take(s)
    /\ s \in control
    /\ received' = received \cup {s}
    /\ acks' \in {acks, acks \cup {s}}
    /\ UNCHANGED <<senderVars, receiverVars, reports, abandoned, resends>>

(* handle_heartbeat on the receiving end: the sender's RTT estimate.       *)
HandleHeartbeat ==
    /\ sender_rtt' \in Rtts
    /\ sender_rtt' # sender_rtt
    /\ UNCHANGED <<senderVars, first_seq, next_expected_seq, recv_seqs,
                   missing_seqs, since_report, wire, reports, acks, historyVars>>

-----------------------------------------------------------------------------
(* Reactor, send_reports / Report::build_payload under m_mu.  The loop     *)
(* over m_missing_seqs runs in ascending order and skip_gap moves the      *)
(* cursor over each passed gap and the received run behind it, so it ends  *)
(* at the first sequence that is neither.                                  *)
GivenUp ==
    IF Retransmit
    THEN {s \in DOMAIN missing_seqs : missing_seqs[s] * TickMs > GiveUp}
    ELSE DOMAIN missing_seqs

(* Mutant: a gap is listed in one report only.                             *)
OnceOverdue ==
    {s \in DOMAIN missing_seqs \ GivenUp :
        LET elapsed == missing_seqs[s] * TickMs
        IN  /\ elapsed > LossThreshold(sender_rtt)
            /\ elapsed <= LossThreshold(sender_rtt) + report_interval}

Overdue ==
    {s \in DOMAIN missing_seqs \ GivenUp :
        missing_seqs[s] * TickMs > LossThreshold(sender_rtt)}

(* Mutant: an overdue gap is listed and not skipped.                       *)
NeverSkipped == IF Retransmit THEN {} ELSE DOMAIN missing_seqs
Skipped == IF Retransmit THEN Overdue ELSE DOMAIN missing_seqs

Evicted(S) ==
    Lowest(S, IF Cardinality(S) > MissingCap THEN Cardinality(S) - MissingCap
                                             ELSE 0)

Erased == GivenUp \cup Evicted(DOMAIN missing_seqs \ GivenUp)

(* send_reports, for a peer that is Established or Online, as the one here *)
(* is throughout.                                                          *)
SendReport(kept) ==
    /\ ReportDue
    /\ missing_seqs' = Without(missing_seqs, Erased)
    /\ abandoned' = abandoned \cup (Erased \ received)
    /\ IF seq_initialized
         THEN \E m \in Cursors :
                /\ IsCursor(m, next_expected_seq, recv_seqs \cup Skipped)
                /\ next_expected_seq' = m
                /\ recv_seqs' = {k \in recv_seqs : k >= m}
         ELSE UNCHANGED <<next_expected_seq, recv_seqs>>
    /\ LET r == [ack  |-> IF seq_initialized THEN next_expected_seq' - 1 ELSE 0,
                 lost |-> Lowest(Overdue, LostCap)]
       IN  reports' = IF kept THEN reports \cup {r} ELSE reports
    /\ Cardinality(reports') <= MaxReports
    /\ since_report' = 0
    /\ UNCHANGED <<senderVars, first_seq, sender_rtt, wire, acks, received, resends>>

(* Time passes for the receiving end; its reactor runs every flush         *)
(* interval, so a report leaves as soon as it is due.                      *)
Tick ==
    /\ ~ReportDue
    /\ since_report' = since_report + 1
    /\ missing_seqs' = [s \in DOMAIN missing_seqs |-> Older(missing_seqs[s])]
    /\ UNCHANGED <<senderVars, first_seq, next_expected_seq, recv_seqs,
                   sender_rtt, wire, reports, acks, historyVars>>

-----------------------------------------------------------------------------
(* Mutants: listed entries are pruned too; the entry at the cursor is not. *)
ListedPruned(r) ==
    {s \in DOMAIN pending : s <= r.ack \/ pending[s] >= kMaxRetries}
BelowPruned(r) ==
    {s \in DOMAIN pending : \/ s < r.ack /\ s \notin r.lost
                            \/ pending[s] >= kMaxRetries}
(* Receiver thread of the sender, Report::handle: under m_mu the listed    *)
(* entries with retries left are copied and the confirmed or exhausted     *)
(* ones erased; the copies are then re-sent one at a time.                 *)
Pruned(r) ==
    {s \in DOMAIN pending : \/ s <= r.ack /\ s \notin r.lost
                            \/ pending[s] >= kMaxRetries}

(* Mutant: the retry count is not looked at.                               *)
UncountedResendable(r) == DOMAIN pending \cap r.lost
Resendable(r) == {s \in DOMAIN pending \cap r.lost : pending[s] < kMaxRetries}

HandleReport(r, dup) ==
    /\ resending = Empty
    /\ reports' = IF dup THEN reports ELSE reports \ {r}
    /\ resending' = [s \in Resendable(r) |-> s \in hollow]
    /\ pending' = Without(pending, Pruned(r))
    /\ hollow' = hollow \ Pruned(r)
    /\ UNCHANGED <<sequence_out, control, encoding, receiverVars, wire, acks,
                   historyVars>>

(* One turn of the resend loop: send_raw outside the lock, then the count  *)
(* under m_mu if the entry is still there.  A hollow copy has a zero       *)
(* header, which the other end's decoder drops.                            *)
Resend(s) ==
    /\ \A t \in DOMAIN resending : s <= t
    /\ resending' = Without(resending, {s})
    /\ IF resending[s] THEN UNCHANGED <<wire, resends>>
         ELSE Transmit(s) /\ resends' = [resends EXCEPT ![s] = @ + 1]
    /\ pending' = IF s \in DOMAIN pending /\ pending[s] < kMaxRetries
                    THEN [pending EXCEPT ![s] = @ + 1] ELSE pending
    /\ UNCHANGED <<sequence_out, control, hollow, encoding, receiverVars, reports,
                   acks, received, abandoned>>

(* handle_ack: the Ack of a control packet erases its entry.               *)
HandleAck(s) ==
    /\ resending = Empty
    /\ acks' = acks \ {s}
    /\ pending' = Without(pending, {s})
    /\ hollow' = hollow \ {s}
    /\ UNCHANGED <<sequence_out, control, encoding, resending, receiverVars, wire,
                   reports, historyVars>>

Next ==
    \/ SendData
    \/ RecordBytes
    \/ SendControl
    \/ ClearPending
    \/ \E s \in wire : HandleData(s)
    \/ \E s \in wire : HandleControl(s)
    \/ HandleHeartbeat
    \/ \E kept \in BOOLEAN : SendReport(kept)
    \/ Tick
    \/ \E r \in reports, dup \in BOOLEAN : HandleReport(r, dup)
    \/ \E s \in DOMAIN resending : Resend(s)
    \/ \E s \in acks : HandleAck(s)

Spec == Init /\ [][Next]_vars

(* The reactor and the receiver threads keep running, the clock advances,  *)
(* and the network does not lose every report.                             *)
Fairness ==
    /\ WF_vars(Tick)
    /\ WF_vars(\E kept \in BOOLEAN : SendReport(kept))
    /\ SF_vars(SendReport(TRUE))
    /\ \A r \in Reports : WF_vars(r \in reports /\ HandleReport(r, FALSE))
    /\ WF_vars(\E s \in DOMAIN resending : Resend(s))
    /\ WF_vars(RecordBytes)

FairSpec == Spec /\ Fairness

-----------------------------------------------------------------------------
SenderOK ==
    /\ sequence_out \in 1..(MaxSeq + 1)
    /\ DOMAIN pending \subseteq Seqs
    /\ pending \in [DOMAIN pending -> 0..kMaxRetries]
    /\ control \subseteq Seqs
    /\ hollow \subseteq DOMAIN pending
    /\ encoding \in 0..MaxSeq
    /\ DOMAIN resending \subseteq Seqs
    /\ resending \in [DOMAIN resending -> BOOLEAN]

ReceiverOK ==
    /\ first_seq \in 0..MaxSeq
    /\ next_expected_seq \in Cursors
    /\ recv_seqs \subseteq Seqs
    /\ DOMAIN missing_seqs \subseteq Seqs
    /\ missing_seqs \in [DOMAIN missing_seqs -> Nat]
    /\ sender_rtt \in Rtts \cup {0}
    /\ since_report \in Nat

NetworkOK ==
    /\ wire \subseteq Seqs
    /\ reports \subseteq Reports
    /\ acks \subseteq Seqs
    /\ received \subseteq Seqs
    /\ abandoned \subseteq Seqs
    /\ resends \in [Seqs -> Nat]

(* Every field has the type of its declaration in peer.hpp; the retry      *)
(* count of a pending entry never exceeds kMaxRetries.                     *)
TypeOK == SenderOK /\ ReceiverOK /\ NetworkOK

(* The ack cursor passes no packet silently: every sequence between the    *)
(* first one and the cursor was received, is still tracked as missing, was *)
(* given up after GiveUp ms or was evicted from a full table               *)
(* (Reassembler::handle_data, skip_gap, Report::build_payload).            *)
CursorAccounted ==
    seq_initialized =>
        \A s \in Seqs : first_seq <= s /\ s < next_expected_seq =>
            s \in received \cup abandoned \cup DOMAIN missing_seqs

(* A lost sequence is reported in every period until it is confirmed       *)
(* (report.cpp:60): a report lists each sequence below its ack cursor that *)
(* is neither received nor abandoned (given up or evicted), however the    *)
(* report is delayed, duplicated or overtaken on its way.                  *)
RepeatedUntilConfirmed ==
    \A r \in reports : \A s \in Seqs :
        first_seq <= s /\ s <= r.ack =>
            s \in received \cup abandoned \cup r.lost

(* No packet is put on the wire again more than kMaxRetries times, though  *)
(* Report::handle copies entries under the lock and counts after sending.  *)
ResendBound == \A s \in Seqs : resends[s] <= kMaxRetries

(* Report::handle forgets a packet only if the other end received it or    *)
(* abandoned it, if it precedes the first packet the other end saw, or     *)
(* after kMaxRetries retransmissions.                                      *)
PruneJustified ==
    [][\A r \in reports, dup \in BOOLEAN : HandleReport(r, dup) =>
         \A s \in (DOMAIN pending \ hollow) \ DOMAIN pending' :
            \/ s \in received \cup abandoned
            \/ s < first_seq
            \/ resends[s] = kMaxRetries]_vars

(* The ack cursor does not stall (report.cpp:63): a packet received ahead  *)
(* of a gap is eventually passed by the cursor, even if the gap is never   *)
(* filled.                                                                 *)
CursorAdvances == \A s \in Seqs : s \in recv_seqs ~> s \notin recv_seqs

(* m_pending holds nothing for ever (report.cpp:169): an entry the other   *)
(* end's cursor has passed eventually leaves the map.                      *)
PendingDrains ==
    \A s \in Seqs : s \in DOMAIN pending /\ s < next_expected_seq
                        ~> s \notin DOMAIN pending

(* usage.md:394, a packet is dropped only after its retransmissions are    *)
(* exhausted: Report::handle forgets an unreceived packet only then.       *)
DroppedOnlyExhausted ==
    [][\A r \in reports, dup \in BOOLEAN : HandleReport(r, dup) =>
         \A s \in (DOMAIN pending \ hollow) \ DOMAIN pending' :
            s \in received \/ resends[s] = kMaxRetries]_vars

(* report.cpp:61, the reassembler removes a sequence from m_missing_seqs   *)
(* when it arrives: no received data packet is still tracked as missing.   *)
ArrivalStopsReports == (DOMAIN missing_seqs \cap received) \subseteq control

=============================================================================
