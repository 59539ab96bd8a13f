--------------------------- MODULE DataPlaneProofs ---------------------------
(***************************************************************************)
(* Proofs about DataPlane, for every number of packets, every retry bound  *)
(* and every report interval.                                              *)
(***************************************************************************)
EXTENDS DataPlane, FiniteSetTheorems, TLAPS

(* TypeOK is inductive once the cursor is known to be past first_seq.      *)
CursorPastFirst == seq_initialized => first_seq < next_expected_seq
TypeInv == TypeOK /\ CursorPastFirst

(* The k lowest members of a set belong to it.                             *)
LEMMA LowestSubset == \A S, k : Lowest(S, k) \subseteq S
BY Zenon DEF Lowest

(* A report erases only tracked gaps and lists only tracked gaps.          *)
LEMMA ReportSets ==
    Erased \subseteq DOMAIN missing_seqs /\ Overdue \subseteq DOMAIN missing_seqs
BY LowestSubset, Zenon DEF Erased, Evicted, GivenUp, Overdue

-----------------------------------------------------------------------------
LEMMA TypeInit == Init => TypeInv
<1> SUFFICES ASSUME Init PROVE TypeInv
    BY Zenon
<1>1. SenderOK
    BY BoundsAssumption DEF Init, SenderOK, Empty, Seqs
<1>2. ReceiverOK
    BY BoundsAssumption DEF Init, ReceiverOK, Empty, Seqs, Cursors
<1>3. NetworkOK
    BY Zenon DEF Init, NetworkOK
<1>4. CursorPastFirst
    BY Zenon DEF Init, CursorPastFirst, seq_initialized
<1> QED BY <1>1, <1>2, <1>3, <1>4 DEF TypeInv, TypeOK

(* The steps of the sending end.                                           *)
LEMMA SenderStep ==
    ASSUME SenderOK, NetworkOK, [Next]_vars PROVE SenderOK'
<1>1. CASE UNCHANGED senderVars
    BY <1>1, Zenon DEF senderVars, SenderOK
<1>2. CASE SendData
    <2>1. CASE Retransmit
        <3>1. pending' = With(pending, sequence_out, 0)
            BY <1>2, <2>1, Zenon DEF SendData
        <3>2. sequence_out \in Seqs
            BY <1>2, Zenon DEF SendData
        <3>3. /\ DOMAIN pending' = DOMAIN pending \cup {sequence_out}
              /\ pending' \in [DOMAIN pending' -> 0..kMaxRetries]
            BY <3>1, BoundsAssumption DEF With, SenderOK
        <3>4. /\ sequence_out' = sequence_out + 1
              /\ encoding' = sequence_out
              /\ UNCHANGED <<control, hollow, resending>>
            BY <1>2, <2>1, Zenon DEF SendData
        <3> QED BY <3>2, <3>3, <3>4, BoundsAssumption DEF SenderOK, Seqs
    <2>2. CASE ~Retransmit
        <3>1. /\ sequence_out \in Seqs
              /\ sequence_out' = sequence_out + 1
              /\ UNCHANGED <<pending, encoding, control, hollow, resending>>
            BY <1>2, <2>2, Zenon DEF SendData
        <3> QED BY <3>1, BoundsAssumption DEF SenderOK, Seqs
    <2> QED BY <2>1, <2>2
<1>3. CASE RecordBytes
    <2>1. /\ encoding \in Seqs /\ encoding' = 0
          /\ UNCHANGED <<sequence_out, control, resending>>
        BY <1>3, BoundsAssumption DEF RecordBytes, SenderOK, Seqs
    <2>2. CASE encoding \in DOMAIN pending
        <3>1. UNCHANGED <<pending, hollow>>
            BY <1>3, <2>2, Zenon DEF RecordBytes
        <3> QED BY <2>1, <3>1, BoundsAssumption DEF SenderOK
    <2>3. CASE encoding \notin DOMAIN pending
        <3>1. /\ pending' = With(pending, encoding, 0)
              /\ hollow' = hollow \cup {encoding}
            BY <1>3, <2>3, Zenon DEF RecordBytes
        <3>2. /\ DOMAIN pending' = DOMAIN pending \cup {encoding}
              /\ pending' \in [DOMAIN pending' -> 0..kMaxRetries]
            BY <3>1, BoundsAssumption DEF With, SenderOK
        <3> QED BY <2>1, <3>1, <3>2, BoundsAssumption DEF SenderOK
    <2> QED BY <2>2, <2>3
<1>4. CASE SendControl
    <2>1. /\ sequence_out \in Seqs
          /\ pending' = With(pending, sequence_out, 0)
          /\ sequence_out' = sequence_out + 1
          /\ control' = control \cup {sequence_out}
          /\ UNCHANGED <<hollow, encoding, resending>>
        BY <1>4, Zenon DEF SendControl
    <2>2. /\ DOMAIN pending' = DOMAIN pending \cup {sequence_out}
          /\ pending' \in [DOMAIN pending' -> 0..kMaxRetries]
        BY <2>1, BoundsAssumption DEF With, SenderOK
    <2> QED BY <2>1, <2>2, BoundsAssumption DEF SenderOK, Seqs
<1>5. CASE ClearPending
    BY <1>5, Zenon DEF ClearPending, Empty, SenderOK
<1>6. ASSUME NEW r \in reports, NEW dup \in BOOLEAN, HandleReport(r, dup)
      PROVE  SenderOK'
    <2>1. /\ pending' = Without(pending, Pruned(r))
          /\ hollow' = hollow \ Pruned(r)
          /\ resending' = [s \in Resendable(r) |-> s \in hollow]
          /\ UNCHANGED <<sequence_out, control, encoding>>
        BY <1>6, Zenon DEF HandleReport
    <2>2. /\ DOMAIN pending' = DOMAIN pending \ Pruned(r)
          /\ pending' \in [DOMAIN pending' -> 0..kMaxRetries]
        BY <2>1, Zenon DEF Without, SenderOK
    <2>3. Resendable(r) \subseteq DOMAIN pending
        BY Zenon DEF Resendable
    <2>4. DOMAIN resending' = Resendable(r)
        BY <2>1, Zenon
    <2>5. resending' \in [Resendable(r) -> BOOLEAN]
        BY <2>1
    <2> QED BY <2>1, <2>2, <2>3, <2>4, <2>5 DEF SenderOK
<1>7. ASSUME NEW s \in DOMAIN resending, Resend(s) PROVE SenderOK'
    <2>1. /\ resending' = Without(resending, {s})
          /\ UNCHANGED <<sequence_out, control, hollow, encoding>>
        BY <1>7, Zenon DEF Resend
    <2>2. /\ DOMAIN resending' \subseteq Seqs
          /\ resending' \in [DOMAIN resending' -> BOOLEAN]
        BY <2>1, Zenon DEF Without, SenderOK
    <2>3. pending' = IF s \in DOMAIN pending /\ pending[s] < kMaxRetries
                     THEN [pending EXCEPT ![s] = @ + 1] ELSE pending
        BY <1>7, Zenon DEF Resend
    <2>4. /\ DOMAIN pending' = DOMAIN pending
          /\ pending' \in [DOMAIN pending' -> 0..kMaxRetries]
        BY <2>3, BoundsAssumption DEF SenderOK
    <2> QED BY <2>1, <2>2, <2>4, Zenon DEF SenderOK
<1>8. ASSUME NEW s \in acks, HandleAck(s) PROVE SenderOK'
    <2>1. /\ pending' = Without(pending, {s})
          /\ hollow' = hollow \ {s}
          /\ UNCHANGED <<sequence_out, control, encoding, resending>>
        BY <1>8, Zenon DEF HandleAck
    <2>2. /\ DOMAIN pending' = DOMAIN pending \ {s}
          /\ pending' \in [DOMAIN pending' -> 0..kMaxRetries]
        BY <2>1, Zenon DEF Without, SenderOK
    <2> QED BY <2>1, <2>2, Zenon DEF SenderOK
<1> QED BY <1>1, <1>2, <1>3, <1>4, <1>5, <1>6, <1>7, <1>8
    DEF Next, vars, HandleData, HandleControl, HandleHeartbeat, SendReport, Tick

(* The steps of the receiving end.                                         *)
LEMMA ReceiverStep ==
    ASSUME ReceiverOK, NetworkOK, CursorPastFirst, [Next]_vars
    PROVE  ReceiverOK' /\ CursorPastFirst'
<1>1. CASE UNCHANGED receiverVars
    BY <1>1, Zenon DEF receiverVars, ReceiverOK, CursorPastFirst, seq_initialized
<1>2. ASSUME NEW s \in wire, HandleData(s)
      PROVE  ReceiverOK' /\ CursorPastFirst'
    <2>0. s \in Seqs /\ UNCHANGED <<sender_rtt, since_report>>
        BY <1>2, Zenon DEF NetworkOK, HandleData
    <2>1. CASE FirstData(s)
        <3>1. /\ first_seq' = s
              /\ next_expected_seq' = s + 1
              /\ UNCHANGED <<recv_seqs, missing_seqs>>
            BY <2>1, Zenon DEF FirstData
        <3> QED BY <2>0, <3>1, BoundsAssumption
            DEF ReceiverOK, CursorPastFirst, seq_initialized, Seqs, Cursors
    <2>2. CASE AheadData(s)
        <3>1. /\ UNCHANGED first_seq
              /\ seq_initialized
              /\ s >= next_expected_seq
              /\ next_expected_seq' \in Cursors
              /\ next_expected_seq' >= next_expected_seq
              /\ recv_seqs' \subseteq recv_seqs \cup {s}
            BY <2>2, Zenon DEF AheadData, IsCursor
        <3>2. /\ DOMAIN missing_seqs' = DOMAIN missing_seqs \cup Gaps(s)
              /\ missing_seqs' \in [DOMAIN missing_seqs' -> Nat]
            BY <2>2, Zenon DEF AheadData, ReceiverOK
        <3>3. Gaps(s) \subseteq Seqs
            BY <2>0, <3>1, BoundsAssumption
            DEF Gaps, Seqs, ReceiverOK, CursorPastFirst, seq_initialized, Cursors
        <3> QED BY <2>0, <3>1, <3>2, <3>3, BoundsAssumption
            DEF ReceiverOK, CursorPastFirst, seq_initialized, Cursors
    <2>3. CASE LateData(s)
        <3>1. /\ UNCHANGED first_seq
              /\ seq_initialized
              /\ missing_seqs' = Without(missing_seqs, {s})
              /\ next_expected_seq' \in Cursors
              /\ next_expected_seq' >= next_expected_seq
              /\ recv_seqs' \subseteq recv_seqs
            BY <2>3, Zenon DEF LateData, IsCursor
        <3>2. /\ DOMAIN missing_seqs' = DOMAIN missing_seqs \ {s}
              /\ missing_seqs' \in [DOMAIN missing_seqs' -> Nat]
            BY <3>1, Zenon DEF Without, ReceiverOK
        <3>3. ReceiverOK'
            BY <2>0, <3>1, <3>2, Zenon DEF ReceiverOK
        <3>4. CursorPastFirst'
            BY <3>1, BoundsAssumption
            DEF ReceiverOK, CursorPastFirst, seq_initialized, Cursors
        <3> QED BY <3>3, <3>4
    <2> QED BY <1>2, <2>1, <2>2, <2>3 DEF HandleData
<1>3. CASE HandleHeartbeat
    BY <1>3, Zenon DEF HandleHeartbeat, ReceiverOK, CursorPastFirst, seq_initialized
<1>4. ASSUME NEW kept \in BOOLEAN, SendReport(kept)
      PROVE  ReceiverOK' /\ CursorPastFirst'
    <2>1. /\ UNCHANGED <<first_seq, sender_rtt>>
          /\ since_report' = 0
          /\ missing_seqs' = Without(missing_seqs, Erased)
        BY <1>4, Zenon DEF SendReport
    <2>2. /\ DOMAIN missing_seqs' = DOMAIN missing_seqs \ Erased
          /\ missing_seqs' \in [DOMAIN missing_seqs' -> Nat]
        BY <2>1, Zenon DEF Without, ReceiverOK
    <2>3. /\ next_expected_seq' \in Cursors
          /\ next_expected_seq' >= next_expected_seq
          /\ recv_seqs' \subseteq recv_seqs
        BY <1>4, BoundsAssumption DEF SendReport, IsCursor, ReceiverOK, Cursors
    <2> QED BY <2>1, <2>2, <2>3, BoundsAssumption
        DEF ReceiverOK, CursorPastFirst, seq_initialized, Cursors
<1>5. CASE Tick
    BY <1>5, BoundsAssumption
    DEF Tick, Older, ReceiverOK, CursorPastFirst, seq_initialized
<1> QED BY <1>1, <1>2, <1>3, <1>4, <1>5, Zenon
    DEF Next, vars, SendData, RecordBytes, SendControl, ClearPending,
        HandleControl, HandleReport, Resend, HandleAck

(* What is in flight, and the history.                                     *)
LEMMA NetworkStep ==
    ASSUME SenderOK, ReceiverOK, ReceiverOK', NetworkOK, CursorPastFirst,
           CursorPastFirst', [Next]_vars
    PROVE  NetworkOK'
<1> DEFINE Net == <<wire, reports, acks, received, abandoned, resends>>
<1>1. CASE UNCHANGED Net
    BY <1>1, Zenon DEF NetworkOK
<1>2. CASE SendData
    BY <1>2, Zenon DEF SendData, Transmit, historyVars, NetworkOK
<1>3. CASE SendControl
    BY <1>3, Zenon DEF SendControl, Transmit, historyVars, NetworkOK
<1>4. ASSUME NEW s \in wire, HandleData(s) \/ HandleControl(s)
      PROVE  NetworkOK'
    BY <1>4, Zenon DEF HandleData, HandleControl, Take, NetworkOK
<1>5. ASSUME NEW kept \in BOOLEAN, SendReport(kept) PROVE NetworkOK'
    <2> DEFINE a == IF seq_initialized THEN next_expected_seq' - 1 ELSE 0
               l == Lowest(Overdue, LostCap)
    <2>1. a \in 0..MaxSeq
        BY <1>5, BoundsAssumption
        DEF SendReport, ReceiverOK, CursorPastFirst, seq_initialized, Cursors
    <2>2. l \subseteq Seqs /\ Erased \subseteq Seqs
        BY LowestSubset, ReportSets, Zenon DEF ReceiverOK
    <2>3. [ack |-> a, lost |-> l] \in Reports
        BY <2>1, <2>2, Zenon DEF Reports
    <2>4. reports' \subseteq reports \cup {[ack |-> a, lost |-> l]}
        BY <1>5, Zenon DEF SendReport
    <2>5. /\ UNCHANGED <<wire, acks, received, resends>>
          /\ abandoned' = abandoned \cup (Erased \ received)
        BY <1>5, Zenon DEF SendReport
    <2> QED BY <2>2, <2>3, <2>4, <2>5 DEF NetworkOK
<1>6. ASSUME NEW r \in reports, NEW dup \in BOOLEAN, HandleReport(r, dup)
      PROVE  NetworkOK'
    BY <1>6, Zenon DEF HandleReport, historyVars, NetworkOK
<1>7. ASSUME NEW s \in DOMAIN resending, Resend(s) PROVE NetworkOK'
    <2>1. s \in Seqs
        BY Zenon DEF SenderOK
    <2>2. wire' \subseteq Seqs /\ resends' \in [Seqs -> Nat]
        BY <1>7, <2>1 DEF Resend, Transmit, NetworkOK
    <2> QED BY <1>7, <2>2 DEF Resend, NetworkOK
<1>8. ASSUME NEW s \in acks, HandleAck(s) PROVE NetworkOK'
    BY <1>8, Zenon DEF HandleAck, historyVars, NetworkOK
<1> QED BY <1>1, <1>2, <1>3, <1>4, <1>5, <1>6, <1>7, <1>8
    DEF Next, vars, RecordBytes, ClearPending, HandleHeartbeat, Tick, historyVars

LEMMA TypeStep == TypeInv /\ [Next]_vars => TypeInv'
BY SenderStep, ReceiverStep, NetworkStep, Zenon DEF TypeInv, TypeOK

(* The fields of both ends keep their types, and no retry count exceeds    *)
(* kMaxRetries, in every run of the two ends and the network.              *)
THEOREM TypeCorrect == Spec => []TypeOK
<1>1. Spec => []TypeInv
    BY TypeInit, TypeStep, PTL DEF Spec
<1> QED BY <1>1, PTL DEF TypeInv

-----------------------------------------------------------------------------
(* The cursor only passes received or tracked sequences, because the       *)
(* set behind it holds received ones only.                                 *)
GapInv == recv_seqs \subseteq received /\ CursorAccounted

LEMMA GapInit == Init => GapInv
BY Zenon DEF Init, GapInv, CursorAccounted, seq_initialized

LEMMA GapStep == TypeInv /\ GapInv /\ [Next]_vars => GapInv'
<1> SUFFICES ASSUME TypeInv, GapInv, [Next]_vars PROVE GapInv'
    BY Zenon
<1>0. ReceiverOK /\ NetworkOK /\ CursorPastFirst
    BY Zenon DEF TypeInv, TypeOK
<1>1. CASE UNCHANGED <<receiverVars, received, abandoned>>
    BY <1>1, Zenon DEF receiverVars, GapInv, CursorAccounted, seq_initialized
<1>2. ASSUME NEW s \in wire, HandleData(s) PROVE GapInv'
    <2>1. received' = received \cup {s} /\ abandoned' = abandoned
        BY <1>2, Zenon DEF HandleData
    <2>2. s \in Seqs
        BY <1>0, Zenon DEF NetworkOK
    <2>3. CASE FirstData(s)
        BY <1>0, <2>1, <2>2, <2>3
        DEF FirstData, GapInv, CursorAccounted, seq_initialized, Seqs
    <2>4. CASE AheadData(s)
        <3>1. /\ IsCursor(next_expected_seq', next_expected_seq,
                          recv_seqs \cup {s})
              /\ recv_seqs' \subseteq recv_seqs \cup {s}
              /\ DOMAIN missing_seqs \subseteq DOMAIN missing_seqs'
              /\ UNCHANGED first_seq
              /\ seq_initialized
            BY <2>4, Zenon DEF AheadData
        <3>2. recv_seqs' \subseteq received'
            BY <2>1, <3>1, Zenon DEF GapInv
        <3>3. CursorAccounted'
            <4> SUFFICES ASSUME NEW k \in Seqs, first_seq' <= k,
                                k < next_expected_seq'
                         PROVE  k \in received' \cup abandoned' \cup
                                      DOMAIN missing_seqs'
                BY Zenon DEF CursorAccounted
            <4>1. CASE k < next_expected_seq
                BY <2>1, <3>1, <4>1, Zenon DEF GapInv, CursorAccounted
            <4>2. CASE k >= next_expected_seq
                <5>1. k \in next_expected_seq..(next_expected_seq' - 1)
                    BY <1>0, <2>4, <4>2
                    DEF AheadData, ReceiverOK, Cursors, Seqs
                <5> QED BY <2>1, <3>1, <5>1 DEF IsCursor, GapInv
            <4> QED BY <1>0, <4>1, <4>2 DEF ReceiverOK, Cursors, Seqs
        <3> QED BY <3>2, <3>3 DEF GapInv
    <2>5. CASE LateData(s)
        <3>1. /\ IsCursor(next_expected_seq', next_expected_seq, recv_seqs)
              /\ recv_seqs' \subseteq recv_seqs
              /\ missing_seqs' = Without(missing_seqs, {s})
              /\ UNCHANGED first_seq
              /\ seq_initialized
            BY <2>5, Zenon DEF LateData
        <3>2. recv_seqs' \subseteq received'
            BY <2>1, <3>1, Zenon DEF GapInv
        <3>3. DOMAIN missing_seqs' = DOMAIN missing_seqs \ {s}
            BY <3>1, Zenon DEF Without
        <3>4. CursorAccounted'
            <4> SUFFICES ASSUME NEW k \in Seqs, first_seq' <= k,
                                k < next_expected_seq'
                         PROVE  k \in received' \cup abandoned' \cup
                                      DOMAIN missing_seqs'
                BY Zenon DEF CursorAccounted
            <4>1. CASE k < next_expected_seq
                BY <2>1, <3>1, <3>3, <4>1, Zenon DEF GapInv, CursorAccounted
            <4>2. CASE k >= next_expected_seq
                <5>1. k \in next_expected_seq..(next_expected_seq' - 1)
                    BY <1>0, <2>5, <4>2 DEF LateData, ReceiverOK, Cursors, Seqs
                <5> QED BY <2>1, <3>1, <5>1 DEF IsCursor, GapInv
            <4> QED BY <1>0, <4>1, <4>2 DEF ReceiverOK, Cursors, Seqs
        <3> QED BY <3>2, <3>4 DEF GapInv
    <2> QED BY <1>2, <2>3, <2>4, <2>5 DEF HandleData
<1>3. ASSUME NEW s \in wire, HandleControl(s) PROVE GapInv'
    BY <1>3, Zenon
    DEF HandleControl, receiverVars, GapInv, CursorAccounted, seq_initialized
<1>4. CASE HandleHeartbeat
    BY <1>4, Zenon DEF HandleHeartbeat, historyVars, GapInv, CursorAccounted,
                seq_initialized
<1>5. ASSUME NEW kept \in BOOLEAN, SendReport(kept) PROVE GapInv'
    <2>1. /\ missing_seqs' = Without(missing_seqs, Erased)
          /\ abandoned' = abandoned \cup (Erased \ received)
          /\ UNCHANGED <<first_seq, received>>
          /\ recv_seqs' \subseteq recv_seqs
          /\ seq_initialized =>
                IsCursor(next_expected_seq', next_expected_seq,
                         recv_seqs \cup Skipped)
        BY <1>5, Zenon DEF SendReport
    <2>2. DOMAIN missing_seqs' = DOMAIN missing_seqs \ Erased
        BY <2>1, Zenon DEF Without
    <2>3. Skipped \subseteq DOMAIN missing_seqs
        BY Zenon DEF Skipped, Overdue
    <2>4. ASSUME NEW k \in DOMAIN missing_seqs
          PROVE  k \in received' \cup abandoned' \cup DOMAIN missing_seqs'
        BY <2>1, <2>2, Zenon
    <2>5. CursorAccounted'
        <3> SUFFICES ASSUME seq_initialized, NEW k \in Seqs, first_seq' <= k,
                            k < next_expected_seq'
                     PROVE  k \in received' \cup abandoned' \cup
                                  DOMAIN missing_seqs'
            BY <2>1, Zenon DEF CursorAccounted, seq_initialized
        <3>1. CASE k < next_expected_seq
            BY <2>1, <2>4, <3>1, Zenon DEF GapInv, CursorAccounted
        <3>2. CASE k >= next_expected_seq
            <4>1. next_expected_seq' \in Cursors
                BY <1>5, Zenon DEF SendReport
            <4>2. k \in next_expected_seq..(next_expected_seq' - 1)
                BY <1>0, <3>2, <4>1 DEF ReceiverOK, Cursors, Seqs
            <4>3. k \in recv_seqs \cup Skipped
                BY <2>1, <4>2, Zenon DEF IsCursor
            <4> QED BY <2>1, <2>3, <2>4, <4>3 DEF GapInv
        <3> QED BY <1>0, <3>1, <3>2 DEF ReceiverOK, Cursors, Seqs
    <2> QED BY <2>1, <2>5 DEF GapInv
<1>6. CASE Tick
    <2>1. /\ DOMAIN missing_seqs' = DOMAIN missing_seqs
          /\ UNCHANGED <<first_seq, next_expected_seq, recv_seqs, received,
                         abandoned>>
        BY <1>6, Zenon DEF Tick, historyVars
    <2> QED BY <2>1 DEF GapInv, CursorAccounted, seq_initialized
<1>7. ASSUME NEW s \in DOMAIN resending, Resend(s) PROVE GapInv'
    BY <1>7, Zenon DEF Resend, receiverVars, GapInv, CursorAccounted, seq_initialized
<1> QED BY <1>1, <1>2, <1>3, <1>4, <1>5, <1>6, <1>7, Zenon
    DEF Next, vars, SendData, RecordBytes, SendControl, ClearPending,
        HandleReport, HandleAck, historyVars

(* The ack cursor passes no sequence that is not received, tracked or      *)
(* abandoned (given up or evicted), for any RTTs, caps and report interval *)
THEOREM CursorSafe == Spec => []CursorAccounted
<1>1. Spec => [](TypeInv /\ GapInv)
    BY TypeInit, TypeStep, GapInit, GapStep, PTL DEF Spec
<1> QED BY <1>1, PTL DEF GapInv

-----------------------------------------------------------------------------
(* Why the count is bounded although it is raised after the send, in a     *)
(* critical section of its own: the copies Report::handle works from were  *)
(* taken below the limit, the retry count of an entry that was never       *)
(* re-created is the number of its retransmissions, and a hollow copy      *)
(* belongs to an entry that is hollow or gone.                             *)
CountExact == \A s \in DOMAIN pending \ hollow : resends[s] = pending[s]
CopiesBelow ==
    \A s \in DOMAIN resending : ~resending[s] => resends[s] < kMaxRetries
HollowCopies ==
    \A s \in DOMAIN resending : resending[s] /\ s \in DOMAIN pending => s \in hollow
Fresh ==
    /\ \A s \in Seqs : s >= sequence_out => resends[s] = 0
    /\ \A s \in DOMAIN pending \cup DOMAIN resending : s < sequence_out
    /\ encoding < sequence_out
ResendInv == ResendBound /\ CountExact /\ CopiesBelow /\ HollowCopies /\ Fresh

LEMMA ResendInit == Init => ResendInv
BY BoundsAssumption
DEF Init, ResendInv, ResendBound, CountExact, CopiesBelow, HollowCopies, Fresh,
    Empty, Seqs

(* Only the sending end's variables and the counts matter.                 *)
LEMMA ResendStep == TypeInv /\ ResendInv /\ [Next]_vars => ResendInv'
<1> SUFFICES ASSUME TypeInv, ResendInv, [Next]_vars PROVE ResendInv'
    BY Zenon
<1>0. SenderOK /\ NetworkOK
    BY Zenon DEF TypeInv, TypeOK
<1>1. CASE UNCHANGED <<senderVars, resends>>
    BY <1>1, Zenon DEF senderVars, ResendInv, ResendBound, CountExact, CopiesBelow,
                HollowCopies, Fresh
<1>2. CASE SendData \/ SendControl
    <2>1. /\ sequence_out \in Seqs
          /\ sequence_out' = sequence_out + 1
          /\ UNCHANGED <<hollow, resending, resends>>
          /\ encoding' \in {encoding, sequence_out}
          /\ pending' = pending \/ pending' = With(pending, sequence_out, 0)
        BY <1>2, Zenon DEF SendData, SendControl, historyVars
    <2>2. /\ DOMAIN pending' \subseteq DOMAIN pending \cup {sequence_out}
          /\ \A s \in DOMAIN pending : s \in DOMAIN pending' /\ s # sequence_out
                                        => pending'[s] = pending[s]
          /\ sequence_out \in DOMAIN pending' /\ pending' # pending
                => pending'[sequence_out] = 0
        BY <2>1, Zenon DEF With
    <2>3. CountExact'
        BY <1>0, <2>1, <2>2 DEF SenderOK, ResendInv, CountExact, Fresh, Seqs
    <2>4. ResendBound' /\ CopiesBelow'
        BY <2>1, Zenon DEF ResendInv, ResendBound, CopiesBelow
    <2>5. HollowCopies'
        BY <1>0, <2>1, <2>2 DEF SenderOK, ResendInv, HollowCopies, Fresh, Seqs
    <2>6. Fresh'
        BY <1>0, <2>1, <2>2 DEF SenderOK, ResendInv, Fresh, Seqs
    <2> QED BY <2>3, <2>4, <2>5, <2>6 DEF ResendInv
<1>3. CASE RecordBytes
    <2>1. /\ UNCHANGED <<sequence_out, resending, resends>>
          /\ encoding' = 0
          /\ \/ UNCHANGED <<pending, hollow>>
             \/ /\ pending' = With(pending, encoding, 0)
                /\ hollow' = hollow \cup {encoding}
        BY <1>3, Zenon DEF RecordBytes, historyVars
    <2>2. /\ DOMAIN pending' \subseteq DOMAIN pending \cup {encoding}
          /\ \A s \in DOMAIN pending' \ hollow' :
                s \in DOMAIN pending \ hollow /\ pending'[s] = pending[s]
          /\ hollow \subseteq hollow'
          /\ \A s \in DOMAIN pending' : s \in DOMAIN pending \/ s \in hollow'
        BY <2>1, Zenon DEF With
    <2>3. CountExact' /\ ResendBound' /\ CopiesBelow'
        BY <2>1, <2>2, Zenon DEF ResendInv, CountExact, ResendBound, CopiesBelow
    <2>4. HollowCopies'
        BY <2>1, <2>2, Zenon DEF ResendInv, HollowCopies
    <2>5. Fresh'
        BY <1>0, <2>1, <2>2 DEF SenderOK, ResendInv, Fresh
    <2> QED BY <2>3, <2>4, <2>5 DEF ResendInv
<1>4. CASE ClearPending
    BY <1>4, Zenon DEF ClearPending, Empty, historyVars, ResendInv, ResendBound,
                CountExact, CopiesBelow, HollowCopies, Fresh
<1>5. ASSUME NEW r \in reports, NEW dup \in BOOLEAN, HandleReport(r, dup)
      PROVE  ResendInv'
    <2>1. /\ pending' = Without(pending, Pruned(r))
          /\ hollow' = hollow \ Pruned(r)
          /\ resending' = [s \in Resendable(r) |-> s \in hollow]
          /\ UNCHANGED <<sequence_out, encoding, resends>>
        BY <1>5, Zenon DEF HandleReport, historyVars
    <2>2. /\ DOMAIN pending' = DOMAIN pending \ Pruned(r)
          /\ \A s \in DOMAIN pending' : pending'[s] = pending[s]
        BY <2>1, Zenon DEF Without
    <2>3. /\ DOMAIN resending' = Resendable(r)
          /\ \A s \in Resendable(r) : resending'[s] <=> s \in hollow
        BY <2>1, Zenon
    <2>4. CountExact' /\ ResendBound'
        BY <2>1, <2>2, Zenon DEF ResendInv, CountExact, ResendBound
    <2>5. CopiesBelow'
        <3> SUFFICES ASSUME NEW s \in Resendable(r), s \notin hollow
                     PROVE  resends[s] < kMaxRetries
            BY <2>1, <2>3, Zenon DEF CopiesBelow
        <3> QED BY DEF Resendable, ResendInv, CountExact
    <2>6. HollowCopies'
        BY <2>1, <2>2, <2>3, Zenon DEF HollowCopies
    <2>7. Fresh'
        BY <2>1, <2>2, <2>3, Zenon DEF ResendInv, Fresh, Resendable
    <2> QED BY <2>4, <2>5, <2>6, <2>7 DEF ResendInv
<1>6. ASSUME NEW s \in DOMAIN resending, Resend(s) PROVE ResendInv'
    <2>0. s \in Seqs
        BY <1>0, Zenon DEF SenderOK
    <2>1. /\ resending' = Without(resending, {s})
          /\ UNCHANGED <<sequence_out, hollow, encoding>>
          /\ resends' = IF resending[s] THEN resends
                        ELSE [resends EXCEPT ![s] = @ + 1]
          /\ pending' = IF s \in DOMAIN pending /\ pending[s] < kMaxRetries
                        THEN [pending EXCEPT ![s] = @ + 1] ELSE pending
        BY <1>6, Zenon DEF Resend
    <2>2. /\ DOMAIN resending' = DOMAIN resending \ {s}
          /\ \A t \in DOMAIN resending' : resending'[t] = resending[t]
        BY <2>1, Zenon DEF Without
    <2>3. /\ DOMAIN pending' = DOMAIN pending
          /\ \A t \in DOMAIN pending : t # s => pending'[t] = pending[t]
          /\ s \in DOMAIN pending /\ pending[s] < kMaxRetries
                => pending'[s] = pending[s] + 1
        BY <1>0, <2>1, Zenon DEF SenderOK
    <2>4. /\ resends' \in [Seqs -> Nat]
          /\ \A t \in Seqs : t # s => resends'[t] = resends[t]
          /\ resending[s] => resends' = resends
          /\ ~resending[s] => resends'[s] = resends[s] + 1
        BY <1>0, <2>0, <2>1 DEF NetworkOK
    <2>5. ResendBound'
        BY <1>0, <2>0, <2>4, BoundsAssumption
        DEF ResendInv, ResendBound, CopiesBelow, NetworkOK
    <2>6. CountExact'
        <3> SUFFICES ASSUME NEW t \in DOMAIN pending \ hollow
                     PROVE  resends'[t] = pending'[t]
            BY <2>1, <2>3, Zenon DEF CountExact
        <3>1. CASE t # s
            BY <1>0, <2>3, <2>4, <3>1, Zenon DEF ResendInv, CountExact, SenderOK
        <3>2. CASE t = s
            <4>1. ~resending[s]
                BY <3>2, Zenon DEF ResendInv, HollowCopies
            <4>2. resends[s] = pending[s] /\ resends[s] < kMaxRetries
                BY <3>2, <4>1, Zenon DEF ResendInv, CountExact, CopiesBelow
            <4> QED BY <2>3, <2>4, <3>2, <4>1, <4>2
        <3> QED BY <3>1, <3>2
    <2>7. CopiesBelow'
        BY <1>0, <2>2, <2>4, Zenon DEF ResendInv, CopiesBelow, SenderOK
    <2>8. HollowCopies'
        BY <2>1, <2>2, <2>3, Zenon DEF ResendInv, HollowCopies
    <2>9. Fresh'
        BY <1>0, <2>0, <2>1, <2>2, <2>3, <2>4
        DEF ResendInv, Fresh, SenderOK, Seqs
    <2> QED BY <2>5, <2>6, <2>7, <2>8, <2>9 DEF ResendInv
<1>7. ASSUME NEW s \in acks, HandleAck(s) PROVE ResendInv'
    <2>1. /\ pending' = Without(pending, {s})
          /\ hollow' = hollow \ {s}
          /\ UNCHANGED <<sequence_out, encoding, resending, resends>>
        BY <1>7, Zenon DEF HandleAck, historyVars
    <2>2. /\ DOMAIN pending' = DOMAIN pending \ {s}
          /\ \A t \in DOMAIN pending' : pending'[t] = pending[t]
        BY <2>1, Zenon DEF Without
    <2> QED BY <2>1, <2>2 DEF ResendInv, ResendBound, CountExact, CopiesBelow,
                              HollowCopies, Fresh
<1> QED BY <1>1, <1>2, <1>3, <1>4, <1>5, <1>6, <1>7
    DEF Next, vars, HandleData, HandleControl, HandleHeartbeat, SendReport, Tick,
        historyVars

(* No packet is retransmitted more than kMaxRetries times, whatever the    *)
(* reports list and however the handler interleaves with the encode thread *)
(* and with check_offline.                                                 *)
THEOREM ResendsBounded == Spec => []ResendBound
<1>1. Spec => [](TypeInv /\ ResendInv)
    BY TypeInit, TypeStep, ResendInit, ResendStep, PTL DEF Spec
<1> QED BY <1>1, PTL DEF ResendInv

-----------------------------------------------------------------------------
(* Reports are steady when every RTT's loss threshold fits in one report   *)
(* interval (an RTT of at most 2/7 of it) and a report has room for every  *)
(* gap.  Without the first a skipped gap leaves the reports when the RTT   *)
(* grows, without the second when a report is full.                        *)
SteadyReports ==
    /\ \A rtt \in Rtts \cup {0} : LossThreshold(rtt) <= report_interval
    /\ MaxSeq <= LostCap

LEMMA ProductPositive ==
    ASSUME NEW a \in Nat, NEW T \in Nat, NEW b \in Nat, a * T > b PROVE a > 0
<1>1. CASE a = 0
    BY <1>1
<1>2. CASE a # 0
    BY <1>2
<1> QED BY <1>1, <1>2

LEMMA ProductGrows ==
    ASSUME NEW a \in Nat, NEW b \in Nat, NEW T \in Nat \ {0}, a > b
    PROVE  a * T > b * T
<1>1. PICK d \in Nat \ {0} : a = b + d
    <2>1. a - b \in Nat \ {0} /\ a = b + (a - b)
        OBVIOUS
    <2> QED BY <2>1
<1>2. a * T = b * T + d * T
    BY <1>1
<1>3. d * T > 0
    BY <1>1
<1> QED BY <1>2, <1>3

LEMMA BelowNext == \A k, n \in Int : k <= n - 1 => k < n
OBVIOUS

LEMMA ThresholdNat == \A rtt \in Nat : LossThreshold(rtt) \in Nat
BY DEF LossThreshold

(* A report with room for every sequence lists the whole set.              *)
LEMMA LowestAll ==
    ASSUME NEW S \in SUBSET Seqs, MaxSeq <= LostCap PROVE Lowest(S, LostCap) = S
<1> SUFFICES ASSUME NEW s \in S
             PROVE  Cardinality({t \in S : t < s}) < LostCap
    BY Zenon DEF Lowest
<1> DEFINE B == {t \in S : t < s}
<1>1. s \in 1..MaxSeq
    BY Zenon DEF Seqs
<1>2. B \subseteq 1..(s - 1)
    <2> SUFFICES ASSUME NEW t \in S, t < s PROVE t \in 1..(s - 1)
        BY Zenon
    <2>1. t \in 1..MaxSeq
        BY Zenon DEF Seqs
    <2> QED BY <1>1, <2>1, BoundsAssumption
<1>3. IsFiniteSet(1..(s - 1)) /\ Cardinality(1..(s - 1)) = s - 1
    <2>1. 1 \in Int /\ s - 1 \in Int
        BY <1>1, BoundsAssumption
    <2>2. /\ IsFiniteSet(1..(s - 1))
          /\ Cardinality(1..(s - 1)) = IF 1 > s - 1 THEN 0 ELSE (s - 1) - 1 + 1
        BY <2>1, FS_Interval, Zenon
    <2> QED BY <1>1, <2>2, BoundsAssumption
<1>4. Cardinality(B) \in Nat /\ Cardinality(B) <= s - 1
    BY <1>2, <1>3, FS_Subset, FS_CardinalityType, Zenon
<1> QED BY <1>1, <1>4, BoundsAssumption

(* What makes a report truthful: a gap the cursor has passed is older than *)
(* the last report (or past the give-up age), so the next one finds it     *)
(* overdue again.                                                          *)
SkippedOld ==
    \A s \in DOMAIN missing_seqs \ received : s < next_expected_seq =>
        missing_seqs[s] > since_report \/ missing_seqs[s] * TickMs > GiveUp
Uninitialised ==
    ~seq_initialized => /\ DOMAIN missing_seqs = {}
                        /\ \A r \in reports : r.ack = 0
ReportInv == RepeatedUntilConfirmed /\ SkippedOld /\ Uninitialised

LEMMA ReportInit == Init => ReportInv
BY Zenon DEF Init, ReportInv, RepeatedUntilConfirmed, SkippedOld, Uninitialised, Empty

(* At a due report, a passed gap that is not given up is overdue.          *)
LEMMA PassedOverdue ==
    ASSUME SteadyReports, TypeInv, ReportInv, Retransmit, ReportDue,
           NEW s \in DOMAIN missing_seqs \ received, s < next_expected_seq,
           s \notin GivenUp
    PROVE  s \in Overdue
<1>1. /\ missing_seqs[s] \in Nat /\ since_report \in Nat
      /\ sender_rtt \in Rtts \cup {0}
    BY Zenon DEF TypeInv, TypeOK, ReceiverOK
<1>2. ~(missing_seqs[s] * TickMs > GiveUp)
    BY Zenon DEF GivenUp
<1>3. missing_seqs[s] > since_report
    BY <1>2, Zenon DEF ReportInv, SkippedOld
<1>4. missing_seqs[s] * TickMs > since_report * TickMs
    BY <1>1, <1>3, ProductGrows, BoundsAssumption, Zenon
<1>5. LossThreshold(sender_rtt) <= report_interval
    BY <1>1, Zenon DEF SteadyReports
<1>6. LossThreshold(sender_rtt) \in Nat
    BY <1>1, ThresholdNat, BoundsAssumption, Zenon
<1>7. missing_seqs[s] * TickMs > LossThreshold(sender_rtt)
    <2>1. missing_seqs[s] * TickMs \in Nat /\ since_report * TickMs \in Nat
        BY <1>1, BoundsAssumption
    <2> QED BY <1>4, <1>5, <1>6, <2>1, BoundsAssumption DEF ReportDue
<1> QED BY <1>7 DEF Overdue

LEMMA ReportStep ==
    SteadyReports /\ TypeInv /\ GapInv /\ ReportInv /\ [Next]_vars => ReportInv'
<1> SUFFICES ASSUME SteadyReports, TypeInv, GapInv, ReportInv, [Next]_vars
             PROVE  ReportInv'
    BY Zenon
<1>0. ReceiverOK /\ NetworkOK /\ CursorPastFirst
    BY Zenon DEF TypeInv, TypeOK
<1>1. CASE UNCHANGED <<receiverVars, reports, received, abandoned>>
    BY <1>1, Zenon DEF receiverVars, ReportInv, RepeatedUntilConfirmed, SkippedOld,
                Uninitialised, seq_initialized
<1>2. ASSUME NEW s \in wire, HandleData(s) PROVE ReportInv'
    <2>1. /\ received' = received \cup {s}
          /\ UNCHANGED <<since_report, reports, abandoned>>
        BY <1>2, Zenon DEF HandleData
    <2>2. s \in Seqs
        BY <1>0, Zenon DEF NetworkOK
    <2>3. CASE FirstData(s)
        <3>1. /\ ~seq_initialized /\ first_seq' = s
              /\ UNCHANGED missing_seqs
            BY <2>3, Zenon DEF FirstData
        <3>2. DOMAIN missing_seqs = {} /\ \A r \in reports : r.ack = 0
            BY <3>1, Zenon DEF ReportInv, Uninitialised
        <3>3. RepeatedUntilConfirmed'
            BY <2>1, <3>2 DEF RepeatedUntilConfirmed, Seqs
        <3> QED BY <2>1, <2>2, <3>1, <3>2, <3>3
            DEF ReportInv, SkippedOld, Uninitialised, seq_initialized, Seqs
    <2>4. CASE AheadData(s) \/ LateData(s)
        <3>1. /\ seq_initialized /\ UNCHANGED first_seq
              /\ next_expected_seq' \in Cursors
              /\ IsCursor(next_expected_seq', next_expected_seq,
                          recv_seqs \cup {s})
                 \/ IsCursor(next_expected_seq', next_expected_seq, recv_seqs)
            BY <2>4, Zenon DEF AheadData, LateData
        <3>2. ASSUME NEW k \in DOMAIN missing_seqs', k < next_expected_seq
              PROVE  k \in DOMAIN missing_seqs /\ missing_seqs'[k] = missing_seqs[k]
            <4>1. CASE AheadData(s)
                BY <1>0, <3>2, <4>1 DEF AheadData, Gaps, ReceiverOK, Cursors
            <4>2. CASE LateData(s)
                BY <4>2, Zenon DEF LateData, Without
            <4> QED BY <2>4, <4>1, <4>2
        <3>3. ASSUME NEW k \in Seqs, k >= next_expected_seq,
                     k < next_expected_seq'
              PROVE  k \in received'
            <4>1. k \in next_expected_seq..(next_expected_seq' - 1)
                BY <1>0, <3>1, <3>3 DEF ReceiverOK, Cursors, Seqs
            <4> QED BY <2>1, <3>1, <4>1 DEF IsCursor, GapInv
        <3>4. DOMAIN missing_seqs' \subseteq Seqs
            BY ReceiverStep, <1>0, Zenon DEF ReceiverOK
        <3>5. SkippedOld'
            <4> SUFFICES ASSUME NEW k \in DOMAIN missing_seqs' \ received',
                                k < next_expected_seq'
                         PROVE  \/ missing_seqs'[k] > since_report'
                                \/ missing_seqs'[k] * TickMs > GiveUp
                BY Zenon DEF SkippedOld, GiveUp
            <4>1. k < next_expected_seq
                BY <1>0, <3>3, <3>4 DEF ReceiverOK, Cursors, Seqs
            <4>2. k \in DOMAIN missing_seqs /\ missing_seqs'[k] = missing_seqs[k]
                BY <3>2, <4>1, Zenon
            <4> QED BY <2>1, <4>1, <4>2 DEF ReportInv, SkippedOld
        <3>6. RepeatedUntilConfirmed'
            BY <2>1, <3>1, Zenon DEF ReportInv, RepeatedUntilConfirmed
        <3> QED BY <3>1, <3>5, <3>6 DEF ReportInv, Uninitialised, seq_initialized
    <2> QED BY <1>2, <2>3, <2>4 DEF HandleData
<1>3. ASSUME NEW s \in wire, HandleControl(s) PROVE ReportInv'
    BY <1>3, Zenon DEF HandleControl, receiverVars, ReportInv, RepeatedUntilConfirmed,
                SkippedOld, Uninitialised, seq_initialized
<1>4. CASE HandleHeartbeat
    BY <1>4, Zenon DEF HandleHeartbeat, historyVars, ReportInv, RepeatedUntilConfirmed,
                SkippedOld, Uninitialised, seq_initialized
<1>5. ASSUME NEW kept \in BOOLEAN, SendReport(kept) PROVE ReportInv'
    <2> DEFINE a == IF seq_initialized THEN next_expected_seq' - 1 ELSE 0
               l == Lowest(Overdue, LostCap)
               r == [ack |-> a, lost |-> l]
    <2>1. /\ ReportDue
          /\ since_report' = 0
          /\ missing_seqs' = Without(missing_seqs, Erased)
          /\ abandoned' = abandoned \cup (Erased \ received)
          /\ UNCHANGED <<first_seq, received>>
          /\ reports' \subseteq reports \cup {r}
        BY <1>5, Zenon DEF SendReport
    <2>2. /\ DOMAIN missing_seqs' = DOMAIN missing_seqs \ Erased
          /\ \A k \in DOMAIN missing_seqs' : missing_seqs'[k] = missing_seqs[k]
        BY <2>1, Zenon DEF Without
    <2>3. l = Overdue
        BY <1>0, LowestAll, ReportSets, Zenon DEF SteadyReports, ReceiverOK
    <2>4. ASSUME NEW k \in DOMAIN missing_seqs' \ received', seq_initialized,
                 k < next_expected_seq'
          PROVE  k \in Overdue
        <3>1. k \notin GivenUp /\ Retransmit
            BY <2>2, Zenon DEF Erased, GivenUp
        <3>2. k \in Seqs
            BY <1>0, <2>2, Zenon DEF ReceiverOK
        <3>3. CASE k < next_expected_seq
            BY <2>1, <2>2, <3>1, <3>3, PassedOverdue, Zenon
        <3>4. CASE k >= next_expected_seq
            <4>1. /\ next_expected_seq' \in Cursors
                  /\ IsCursor(next_expected_seq', next_expected_seq,
                              recv_seqs \cup Skipped)
                BY <1>5, <2>4, Zenon DEF SendReport
            <4>2. k \in next_expected_seq..(next_expected_seq' - 1)
                BY <1>0, <2>4, <3>2, <3>4, <4>1 DEF ReceiverOK, Cursors, Seqs
            <4>3. k \in recv_seqs \cup Skipped
                BY <4>1, <4>2, Zenon DEF IsCursor
            <4> QED BY <2>1, <3>1, <4>3 DEF GapInv, Skipped
        <3> QED BY <1>0, <3>2, <3>3, <3>4 DEF ReceiverOK, Cursors, Seqs
    <2>5. SkippedOld'
        <3> SUFFICES ASSUME NEW k \in DOMAIN missing_seqs' \ received',
                            k < next_expected_seq'
                     PROVE  missing_seqs'[k] > since_report'
            BY Zenon DEF SkippedOld
        <3>1. seq_initialized
            BY <2>2, Zenon DEF ReportInv, Uninitialised
        <3>2. missing_seqs[k] * TickMs > LossThreshold(sender_rtt)
            BY <2>4, <3>1, Zenon DEF Overdue
        <3>3. missing_seqs[k] \in Nat /\ LossThreshold(sender_rtt) \in Nat
            BY <1>0, <2>2, ThresholdNat, BoundsAssumption, Zenon DEF ReceiverOK
        <3> QED BY <2>1, <2>2, <3>2, <3>3, ProductPositive, BoundsAssumption
    <2>6. RepeatedUntilConfirmed'
        <3> SUFFICES ASSUME NEW q \in reports', NEW k \in Seqs, first_seq' <= k,
                            k <= q.ack
                     PROVE  k \in received' \cup abandoned' \cup q.lost
            BY Zenon DEF RepeatedUntilConfirmed
        <3>1. CASE q \in reports
            BY <2>1, <3>1, Zenon DEF ReportInv, RepeatedUntilConfirmed
        <3>2. CASE q = r
            <4>1. seq_initialized
                BY <3>2 DEF Seqs
            <4>2. k < next_expected_seq'
                <5>1. next_expected_seq' \in Cursors
                    BY <1>5, <4>1, Zenon DEF SendReport
                <5>2. q.ack = next_expected_seq' - 1
                    BY <3>2, <4>1, Zenon
                <5>3. k <= next_expected_seq' - 1
                    BY <5>2, Zenon
                <5>4. k \in Int /\ next_expected_seq' \in Int
                    BY <5>1, BoundsAssumption DEF Seqs, Cursors
                <5> QED BY <5>3, <5>4, BelowNext, Zenon
            <4>3. CursorAccounted'
                BY GapStep, Zenon DEF GapInv
            <4>4. k \in received' \cup abandoned' \cup DOMAIN missing_seqs'
                BY <2>1, <4>1, <4>2, <4>3, Zenon DEF CursorAccounted, seq_initialized
            <4> QED BY <2>3, <2>4, <3>2, <4>1, <4>2, <4>4
        <3> QED BY <2>1, <3>1, <3>2
    <2>7. Uninitialised'
        BY <2>1, <2>2 DEF ReportInv, Uninitialised, seq_initialized
    <2> QED BY <2>5, <2>6, <2>7 DEF ReportInv
<1>6. CASE Tick
    <2>1. /\ missing_seqs' = [s \in DOMAIN missing_seqs |-> Older(missing_seqs[s])]
          /\ since_report' = since_report + 1
          /\ UNCHANGED <<first_seq, next_expected_seq, received, abandoned, reports>>
        BY <1>6, Zenon DEF Tick, historyVars
    <2>2. SkippedOld'
        <3> SUFFICES ASSUME NEW k \in DOMAIN missing_seqs \ received,
                            k < next_expected_seq
                     PROVE  \/ missing_seqs'[k] > since_report'
                            \/ missing_seqs'[k] * TickMs > GiveUp
            BY <2>1, Zenon DEF SkippedOld, GiveUp
        <3>1. missing_seqs'[k] = Older(missing_seqs[k])
            BY <2>1, Zenon
        <3>2. missing_seqs[k] \in Nat /\ since_report \in Nat
            BY <1>0, Zenon DEF ReceiverOK
        <3>3. CASE missing_seqs[k] * TickMs > GiveUp
            BY <3>1, <3>3, Zenon DEF Older
        <3>4. CASE ~(missing_seqs[k] * TickMs > GiveUp)
            <4>1. missing_seqs[k] > since_report
                BY <3>4, Zenon DEF ReportInv, SkippedOld
            <4>2. missing_seqs'[k] = missing_seqs[k] + 1
                BY <3>1, <3>4, Zenon DEF Older
            <4> QED BY <2>1, <3>2, <4>1, <4>2
        <3> QED BY <3>3, <3>4
    <2> QED BY <2>1, <2>2
        DEF ReportInv, RepeatedUntilConfirmed, Uninitialised, seq_initialized
<1>7. ASSUME NEW q \in reports, NEW dup \in BOOLEAN, HandleReport(q, dup)
      PROVE  ReportInv'
    BY <1>7, Zenon DEF HandleReport, receiverVars, historyVars, ReportInv,
                RepeatedUntilConfirmed, SkippedOld, Uninitialised, seq_initialized
<1>8. ASSUME NEW s \in DOMAIN resending, Resend(s) PROVE ReportInv'
    BY <1>8, Zenon DEF Resend, receiverVars, ReportInv, RepeatedUntilConfirmed,
                SkippedOld, Uninitialised, seq_initialized
<1> QED BY <1>1, <1>2, <1>3, <1>4, <1>5, <1>6, <1>7, <1>8, Zenon
    DEF Next, vars, SendData, RecordBytes, SendControl, ClearPending, HandleAck,
        historyVars

(* When reports are steady, every report lists every sequence below its    *)
(* ack cursor that is neither received nor abandoned.                      *)
THEOREM ReportsTruthful == SteadyReports => (Spec => []RepeatedUntilConfirmed)
<1> SUFFICES ASSUME SteadyReports PROVE Spec => []RepeatedUntilConfirmed
    BY Zenon
<1>1. TypeInv /\ GapInv /\ ReportInv /\ [Next]_vars => ReportInv'
    BY ReportStep, Zenon
<1>2. Spec => [](TypeInv /\ GapInv /\ ReportInv)
    BY <1>1, TypeInit, TypeStep, GapInit, GapStep, ReportInit, PTL DEF Spec
<1> QED BY <1>2, PTL DEF ReportInv

(* When reports are steady, Report::handle forgets a packet only if it was *)
(* received or abandoned at the other end, precedes the first packet seen  *)
(* there, or has been retransmitted kMaxRetries times.                     *)
THEOREM PruneSafe == SteadyReports => (Spec => PruneJustified)
<1> SUFFICES ASSUME SteadyReports PROVE Spec => PruneJustified
    BY Zenon
<1>1. TypeInv /\ GapInv /\ ReportInv /\ [Next]_vars => ReportInv'
    BY ReportStep, Zenon
<1>2. Spec => [](TypeInv /\ GapInv /\ ReportInv /\ ResendInv)
    BY <1>1, TypeInit, TypeStep, GapInit, GapStep, ReportInit, ResendInit,
       ResendStep, PTL DEF Spec
<1> DEFINE Justified ==
        \A r \in reports, dup \in BOOLEAN : HandleReport(r, dup) =>
            \A s \in (DOMAIN pending \ hollow) \ DOMAIN pending' :
                \/ s \in received \cup abandoned
                \/ s < first_seq
                \/ resends[s] = kMaxRetries
<1>3. TypeInv /\ ReportInv /\ ResendInv => Justified
    <2> SUFFICES ASSUME TypeInv, ReportInv, ResendInv,
                        NEW r \in reports, NEW dup \in BOOLEAN,
                        HandleReport(r, dup),
                        NEW s \in (DOMAIN pending \ hollow) \ DOMAIN pending',
                        ~(s < first_seq)
                 PROVE  \/ s \in received \cup abandoned
                        \/ resends[s] = kMaxRetries
        BY Zenon
    <2>1. s \in Pruned(r)
        BY Zenon DEF HandleReport, Without
    <2>2. /\ s \in Seqs /\ pending[s] \in 0..kMaxRetries
          /\ first_seq \in 0..MaxSeq
        BY Zenon DEF TypeInv, TypeOK, SenderOK, ReceiverOK
    <2>3. CASE s <= r.ack /\ s \notin r.lost
        <3>1. first_seq <= s
            BY <2>2, BoundsAssumption DEF Seqs
        <3> QED BY <2>2, <2>3, <3>1 DEF ReportInv, RepeatedUntilConfirmed
    <2>4. CASE pending[s] >= kMaxRetries
        BY <2>2, <2>4, BoundsAssumption DEF ResendInv, CountExact
    <2> QED BY <2>1, <2>3, <2>4 DEF Pruned
<1>4. PruneJustified <=> [][Justified]_vars
    BY Zenon DEF PruneJustified
<1> QED BY <1>2, <1>3, <1>4, PTL

=============================================================================
