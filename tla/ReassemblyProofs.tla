--------------------------- MODULE ReassemblyProofs ---------------------------
(***************************************************************************)
(* A message is delivered once, whole, and as soon as enough of its        *)
(* fragments are there, for every erasure code, message and bound.         *)
(*                                                                         *)
(* The argument has two halves.  The first is about data: an entry with    *)
(* the fragments S of a message is completed by Decode if and only if S    *)
(* has as many members as the message has data fragments (PartCount and    *)
(* ErasureCode), and build_msg finds the message in a complete entry,      *)
(* whether a last fragment has its own size or, recovered, the full one    *)
(* (StreamFacts, BuildFacts).                                              *)
(*                                                                         *)
(* The second is about time: what m_incoming and m_completed hold under an *)
(* id belongs to the current sending process's message, and is not         *)
(* forgotten while copies of its fragments may arrive.  Their ages show    *)
(* it: an entry is no older than its message (Recent), an old message's    *)
(* fragments arrive no more (Open), and at a restart everything is as old  *)
(* as check_offline lets it become (QuietRestarts).                        *)
(***************************************************************************)
EXTENDS Reassembly, SequenceFacts

-----------------------------------------------------------------------------
(***************************************************************************)
(* The inductive invariant.  After a dangling reference was used nothing   *)
(* is claimed, so all of it is under ~undefined.                           *)
(***************************************************************************)

K(id) == <<session, id>>
Fragments(k) == 0..(data_count(sent[k].msg) + sent[k].parity - 1)

\* Copies of the message's fragments may still arrive.
Open(k) == k \in DOMAIN sent /\ sent[k].age <= Lifetime

\* It is not too large for the receiving end.
Fits(k) == data_count(sent[k].msg) + sent[k].parity <= max_fragments

SenderInv ==
    /\ session \in Sessions /\ msg_id_out \in 1..(MaxMsg + 1) /\ silence \in Nat
    /\ DOMAIN sent \subseteq Sessions \X Ids
    /\ \A id \in Ids : K(id) \in DOMAIN sent => id < msg_id_out
    /\ \A k \in DOMAIN sent :
          /\ sent[k] = [msg |-> sent[k].msg, parity |-> sent[k].parity, age |-> sent[k].age]
          /\ sent[k].msg \in Payloads[k[1]]
          /\ sent[k].parity \in ParityCounts(data_count(sent[k].msg))
          /\ sent[k].age \in 0..(Lifetime + 1)
          /\ k[1] <= session
          /\ sent[k].age <= Lifetime => k[1] = session /\ silence <= sent[k].age

\* The receiver thread works on a fragment of the current process's message.
Busy(id) == rx.pc # "idle" /\ rx.packet.id = id

RxInv ==
    /\ rx.pc \in {"idle", "index", "store", "assemble", "complete"}
    /\ rx.pc # "idle" =>
          LET f == rx.packet
              k == K(f.id)
          IN  /\ rx = [pc |-> rx.pc, packet |-> f]
              /\ f.id \in Ids /\ f.id \notin DOMAIN completed
              /\ Open(k) /\ Fits(k)
              /\ f.idx \in Fragments(k)
              /\ f = Packet(f.id, sent[k].msg, sent[k].parity, f.idx)
              /\ rx.pc = "complete" => k \in enough

\* The entry that holds the fragments S of a message.
Holding(m, p, S, age) ==
    [total |-> data_count(m) + p, data |-> data_count(m),
     fragments |-> [i \in S |-> Content(m, i)], sizes |-> [i \in S |-> Size(m, i)],
     age |-> age]

\* An age that tells how long ago the last message was sent, at least.
Recent(age, k) ==
    /\ age \in 0..DeadTicks /\ silence <= Lifetime + age
    /\ Open(k) => age <= sent[k].age

\* The entry holds fragments of the current message id, as they were sent.
Kept(id) ==
    LET e == incoming[id]
        k == K(id)
    IN  /\ Recent(e.age, k) /\ DOMAIN e.fragments \subseteq Fragments(k)
        /\ e = Holding(sent[k].msg, sent[k].parity, DOMAIN e.fragments, e.age)

EntryInv ==
    \A id \in DOMAIN incoming :
        /\ id \in Ids /\ id \notin DOMAIN completed /\ K(id) \in DOMAIN sent
        /\ \/ incoming[id] = Blank /\ rx.pc = "store" /\ Busy(id)
           \/ rx.pc = "complete" /\ Busy(id) /\ Recent(incoming[id].age, K(id))
           \/ Kept(id)

CompletedInv ==
    \A id \in DOMAIN completed :
        id \in Ids /\ K(id) \in enough /\ Recent(completed[id], K(id))

\* The fragments of the current message id that the receiving end has: in the
\* entry, and on the way into it.
Part(id) == IF id \in DOMAIN incoming /\ incoming[id] # Blank
            THEN DOMAIN incoming[id].fragments ELSE {}
Seen(id) == Part(id) \cup (IF Busy(id) /\ rx.pc \in {"index", "store"}
                           THEN {rx.packet.idx} ELSE {})

\* The receiving end has the fragments that arrived of the message, until they
\* are enough and the message is completed.
Tracked(id) ==
    LET k == K(id)
    IN  Open(k) /\ Fits(k) =>
          IF k \notin enough THEN Seen(id) = arrived[k]
          ELSE \/ id \in DOMAIN completed
               \/ Busy(id) /\ rx.pc = "complete"
               \/ Busy(id) /\ Cardinality(Seen(id)) >= data_count(sent[k].msg)

HistoryInv ==
    /\ enough \subseteq DOMAIN sent /\ DOMAIN arrived = DOMAIN sent \ enough
    /\ \A k \in DOMAIN arrived :
          arrived[k] \subseteq Fragments(k) /\ Cardinality(arrived[k]) < data_count(sent[k].msg)
    /\ \A id \in Ids : Tracked(id)

\* A message with enough fragments whose last one is still being handled.
Pending(id) == IF Busy(id) /\ rx.pc # "complete" /\ K(id) \in enough THEN 1 ELSE 0

Sendable == UNION {Payloads[s] : s \in Sessions}
Messages == Sendable \cup {<<>>}

Counted(id) ==
    /\ IsFiniteSet(Sent(id) \cap enough)
    /\ Len(delivered[id]) + Pending(id) <= Cardinality(Sent(id) \cap enough)
    /\ AllFit => Len(delivered[id]) + Pending(id) = Cardinality(Sent(id) \cap enough)
    /\ AllFit => \A i \in 1..Len(delivered[id]) :
                    \E k \in Sent(id) : sent[k].msg = delivered[id][i]

CountInv == delivered \in [Ids -> Seq(Messages)] /\ \A id \in Ids : Counted(id)

Inv == SenderInv /\ RxInv /\ EntryInv /\ CompletedInv /\ HistoryInv /\ CountInv

IInv == undefined \in BOOLEAN /\ (~undefined => Inv)

-----------------------------------------------------------------------------
(***************************************************************************)
(* Facts of the library, proved where it is taken in, at the end.          *)
(***************************************************************************)

Induction == \A T \in SUBSET Nat : 0 \in T /\ (\A n \in T : n + 1 \in T) => T = Nat

CountingFacts ==
    /\ IsFiniteSet({}) /\ Cardinality({}) = 0
    /\ \A S : IsFiniteSet(S) => Cardinality(S) \in Nat
    /\ \A S, x : IsFiniteSet(S) =>
          /\ IsFiniteSet(S \cup {x})
          /\ x \notin S => Cardinality(S \cup {x}) = Cardinality(S) + 1
    /\ \A n \in Int : \A S \in SUBSET (0..n) : IsFiniteSet(S)

\* Of d data and p parity fragments, those in S are d or more if and only if
\* there are as many parity fragments as data fragments missing.
PartCount ==
    \A d \in Nat \ {0} : \A p \in Nat : \A S \in SUBSET (0..(d + p - 1)) :
        Cardinality((0..(d - 1)) \ (S \cap 0..(d - 1)))
                <= Cardinality({q \in 0..(p - 1) : d + q \in S})
            <=> Cardinality(S) >= d

Library == Induction /\ CountingFacts /\ PartCount

-----------------------------------------------------------------------------
(***************************************************************************)
(* Cutting a message and putting it together.                              *)
(***************************************************************************)

LEMMA RoundedUp ==
    ASSUME NEW L \in Nat \ {0}, NEW F \in Nat \ {0}, NEW d, d = (L + F - 1) \div F
    PROVE  d \in Nat \ {0} /\ (d - 1) * F < L /\ L <= d * F
<1>1. (L + F - 1) \in Nat /\ L + F - 1 >= F
  OBVIOUS
<1>2. \A a \in Nat : a \div F \in Nat /\ (a \div F) * F <= a /\ a < (a \div F) * F + F
  OBVIOUS
<1> QED
  BY <1>1, <1>2

LEMMA BytesAreNumbers == Bytes \subseteq Nat /\ 0 \in Bytes
BY DEF Bytes

LEMMA LengthBytes ==
    ASSUME NEW n \in Nat
    PROVE  /\ n \div 256 \in Nat /\ n % 256 \in Nat
           /\ 256 * (n \div 256) + (n % 256) = n
<1>1. n \div 256 \in Nat /\ n % 256 \in Nat
  OBVIOUS
<1> DEFINE b == 256
<1>2. b \in Nat \ {0}
  OBVIOUS
<1> HIDE DEF b
<1>3. (n \div b) * b + (n % b) = n
  BY <1>2
<1>4. n \div b \in Nat
  BY <1>2
<1>5. (n \div b) * b = b * (n \div b)
  BY <1>2, <1>4
<1>6. b * (n \div b) + (n % b) = n
  BY <1>3, <1>5, Zenon
<1> QED
  BY <1>1, <1>6 DEF b

LEMMA Multiples ==
    ASSUME NEW i \in Nat, NEW j \in Nat, NEW F \in Nat, i <= j
    PROVE  /\ i * F \in Nat /\ j * F \in Nat /\ i * F <= j * F
           /\ (i + 1) * F = i * F + F
<1>1. \A k \in Nat : k * F \in Nat /\ (i + k) * F = i * F + k * F
  OBVIOUS
<1>2. PICK k \in Nat : j = i + k
  <2>1. j - i \in Nat /\ j = i + (j - i)
    OBVIOUS
  <2> QED
    BY <2>1
<1>3. i * F \in Nat /\ k * F \in Nat /\ j * F = i * F + k * F
  BY <1>1, <1>2
<1>4. (i + 1) * F = i * F + F
  OBVIOUS
<1> QED
  BY <1>3, <1>4

LEMMA FramedBytes ==
    ASSUME NEW s \in Sessions, NEW m \in Payloads[s]
    PROVE  /\ m \in Seq(Nat) /\ Len(m) \in Nat
           /\ full(m) \in Seq(Nat) /\ Len(full(m)) = Len(m) + 4
           /\ full(m)[1] = 0 /\ full(m)[2] = 0
           /\ full(m)[3] = Len(m) \div 256 /\ full(m)[4] = Len(m) % 256
           /\ \A j \in 1..Len(m) : full(m)[j + 4] = m[j]
           /\ data_count(m) \in Nat \ {0}
           /\ (data_count(m) - 1) * FragPayload < Len(m) + 4
           /\ Len(m) + 4 <= data_count(m) * FragPayload
<1>1. m \in Seq(Nat)
  <2>1. m \in Seq(Bytes)
    BY ReassemblyAssumption, ZenonT(30) DEF Sessions
  <2> QED
    BY <2>1, BytesAreNumbers, LargerSeq, Zenon
<1>2. Len(m) \in Nat
  BY <1>1, LenFacts, Zenon
<1> DEFINE q == Len(m) \div 256
           r == Len(m) % 256
           h == <<0, 0, q, r>>
<1>3. q \in Nat /\ r \in Nat
  BY <1>2, SMT
<1> HIDE DEF q, r
<1>4. /\ h \in Seq(Nat) /\ Len(h) = 4
      /\ h[1] = 0 /\ h[2] = 0 /\ h[3] = q /\ h[4] = r
  BY <1>3
<1>5. full(m) = h \o m
  BY Zenon DEF full, q, r
<1> HIDE DEF h
<1>6. /\ full(m) \in Seq(Nat) /\ Len(full(m)) = Len(m) + 4
      /\ \A i \in 1..(Len(m) + 4) : full(m)[i] = IF i <= 4 THEN h[i] ELSE m[i - 4]
  <2> DEFINE w == h \o m
  <2>1. /\ w \in Seq(Nat) /\ Len(w) = Len(h) + Len(m)
        /\ \A i \in 1..(Len(h) + Len(m)) : w[i] = IF i <= Len(h) THEN h[i] ELSE m[i - Len(h)]
    BY <1>1, <1>4, ConcatFacts, Zenon
  <2>2. full(m) = w
    BY <1>5, Zenon
  <2> HIDE DEF w
  <2> QED
    BY <1>2, <1>4, <2>1, <2>2, SMTT(30)
<1>7. \A j \in 1..Len(m) : full(m)[j + 4] = m[j]
  <2>1. \A j \in 1..Len(m) : j + 4 \in 1..(Len(m) + 4) /\ ~(j + 4 <= 4) /\ (j + 4) - 4 = j
    BY <1>2
  <2> QED
    BY <1>6, <2>1
<1>8. /\ data_count(m) \in Nat \ {0}
      /\ (data_count(m) - 1) * FragPayload < Len(m) + 4
      /\ Len(m) + 4 <= data_count(m) * FragPayload
  <2>1. data_count(m) = ((Len(m) + 4) + FragPayload - 1) \div FragPayload
    BY <1>6, Zenon DEF data_count
  <2>2. Len(m) + 4 \in Nat \ {0} /\ FragPayload \in Nat \ {0}
    BY <1>2, ReassemblyAssumption
  <2> QED
    BY <2>1, <2>2, RoundedUp, Zenon
<1>9. full(m)[1] = h[1] /\ full(m)[2] = h[2] /\ full(m)[3] = h[3] /\ full(m)[4] = h[4]
  BY <1>2, <1>6
<1> QED
  BY <1>1, <1>2, <1>4, <1>6, <1>7, <1>8, <1>9, Zenon DEF q, r

\* The same, without the values of the length bytes.
LEMMA MessageFacts ==
    ASSUME NEW s \in Sessions, NEW m \in Payloads[s]
    PROVE  /\ m \in Seq(Nat) /\ Len(m) \in Nat
           /\ full(m) \in Seq(Nat) /\ Len(full(m)) = Len(m) + 4
           /\ \A j \in 1..Len(m) : full(m)[j + 4] = m[j]
           /\ data_count(m) \in Nat \ {0}
           /\ (data_count(m) - 1) * FragPayload < Len(m) + 4
           /\ Len(m) + 4 <= data_count(m) * FragPayload
BY FramedBytes

LEMMA ParityFacts ==
    ASSUME NEW d \in Nat \ {0}, NEW p \in ParityCounts(d)
    PROVE  p \in Nat \ {0}
BY DEF ParityCounts, Smaller

\* Fragment i is the message's bytes from i * FragPayload on, as many as fit.
LEMMA SpanFacts ==
    ASSUME NEW s \in Sessions, NEW m \in Payloads[s], NEW i \in 0..(data_count(m) - 1)
    PROVE  /\ Span(m, i) \in Seq(Nat)
           /\ Len(Span(m, i)) \in 1..FragPayload
           /\ i < data_count(m) - 1 => Len(Span(m, i)) = FragPayload
           /\ i = data_count(m) - 1 => i * FragPayload + Len(Span(m, i)) = Len(m) + 4
           /\ \A j \in 1..Len(Span(m, i)) : Span(m, i)[j] = full(m)[i * FragPayload + j]
<1> DEFINE d == data_count(m)
           F == FragPayload
           L == Len(m) + 4
           a == i * F
           b == Smaller((i + 1) * F, L)
<1>1. /\ d \in Nat \ {0} /\ F \in Nat \ {0} /\ L \in Nat
      /\ (d - 1) * F < L /\ L <= d * F
      /\ full(m) \in Seq(Nat) /\ Len(full(m)) = L
  BY MessageFacts, ReassemblyAssumption
<1>6. Span(m, i) = SubSeq(full(m), a + 1, b)
  BY <1>1 DEF Span
<1> HIDE DEF d, F, L
<1>0. i \in Nat /\ i + 1 \in Nat /\ d - 1 \in Nat /\ i <= d - 1
  BY <1>1 DEF d
<1>2. a \in Nat /\ (i + 1) * F = a + F
  BY <1>0, <1>1, Multiples
<1>3. i < d - 1 => (i + 1) * F <= (d - 1) * F
  BY <1>0, <1>1, Multiples
<1>4. a <= (d - 1) * F
  BY <1>0, <1>1, Multiples
<1>5. i = d - 1 => (i + 1) * F = d * F
  BY <1>1
<1> HIDE DEF a
<1>7. /\ b \in Nat /\ a < b /\ b <= a + F /\ b <= L
      /\ i < d - 1 => b = a + F
      /\ i = d - 1 => b = L
  BY <1>0, <1>1, <1>2, <1>3, <1>4, <1>5 DEF Smaller
<1> HIDE DEF b
<1>8. \A j \in (a + 1)..b : full(m)[j] \in Nat
  <2>1. \A j \in 1..L : full(m)[j] \in Nat
    BY <1>1, LenFacts, Zenon
  <2>2. \A j \in (a + 1)..b : j \in 1..L
    BY <1>1, <1>2, <1>7
  <2> QED
    BY <2>1, <2>2, Zenon
<1>9. /\ Span(m, i) \in Seq(Nat) /\ Len(Span(m, i)) = b - a
      /\ \A j \in 1..(b - a) : Span(m, i)[j] = full(m)[a + j]
  <2>1. a + 1 \in Int /\ b \in Int
    BY <1>2, <1>7
  <2>2. /\ Span(m, i) \in Seq(Nat)
        /\ Len(Span(m, i)) = IF a + 1 <= b THEN b - (a + 1) + 1 ELSE 0
        /\ \A j \in 1..(b - (a + 1) + 1) : Span(m, i)[j] = full(m)[a + 1 + j - 1]
    BY <1>6, <1>8, <2>1, SubSeqFacts
  <2>3. /\ a + 1 <= b /\ b - (a + 1) + 1 = b - a
        /\ \A j \in 1..(b - a) : a + 1 + j - 1 = a + j
    BY <1>2, <1>7
  <2> QED
    BY <2>2, <2>3, Zenon
<1>10. /\ Len(Span(m, i)) \in 1..F
       /\ i < d - 1 => Len(Span(m, i)) = F
       /\ i = d - 1 => a + Len(Span(m, i)) = L
  BY <1>0, <1>1, <1>2, <1>7, <1>9
<1> QED
  BY <1>9, <1>10, Zenon DEF d, F, L, a

LEMMA Splice ==
    ASSUME NEW X, NEW a \in Nat, NEW c \in Nat, NEW P \in Seq(Nat), Len(P) = c,
           \A j \in 1..(a + c) : X[j] \in Nat, \A j \in 1..c : P[j] = X[a + j]
    PROVE  SubSeq(X, 1, a) \o P = SubSeq(X, 1, a + c)
<1> DEFINE A == SubSeq(X, 1, a)
           B == SubSeq(X, 1, a + c)
           C == A \o P
<1>1. A \in Seq(Nat) /\ Len(A) = a /\ \A j \in 1..a : A[j] = X[j]
  <2>1. \A j \in 1..a : X[j] \in Nat
    OBVIOUS
  <2> QED
    BY <2>1, SubSeqFacts
<1>2. B \in Seq(Nat) /\ Len(B) = a + c /\ \A j \in 1..(a + c) : B[j] = X[j]
  BY SubSeqFacts
<1> HIDE DEF A, B
<1>3. /\ C \in Seq(Nat) /\ Len(C) = Len(A) + Len(P)
      /\ \A j \in 1..(Len(A) + Len(P)) : C[j] = IF j <= Len(A) THEN A[j] ELSE P[j - Len(A)]
  BY <1>1, ConcatFacts, Zenon
<1> HIDE DEF C
<1>4. ASSUME NEW j \in 1..(a + c) PROVE C[j] = B[j]
  <2>1. C[j] = IF j <= a THEN A[j] ELSE P[j - a]
    BY <1>1, <1>3
  <2>2. CASE j <= a
    <3>1. j \in 1..a
      BY <2>2
    <3> QED
      BY <1>1, <1>2, <2>1, <2>2, <3>1, Zenon
  <2>3. CASE ~(j <= a)
    <3>1. j - a \in 1..c /\ a + (j - a) = j
      BY <2>3
    <3>2. P[j - a] = X[j]
      BY <3>1, Zenon
    <3> QED
      BY <1>2, <2>1, <2>3, <3>2, Zenon
  <2> QED
    BY <2>2, <2>3
<1>5. Len(C) = a + c
  BY <1>1, <1>3
<1>6. C = B
  BY <1>2, <1>3, <1>4, <1>5, EqualFacts
<1> QED
  BY <1>6, Zenon DEF A, B, C

\* G has the recursion of Stream's function.
BuildsUp(G, fr, sz, d) ==
    G = [n \in 0..d |-> IF n = 0 THEN <<>> ELSE G[n - 1] \o
            SubSeq(fr[n - 1], 1, Smaller(sz[n - 1], Len(fr[n - 1])))]

LEMMA StreamIs ==
    ASSUME Induction, NEW fr, NEW sz, NEW d \in Nat, NEW G, BuildsUp(G, fr, sz, d)
    PROVE  Stream(fr, sz, d) = G[d]
<1> DEFINE P(i) == SubSeq(fr[i], 1, Smaller(sz[i], Len(fr[i])))
           Longer(f) == [n \in 0..d |-> IF n = 0 THEN <<>> ELSE f[n - 1] \o P(n - 1)]
           U == CHOOSE f : f = Longer(f)
<1>1. Stream(fr, sz, d) = U[d]
  BY DEF Stream
<1>2. U = Longer(U)
  <2>1. G = Longer(G)
    BY Zenon DEF BuildsUp
  <2> QED
    BY <2>1, Zenon
<1> HIDE DEF U
<1> DEFINE T == {n \in Nat : n \in 0..d => U[n] = G[n]}
<1>3. 0 \in T
  BY <1>2 DEF BuildsUp
<1>4. ASSUME NEW n \in T PROVE n + 1 \in T
  <2>1. CASE n + 1 \in 0..d
    <3>1. n \in 0..d /\ U[n] = G[n]
      BY <2>1
    <3>2. U[n + 1] = U[n] \o P(n) /\ G[n + 1] = G[n] \o P(n)
      <4>1. n + 1 # 0 /\ (n + 1) - 1 = n
        BY <3>1
      <4> QED
        BY <1>2, <2>1, <4>1, Zenon DEF BuildsUp
    <3>3. U[n + 1] = G[n + 1]
      BY <3>1, <3>2, Zenon
    <3>4. n + 1 \in Nat
      OBVIOUS
    <3> QED
      BY <3>3, <3>4, Zenon
  <2> QED
    BY <2>1
<1>5. T = Nat
  <2>1. T \in SUBSET Nat
    OBVIOUS
  <2> HIDE DEF T
  <2> QED
    BY <1>3, <1>4, <2>1, Zenon DEF Induction
<1>6. U[d] = G[d]
  <2>1. d \in T
    BY <1>5, Zenon
  <2>2. d \in 0..d
    OBVIOUS
  <2> QED
    BY <2>1, <2>2, Zenon
<1> QED
  BY <1>1, <1>6, Zenon

\* The full message with the zeros behind it that fill its last fragment.
Filled(m) == [j \in 1..(data_count(m) * FragPayload) |->
                 IF j <= Len(m) + 4 THEN full(m)[j] ELSE 0]

LEMMA PaddedFacts ==
    ASSUME NEW s \in Sessions, NEW m \in Payloads[s], NEW i \in 0..(data_count(m) - 1),
           NEW c \in Nat, c <= FragPayload
    PROVE  /\ Len(Padded(Span(m, i))) = FragPayload
           /\ SubSeq(Padded(Span(m, i)), 1, c) \in Seq(Nat)
           /\ Len(SubSeq(Padded(Span(m, i)), 1, c)) = c
           /\ \A j \in 1..c :
                 SubSeq(Padded(Span(m, i)), 1, c)[j] = Filled(m)[i * FragPayload + j]
<1> DEFINE F == FragPayload
           d == data_count(m)
           L == Len(m) + 4
           q == Padded(Span(m, i))
           S == SubSeq(q, 1, c)
           v == Span(m, i)
<1>1. /\ v \in Seq(Nat) /\ Len(v) \in 1..F
      /\ i < d - 1 => Len(v) = F
      /\ i = d - 1 => i * F + Len(v) = L
      /\ \A j \in 1..Len(v) : v[j] = full(m)[i * F + j]
  BY SpanFacts, Zenon
<1>2. F \in Nat \ {0} /\ d \in Nat \ {0} /\ L \in Nat /\ (d - 1) * F < L /\ L <= d * F
  BY MessageFacts, ReassemblyAssumption
<1>3. q = [j \in 1..F |-> IF j <= Len(v) THEN v[j] ELSE 0]
  BY Zenon DEF Padded
<1>4. Filled(m) = [j \in 1..(d * F) |-> IF j <= L THEN full(m)[j] ELSE 0]
  BY Zenon DEF Filled
<1>5. c <= F
  OBVIOUS
<1> HIDE DEF F, d, L, q, v
<1>6. i \in Nat /\ d - 1 \in Nat /\ i <= d - 1 /\ i + 1 \in Nat /\ i + 1 <= d
  BY <1>2 DEF d
<1>7. i * F \in Nat /\ (i + 1) * F = i * F + F /\ (i + 1) * F <= d * F
  BY <1>2, <1>6, Multiples
<1>8. i < d - 1 => i * F + F < L
  <2> HAVE i < d - 1
  <2>1. i + 1 <= d - 1
    BY <1>2, <1>6
  <2>2. (i + 1) * F <= (d - 1) * F /\ (d - 1) * F \in Nat
    BY <1>2, <1>6, <2>1, Multiples
  <2> QED
    BY <1>2, <1>7, <2>2
<1>9. Len(q) = F /\ \A j \in 1..F : q[j] = Filled(m)[i * F + j] /\ q[j] \in Nat
  <2>1. Len(q) = F
    BY <1>2, <1>3
  <2>2. ASSUME NEW j \in 1..F
        PROVE  q[j] = Filled(m)[i * F + j] /\ q[j] \in Nat
    <3>1. i * F + j \in 1..(d * F)
      BY <1>2, <1>7
    <3>2. /\ q[j] = IF j <= Len(v) THEN v[j] ELSE 0
          /\ Filled(m)[i * F + j] = IF i * F + j <= L THEN full(m)[i * F + j] ELSE 0
      BY <1>3, <1>4, <3>1, Zenon
    <3>3. j <= Len(v) <=> i * F + j <= L
      <4>1. CASE i < d - 1
        BY <1>1, <1>2, <1>7, <1>8, <4>1
      <4>2. CASE i = d - 1
        BY <1>1, <1>2, <1>7, <4>2
      <4> QED
        BY <1>2, <1>6, <4>1, <4>2
    <3>4. CASE j <= Len(v)
      <4>1. j \in 1..Len(v)
        BY <1>1, <1>2, <3>4
      <4>2. v[j] \in Nat
        BY <1>1, <4>1, LenFacts
      <4> QED
        BY <1>1, <3>2, <3>3, <3>4, <4>1, <4>2, Zenon
    <3>5. CASE ~(j <= Len(v))
      BY <3>2, <3>3, <3>5, 0 \in Nat, Zenon
    <3> QED
      BY <3>4, <3>5, Zenon
  <2> QED
    BY <2>1, <2>2, Zenon
<1>10. \A j \in 1..c : j \in 1..F
  BY <1>2, <1>5
<1>11. S \in Seq(Nat) /\ Len(S) = c /\ \A j \in 1..c : S[j] = q[j]
  <2>1. \A j \in 1..c : q[j] \in Nat
    BY <1>9, <1>10, Zenon
  <2> QED
    BY <2>1, SubSeqFacts
<1> HIDE DEF S
<1>12. S \in Seq(Nat) /\ Len(S) = c /\ \A j \in 1..c : S[j] = Filled(m)[i * F + j]
  BY <1>9, <1>10, <1>11, Zenon
<1> QED
  BY <1>9, <1>12, Zenon DEF S, q, F, v

\* All data fragments of a message, each counted up to its end or, where it
\* was recovered, with its padding.
AllParts(m, fr, sz) ==
    \A i \in 0..(data_count(m) - 1) :
        fr[i] = Padded(Span(m, i)) /\ sz[i] \in {Len(Span(m, i)), FragPayload}

LEMMA StreamFacts ==
    ASSUME Induction, NEW s \in Sessions, NEW m \in Payloads[s], NEW fr, NEW sz,
           AllParts(m, fr, sz)
    PROVE  \E w \in Nat : /\ Len(m) + 4 <= w /\ w <= data_count(m) * FragPayload
                          /\ Stream(fr, sz, data_count(m)) = SubSeq(Filled(m), 1, w)
<1> DEFINE F == FragPayload
           d == data_count(m)
           L == Len(m) + 4
           X == Filled(m)
           P(i) == SubSeq(fr[i], 1, Smaller(sz[i], Len(fr[i])))
           w(n) == IF n < d THEN n * F ELSE (d - 1) * F + sz[d - 1]
           G == [n \in 0..d |-> SubSeq(X, 1, w(n))]
<1>1. F \in Nat \ {0} /\ d \in Nat \ {0} /\ L \in Nat /\ (d - 1) * F < L /\ L <= d * F
  BY MessageFacts, ReassemblyAssumption
<1>2. ASSUME NEW i \in 0..(d - 1)
      PROVE  /\ sz[i] \in 1..F
             /\ i < d - 1 => sz[i] = F
             /\ i = d - 1 => L <= i * F + sz[i]
             /\ P(i) \in Seq(Nat) /\ Len(P(i)) = sz[i]
             /\ \A j \in 1..sz[i] : P(i)[j] = X[i * F + j]
  <2>1. fr[i] = Padded(Span(m, i)) /\ sz[i] \in {Len(Span(m, i)), F}
    BY Zenon DEF AllParts
  <2>2. /\ Len(Span(m, i)) \in 1..F
        /\ i < d - 1 => Len(Span(m, i)) = F
        /\ i = d - 1 => i * F + Len(Span(m, i)) = L
    BY SpanFacts, Zenon
  <2>3. sz[i] \in 1..F /\ sz[i] \in Nat /\ sz[i] <= F /\ (i < d - 1 => sz[i] = F)
    <3> HIDE DEF F, d
    <3> QED
      BY <1>1, <2>1, <2>2
  <2>4. i = d - 1 => L <= i * F + sz[i]
    <3> HAVE i = d - 1
    <3>1. i \in Nat /\ i * F \in Nat
      BY <1>1
    <3> HIDE DEF F, d, L
    <3> QED
      BY <1>1, <2>1, <2>2, <3>1
  <2>5. /\ Len(fr[i]) = F
        /\ SubSeq(fr[i], 1, sz[i]) \in Seq(Nat) /\ Len(SubSeq(fr[i], 1, sz[i])) = sz[i]
        /\ \A j \in 1..sz[i] : SubSeq(fr[i], 1, sz[i])[j] = X[i * F + j]
    <3> DEFINE c == sz[i]
    <3>1. c \in Nat /\ c <= FragPayload
      BY <2>3, Zenon
    <3> HIDE DEF c
    <3>2. /\ Len(Padded(Span(m, i))) = F
          /\ SubSeq(Padded(Span(m, i)), 1, c) \in Seq(Nat)
          /\ Len(SubSeq(Padded(Span(m, i)), 1, c)) = c
          /\ \A j \in 1..c : SubSeq(Padded(Span(m, i)), 1, c)[j] = X[i * F + j]
      BY <3>1, PaddedFacts, Zenon
    <3> QED
      BY <2>1, <3>2, Zenon DEF c
  <2>6. Smaller(sz[i], Len(fr[i])) = sz[i]
    BY <2>3, <2>5, Zenon DEF Smaller
  <2> QED
    BY <2>3, <2>4, <2>5, <2>6, Zenon
<1>3. \A j \in 1..(d * F) : X[j] \in Nat
  <2>1. full(m) \in Seq(Nat) /\ Len(full(m)) = L
    BY MessageFacts, Zenon
  <2>2. \A j \in 1..L : full(m)[j] \in Nat
    BY <2>1, LenFacts, Zenon
  <2>3. \A j \in 1..(d * F) : X[j] = IF j <= L THEN full(m)[j] ELSE 0
    BY Zenon DEF Filled
  <2> HIDE DEF X, L, F, d
  <2>4. \A j \in 1..(d * F) : j <= L => j \in 1..L
    BY <1>1
  <2> QED
    BY <2>2, <2>3, <2>4, 0 \in Nat, Zenon
<1>4. d - 1 \in 0..(d - 1) /\ d - 1 \in Nat /\ d * F = (d - 1) * F + F /\ (d - 1) * F \in Nat
  <2> HIDE DEF F, d
  <2>1. d - 1 \in Nat /\ (d - 1) + 1 = d
    BY <1>1
  <2> QED
    BY <1>1, <2>1, Multiples
<1> HIDE DEF F, d, L, X, P
<1>5. /\ w(0) = 0 /\ w(d) = (d - 1) * F + sz[d - 1]
      /\ w(d) \in Nat /\ L <= w(d) /\ w(d) <= d * F
  <2>1. 0 < d /\ ~(d < d) /\ 0 * F = 0 /\ ~(d - 1 < d - 1)
    BY <1>1
  <2>2. sz[d - 1] \in 1..F /\ L <= (d - 1) * F + sz[d - 1]
    BY <1>2, <1>4
  <2> QED
    BY <1>1, <1>4, <2>1, <2>2
<1>6. ASSUME NEW n \in 0..d, n # 0
      PROVE  SubSeq(X, 1, w(n)) = SubSeq(X, 1, w(n - 1)) \o P(n - 1)
  <2>1. n - 1 \in 0..(d - 1) /\ n - 1 \in Nat /\ n - 1 < d /\ (n - 1) + 1 = n /\ n <= d
    BY <1>1, <1>6
  <2>2. w(n - 1) = (n - 1) * F /\ (n - 1) * F \in Nat /\ n * F = (n - 1) * F + F /\ n * F <= d * F
    BY <1>1, <2>1, Multiples
  <2>3. sz[n - 1] \in Nat /\ sz[n - 1] <= F
    BY <1>1, <1>2, <2>1
  <2>4. w(n) = (n - 1) * F + sz[n - 1]
    <3>1. CASE n < d
      <4>1. n - 1 < d - 1
        BY <1>1, <3>1
      <4>2. sz[n - 1] = F
        BY <1>2, <2>1, <4>1
      <4> QED
        BY <2>2, <3>1, <4>2
    <3>2. CASE ~(n < d)
      <4>1. n = d
        BY <1>1, <3>2
      <4> QED
        BY <3>2, <4>1
    <3> QED
      BY <3>1, <3>2
  <2>5. \A j \in 1..((n - 1) * F + sz[n - 1]) : X[j] \in Nat
    <3>1. (n - 1) * F + sz[n - 1] <= d * F
      BY <1>1, <2>2, <2>3
    <3>2. d * F \in Nat
      BY <1>1, <1>4
    <3>3. \A j \in 1..((n - 1) * F + sz[n - 1]) : j \in 1..(d * F)
      BY <2>2, <2>3, <3>1, <3>2
    <3> QED
      BY <1>3, <3>3, Zenon
  <2>6. P(n - 1) \in Seq(Nat) /\ Len(P(n - 1)) = sz[n - 1]
        /\ \A j \in 1..sz[n - 1] : P(n - 1)[j] = X[(n - 1) * F + j]
    BY <1>2, <2>1, Zenon
  <2>7. SubSeq(X, 1, (n - 1) * F) \o P(n - 1) = SubSeq(X, 1, (n - 1) * F + sz[n - 1])
    BY <2>2, <2>3, <2>5, <2>6, Splice, Zenon
  <2> HIDE DEF w
  <2> QED
    BY <2>2, <2>4, <2>7, Zenon
<1>7. SubSeq(X, 1, 0) = <<>>
  BY SubSeqFacts, EmptyFacts
<1>8. G = [n \in 0..d |-> IF n = 0 THEN <<>> ELSE G[n - 1] \o P(n - 1)]
  <2>1. \A n \in 0..d : n # 0 => n - 1 \in 0..d
    BY <1>1
  <2>2. \A n \in 0..d : G[n] = SubSeq(X, 1, w(n))
    BY Zenon
  <2> HIDE DEF w
  <2>3. \A n \in 0..d : SubSeq(X, 1, w(n)) = IF n = 0 THEN <<>> ELSE G[n - 1] \o P(n - 1)
    BY <1>5, <1>6, <1>7, <2>1, <2>2, Zenon
  <2> QED
    BY <2>3, Zenon
<1>9. G[d] = SubSeq(X, 1, w(d))
  <2>1. d \in 0..d
    BY <1>1
  <2> HIDE DEF w
  <2> QED
    BY <2>1, Zenon
<1>10. Stream(fr, sz, d) = G[d]
  <2> HIDE DEF G
  <2>1. d \in Nat
    BY <1>1
  <2>2. BuildsUp(G, fr, sz, d)
    BY <1>8, Zenon DEF P, BuildsUp
  <2> QED
    BY <2>1, <2>2, StreamIs, Zenon
<1> HIDE DEF G, w
<1> QED
  BY <1>5, <1>9, <1>10, Zenon DEF L, d, F, X

\* build_msg gives the message back, or nothing if it is too long.
BuiltFrom(m, fr, sz) ==
    build_msg(fr, sz, data_count(m)) = IF Len(m) <= MaxMessageBytes THEN m ELSE <<>>

LEMMA BuildFacts ==
    ASSUME Induction, NEW s \in Sessions, NEW m \in Payloads[s], NEW fr, NEW sz,
           AllParts(m, fr, sz)
    PROVE  BuiltFrom(m, fr, sz)
<1> USE DEF BuiltFrom
<1> DEFINE st == Stream(fr, sz, data_count(m))
           n == Len(m)
           total == 256 * st[3] + st[4]
<1>1. PICK w \in Nat : /\ n + 4 <= w /\ w <= data_count(m) * FragPayload
                       /\ st = SubSeq(Filled(m), 1, w)
  BY StreamFacts, Zenon
<1>2. /\ m \in Seq(Nat) /\ n \in Nat /\ full(m) \in Seq(Nat) /\ Len(full(m)) = n + 4
      /\ \A j \in 1..n : full(m)[j + 4] = m[j]
  BY MessageFacts
<1>2a. /\ full(m)[1] = 0 /\ full(m)[2] = 0
       /\ full(m)[3] = n \div 256 /\ full(m)[4] = n % 256
  BY FramedBytes
<1>3. \A j \in 1..w : Filled(m)[j] \in Nat /\ (j <= n + 4 => Filled(m)[j] = full(m)[j])
  <2>1. \A j \in 1..(n + 4) : full(m)[j] \in Nat
    BY <1>2, LenFacts
  <2>2. data_count(m) * FragPayload \in Nat
    <3>1. data_count(m) \in Nat /\ FragPayload \in Nat
      BY MessageFacts, ReassemblyAssumption
    <3> QED
      BY <3>1
  <2> DEFINE z == data_count(m) * FragPayload
  <2>3. \A j \in 1..z : Filled(m)[j] = IF j <= n + 4 THEN full(m)[j] ELSE 0
    BY Zenon DEF Filled
  <2> HIDE DEF z, n
  <2>4. \A j \in 1..w : j \in 1..z /\ (j <= n + 4 => j \in 1..(n + 4))
    BY <1>1, <1>2, <2>2 DEF z
  <2> QED
    BY <2>1, <2>3, <2>4, 0 \in Nat, Zenon
<1>4. st \in Seq(Nat) /\ Len(st) = w /\ \A j \in 1..(n + 4) : st[j] = full(m)[j]
  <2>1. SubSeq(Filled(m), 1, w) \in Seq(Nat) /\ Len(SubSeq(Filled(m), 1, w)) = w
        /\ \A j \in 1..w : SubSeq(Filled(m), 1, w)[j] = Filled(m)[j]
    BY <1>3, SubSeqFacts
  <2>2. \A j \in 1..(n + 4) : j \in 1..w /\ j <= n + 4
    BY <1>1, <1>2
  <2> HIDE DEF st
  <2> QED
    BY <1>1, <1>3, <2>1, <2>2, Zenon
<1>5. build_msg(fr, sz, data_count(m)) =
          IF Len(st) < 4 \/ st[1] + st[2] > 0 \/ total > MaxMessageBytes
          THEN <<>> ELSE SubSeq(st, 5, Smaller(total + 4, Len(st)))
  BY DEF build_msg
<1> HIDE DEF st
<1>5a. 1 \in 1..(n + 4) /\ 2 \in 1..(n + 4) /\ 3 \in 1..(n + 4) /\ 4 \in 1..(n + 4)
  BY <1>2
<1>6. st[1] = 0 /\ st[2] = 0
  BY <1>4, <1>2a, <1>5a
<1>6a. st[3] = n \div 256 /\ st[4] = n % 256
  BY <1>4, <1>2a, <1>5a
<1>7. total = n
  <2> DEFINE q == n \div 256
             r == n % 256
  <2>1. q \in Nat /\ r \in Nat /\ 256 * q + r = n
    BY <1>2, LengthBytes
  <2>2. st[3] = q /\ st[4] = r
    BY <1>6a
  <2> HIDE DEF n, q, r
  <2> QED
    BY <2>1, <2>2
<1> HIDE DEF total, n
<1>8. ~(Len(st) < 4) /\ ~(st[1] + st[2] > 0) /\ Smaller(total + 4, Len(st)) = n + 4
  <2>1. Len(st) = w /\ n \in Nat /\ w \in Nat /\ n + 4 <= w
    BY <1>1, <1>2, <1>4, Zenon
  <2>2. st[1] = 0 /\ st[2] = 0
    BY <1>6, Zenon
  <2>3. ~(Len(st) < 4)
    BY <2>1
  <2>4. ~(st[1] + st[2] > 0)
    BY <2>2
  <2>5. Smaller(total + 4, Len(st)) = n + 4
    BY <1>7, <2>1 DEF Smaller
  <2> QED
    BY <2>3, <2>4, <2>5, Zenon
<1>9. SubSeq(st, 5, n + 4) = m
  <2> DEFINE t == SubSeq(st, 5, n + 4)
  <2>1. \A j \in 5..(n + 4) : st[j] \in Nat
    <3>1. \A j \in 5..(n + 4) : j \in 1..Len(st)
      BY <1>1, <1>2, <1>4
    <3> QED
      BY <1>4, <3>1, LenFacts
  <2>2. /\ t \in Seq(Nat) /\ Len(t) = IF 5 <= n + 4 THEN (n + 4) - 5 + 1 ELSE 0
        /\ \A j \in 1..((n + 4) - 5 + 1) : t[j] = st[5 + j - 1]
    <3> DEFINE a == 5
               b == n + 4
    <3>1. a \in Int /\ b \in Int
      BY <1>2
    <3>2. \A j \in a..b : st[j] \in Nat
      BY <2>1
    <3> HIDE DEF a, b
    <3>3. /\ SubSeq(st, a, b) \in Seq(Nat)
          /\ Len(SubSeq(st, a, b)) = IF a <= b THEN b - a + 1 ELSE 0
          /\ \A j \in 1..(b - a + 1) : SubSeq(st, a, b)[j] = st[a + j - 1]
      BY <3>1, <3>2, SubSeqFacts
    <3> QED
      BY <3>3, Zenon DEF a, b
  <2> HIDE DEF t
  <2>3. Len(t) = n /\ n = Len(m)
    BY <1>2, <2>2 DEF n
  <2>4. ASSUME NEW j \in 1..n PROVE t[j] = m[j]
    <3>1. j \in 1..((n + 4) - 5 + 1) /\ 5 + j - 1 = j + 4 /\ j + 4 \in 1..(n + 4)
      <4>1. n \in Nat
        BY <1>2
      <4> QED
        BY <4>1
    <3>2. t[j] = st[5 + j - 1]
      BY <2>2, <3>1, Zenon
    <3>3. st[j + 4] = full(m)[j + 4]
      BY <1>4, <3>1, Zenon
    <3>4. full(m)[j + 4] = m[j]
      BY <1>2, Zenon
    <3> QED
      BY <3>1, <3>2, <3>3, <3>4, Zenon
  <2>5. t = m
    BY <1>2, <2>2, <2>3, <2>4, EqualFacts, Zenon
  <2> QED
    BY <2>5, Zenon DEF t
<1>10. MaxMessageBytes \in Nat
  BY ReassemblyAssumption
<1>11. total > MaxMessageBytes <=> ~(n <= MaxMessageBytes)
  BY <1>2, <1>7, <1>10
<1>12. build_msg(fr, sz, data_count(m)) = IF n <= MaxMessageBytes THEN m ELSE <<>>
  BY <1>5, <1>8, <1>9, <1>11, Zenon
<1> QED
  BY <1>12, Zenon DEF n

-----------------------------------------------------------------------------
(***************************************************************************)
(* What happens to the entry of a message.                                 *)
(***************************************************************************)

Entry(t, d, x, y, a) == [total |-> t, data |-> d, fragments |-> x, sizes |-> y, age |-> a]
Updated(e, u, v) == [e EXCEPT !.fragments = u, !.sizes = v]

LEMMA UpdatedEntry ==
    ASSUME NEW t, NEW d, NEW x, NEW y, NEW a, NEW u, NEW v
    PROVE  Updated(Entry(t, d, x, y, a), u, v) = Entry(t, d, u, v, a)
<1> DEFINE e == [total |-> t, data |-> d, fragments |-> x, sizes |-> y, age |-> a]
           e1 == [total |-> t, data |-> d, fragments |-> u, sizes |-> y, age |-> a]
<1>1. [e EXCEPT !.fragments = u] = e1
  OBVIOUS
<1>2. [e1 EXCEPT !.sizes = v]
        = [total |-> t, data |-> d, fragments |-> u, sizes |-> v, age |-> a]
  OBVIOUS
<1> HIDE DEF e, e1
<1>3. [e EXCEPT !.fragments = u, !.sizes = v] = [e1 EXCEPT !.sizes = v]
  BY <1>1, Zenon
<1> QED
  BY <1>2, <1>3, Zenon DEF e, Entry, Updated

LEMMA NotBlank ==
    ASSUME NEW s \in Sessions, NEW m \in Payloads[s],
           NEW p \in ParityCounts(data_count(m)), NEW S, NEW age
    PROVE  /\ Holding(m, p, S, age) # Blank
           /\ data_count(m) + p >= 2 /\ data_count(m) \in Nat \ {0} /\ p \in Nat \ {0}
<1>1. data_count(m) \in Nat \ {0}
  BY MessageFacts, Zenon
<1>2. p \in Nat \ {0}
  BY <1>1, ParityFacts, Zenon
<1>3. data_count(m) + p >= 2 /\ data_count(m) + p # 0
  BY <1>1, <1>2
<1>4. Blank.total = 0
  BY DEF Blank
<1>5. Holding(m, p, S, age).total = data_count(m) + p
  BY Zenon DEF Holding
<1>6. Holding(m, p, S, age) # Blank
  BY <1>3, <1>4, <1>5, Zenon
<1> QED
  BY <1>1, <1>2, <1>3, <1>6, Zenon

LEMMA StoredFacts ==
    ASSUME NEW id, NEW m, NEW p, NEW idx
    PROVE  /\ Fresh(Packet(id, m, p, idx)) = Holding(m, p, {}, 0)
           /\ \A S, age : Stored(Holding(m, p, S, age), Packet(id, m, p, idx))
                            = Holding(m, p, S \cup {idx}, age)
<1> DEFINE f == Packet(id, m, p, idx)
<1>1. /\ f.idx = idx /\ f.cnt = data_count(m) + p /\ f.flags = data_count(m)
      /\ f.reserved = Size(m, idx) /\ f.payload = Content(m, idx)
  BY DEF Packet
<1> HIDE DEF f
<1>2. Fresh(f) = Holding(m, p, {}, 0)
  <2>1. Empty = [i \in {} |-> Content(m, i)] /\ Empty = [i \in {} |-> Size(m, i)]
    BY DEF Empty
  <2> QED
    BY <1>1, <2>1, Zenon DEF Fresh, Holding
<1>3. ASSUME NEW S, NEW age
      PROVE  Stored(Holding(m, p, S, age), f) = Holding(m, p, S \cup {idx}, age)
  <2> DEFINE e == Holding(m, p, S, age)
             T == S \cup {idx}
             fr == [i \in T |-> Content(m, i)]
             sz == [i \in T |-> Size(m, i)]
  <2>1. /\ e.fragments = [i \in S |-> Content(m, i)] /\ DOMAIN e.fragments = S
        /\ e.sizes = [i \in S |-> Size(m, i)]
    BY DEF Holding
  <2>2. CASE idx \in S
    <3>1. S \cup {idx} = S
      BY <2>2
    <3> QED
      BY <1>1, <2>1, <2>2, <3>1, Zenon DEF Stored
  <2>3. CASE idx \notin S
    <3>1. Stored(e, f) = Updated(e, With(e.fragments, idx, Content(m, idx)),
                                 With(e.sizes, idx, Size(m, idx)))
      <4> HIDE DEF e
      <4> QED
        BY <1>1, <2>1, <2>3, Zenon DEF Stored, Updated
    <3>2. With(e.fragments, idx, Content(m, idx)) = fr
      BY <2>1, Zenon DEF With
    <3>3. With(e.sizes, idx, Size(m, idx)) = sz
      BY <2>1, Zenon DEF With
    <3> DEFINE fr0 == [i \in S |-> Content(m, i)]
               sz0 == [i \in S |-> Size(m, i)]
               t == data_count(m) + p
    <3>4. e = Entry(t, data_count(m), fr0, sz0, age)
      BY Zenon DEF Holding, Entry
    <3>5. Holding(m, p, T, age) = Entry(t, data_count(m), fr, sz, age)
      BY Zenon DEF Holding, Entry
    <3> HIDE DEF e, fr, sz, fr0, sz0, t
    <3>6. Stored(e, f) = Updated(e, fr, sz)
      BY <3>1, <3>2, <3>3, Zenon
    <3>7. Updated(e, fr, sz) = Entry(t, data_count(m), fr, sz, age)
      BY <3>4, UpdatedEntry
    <3>8. Stored(e, f) = Holding(m, p, T, age)
      BY <3>5, <3>6, <3>7, Zenon
    <3> QED
      BY <3>8, Zenon DEF e
  <2> QED
    BY <2>2, <2>3, Zenon
<1> QED
  BY <1>2, <1>3, Zenon DEF f

\* Fewer than data_count fragments stay as they are, from data_count on all of
\* the message is there.
Recovers(m, p, S, age) ==
    LET r == Recovered(Holding(m, p, S, age))
    IN  /\ r.total = data_count(m) + p /\ r.data = data_count(m) /\ r.age = age
        /\ Cardinality(S) \in Nat
        /\ Cardinality(S) < data_count(m) => r = Holding(m, p, S, age) /\ ~Complete(r)
        /\ Cardinality(S) >= data_count(m) =>
              Complete(r) /\ AllParts(m, r.fragments, r.sizes)

LEMMA RecoveredFacts ==
    ASSUME ErasureCode, CountingFacts, PartCount,
           NEW s \in Sessions, NEW m \in Payloads[s], NEW p \in ParityCounts(data_count(m)),
           NEW S \in SUBSET (0..(data_count(m) + p - 1)), NEW age
    PROVE  Recovers(m, p, S, age)
<1>r. PICK r : r = Recovered(Holding(m, p, S, age))
  OBVIOUS
<1> DEFINE d == data_count(m)
           F == FragPayload
           e == Holding(m, p, S, age)
           fr0 == [i \in S |-> Content(m, i)]
           sz0 == [i \in S |-> Size(m, i)]
           D == S \cap 0..(d - 1)
           Q == {q \in 0..(p - 1) : d + q \in S}
           missing == (0..(d - 1)) \ D
           data == [i \in D |-> Padded(Span(m, i))]
           whole == [i \in 0..(d - 1) |-> Padded(Span(m, i))]
           parity == [q \in Q |-> Encode(Spans(m), q, F)]
           all == Decode(data, d, parity, F)
           fr == [i \in S \cup DOMAIN all |-> IF i \in S THEN fr0[i] ELSE all[i]]
           sz == [i \in S \cup DOMAIN all |-> IF i \in S THEN sz0[i] ELSE F]
<1>1. d \in Nat \ {0} /\ p \in Nat \ {0} /\ d - 1 \in Int /\ d + p - 1 \in Int
  <2>1. d \in Nat \ {0} /\ p \in Nat \ {0}
    BY NotBlank, Zenon
  <2> HIDE DEF d
  <2> QED
    BY <2>1
<1>2. /\ IsFiniteSet(S) /\ Cardinality(S) \in Nat /\ IsFiniteSet(Q) /\ Cardinality(Q) \in Nat
  <2>1. Q \in SUBSET (0..(p - 1)) /\ p - 1 \in Int
    BY <1>1
  <2> HIDE DEF Q, d
  <2> QED
    BY <1>1, <2>1, Zenon DEF CountingFacts, d
<1>3. Cardinality(missing) <= Cardinality(Q) <=> Cardinality(S) >= d
  <2>1. p \in Nat
    BY <1>1
  <2> HIDE DEF d
  <2>2. S \in SUBSET (0..(d + p - 1))
    BY Zenon DEF d
  <2> QED
    BY <1>1, <2>1, <2>2, Zenon DEF PartCount
<1>4. all = IF Cardinality(missing) <= Cardinality(Q) THEN whole ELSE data
  <2>1. D \in SUBSET (0..(d - 1)) /\ Q \in SUBSET (0..(p - 1))
    BY Zenon
  <2> HIDE DEF D, Q
  <2> QED
    BY <2>1, Zenon DEF ErasureCode
<1>5. e.fragments = fr0 /\ e.sizes = sz0 /\ e.data = d /\ e.total = d + p
      /\ DOMAIN fr0 = S /\ DOMAIN sz0 = S
  BY DEF Holding
<1>6. [i \in DOMAIN fr0 \cap 0..(d - 1) |-> fr0[i]] = data
  <2>1. \A i \in D : fr0[i] = Content(m, i)
    BY Zenon
  <2>2. \A i \in D : i < d
    <3> HIDE DEF d
    <3> QED
      BY <1>1
  <2>3. \A i \in D : Content(m, i) = Padded(Span(m, i))
    BY <2>2, Zenon DEF Content
  <2>4. \A i \in D : fr0[i] = Padded(Span(m, i))
    BY <2>1, <2>3, Zenon
  <2> HIDE DEF d, fr0
  <2> QED
    BY <1>5, <2>4, Zenon
<1>7. {q \in 0..((d + p) - d - 1) : d + q \in DOMAIN fr0} = Q
  <2>1. (d + p) - d - 1 = p - 1
    <3> HIDE DEF d
    <3> QED
      BY <1>1
  <2> HIDE DEF d, fr0
  <2> QED
    BY <1>5, <2>1, Zenon
<1>8. [q \in Q |-> fr0[d + q]] = parity
  <2>1. \A q \in Q : d + q \in S /\ fr0[d + q] = Content(m, d + q)
    BY Zenon
  <2>2. \A q \in Q : ~(d + q < d) /\ (d + q) - d = q
    <3> HIDE DEF d
    <3> QED
      BY <1>1
  <2>3. \A q \in Q : Content(m, d + q) = Encode(Spans(m), q, F)
    BY <2>2, Zenon DEF Content
  <2> HIDE DEF d, fr0, Q
  <2> QED
    BY <2>1, <2>3, Zenon
<1>9. r = Updated(e, fr, sz)
  <2> DEFINE x == e.fragments
             y == e.sizes
             data1 == [i \in DOMAIN x \cap 0..(e.data - 1) |-> x[i]]
             held == {q \in 0..(e.total - e.data - 1) : e.data + q \in DOMAIN x}
             parity1 == [q \in held |-> x[e.data + q]]
             all1 == Decode(data1, e.data, parity1, F)
             fr1 == [i \in DOMAIN x \cup DOMAIN all1 |-> IF i \in DOMAIN x THEN x[i] ELSE all1[i]]
             sz1 == [i \in DOMAIN y \cup DOMAIN all1 |-> IF i \in DOMAIN y THEN y[i] ELSE F]
  <2>1. r = Updated(e, fr1, sz1)
    BY <1>r, Zenon DEF Recovered, Updated
  <2> HIDE DEF e, d, fr0, sz0, F, data, parity, Q
  <2>2. x = fr0 /\ y = sz0
    BY <1>5, Zenon
  <2>3. data1 = data
    BY <1>5, <1>6, Zenon
  <2>4. held = Q
    BY <1>5, <1>7, Zenon
  <2>5. parity1 = parity
    <3> HIDE DEF held
    <3> QED
      BY <1>5, <1>8, <2>4, Zenon
  <2>6. all1 = all
    <3> HIDE DEF data1, parity1
    <3> QED
      BY <1>5, <2>3, <2>5, Zenon
  <2> HIDE DEF all, all1, x, y
  <2>7. fr1 = fr /\ sz1 = sz
    BY <1>5, <2>2, <2>6, Zenon
  <2> HIDE DEF fr, fr1, sz, sz1
  <2> QED
    BY <2>1, <2>7, Zenon
<1>10. e = Entry(d + p, d, fr0, sz0, age)
  BY Zenon DEF Holding, Entry
<1>11. r = Entry(d + p, d, fr, sz, age)
  <2> DEFINE t == d + p
  <2> HIDE DEF e, d, fr0, sz0, fr, sz, t
  <2>1. e = Entry(t, d, fr0, sz0, age)
    BY <1>10, Zenon DEF t
  <2>2. r = Entry(t, d, fr, sz, age)
    BY <1>9, <2>1, UpdatedEntry
  <2> QED
    BY <2>2, Zenon DEF t
<1>12. r.total = d + p /\ r.data = d /\ r.age = age /\ r.fragments = fr /\ r.sizes = sz
  <2> HIDE DEF d, fr, sz
  <2> QED
    BY <1>11 DEF Entry
<1>13. ASSUME Cardinality(S) < d PROVE r = e /\ ~Complete(r)
  <2>1. ~(Cardinality(S) >= d)
    <3> HIDE DEF d
    <3> QED
      BY <1>1, <1>2, <1>13
  <2>2. all = data
    <3> HIDE DEF all, data, whole, missing, Q
    <3> QED
      BY <1>3, <1>4, <2>1, Zenon
  <2>3. DOMAIN all \subseteq S
    <3>1. DOMAIN data = D
      BY Zenon
    <3> HIDE DEF all, data
    <3> QED
      BY <2>2, <3>1, Zenon
  <2>4. fr = fr0 /\ sz = sz0
    <3> HIDE DEF all
    <3>1. S \cup DOMAIN all = S
      BY <2>3, Zenon
    <3>2. fr = [i \in S |-> fr0[i]] /\ sz = [i \in S |-> sz0[i]]
      BY <3>1, Zenon
    <3> QED
      BY <3>2, Zenon
  <2>5. r = e
    <3> HIDE DEF fr, sz, fr0, sz0, e
    <3> QED
      BY <1>10, <1>11, <2>4, Zenon
  <2>6. ~((0..(d - 1)) \subseteq S)
    <3>1. SUFFICES ASSUME (0..(d - 1)) \subseteq S PROVE FALSE
      OBVIOUS
    <3>2. missing = {}
      BY <3>1, Zenon
    <3>3. Cardinality(missing) = 0
      BY <3>2, Zenon DEF CountingFacts
    <3> HIDE DEF missing, Q
    <3> QED
      BY <1>2, <1>3, <2>1, <3>3
  <2>7. r.data = d /\ DOMAIN r.fragments = S
    <3> HIDE DEF e, d, fr0, sz0
    <3> QED
      BY <1>5, <2>5, Zenon
  <2> HIDE DEF e, d
  <2> QED
    BY <2>5, <2>6, <2>7, Zenon DEF Complete
<1>14. ASSUME Cardinality(S) >= d PROVE Complete(r) /\ AllParts(m, r.fragments, r.sizes)
  <2>1. all = whole
    <3> HIDE DEF all, data, whole, missing, Q
    <3> QED
      BY <1>3, <1>4, <1>14, Zenon
  <2>2. DOMAIN all = 0..(d - 1) /\ \A i \in 0..(d - 1) : all[i] = Padded(Span(m, i))
    <3>1. DOMAIN whole = 0..(d - 1) /\ \A i \in 0..(d - 1) : whole[i] = Padded(Span(m, i))
      BY Zenon
    <3> HIDE DEF all, whole
    <3> QED
      BY <2>1, <3>1, Zenon
  <2>3. ASSUME NEW i \in 0..(d - 1)
        PROVE  /\ i \in DOMAIN fr /\ fr[i] = Padded(Span(m, i))
               /\ sz[i] \in {Len(Span(m, i)), F}
    <3>1. i < d
      <4> HIDE DEF d
      <4> QED
        BY <1>1
    <3>2. Content(m, i) = Padded(Span(m, i)) /\ Size(m, i) = Len(Span(m, i))
      BY <3>1, Zenon DEF Content, Size
    <3> HIDE DEF all
    <3>3. i \in S \cup DOMAIN all
      BY <2>2, Zenon
    <3>4. /\ i \in DOMAIN fr
          /\ fr[i] = IF i \in S THEN fr0[i] ELSE all[i]
          /\ sz[i] = IF i \in S THEN sz0[i] ELSE F
      BY <3>3, Zenon
    <3>5. i \in S => fr0[i] = Content(m, i) /\ sz0[i] = Size(m, i)
      BY Zenon
    <3> HIDE DEF fr, sz, fr0, sz0
    <3> QED
      BY <2>2, <3>2, <3>4, <3>5, Zenon
  <2> HIDE DEF fr, sz, fr0, sz0
  <2>4. Complete(r)
    <3>1. (0..(d - 1)) \subseteq DOMAIN fr
      BY <2>3, Zenon
    <3> HIDE DEF d
    <3> QED
      BY <1>12, <3>1, Zenon DEF Complete
  <2>5. AllParts(m, r.fragments, r.sizes)
    BY <1>12, <2>3, Zenon DEF AllParts
  <2> QED
    BY <2>4, <2>5, Zenon
<1> HIDE DEF fr, sz
<1> QED
  BY <1>r, <1>2, <1>12, <1>13, <1>14, Zenon DEF Recovers

-----------------------------------------------------------------------------
(***************************************************************************)
(* What the invariant says of one message.                                 *)
(***************************************************************************)

LEMMA KeyFacts ==
    /\ \A id : K(id) = <<session, id>> /\ K(id)[1] = session /\ K(id)[2] = id
    /\ \A id, j : K(id) = K(j) <=> id = j
    /\ \A k \in Sessions \X Ids : /\ k[1] \in Sessions /\ k[2] \in Ids
                                  /\ k[1] = session => k = K(k[2])
BY DEF K

LEMMA TimeFacts ==
    /\ Lifetime \in Nat /\ DeadTicks \in Nat /\ Lifetime < DeadTicks
    /\ RestartPause \in Nat /\ MaxMsg \in Nat /\ MaxRestarts \in Nat
BY ReassemblyAssumption

LEMMA SentFacts ==
    ASSUME SenderInv, NEW k \in DOMAIN sent
    PROVE  /\ k \in Sessions \X Ids /\ k[1] \in Sessions /\ k[2] \in Ids
           /\ sent[k].msg \in Payloads[k[1]]
           /\ sent[k].parity \in ParityCounts(data_count(sent[k].msg))
           /\ data_count(sent[k].msg) \in Nat \ {0} /\ sent[k].parity \in Nat \ {0}
           /\ data_count(sent[k].msg) + sent[k].parity - 1 \in Int
           /\ sent[k].age \in 0..(Lifetime + 1) /\ sent[k].age \in Nat
<1>1. /\ k \in Sessions \X Ids
      /\ sent[k].msg \in Payloads[k[1]]
      /\ sent[k].parity \in ParityCounts(data_count(sent[k].msg))
      /\ sent[k].age \in 0..(Lifetime + 1)
  BY Zenon DEF SenderInv
<1>2. k[1] \in Sessions /\ k[2] \in Ids
  BY <1>1, KeyFacts, Zenon
<1>3. data_count(sent[k].msg) \in Nat \ {0} /\ sent[k].parity \in Nat \ {0}
  BY <1>1, <1>2, NotBlank, Zenon
<1>4. data_count(sent[k].msg) + sent[k].parity - 1 \in Int
  BY <1>3
<1>5. sent[k].age \in Nat
  BY <1>1, TimeFacts
<1> QED
  BY <1>1, <1>2, <1>3, <1>4, <1>5, Zenon

LEMMA OpenFacts ==
    ASSUME SenderInv, NEW k, Open(k)
    PROVE  /\ k \in DOMAIN sent /\ k = K(k[2]) /\ k[2] \in Ids
           /\ silence \in Nat /\ silence <= Lifetime
           /\ sent[k].age \in Nat /\ sent[k].age <= Lifetime
           /\ Recent(0, k)
<1>1. k \in DOMAIN sent /\ sent[k].age <= Lifetime
  BY Zenon DEF Open
<1>2. k \in Sessions \X Ids /\ k[2] \in Ids /\ sent[k].age \in Nat
  BY <1>1, SentFacts, Zenon
<1>3. k[1] = session /\ silence <= sent[k].age /\ silence \in Nat
  BY <1>1, Zenon DEF SenderInv
<1>4. k = K(k[2])
  BY <1>2, <1>3, KeyFacts, Zenon
<1>5. silence <= Lifetime
  BY <1>1, <1>2, <1>3, TimeFacts
<1>6. 0 \in 0..DeadTicks /\ silence <= Lifetime + 0 /\ 0 <= sent[k].age
  BY <1>2, <1>3, <1>5, TimeFacts
<1>7. Recent(0, k)
  BY <1>6, Zenon DEF Recent
<1> QED
  BY <1>1, <1>2, <1>3, <1>4, <1>5, <1>7, Zenon

LEMMA RxFacts ==
    ASSUME SenderInv, RxInv, rx.pc # "idle",
           NEW id, NEW k, id = rx.packet.id, k = K(id)
    PROVE  /\ rx = [pc |-> rx.pc, packet |-> rx.packet]
           /\ id \in Ids /\ id \notin DOMAIN completed
           /\ Open(k) /\ Fits(k) /\ k \in DOMAIN sent
           /\ rx.packet.idx \in Fragments(k)
           /\ rx.packet = Packet(id, sent[k].msg, sent[k].parity, rx.packet.idx)
           /\ rx.pc = "complete" => k \in enough
           /\ \A j : Busy(j) <=> j = id
BY Zenon DEF RxInv, Busy, Open

LEMMA SameSender ==
    ASSUME UNCHANGED sender
    PROVE  /\ session' = session /\ sent' = sent /\ silence' = silence
           /\ \A id : K(id)' = K(id) /\ Sent(id)' = Sent(id)
           /\ \A k : (Open(k)' <=> Open(k)) /\ Fragments(k)' = Fragments(k) /\ (Fits(k)' <=> Fits(k))
           /\ \A age, k : Recent(age, k)' <=> Recent(age, k)
BY Zenon DEF sender, K, Open, Fragments, Fits, Recent, Sent

-----------------------------------------------------------------------------
(***************************************************************************)
(* Sending: the new message takes a key that is not in use.                *)
(***************************************************************************)

LEMMA SendStep ==
    ASSUME Inv, CountingFacts, Send
    PROVE  Inv'
<1> USE DEF Inv
<1> DEFINE k0 == K(msg_id_out)
<1>1. /\ msg_id_out \in Ids /\ msg_id_out' = msg_id_out + 1 /\ silence' = 0
      /\ arrived' = With(arrived, k0, {})
      /\ session' = session /\ incoming' = incoming /\ completed' = completed /\ rx' = rx
      /\ enough' = enough /\ delivered' = delivered
  BY Zenon DEF Send, receiver, K
<1>0. PICK m \in Payloads[session] : \E p \in ParityCounts(data_count(m)) :
        sent' = With(sent, k0, [msg |-> m, parity |-> p, age |-> 0])
  BY Zenon DEF Send, K
<1>2. PICK p \in ParityCounts(data_count(m)) :
        sent' = With(sent, k0, [msg |-> m, parity |-> p, age |-> 0])
  BY <1>0, Zenon
<1>3. session \in Sessions /\ k0 \notin DOMAIN sent
  <2>1. ~(msg_id_out < msg_id_out)
    BY <1>1 DEF Ids
  <2> QED
    BY <1>1, <2>1, Zenon DEF SenderInv
<1>4. /\ DOMAIN sent' = DOMAIN sent \cup {k0}
      /\ sent'[k0] = [msg |-> m, parity |-> p, age |-> 0]
      /\ \A k \in DOMAIN sent : k # k0 /\ k \in DOMAIN sent' /\ sent'[k] = sent[k]
  BY <1>2, <1>3, Zenon DEF With
<1>5. \A id : K(id)' = K(id)
  BY <1>1, Zenon DEF K
<1>6. \A k \in DOMAIN sent : (Open(k)' <=> Open(k)) /\ Fragments(k)' = Fragments(k)
  BY <1>4, Zenon DEF Open, Fragments
<1>7. \A k \in DOMAIN sent : \A age : Recent(age, k) => Recent(age, k)'
  <2> SUFFICES ASSUME NEW k \in DOMAIN sent, NEW age, Recent(age, k)
               PROVE  Recent(age, k)'
    BY Zenon
  <2>1. age \in 0..DeadTicks /\ (Open(k)' => age <= sent'[k].age)
    BY <1>4, <1>6, Zenon DEF Recent
  <2>2. silence' <= Lifetime + age
    BY <1>1, <2>1, TimeFacts
  <2> QED
    BY <2>1, <2>2, Zenon DEF Recent
<1>8. k0 \in Sessions \X Ids /\ k0[1] = session /\ k0[2] = msg_id_out
  BY <1>1, <1>3, KeyFacts, Zenon
<1>9. SenderInv'
  <2>1. msg_id_out' \in 1..(MaxMsg + 1) /\ 0 \in Nat
    BY <1>1, TimeFacts DEF Ids
  <2>2. DOMAIN sent' \subseteq Sessions \X Ids
    BY <1>4, <1>8, Zenon DEF SenderInv
  <2>3. ASSUME NEW id \in Ids, K(id) \in DOMAIN sent' PROVE id < msg_id_out'
    <3>1. K(id) \in DOMAIN sent \/ id = msg_id_out
      BY <1>4, <2>3, KeyFacts, Zenon
    <3>2. K(id) \in DOMAIN sent => id < msg_id_out
      BY Zenon DEF SenderInv
    <3> QED
      BY <1>1, <3>1, <3>2 DEF Ids
  <2>4. ASSUME NEW k \in DOMAIN sent
        PROVE  /\ sent'[k] = [msg |-> sent'[k].msg, parity |-> sent'[k].parity, age |-> sent'[k].age]
               /\ sent'[k].msg \in Payloads[k[1]]
               /\ sent'[k].parity \in ParityCounts(data_count(sent'[k].msg))
               /\ sent'[k].age \in 0..(Lifetime + 1)
               /\ k[1] <= session
               /\ sent'[k].age <= Lifetime => k[1] = session /\ 0 <= sent'[k].age
    <3>1. sent'[k] = sent[k]
      BY <1>4, Zenon
    <3>2. 0 <= sent[k].age
      BY SentFacts
    <3> QED
      BY <3>1, <3>2, Zenon DEF SenderInv
  <2>5. LET r == sent'[k0]
        IN  /\ r = [msg |-> r.msg, parity |-> r.parity, age |-> r.age]
            /\ r.msg \in Payloads[k0[1]]
            /\ r.parity \in ParityCounts(data_count(r.msg))
            /\ r.age \in 0..(Lifetime + 1)
            /\ k0[1] <= session
            /\ r.age <= Lifetime => k0[1] = session /\ 0 <= r.age
    <3> DEFINE r == sent'[k0]
    <3>1. r.msg = m /\ r.parity = p /\ r.age = 0
      BY <1>4
    <3>2. 0 \in 0..(Lifetime + 1) /\ session <= session /\ 0 <= 0
      BY <1>3, TimeFacts DEF Sessions
    <3> HIDE DEF r
    <3>3. /\ r = [msg |-> r.msg, parity |-> r.parity, age |-> r.age]
          /\ r.msg \in Payloads[k0[1]]
          /\ r.parity \in ParityCounts(data_count(r.msg))
      BY <1>4, <1>8, <3>1, Zenon DEF r
    <3>4. r.age \in 0..(Lifetime + 1) /\ k0[1] <= session
          /\ (r.age <= Lifetime => k0[1] = session /\ 0 <= r.age)
      BY <1>8, <3>1, <3>2, Zenon
    <3> QED
      BY <3>3, <3>4, Zenon DEF r
  <2> HIDE DEF k0
  <2> QED
    BY <1>1, <1>3, <1>4, <1>5, <2>1, <2>2, <2>3, <2>4, <2>5, Zenon DEF SenderInv
<1>10. RxInv'
  <2>1. CASE rx.pc = "idle"
    BY <1>1, <2>1, Zenon DEF RxInv
  <2>2. CASE rx.pc # "idle"
    <3> DEFINE k == K(rx.packet.id)
    <3>1. k \in DOMAIN sent /\ Open(k) /\ Fits(k) /\ sent'[k] = sent[k]
      BY <1>4, <2>2, RxFacts, Zenon
    <3>2. Open(k)' /\ Fits(k)' /\ k' = k /\ Fragments(k)' = Fragments(k)
      BY <1>1, <1>5, <1>6, <3>1, Zenon DEF Fits
    <3> QED
      BY <1>1, <2>2, <3>1, <3>2, Zenon DEF RxInv
  <2> QED
    BY <2>1, <2>2, Zenon
<1>11. EntryInv'
  <2> SUFFICES ASSUME NEW id \in DOMAIN incoming
               PROVE  /\ id \in Ids /\ id \notin DOMAIN completed' /\ K(id)' \in DOMAIN sent'
                      /\ \/ incoming'[id] = Blank /\ rx'.pc = "store" /\ Busy(id)'
                         \/ rx'.pc = "complete" /\ Busy(id)' /\ Recent(incoming[id].age, K(id))'
                         \/ Kept(id)'
    BY <1>1, Zenon DEF EntryInv
  <2>1. /\ id \in Ids /\ id \notin DOMAIN completed /\ K(id) \in DOMAIN sent
        /\ \/ incoming[id] = Blank /\ rx.pc = "store" /\ Busy(id)
           \/ rx.pc = "complete" /\ Busy(id) /\ Recent(incoming[id].age, K(id))
           \/ Kept(id)
    BY Zenon DEF EntryInv
  <2>2. (Busy(id)' <=> Busy(id)) /\ K(id)' = K(id) /\ sent'[K(id)] = sent[K(id)]
        /\ Fragments(K(id))' = Fragments(K(id))
    BY <1>1, <1>4, <1>5, <1>6, <2>1, Zenon DEF Busy
  <2>3. Recent(incoming[id].age, K(id)) => Recent(incoming[id].age, K(id))'
    BY <1>1, <1>5, <1>7, <2>1, Zenon
  <2>4. Kept(id) => Kept(id)'
    BY <1>1, <2>2, <2>3, Zenon DEF Kept
  <2> QED
    BY <1>1, <1>4, <2>1, <2>2, <2>3, <2>4, Zenon
<1>12. CompletedInv'
  BY <1>1, <1>5, <1>7, Zenon DEF CompletedInv, HistoryInv
<1>13. k0 \notin enough /\ enough \subseteq DOMAIN sent /\ DOMAIN arrived = DOMAIN sent \ enough
  BY <1>3, Zenon DEF HistoryInv
<1>14. \A id : (Busy(id)' <=> Busy(id)) /\ Part(id)' = Part(id) /\ Seen(id)' = Seen(id)
  BY <1>1, Zenon DEF Busy, Part, Seen
<1>15. HistoryInv'
  <2>1. enough' \subseteq DOMAIN sent' /\ DOMAIN arrived' = DOMAIN sent' \ enough'
    BY <1>1, <1>4, <1>13, Zenon DEF With
  <2>2. /\ arrived'[k0] = {}
        /\ \A k \in DOMAIN arrived : arrived'[k] = arrived[k] /\ k # k0
    BY <1>1, <1>3, <1>13, Zenon DEF With
  <2>3. ASSUME NEW k \in DOMAIN arrived'
        PROVE  arrived'[k] \subseteq Fragments(k)' /\ Cardinality(arrived'[k]) < data_count(sent'[k].msg)
    <3>1. CASE k = k0
      <4>1. sent'[k0].msg = m
        BY <1>4
      <4>2. data_count(m) \in Nat \ {0} /\ Cardinality({}) = 0
        BY <1>3, MessageFacts, Zenon DEF CountingFacts
      <4>3. Cardinality({}) < data_count(m)
        BY <4>2
      <4> QED
        BY <2>2, <3>1, <4>1, <4>3, Zenon
    <3>2. CASE k # k0
      <4>1. k \in DOMAIN arrived /\ k \in DOMAIN sent
        BY <1>1, <1>13, <3>2, Zenon DEF With
      <4>2. arrived'[k] = arrived[k] /\ sent'[k] = sent[k] /\ Fragments(k)' = Fragments(k)
        BY <1>4, <1>6, <2>2, <4>1, Zenon
      <4> QED
        BY <4>1, <4>2, Zenon DEF HistoryInv
    <3> QED
      BY <3>1, <3>2, Zenon
  <2>4. ASSUME NEW id \in Ids PROVE Tracked(id)'
    <3>1. CASE id = msg_id_out
      <4>1. id \notin DOMAIN incoming
        BY <1>3, <3>1, Zenon DEF EntryInv
      <4>2. ~Busy(id)
        BY <1>3, <3>1, RxFacts, Zenon DEF Busy
      <4>3. Seen(id) = {}
        BY <4>1, <4>2, Zenon DEF Seen, Part
      <4>4. arrived'[K(id)'] = {} /\ K(id)' \notin enough'
        BY <1>1, <1>5, <1>13, <2>2, <3>1, Zenon
      <4> QED
        BY <1>14, <4>3, <4>4, Zenon DEF Tracked
    <3>2. CASE id # msg_id_out
      <4> DEFINE k == K(id)
      <4>1. k # k0 /\ k' = k
        BY <1>5, <3>2, KeyFacts, Zenon
      <4>2. CASE k \notin DOMAIN sent
        <5>1. ~Open(k)'
          BY <1>4, <4>1, <4>2, Zenon DEF Open
        <5> QED
          BY <4>1, <5>1, Zenon DEF Tracked
      <4>3. CASE k \in DOMAIN sent
        <5>1. (Open(k)' <=> Open(k)) /\ (Fits(k)' <=> Fits(k)) /\ sent'[k] = sent[k]
          BY <1>4, <1>6, <4>1, <4>3, Zenon DEF Fits
        <5>2. k \notin enough => arrived'[k] = arrived[k]
          BY <1>13, <2>2, <4>3, Zenon
        <5>3. Tracked(id)
          BY Zenon DEF HistoryInv
        <5> HIDE DEF k
        <5> QED
          BY <1>1, <1>14, <4>1, <5>1, <5>2, <5>3, Zenon DEF Tracked, k
      <4> QED
        BY <4>2, <4>3, Zenon
    <3> QED
      BY <3>1, <3>2, Zenon
  <2> QED
    BY <2>1, <2>3, <2>4, Zenon DEF HistoryInv
<1>16. CountInv'
  <2>1. ASSUME NEW id \in Ids PROVE Counted(id)'
    <3>1. Sent(id)' \cap enough' = Sent(id) \cap enough
      BY <1>1, <1>4, <1>13, Zenon DEF Sent
    <3>2. Pending(id)' = Pending(id)
      BY <1>1, <1>5, <1>14, Zenon DEF Pending
    <3>3. \A k \in Sent(id) : k \in Sent(id)' /\ sent'[k] = sent[k]
      BY <1>4, Zenon DEF Sent
    <3>4. Counted(id)
      BY Zenon DEF CountInv
    <3> QED
      BY <1>1, <3>1, <3>2, <3>3, <3>4, Zenon DEF Counted
  <2> QED
    BY <1>1, <2>1, Zenon DEF CountInv
<1> QED
  BY <1>9, <1>10, <1>11, <1>12, <1>15, <1>16, Zenon

(***************************************************************************)
(* A restart: by then the receiving end has nothing of the old process.    *)
(***************************************************************************)
LEMMA RestartStep ==
    ASSUME Inv, QuietRestarts, Restart
    PROVE  Inv'
<1> USE DEF Inv
<1>1. /\ session < MaxRestarts /\ silence >= RestartPause
      /\ session' = session + 1 /\ msg_id_out' = 1 /\ sent' = sent /\ silence' = silence
      /\ incoming' = incoming /\ completed' = completed /\ rx' = rx
      /\ arrived' = arrived /\ enough' = enough /\ delivered' = delivered
  BY Zenon DEF Restart, receiver, history
<1>2. silence \in Nat /\ silence > Lifetime + DeadTicks
  <2>1. silence \in Nat
    BY Zenon DEF SenderInv
  <2> QED
    BY <1>1, <2>1, TimeFacts DEF QuietRestarts
<1>3. \A k : ~Open(k) /\ ~Open(k)'
  <2>1. \A k : ~Open(k)
    <3> SUFFICES ASSUME NEW k, Open(k) PROVE FALSE
      BY Zenon
    <3>1. silence <= Lifetime
      BY OpenFacts, Zenon
    <3> QED
      BY <1>2, <3>1, TimeFacts
  <2> QED
    BY <1>1, <2>1, Zenon DEF Open
<1>4. \A age, k : ~Recent(age, k)
  <2> SUFFICES ASSUME NEW age, NEW k, Recent(age, k) PROVE FALSE
    BY Zenon
  <2>1. age \in 0..DeadTicks /\ silence <= Lifetime + age
    BY Zenon DEF Recent
  <2> QED
    BY <1>2, <2>1, TimeFacts
<1>5. rx.pc = "idle" /\ \A id : ~Busy(id) /\ ~Busy(id)'
  <2>1. rx.pc = "idle"
    BY <1>3, RxFacts, Zenon
  <2> QED
    BY <1>1, <2>1, Zenon DEF Busy
<1>6. DOMAIN incoming = {} /\ DOMAIN completed = {}
  <2>1. \A id \in DOMAIN incoming : FALSE
    BY <1>4, <1>5, Zenon DEF EntryInv, Kept
  <2>2. \A id \in DOMAIN completed : FALSE
    BY <1>4, Zenon DEF CompletedInv
  <2> QED
    BY <2>1, <2>2, Zenon
<1>7. SenderInv'
  <2>1. session \in Nat /\ session' \in Sessions /\ msg_id_out' \in 1..(MaxMsg + 1)
    <3>1. session \in Sessions
      BY Zenon DEF SenderInv
    <3> QED
      BY <1>1, <3>1, TimeFacts DEF Sessions
  <2>2. \A k \in DOMAIN sent : k[1] <= session /\ k[1] \in Nat
    <3>1. \A k \in DOMAIN sent : k[1] <= session /\ k[1] \in Sessions
      BY SentFacts, Zenon DEF SenderInv
    <3> QED
      BY <3>1, TimeFacts DEF Sessions
  <2>3. \A id : K(id)' \notin DOMAIN sent
    <3> SUFFICES ASSUME NEW id, K(id)' \in DOMAIN sent PROVE FALSE
      BY Zenon
    <3>1. K(id)'[1] = session + 1
      BY <1>1 DEF K
    <3> QED
      BY <2>1, <2>2, <3>1
  <2>4. \A k \in DOMAIN sent : k[1] <= session' /\ ~(sent[k].age <= Lifetime)
    <3>1. \A k \in DOMAIN sent : k[1] <= session'
      BY <1>1, <2>1, <2>2
    <3> QED
      BY <1>3, <3>1, Zenon DEF Open
  <2> QED
    BY <1>1, <2>1, <2>3, <2>4, Zenon DEF SenderInv
<1>8. RxInv' /\ EntryInv' /\ CompletedInv'
  BY <1>1, <1>5, <1>6, Zenon DEF RxInv, EntryInv, CompletedInv
<1>9. HistoryInv'
  <2>1. \A id : Tracked(id)'
    BY <1>3, Zenon DEF Tracked
  <2>2. \A k : Fragments(k)' = Fragments(k)
    BY <1>1, Zenon DEF Fragments
  <2> QED
    BY <1>1, <2>1, <2>2, Zenon DEF HistoryInv
<1>10. CountInv'
  <2>1. ASSUME NEW id \in Ids PROVE Counted(id)'
    <3>1. Sent(id)' = Sent(id) /\ Pending(id) = 0 /\ Pending(id)' = 0
      BY <1>1, <1>5, Zenon DEF Sent, Pending
    <3>2. Counted(id)
      BY Zenon DEF CountInv
    <3> QED
      BY <1>1, <3>1, <3>2, Zenon DEF Counted
  <2> QED
    BY <1>1, <2>1, Zenon DEF CountInv
<1> QED
  BY <1>7, <1>8, <1>9, <1>10, Zenon

-----------------------------------------------------------------------------
(***************************************************************************)
(* The receiver thread.                                                    *)
(***************************************************************************)

\* What does not depend on rx and incoming while the sender rests.
LEMMA SameHistory ==
    ASSUME Inv, UNCHANGED sender, enough' = enough, arrived' = arrived,
           \A id \in Ids : Tracked(id)'
    PROVE  SenderInv' /\ HistoryInv'
<1> USE DEF Inv
<1>1. SenderInv'
  BY SameSender, Zenon DEF SenderInv, sender
<1>2. HistoryInv'
  BY SameSender, Zenon DEF HistoryInv
<1> QED
  BY <1>1, <1>2, Zenon

LEMMA SameCount ==
    ASSUME Inv, UNCHANGED sender, enough' = enough, delivered' = delivered,
           \A id \in Ids : Pending(id)' = Pending(id)
    PROVE  CountInv'
<1> USE DEF Inv
<1>1. ASSUME NEW id \in Ids PROVE Counted(id)'
  <2>1. Counted(id)
    BY Zenon DEF CountInv
  <2> QED
    BY <2>1, SameSender, ZenonT(30) DEF Counted
<1> QED
  BY <1>1, Zenon DEF CountInv

\* A fragment arrives: it is one more of those that arrived, and if it makes
\* them enough the message is pending.
LEMMA ArriveStep ==
    ASSUME Inv, CountingFacts, NEW k \in DOMAIN sent, NEW idx \in Fragments(k), Arrive(k, idx)
    PROVE  Inv'
<1> USE DEF Inv
<1> DEFINE id == k[2]
           d == data_count(sent[k].msg)
           f == Packet(id, sent[k].msg, sent[k].parity, idx)
           drop == id \in DOMAIN completed \/ ~Fits(k)
<1>1. f.id = id /\ f.idx = idx /\ f.flags = d /\ f.cnt = d + sent[k].parity
  BY DEF Packet
<1>2. d \in Nat /\ sent[k].parity \in Nat /\ max_fragments \in Nat
  <2>1. max_fragments \in Nat
    BY ReassemblyAssumption DEF max_fragments
  <2> QED
    BY <2>1, SentFacts
<1>3. /\ rx.pc = "idle" /\ sent[k].age <= Lifetime /\ Handled(k, idx, d)
      /\ UNCHANGED sender /\ incoming' = incoming /\ completed' = completed
      /\ delivered' = delivered
  BY <1>1, Zenon DEF Arrive
<1>4. rx' = IF drop THEN [pc |-> "idle"] ELSE [pc |-> "index", packet |-> f]
  <2>1. f.cnt > max_fragments <=> ~Fits(k)
    BY <1>1, <1>2 DEF Fits
  <2>2. rx' = IF f.id \in DOMAIN completed \/ f.cnt > max_fragments
              THEN [pc |-> "idle"] ELSE [pc |-> "index", packet |-> f]
    BY Zenon DEF Arrive
  <2> HIDE DEF f
  <2> QED
    BY <1>1, <2>1, <2>2, Zenon
<1>5. Open(k) /\ k = K(id) /\ id \in Ids
  <2>1. Open(k)
    BY <1>3, Zenon DEF Open
  <2> QED
    BY <2>1, OpenFacts, Zenon
<1> HIDE DEF f
<1>6. /\ \A j : ~Busy(j)
      /\ drop => rx' = [pc |-> "idle"] /\ rx'.pc = "idle" /\ \A j : ~Busy(j)'
      /\ ~drop => /\ rx' = [pc |-> "index", packet |-> f]
                  /\ rx'.pc = "index" /\ rx'.packet = f /\ \A j : Busy(j)' <=> j = id
  <2>1. drop => rx' = [pc |-> "idle"] /\ rx'.pc = "idle"
    BY <1>4
  <2>2. ~drop => rx' = [pc |-> "index", packet |-> f] /\ rx'.pc = "index" /\ rx'.packet = f
    BY <1>4
  <2> QED
    BY <1>1, <1>3, <2>1, <2>2, ZenonT(30) DEF Busy
<1>7. /\ enough \subseteq DOMAIN sent /\ DOMAIN arrived = DOMAIN sent \ enough
      /\ \A j \in DOMAIN arrived : /\ arrived[j] \subseteq Fragments(j)
                                  /\ Cardinality(arrived[j]) < data_count(sent[j].msg)
      /\ \A j \in Ids : Tracked(j)
  BY Zenon DEF HistoryInv
<1>8. id \in DOMAIN completed => k \in enough
  BY <1>5, Zenon DEF CompletedInv
<1>9. ~drop => k \notin enough
  BY <1>5, <1>6, <1>7, Zenon DEF Tracked
<1>10. k \notin enough /\ Fits(k) => Part(id) = arrived[k]
  BY <1>5, <1>6, <1>7, Zenon DEF Tracked, Seen
<1> DEFINE S == arrived[k] \cup {idx}
<1>11. k \notin enough => S \subseteq Fragments(k) /\ Cardinality(S) \in Nat
  <2> HAVE k \notin enough
  <2>1. S \subseteq Fragments(k)
    BY <1>7, Zenon
  <2>2. IsFiniteSet(S)
    BY <2>1, SentFacts, Zenon DEF CountingFacts, Fragments
  <2> QED
    BY <2>1, <2>2, Zenon DEF CountingFacts
<1>12. \/ k \in enough /\ arrived' = arrived /\ enough' = enough
       \/ /\ k \notin enough /\ Cardinality(S) < d /\ enough' = enough
          /\ arrived' = [arrived EXCEPT ![k] = S]
       \/ /\ k \notin enough /\ Cardinality(S) >= d /\ enough' = enough \cup {k}
          /\ arrived' = Without(arrived, {k})
  <2>1. k \notin enough /\ ~(Cardinality(S) < d) => Cardinality(S) >= d
    <3> HIDE DEF S, d
    <3> QED
      BY <1>2, <1>11
  <2> HIDE DEF d
  <2> QED
    BY <1>3, <1>7, <2>1, Zenon DEF Handled
<1>13. /\ DOMAIN arrived' = DOMAIN sent \ enough'
       /\ enough \subseteq enough' /\ enough' \subseteq enough \cup {k}
       /\ \A j \in DOMAIN arrived' : j # k => arrived'[j] = arrived[j] /\ j \in DOMAIN arrived
       /\ k \notin enough' => k \notin enough /\ arrived'[k] = S /\ Cardinality(S) < d
       /\ k \in enough' => k \in enough \/ Cardinality(S) >= d
  <2>1. CASE k \in enough /\ arrived' = arrived /\ enough' = enough
    BY <1>7, <2>1, Zenon
  <2>2. CASE /\ k \notin enough /\ Cardinality(S) < d /\ enough' = enough
             /\ arrived' = [arrived EXCEPT ![k] = S]
    <3> HIDE DEF S, d
    <3> QED
      BY <1>7, <2>2, Zenon
  <2>3. CASE /\ k \notin enough /\ Cardinality(S) >= d /\ enough' = enough \cup {k}
             /\ arrived' = Without(arrived, {k})
    <3> HIDE DEF S, d
    <3> QED
      BY <1>7, <2>3, Zenon DEF Without
  <2> HIDE DEF S, d
  <2> QED
    BY <1>12, <2>1, <2>2, <2>3, Zenon
<1> HIDE DEF S
<1>14. SenderInv'
  BY <1>3, SameSender, Zenon DEF SenderInv, sender
<1>15. RxInv'
  <2>1. CASE drop
    BY <1>6, <2>1, Zenon DEF RxInv
  <2>2. CASE ~drop
    <3>1. Open(k)' /\ Fits(k)' /\ idx \in Fragments(k)' /\ K(id)' = k
      BY <1>3, <1>5, <2>2, SameSender, Zenon
    <3>2. /\ rx'.packet.id = id /\ rx'.packet.idx = idx
          /\ rx'.packet = Packet(id, sent'[k].msg, sent'[k].parity, idx)
      BY <1>1, <1>3, <1>6, <2>2, SameSender, Zenon DEF f
    <3>3. id \in Ids /\ id \notin DOMAIN completed' /\ rx' = [pc |-> rx'.pc, packet |-> rx'.packet]
          /\ rx'.pc \in {"idle", "index", "store", "assemble", "complete"} /\ rx'.pc # "complete"
      BY <1>3, <1>5, <1>6, <2>2, Zenon
    <3> HIDE DEF id
    <3> QED
      BY <3>1, <3>2, <3>3, Zenon DEF RxInv
  <2> QED
    BY <2>1, <2>2, Zenon
<1>16. EntryInv' /\ CompletedInv'
  <2>1. ASSUME NEW j \in DOMAIN incoming
        PROVE  j \in Ids /\ j \notin DOMAIN completed /\ K(j) \in DOMAIN sent /\ Kept(j)'
    <3>1. j \in Ids /\ j \notin DOMAIN completed /\ K(j) \in DOMAIN sent /\ Kept(j)
      BY <1>6, Zenon DEF EntryInv
    <3> QED
      BY <1>3, <3>1, SameSender, Zenon DEF Kept
  <2>2. EntryInv'
    BY <1>3, <2>1, SameSender, Zenon DEF EntryInv
  <2>3. CompletedInv'
    BY <1>3, <1>13, SameSender, Zenon DEF CompletedInv
  <2> QED
    BY <2>2, <2>3, Zenon
<1>17. \A j : Part(j)' = Part(j)
  BY <1>3, Zenon DEF Part
<1>18. HistoryInv'
  <2>1. ASSUME NEW j \in DOMAIN arrived'
        PROVE  /\ arrived'[j] \subseteq Fragments(j)
               /\ Cardinality(arrived'[j]) < data_count(sent[j].msg)
    <3>1. CASE j = k
      BY <1>11, <1>13, <3>1, Zenon
    <3>2. CASE j # k
      BY <1>7, <1>13, <3>2, Zenon
    <3> QED
      BY <3>1, <3>2, Zenon
  <2>2. ASSUME NEW j \in Ids, j # id PROVE Tracked(j)'
    <3>1. K(j) # k
      BY <1>5, <2>2, KeyFacts, Zenon
    <3>2. ~Busy(j)' /\ Seen(j)' = Seen(j)
      <4>1. ~Busy(j)'
        <5> HIDE DEF drop, id
        <5>1. drop => ~Busy(j)'
          BY <1>6, Zenon
        <5>2. ~drop => ~Busy(j)'
          BY <1>6, <2>2, Zenon
        <5> QED
          BY <5>1, <5>2, Zenon
      <4>2. ~Busy(j) /\ Part(j)' = Part(j)
        BY <1>6, <1>17, Zenon
      <4> QED
        BY <4>1, <4>2, Zenon DEF Seen
    <3>3. (K(j) \in enough' <=> K(j) \in enough)
          /\ (K(j) \notin enough /\ K(j) \in DOMAIN sent => arrived'[K(j)] = arrived[K(j)])
      BY <1>7, <1>13, <3>1, Zenon
    <3>4. Open(K(j)) => K(j) \in DOMAIN sent
      BY Zenon DEF Open
    <3> QED
      BY <1>3, <1>6, <1>7, <3>2, <3>3, <3>4, SameSender, Zenon DEF Tracked
  <2>3. Tracked(id)'
    <3>1. CASE drop
      BY <1>3, <1>5, <1>8, <1>13, <3>1, SameSender, Zenon DEF Tracked
    <3>2. CASE ~drop
      <4>1. k \notin enough /\ Seen(id)' = S
        BY <1>1, <1>6, <1>9, <1>10, <1>17, <3>2, Zenon DEF Seen, S
      <4> QED
        BY <1>3, <1>5, <1>6, <1>13, <3>2, <4>1, SameSender, Zenon DEF Tracked
    <3> QED
      BY <3>1, <3>2, Zenon
  <2>4. \A j \in Ids : Tracked(j)'
    BY <2>2, <2>3, Zenon
  <2>5. enough' \subseteq DOMAIN sent
    BY <1>7, <1>13, Zenon
  <2>6. sent' = sent /\ \A j : Fragments(j)' = Fragments(j)
    BY <1>3, SameSender, Zenon
  <2>7. DOMAIN arrived' = DOMAIN sent \ enough'
    BY <1>13, Zenon
  <2> QED
    BY <2>1, <2>4, <2>5, <2>6, <2>7, Zenon DEF HistoryInv
<1>19. CountInv'
  <2>1. ASSUME NEW j \in Ids, j # id \/ enough' = enough PROVE Counted(j)'
    <3>1. Pending(j) = 0
      BY <1>6, Zenon DEF Pending
    <3>2. Sent(j) \cap enough' = Sent(j) \cap enough
      BY <1>13, <2>1, Zenon DEF Sent
    <3>3. Pending(j)' = 0
      <4>1. CASE drop \/ j # id
        <5>1. ~Busy(j)'
          BY <1>6, <4>1, Zenon
        <5> QED
          BY <5>1, Zenon DEF Pending
      <4>2. CASE ~drop /\ j = id
        <5>1. K(j)' = k /\ k \notin enough'
          BY <1>3, <1>5, <1>9, <2>1, <4>2, SameSender, Zenon
        <5> QED
          BY <5>1, Zenon DEF Pending
      <4> QED
        BY <4>1, <4>2, Zenon
    <3>4. Counted(j)
      BY Zenon DEF CountInv
    <3> QED
      BY <1>3, <3>1, <3>2, <3>3, <3>4, SameSender, Zenon DEF Counted
  <2>2. ASSUME enough' # enough PROVE Counted(id)'
    <3>1. k \notin enough /\ enough' = enough \cup {k}
      BY <1>12, <2>2, Zenon
    <3> DEFINE E == Sent(id) \cap enough
               c == Cardinality(E)
               n == Len(delivered[id])
    <3>2. Sent(id) \cap enough' = E \cup {k} /\ k \notin E
      BY <3>1, Zenon DEF Sent
    <3>3. Counted(id)
      BY <1>5, Zenon DEF CountInv
    <3>4. IsFiniteSet(E \cup {k}) /\ c \in Nat /\ Cardinality(E \cup {k}) = c + 1
      <4>1. IsFiniteSet(E)
        BY <3>3, Zenon DEF Counted
      <4> HIDE DEF E
      <4> QED
        BY <3>2, <4>1, Zenon DEF CountingFacts
    <3>5. Pending(id) = 0
      BY <1>6, Zenon DEF Pending
    <3>6. Pending(id)' = IF drop THEN 0 ELSE 1
      BY <1>3, <1>5, <1>6, <3>1, SameSender, Zenon DEF Pending
    <3>7. n \in Nat /\ n + 0 <= c /\ (AllFit => n + 0 = c)
      <4>1. delivered[id] \in Seq(Messages)
        BY <1>5, Zenon DEF CountInv
      <4>2. n \in Nat
        BY <4>1, LenFacts, Zenon
      <4> QED
        BY <3>3, <3>5, <4>2, Zenon DEF Counted
    <3>8. AllFit => ~drop
      <4> HAVE AllFit
      <4>1. Fits(k)
        BY SentFacts, Zenon DEF AllFit, Fits
      <4> QED
        BY <1>8, <3>1, <4>1, Zenon
    <3> HIDE DEF E, c, n
    <3>9. n + (IF drop THEN 0 ELSE 1) <= c + 1 /\ (AllFit => n + (IF drop THEN 0 ELSE 1) = c + 1)
      <4> HIDE DEF drop
      <4> QED
        BY <3>4, <3>7, <3>8
    <3>10. AllFit => \A i \in 1..Len(delivered[id]) :
                        \E q \in Sent(id) : sent[q].msg = delivered[id][i]
      BY <3>3, Zenon DEF Counted
    <3>11. /\ Sent(id)' \cap enough' = E \cup {k} /\ Len(delivered'[id]) = n
           /\ Sent(id)' = Sent(id) /\ sent' = sent
      BY <1>3, <3>2, SameSender, Zenon DEF n
    <3> HIDE DEF drop
    <3> QED
      BY <1>3, <3>4, <3>6, <3>9, <3>10, <3>11, Zenon DEF Counted
  <2>3. \A j \in Ids : Counted(j)'
    BY <2>1, <2>2, Zenon
  <2> QED
    BY <1>3, <2>3, Zenon DEF CountInv
<1> QED
  BY <1>14, <1>15, <1>16, <1>18, <1>19, Zenon

\* Only the entry the receiver thread works on can be new or recovered.
LEMMA KeptFacts ==
    ASSUME EntryInv, NEW id \in DOMAIN incoming, ~Busy(id) \/ rx.pc \in {"index", "assemble"}
    PROVE  Kept(id)
BY DEF EntryInv

LEMMA KeptSame ==
    ASSUME UNCHANGED sender, NEW id, incoming'[id] = incoming[id], Kept(id)
    PROVE  Kept(id)'
BY SameSender, Zenon DEF Kept

LEMMA TrackedSame ==
    ASSUME UNCHANGED sender, arrived' = arrived, enough' = enough, NEW id, Tracked(id),
           Seen(id)' = Seen(id),
           Busy(id) => Busy(id)' /\ (rx.pc = "complete" => rx'.pc = "complete"),
           id \in DOMAIN completed /\ Open(K(id)) => id \in DOMAIN completed'
    PROVE  Tracked(id)'
<1> DEFINE k == K(id)
<1>1. k' = k /\ (Open(k)' <=> Open(k)) /\ (Fits(k)' <=> Fits(k)) /\ sent' = sent
  BY SameSender, Zenon
<1>2. SUFFICES ASSUME Open(k), Fits(k)
               PROVE  IF k \notin enough THEN Seen(id)' = arrived[k]
                      ELSE \/ id \in DOMAIN completed'
                           \/ Busy(id)' /\ rx'.pc = "complete"
                           \/ Busy(id)' /\ Cardinality(Seen(id)') >= data_count(sent[k].msg)
  <2> HIDE DEF k
  <2> QED
    BY <1>1, Zenon DEF Tracked, k
<1>3. IF k \notin enough THEN Seen(id) = arrived[k]
      ELSE \/ id \in DOMAIN completed
           \/ Busy(id) /\ rx.pc = "complete"
           \/ Busy(id) /\ Cardinality(Seen(id)) >= data_count(sent[k].msg)
  BY <1>2, Zenon DEF Tracked
<1> QED
  BY <1>2, <1>3, Zenon

LEMMA IndexStep ==
    ASSUME Inv, Index
    PROVE  Inv'
<1> USE DEF Inv
<1> DEFINE id == rx.packet.id
           k == K(id)
           f == rx.packet
<1>1. /\ rx.pc = "index" /\ rx' = [rx EXCEPT !.pc = "store"]
      /\ incoming' = IF id \in DOMAIN incoming THEN incoming ELSE With(incoming, id, Blank)
      /\ UNCHANGED sender /\ completed' = completed
      /\ arrived' = arrived /\ enough' = enough /\ delivered' = delivered
  BY Zenon DEF Index, history
<1>2. rx.pc # "idle" /\ rx.pc # "complete" /\ rx.pc # "store"
  BY <1>1
<1>3. /\ rx = [pc |-> rx.pc, packet |-> f] /\ id \in Ids /\ id \notin DOMAIN completed
      /\ Open(k) /\ Fits(k) /\ k \in DOMAIN sent /\ \A j : Busy(j) <=> j = id
  BY <1>2, RxFacts, Zenon
<1>4. rx'.pc = "store" /\ rx'.packet = f /\ rx' = [pc |-> "store", packet |-> f]
  BY <1>1, <1>3
<1>5. rx'.pc # "idle" /\ rx'.pc # "complete" /\ \A j : Busy(j)' <=> Busy(j)
  <2>1. rx'.pc # "idle" /\ rx'.pc # "complete"
    BY <1>4
  <2> QED
    BY <1>2, <1>4, <2>1, Zenon DEF Busy
<1>6. /\ DOMAIN incoming' = DOMAIN incoming \cup {id}
      /\ \A j \in DOMAIN incoming : incoming'[j] = incoming[j]
      /\ id \notin DOMAIN incoming => incoming'[id] = Blank
  BY <1>1, Zenon DEF With
<1>7. RxInv'
  BY <1>1, <1>2, <1>4, SameSender, ZenonT(60) DEF RxInv
<1>8. EntryInv'
  <2>1. ASSUME NEW j \in DOMAIN incoming
        PROVE  j \in Ids /\ j \notin DOMAIN completed /\ K(j) \in DOMAIN sent /\ Kept(j)'
    <3>1. j \in Ids /\ j \notin DOMAIN completed /\ K(j) \in DOMAIN sent
      BY Zenon DEF EntryInv
    <3>2. Kept(j)
      BY <1>1, KeptFacts
    <3> QED
      BY <1>1, <1>6, <3>1, <3>2, KeptSame, Zenon
  <2>2. id \notin DOMAIN incoming => incoming'[id] = Blank /\ rx'.pc = "store" /\ Busy(id)
    BY <1>3, <1>4, <1>6, Zenon
  <2> QED
    BY <1>1, <1>3, <1>5, <1>6, <2>1, <2>2, SameSender, ZenonT(60) DEF EntryInv
<1>9. CompletedInv'
  BY <1>1, SameSender, Zenon DEF CompletedInv
<1>10. \A j : Seen(j)' = Seen(j)
  <2>1. \A j : Part(j)' = Part(j)
    BY <1>6, Zenon DEF Part
  <2>2. rx.pc \in {"index", "store"} /\ rx'.pc \in {"index", "store"}
    BY <1>1, <1>4
  <2> QED
    BY <1>4, <1>5, <2>1, <2>2, Zenon DEF Seen
<1>11. \A j \in Ids : Tracked(j)'
  <2>1. \A j \in Ids : Tracked(j)
    BY Zenon DEF HistoryInv
  <2> QED
    BY <1>1, <1>2, <1>5, <1>10, <2>1, TrackedSame, Zenon
<1>12. \A j : Pending(j)' = Pending(j)
  <2>1. enough' = enough /\ \A j : K(j)' = K(j)
    BY <1>1, SameSender, Zenon
  <2> QED
    BY <1>2, <1>5, <2>1, Zenon DEF Pending
<1> QED
  BY <1>1, <1>7, <1>8, <1>9, <1>11, <1>12, SameHistory, SameCount, Zenon

LEMMA StoreStep ==
    ASSUME Inv, Store
    PROVE  Inv'
<1> USE DEF Inv
<1>a. PICK f : f = rx.packet
  OBVIOUS
<1>b. PICK id : id = f.id
  OBVIOUS
<1>c. PICK k : k = K(id)
  OBVIOUS
<1> DEFINE m == sent[k].msg
           p == sent[k].parity
           e == IF incoming[id] = Blank THEN Fresh(f) ELSE incoming[id]
<1>1. /\ rx.pc = "store" /\ id \in DOMAIN incoming
      /\ incoming' = [incoming EXCEPT ![id] = IF e.total = f.cnt THEN Stored(e, f) ELSE e]
      /\ rx' = IF e.total = f.cnt THEN [rx EXCEPT !.pc = "assemble"] ELSE [pc |-> "idle"]
      /\ UNCHANGED sender /\ completed' = completed
      /\ arrived' = arrived /\ enough' = enough /\ delivered' = delivered
  BY <1>a, <1>b, Zenon DEF Store, history
<1>2. rx.pc # "idle" /\ rx.pc # "complete"
  BY <1>1
<1>3. /\ rx = [pc |-> rx.pc, packet |-> f] /\ id \in Ids /\ id \notin DOMAIN completed
      /\ Open(k) /\ Fits(k) /\ k \in DOMAIN sent /\ \A j : Busy(j) <=> j = id
      /\ f.idx \in Fragments(k) /\ f = Packet(id, m, p, f.idx)
  BY <1>2, <1>a, <1>b, <1>c, RxFacts, ZenonT(60)
<1>d. \A j : Busy(j) <=> j = id
  BY <1>2, <1>a, <1>b, <1>c, RxFacts, Zenon
<1>0. /\ Fresh(f) = Holding(m, p, {}, 0)
      /\ \A S, age : Stored(Holding(m, p, S, age), f) = Holding(m, p, S \cup {f.idx}, age)
  <2> DEFINE g == Packet(id, m, p, f.idx)
  <2>1. /\ Fresh(g) = Holding(m, p, {}, 0)
        /\ \A S, age : Stored(Holding(m, p, S, age), g) = Holding(m, p, S \cup {f.idx}, age)
    BY StoredFacts, SMTT(30)
  <2>2. f = g
    BY <1>3, Zenon
  <2> HIDE DEF m, p, g
  <2> QED
    BY <2>1, <2>2, Zenon
<1>4. k[1] \in Sessions /\ m \in Payloads[k[1]] /\ p \in ParityCounts(data_count(m))
  BY <1>3, SentFacts, Zenon
<1>5. \A S, age : Holding(m, p, S, age) # Blank
  BY <1>4, NotBlank, Zenon
<1>6. \E age : /\ Recent(age, k) /\ Part(id) \subseteq Fragments(k)
               /\ e = Holding(m, p, Part(id), age)
  <2>1. CASE incoming[id] = Blank
    <3>1. e = Holding(m, p, {}, 0) /\ Part(id) = {}
      BY <1>0, <2>1, Zenon DEF Part
    <3>2. Recent(0, k)
      BY <1>3, OpenFacts, Zenon
    <3> HIDE DEF e
    <3> QED
      BY <3>1, <3>2, Zenon
  <2>2. CASE incoming[id] # Blank
    <3>1. Kept(id)
      BY <1>1, <1>2, <2>2, Zenon DEF EntryInv
    <3>2. Part(id) = DOMAIN incoming[id].fragments
      BY <1>1, <2>2, Zenon DEF Part
    <3> QED
      BY <1>c, <2>2, <3>1, <3>2, Zenon DEF Kept
  <2> QED
    BY <2>1, <2>2, Zenon
<1>7. PICK age : /\ Recent(age, k) /\ Part(id) \subseteq Fragments(k)
                 /\ e = Holding(m, p, Part(id), age)
  BY <1>6, Zenon
<1> HIDE DEF e
<1> DEFINE S == Part(id) \cup {f.idx}
<1>8. e.total = f.cnt /\ Stored(e, f) = Holding(m, p, S, age)
  <2>1. e.total = data_count(m) + p
    BY <1>7 DEF Holding
  <2>2. f.cnt = data_count(m) + p
    <3> DEFINE g == Packet(id, m, p, f.idx)
    <3>1. g.cnt = data_count(m) + p
      BY DEF Packet
    <3>2. f = g
      BY <1>3, Zenon
    <3> HIDE DEF m, p, g
    <3> QED
      BY <3>1, <3>2, Zenon
  <2> QED
    BY <1>0, <1>7, <2>1, <2>2, Zenon
<1>9. /\ DOMAIN incoming' = DOMAIN incoming
      /\ incoming'[id] = Holding(m, p, S, age)
      /\ \A j \in DOMAIN incoming : j # id => incoming'[j] = incoming[j]
  BY <1>1, <1>8, Zenon
<1>10. rx'.pc = "assemble" /\ rx'.packet = f /\ rx' = [pc |-> "assemble", packet |-> f]
  <2>1. rx' = [rx EXCEPT !.pc = "assemble"]
    BY <1>1, <1>8, Zenon
  <2> QED
    BY <1>3, <2>1
<1>11. rx'.pc # "idle" /\ rx'.pc # "complete" /\ \A j : Busy(j)' <=> Busy(j)
  <2>1. rx'.pc # "idle" /\ rx'.pc # "complete"
    BY <1>10
  <2> QED
    BY <1>2, <1>10, <1>a, <2>1, Zenon DEF Busy
<1>12. RxInv'
  BY <1>1, <1>2, <1>10, <1>a, SameSender, Zenon DEF RxInv
<1>13. /\ incoming'[id].age = age /\ DOMAIN incoming'[id].fragments = S
       /\ S \subseteq Fragments(k)
  <2>1. Holding(m, p, S, age).age = age /\ DOMAIN Holding(m, p, S, age).fragments = S
    BY DEF Holding
  <2>2. S \subseteq Fragments(k)
    BY <1>3, <1>7, Zenon
  <2> HIDE DEF S, m, p
  <2> QED
    BY <1>9, <2>1, <2>2, ZenonT(30)
<1>14. ASSUME NEW j, j = id PROVE Kept(j)'
  <2>1. K(j)' = k /\ sent' = sent /\ Recent(age, k)' /\ Fragments(k)' = Fragments(k)
    BY <1>1, <1>7, <1>14, <1>c, SameSender, Zenon
  <2>2. /\ incoming'[j].age = age /\ DOMAIN incoming'[j].fragments = S /\ S \subseteq Fragments(k)
        /\ incoming'[j] = Holding(sent[k].msg, sent[k].parity, S, age)
    BY <1>9, <1>13, <1>14, Zenon
  <2>3. Recent(incoming[j].age, K(j))'
    BY <2>1, <2>2, Zenon DEF Recent, Open
  <2> HIDE DEF S
  <2> QED
    BY <2>1, <2>2, <2>3, Zenon DEF Kept
<1>15. EntryInv'
  <2>1. ASSUME NEW j \in DOMAIN incoming
        PROVE  j \in Ids /\ j \notin DOMAIN completed /\ K(j) \in DOMAIN sent /\ Kept(j)'
    <3>1. j \in Ids /\ j \notin DOMAIN completed /\ K(j) \in DOMAIN sent
      BY Zenon DEF EntryInv
    <3>2. CASE j # id
      <4>1. Kept(j)
        BY <1>3, <3>2, KeptFacts, Zenon
      <4> QED
        BY <1>1, <1>9, <3>1, <3>2, <4>1, KeptSame, Zenon
    <3>3. CASE j = id
      BY <1>14, <3>1, <3>3, Zenon
    <3> QED
      BY <3>2, <3>3, Zenon
  <2> QED
    BY <1>1, <1>9, <2>1, SameSender, ZenonT(60) DEF EntryInv
<1>16. CompletedInv'
  BY <1>1, SameSender, Zenon DEF CompletedInv
<1>17. \A j : Seen(j)' = Seen(j)
  <2>1. rx.pc \in {"index", "store"} /\ rx'.pc \notin {"index", "store"}
    BY <1>1, <1>10
  <2>2. ASSUME NEW j, j # id PROVE Seen(j)' = Seen(j)
    <3>1. Part(j)' = Part(j)
      BY <1>9, <2>2, Zenon DEF Part
    <3>2. ~Busy(j) /\ ~Busy(j)'
      BY <1>11, <1>d, <2>2, Zenon
    <3> QED
      BY <3>1, <3>2, Zenon DEF Seen
  <2>3. ASSUME NEW j, j = id PROVE Seen(j)' = Seen(j)
    <3>1. Part(j)' = S
      <4>1. incoming'[j] # Blank /\ j \in DOMAIN incoming' /\ DOMAIN incoming'[j].fragments = S
        <5>1. incoming'[j] = Holding(m, p, S, age) /\ Holding(m, p, S, age) # Blank
          BY <1>5, <1>9, <2>3, Zenon
        <5> QED
          BY <1>1, <1>9, <1>13, <2>3, <5>1, Zenon
      <4> HIDE DEF S
      <4> QED
        BY <4>1, Zenon DEF Part
    <3>2. Seen(j)' = S
      BY <2>1, <3>1, Zenon DEF Seen
    <3>3. Seen(j) = S
      BY <1>3, <1>a, <2>1, <2>3, Zenon DEF Seen
    <3> QED
      BY <3>2, <3>3, Zenon
  <2> QED
    BY <2>2, <2>3, Zenon
<1>18. \A j \in Ids : Tracked(j)'
  <2>1. \A j \in Ids : Tracked(j)
    BY Zenon DEF HistoryInv
  <2> QED
    BY <1>1, <1>2, <1>11, <1>17, <2>1, TrackedSame, Zenon
<1>19. \A j : Pending(j)' = Pending(j)
  <2>1. enough' = enough /\ \A j : K(j)' = K(j)
    BY <1>1, SameSender, Zenon
  <2> QED
    BY <1>2, <1>11, <2>1, Zenon DEF Pending
<1> QED
  BY <1>1, <1>12, <1>15, <1>16, <1>18, <1>19, SameHistory, SameCount, Zenon

LEMMA CountedSame ==
    ASSUME UNCHANGED sender, enough' = enough, NEW id, Counted(id),
           delivered'[id] = delivered[id], Pending(id)' = Pending(id)
    PROVE  Counted(id)'
BY SameSender, Zenon DEF Counted

LEMMA KnownMessages ==
    /\ <<>> \in Messages
    /\ \A s \in Sessions : Payloads[s] \subseteq Messages
<1>1. ASSUME NEW s \in Sessions, NEW m \in Payloads[s] PROVE m \in Sendable
  <2> DEFINE P == {Payloads[t] : t \in Sessions}
  <2>1. Payloads[s] \in P
    BY Zenon
  <2>2. Sendable = UNION P
    BY Zenon DEF Sendable
  <2> HIDE DEF P
  <2> QED
    BY <2>1, <2>2, Zenon
<1> QED
  BY <1>1, Zenon DEF Messages

LEMMA AssembleStep ==
    ASSUME Inv, ErasureCode, Induction, CountingFacts, PartCount, Assemble
    PROVE  Inv'
<1> USE DEF Inv
<1>a. PICK f : f = rx.packet
  OBVIOUS
<1>b. PICK id : id = f.id
  OBVIOUS
<1>c. PICK k : k = K(id)
  OBVIOUS
<1> DEFINE m == sent[k].msg
           p == sent[k].parity
           d == data_count(m)
<1>1. PICK r : /\ r = Recovered(incoming[id])
               /\ rx.pc = "assemble" /\ id \in DOMAIN incoming
               /\ incoming' = [incoming EXCEPT ![id] = r]
               /\ IF r.total >= 2 /\ Complete(r)
                  THEN /\ delivered' = [delivered EXCEPT ![id] =
                                          Append(@, build_msg(r.fragments, r.sizes, r.data))]
                       /\ rx' = [rx EXCEPT !.pc = "complete"]
                  ELSE rx' = [pc |-> "idle"] /\ delivered' = delivered
  BY <1>a, <1>b, Zenon DEF Assemble
<1>2. UNCHANGED sender /\ completed' = completed /\ arrived' = arrived /\ enough' = enough
  BY Zenon DEF Assemble
<1>3. rx.pc # "idle" /\ rx.pc # "complete" /\ rx.pc \notin {"index", "store"}
  BY <1>1
<1>4. /\ rx = [pc |-> rx.pc, packet |-> f] /\ id \in Ids /\ id \notin DOMAIN completed
      /\ Open(k) /\ Fits(k) /\ k \in DOMAIN sent
  BY <1>3, <1>a, <1>b, <1>c, RxFacts, Zenon
<1>5. \A j : Busy(j) <=> j = id
  BY <1>3, <1>a, <1>b, <1>c, RxFacts, Zenon
<1>6. \A j \in DOMAIN incoming : Kept(j)
  BY <1>1, KeptFacts
<1>7. PICK S : S = DOMAIN incoming[id].fragments
  OBVIOUS
<1>8. PICK a : a = incoming[id].age
  OBVIOUS
<1>9. Recent(a, k) /\ S \subseteq Fragments(k) /\ incoming[id] = Holding(m, p, S, a)
  BY <1>1, <1>6, <1>7, <1>8, <1>c, Zenon DEF Kept
<1>10. k[1] \in Sessions /\ m \in Payloads[k[1]] /\ p \in ParityCounts(d)
  BY <1>4, SentFacts, Zenon
<1>11. Holding(m, p, S, a) # Blank /\ d + p >= 2 /\ d \in Nat \ {0}
  <2> HIDE DEF m, p
  <2>1. d \in Nat \ {0} /\ Holding(m, p, S, a) # Blank
    BY <1>10, NotBlank, Zenon
  <2>2. d + p >= 2
    BY <1>10, NotBlank, Zenon
  <2> QED
    BY <2>1, <2>2, Zenon
<1>12. /\ r.total = d + p /\ r.data = d /\ r.age = a /\ Cardinality(S) \in Nat
       /\ Cardinality(S) < d => r = Holding(m, p, S, a) /\ ~Complete(r)
       /\ Cardinality(S) >= d => Complete(r) /\ AllParts(m, r.fragments, r.sizes)
  <2>1. S \in SUBSET (0..(d + p - 1))
    BY <1>9, Zenon DEF Fragments
  <2>2. r = Recovered(Holding(m, p, S, a))
    BY <1>1, <1>9, Zenon
  <2>3. Recovers(m, p, S, a)
    <3> HIDE DEF m, p
    <3> QED
      BY <1>10, <2>1, RecoveredFacts, Zenon
  <2> HIDE DEF m, p
  <2> QED
    BY <2>2, <2>3, Zenon DEF Recovers
<1>13. \A j : j = id => Part(j) = S /\ Seen(j) = S
  <2>1. incoming[id] # Blank
    BY <1>9, <1>11, Zenon
  <2> QED
    BY <1>1, <1>3, <1>7, <2>1, Zenon DEF Part, Seen
<1>14. k \in enough <=> Cardinality(S) >= d
  <2>1. Tracked(id)
    BY <1>4, Zenon DEF HistoryInv
  <2>2. k \notin enough => Cardinality(S) < d
    <3> HAVE k \notin enough
    <3>1. S = arrived[k] /\ k \in DOMAIN arrived
      BY <1>4, <1>13, <1>c, <2>1, Zenon DEF Tracked, HistoryInv
    <3> QED
      BY <3>1, Zenon DEF HistoryInv
  <2>3. k \in enough => Cardinality(S) >= d
    BY <1>3, <1>4, <1>13, <1>c, <2>1, ZenonT(30) DEF Tracked
  <2>4. Cardinality(S) < d => ~(Cardinality(S) >= d)
    <3> HIDE DEF d
    <3> QED
      BY <1>11, <1>12
  <2> QED
    BY <2>2, <2>3, <2>4, Zenon
<1>15. /\ DOMAIN incoming' = DOMAIN incoming /\ incoming'[id] = r
       /\ \A j \in DOMAIN incoming : j # id => incoming'[j] = incoming[j]
  BY <1>1, Zenon
<1>16. ASSUME NEW j, j # id PROVE Part(j)' = Part(j)
  BY <1>15, <1>16, Zenon DEF Part
<1>17. CompletedInv'
  BY <1>2, SameSender, Zenon DEF CompletedInv
<1>18. CASE Cardinality(S) < d
  <2>1. r = incoming[id] /\ ~Complete(r) /\ k \notin enough
    <3>1. ~(Cardinality(S) >= d)
      <4> HIDE DEF d
      <4> QED
        BY <1>11, <1>12, <1>18
    <3> QED
      BY <1>9, <1>12, <1>14, <1>18, <3>1, ZenonT(30)
  <2>2. rx' = [pc |-> "idle"] /\ delivered' = delivered
    BY <1>1, <2>1, Zenon
  <2>3. rx'.pc = "idle" /\ \A j : ~Busy(j)'
    <3>1. rx'.pc = "idle"
      BY <2>2
    <3> QED
      BY <3>1, Zenon DEF Busy
  <2>4. RxInv'
    BY <2>3, Zenon DEF RxInv
  <2>5. EntryInv'
    <3>1. ASSUME NEW j \in DOMAIN incoming PROVE Kept(j)'
      <4>1. incoming'[j] = incoming[j]
        BY <1>15, <2>1, Zenon
      <4> QED
        BY <1>2, <1>6, <4>1, KeptSame, Zenon
    <3> QED
      BY <1>2, <1>15, <3>1, SameSender, Zenon DEF EntryInv
  <2>6. \A j \in Ids : Tracked(j)'
    <3>1. ASSUME NEW j \in Ids, j # id PROVE Tracked(j)'
      <4>1. Seen(j)' = Seen(j)
        BY <1>5, <1>16, <2>3, <3>1, Zenon DEF Seen
      <4>2. Tracked(j) /\ ~Busy(j)
        BY <1>5, <3>1, Zenon DEF HistoryInv
      <4> QED
        BY <1>2, <4>1, <4>2, TrackedSame, Zenon
    <3>2. ASSUME NEW j, j = id PROVE Tracked(j)'
      <4>1. Part(j)' = Part(j)
        BY <1>1, <1>15, <2>1, <3>2, Zenon DEF Part
      <4>2. Seen(j)' = S
        BY <1>13, <2>3, <3>2, <4>1, Zenon DEF Seen
      <4>3. S = arrived[k]
        <5>1. Tracked(id)
          BY <1>4, Zenon DEF HistoryInv
        <5> QED
          BY <1>4, <1>13, <1>c, <2>1, <5>1, Zenon DEF Tracked
      <4>4. K(j)' = k
        BY <1>2, <1>c, <3>2, SameSender, Zenon
      <4> QED
        BY <1>2, <2>1, <4>2, <4>3, <4>4, Zenon DEF Tracked
    <3> QED
      BY <3>1, <3>2, Zenon
  <2>7. \A j \in Ids : Pending(j)' = Pending(j)
    <3>1. \A j : Pending(j)' = 0
      BY <2>3, Zenon DEF Pending
    <3>2. \A j : Pending(j) = 0
      BY <1>5, <1>c, <2>1, Zenon DEF Pending
    <3> QED
      BY <3>1, <3>2, Zenon
  <2> QED
    BY <1>2, <1>17, <2>2, <2>4, <2>5, <2>6, <2>7, SameHistory, SameCount, ZenonT(30)
<1>19. CASE Cardinality(S) >= d
  <2>1. k \in enough /\ Complete(r) /\ AllParts(m, r.fragments, r.sizes) /\ r.total >= 2
    BY <1>11, <1>12, <1>14, <1>19, Zenon
  <2>2. /\ delivered' = [delivered EXCEPT ![id] =
                           Append(@, build_msg(r.fragments, r.sizes, r.data))]
        /\ rx' = [rx EXCEPT !.pc = "complete"]
    BY <1>1, <2>1, Zenon
  <2>3. rx'.pc = "complete" /\ rx'.packet = f /\ rx' = [pc |-> "complete", packet |-> f]
    BY <1>4, <2>2
  <2>4. rx'.pc # "idle" /\ rx'.pc \notin {"index", "store"} /\ \A j : Busy(j)' <=> Busy(j)
    <3>1. rx'.pc # "idle" /\ rx'.pc \notin {"index", "store"}
      BY <2>3
    <3> QED
      BY <1>3, <1>a, <2>3, <3>1, Zenon DEF Busy
  <2>5. RxInv'
    BY <1>2, <1>3, <1>a, <1>b, <1>c, <2>1, <2>3, SameSender, Zenon DEF RxInv
  <2>6. EntryInv'
    <3>1. ASSUME NEW j \in DOMAIN incoming, j # id PROVE Kept(j)'
      BY <1>2, <1>6, <1>15, <3>1, KeptSame, Zenon
    <3>2. ASSUME NEW j, j = id PROVE Busy(j)' /\ Recent(incoming[j].age, K(j))'
      <4>1. incoming'[j].age = a /\ K(j)' = k /\ Recent(a, k)'
        BY <1>2, <1>9, <1>12, <1>15, <1>c, <3>2, SameSender, Zenon
      <4> QED
        BY <1>5, <2>4, <3>2, <4>1, Zenon DEF Recent, Open
    <3> QED
      BY <1>2, <1>15, <2>3, <3>1, <3>2, SameSender, Zenon DEF EntryInv
  <2>7. \A j \in Ids : Tracked(j)'
    <3>1. ASSUME NEW j \in Ids, j # id PROVE Tracked(j)'
      <4>1. Seen(j)' = Seen(j)
        BY <1>3, <1>16, <2>4, <3>1, Zenon DEF Seen
      <4>2. Tracked(j) /\ ~Busy(j)
        BY <1>5, <3>1, Zenon DEF HistoryInv
      <4> QED
        BY <1>2, <4>1, <4>2, TrackedSame, Zenon
    <3>2. ASSUME NEW j, j = id PROVE Tracked(j)'
      <4>1. K(j)' = k /\ Busy(j)' /\ k \in enough'
        BY <1>2, <1>5, <1>c, <2>1, <2>4, <3>2, SameSender, Zenon
      <4> QED
        BY <2>3, <4>1, Zenon DEF Tracked
    <3> QED
      BY <3>1, <3>2, Zenon
  <2> DEFINE b == build_msg(r.fragments, r.sizes, r.data)
  <2>8. b = IF Len(m) <= MaxMessageBytes THEN m ELSE <<>>
    <3>1. r.data = data_count(m)
      BY <1>12, Zenon
    <3>2. BuiltFrom(m, r.fragments, r.sizes)
      <4> HIDE DEF m
      <4> QED
        BY <1>10, <2>1, BuildFacts, Zenon
    <3> QED
      BY <3>1, <3>2, Zenon DEF BuiltFrom
  <2>9. b \in Messages /\ (AllFit => b = m)
    <3>1. m \in Messages /\ <<>> \in Messages
      BY <1>10, KnownMessages, Zenon
    <3>2. AllFit => Len(m) <= MaxMessageBytes
      BY <1>10, Zenon DEF AllFit
    <3> HIDE DEF b, m
    <3> QED
      BY <2>8, <3>1, <3>2, Zenon
  <2> HIDE DEF b
  <2>10. /\ delivered \in [Ids -> Seq(Messages)] /\ delivered[id] \in Seq(Messages)
         /\ \A j \in Ids : Counted(j)
    BY <1>4, Zenon DEF CountInv
  <2> DEFINE t == delivered[id]
             t1 == Append(t, b)
  <2>11. /\ t1 \in Seq(Messages) /\ Len(t1) = Len(t) + 1 /\ Len(t) \in Nat
         /\ \A i \in 1..Len(t) : t1[i] = t[i]
         /\ t1[Len(t) + 1] = b
    <3>1. t \in Seq(Messages)
      BY <2>10, Zenon
    <3> HIDE DEF t
    <3>2. Len(t) \in Nat
      BY <3>1, LenFacts, Zenon
    <3>3. t1 \in Seq(Messages) /\ Len(t1) = Len(t) + 1
      BY <2>9, <3>1, AppendFacts, Zenon
    <3>4. t1[Len(t) + 1] = b
      BY <2>9, <3>1, AppendFacts, Zenon
    <3>5. \A i \in 1..Len(t) : t1[i] = t[i]
      <4>1. b \in Messages
        BY <2>9, Zenon
      <4> QED
        BY <3>1, <4>1, SMTT(30)
    <3> QED
      BY <3>2, <3>3, <3>4, <3>5, Zenon
  <2>12. /\ delivered'[id] = t1 /\ delivered' \in [Ids -> Seq(Messages)]
         /\ \A j \in Ids : j # id => delivered'[j] = delivered[j]
    <3>1. delivered' = [delivered EXCEPT ![id] = t1]
      BY <2>2, Zenon DEF b
    <3> HIDE DEF t1
    <3> QED
      BY <1>4, <2>10, <2>11, <3>1, Zenon
  <2> HIDE DEF t, t1
  <2>13. ASSUME NEW j \in Ids, j # id PROVE Counted(j)'
    <3>1. Pending(j) = 0 /\ Pending(j)' = 0
      BY <1>5, <2>4, <2>13, Zenon DEF Pending
    <3> QED
      BY <1>2, <2>10, <2>12, <2>13, <3>1, CountedSame, Zenon
  <2>14. ASSUME NEW j, j = id PROVE Counted(j)'
    <3> DEFINE c == Cardinality(Sent(id) \cap enough)
    <3>1. Pending(j) = 1 /\ Pending(j)' = 0
      <4>1. Pending(j) = 1
        BY <1>3, <1>5, <1>c, <2>1, <2>14, Zenon DEF Pending
      <4>2. Pending(j)' = 0
        BY <2>3, Zenon DEF Pending
      <4> QED
        BY <4>1, <4>2, Zenon
    <3>2. /\ IsFiniteSet(Sent(id) \cap enough) /\ Len(t) + 1 <= c
          /\ AllFit => Len(t) + 1 = c
          /\ AllFit => \A i \in 1..Len(t) : \E q \in Sent(id) : sent[q].msg = t[i]
      BY <1>4, <2>10, <2>14, <3>1, Zenon DEF Counted, t
    <3>3. Len(t1) + 0 = Len(t) + 1 /\ Len(t1) = Len(t) + 1
      BY <2>11
    <3>4. AllFit => \A i \in 1..Len(t1) : \E q \in Sent(id) : sent[q].msg = t1[i]
      <4> SUFFICES ASSUME AllFit, NEW i \in 1..Len(t1)
                   PROVE  \E q \in Sent(id) : sent[q].msg = t1[i]
        BY Zenon
      <4>1. i \in 1..Len(t) \/ i = Len(t) + 1
        BY <2>11, <3>3
      <4>2. k \in Sent(id) /\ sent[k].msg = b
        <5>1. k[2] = id
          BY <1>c, KeyFacts, Zenon
        <5> QED
          BY <1>4, <2>9, <5>1, Zenon DEF Sent
      <4> QED
        BY <2>11, <3>2, <4>1, <4>2, Zenon
    <3>5. sent' = sent /\ Sent(j)' = Sent(id) /\ delivered'[j] = t1
      BY <1>2, <2>12, <2>14, SameSender, Zenon
    <3>6. Len(t1) + Pending(j)' = Len(t) + 1
      BY <3>1, <3>3, Zenon
    <3> QED
      BY <1>2, <3>2, <3>4, <3>5, <3>6, Zenon DEF Counted
  <2>15. CountInv'
    BY <2>12, <2>13, <2>14, Zenon DEF CountInv
  <2> QED
    BY <1>2, <1>17, <2>5, <2>6, <2>7, <2>15, SameHistory, Zenon
<1> QED
  <2>1. Cardinality(S) < d \/ Cardinality(S) >= d
    <3> HIDE DEF d
    <3> QED
      BY <1>11, <1>12
  <2> QED
    BY <1>18, <1>19, <2>1, ZenonT(30)

-----------------------------------------------------------------------------
(***************************************************************************)
(* The message moves from m_incoming to m_completed.                       *)
(***************************************************************************)

LEMMA FinishStep ==
    ASSUME Inv, Finish
    PROVE  Inv'
<1> USE DEF Inv
<1>a. PICK id : id = rx.packet.id
  OBVIOUS
<1>b. PICK k : k = K(id)
  OBVIOUS
<1>1. /\ rx.pc = "complete" /\ completed' = With(completed, id, 0)
      /\ incoming' = Without(incoming, {id}) /\ rx' = [pc |-> "idle"]
  BY <1>a, Zenon DEF Finish
<1>2. /\ UNCHANGED sender /\ arrived' = arrived /\ enough' = enough
      /\ delivered' = delivered
  BY Zenon DEF Finish, history
<1>3. rx.pc # "idle" /\ rx.pc \notin {"index", "store"} /\ rx'.pc = "idle"
  BY <1>1
<1>4. id \in Ids /\ Open(k) /\ k \in enough
  BY <1>1, <1>3, <1>a, <1>b, RxFacts, Zenon
<1>5. \A j : (Busy(j) <=> j = id) /\ ~Busy(j)'
  BY <1>3, <1>a, Zenon DEF Busy
<1>6. /\ DOMAIN completed' = DOMAIN completed \cup {id} /\ completed'[id] = 0
      /\ \A j \in DOMAIN completed : j # id => completed'[j] = completed[j]
  BY <1>1, Zenon DEF With
<1>7. /\ DOMAIN incoming' = DOMAIN incoming \ {id}
      /\ \A j \in DOMAIN incoming : j # id => incoming'[j] = incoming[j]
  BY <1>1, Zenon DEF Without
<1>8. RxInv'
  BY <1>3, Zenon DEF RxInv
<1>9. EntryInv'
  <2>1. ASSUME NEW j \in DOMAIN incoming, j # id PROVE Kept(j)'
    <3>1. Kept(j)
      BY <1>5, <2>1, KeptFacts, Zenon
    <3> QED
      BY <1>2, <1>7, <2>1, <3>1, KeptSame, Zenon
  <2>2. ASSUME NEW j \in DOMAIN incoming, j # id
        PROVE  j \in Ids /\ j \notin DOMAIN completed' /\ K(j)' \in DOMAIN sent'
    BY <1>2, <1>6, <2>2, SameSender, Zenon DEF EntryInv
  <2> QED
    BY <1>7, <2>1, <2>2, Zenon DEF EntryInv
<1>10. CompletedInv'
  <2>1. ASSUME NEW j \in DOMAIN completed, j # id
        PROVE  j \in Ids /\ K(j)' \in enough' /\ Recent(completed[j], K(j))'
    <3>1. j \in Ids /\ K(j) \in enough /\ Recent(completed[j], K(j))
      BY Zenon DEF CompletedInv
    <3>2. completed'[j] = completed[j] /\ K(j)' = K(j)
      BY <1>2, <1>6, <2>1, SameSender, Zenon
    <3> QED
      BY <1>2, <3>1, <3>2, SameSender, Zenon DEF Recent, Open
  <2>2. ASSUME NEW j, j = id
        PROVE  j \in Ids /\ K(j)' \in enough' /\ Recent(completed[j], K(j))'
    <3>1. Recent(0, k)
      BY <1>4, OpenFacts, Zenon
    <3>2. completed'[j] = 0 /\ K(j)' = k
      BY <1>2, <1>6, <1>b, <2>2, SameSender, Zenon
    <3> QED
      BY <1>2, <1>4, <2>2, <3>1, <3>2, SameSender, Zenon DEF Recent, Open
  <2> QED
    BY <1>6, <2>1, <2>2, Zenon DEF CompletedInv
<1>11. \A j \in Ids : Tracked(j)'
  <2>1. ASSUME NEW j \in Ids, j # id PROVE Tracked(j)'
    <3>1. Part(j)' = Part(j)
      BY <1>7, <2>1, Zenon DEF Part
    <3>2. Seen(j)' = Seen(j)
      BY <1>5, <2>1, <3>1, Zenon DEF Seen
    <3>3. Tracked(j) /\ ~Busy(j)
      BY <1>5, <2>1, Zenon DEF HistoryInv
    <3> QED
      BY <1>2, <1>6, <3>2, <3>3, TrackedSame, Zenon
  <2>2. ASSUME NEW j, j = id PROVE Tracked(j)'
    <3>1. K(j)' = k
      BY <1>2, <1>b, <2>2, SameSender, Zenon
    <3> QED
      BY <1>2, <1>4, <1>6, <2>2, <3>1, Zenon DEF Tracked
  <2> QED
    BY <2>1, <2>2, Zenon
<1>12. \A j \in Ids : Pending(j)' = Pending(j)
  <2>1. \A j : Pending(j) = 0 /\ Pending(j)' = 0
    BY <1>1, <1>5, Zenon DEF Pending
  <2> QED
    BY <2>1, Zenon
<1> QED
  BY <1>2, <1>8, <1>9, <1>10, <1>11, <1>12, SameHistory, SameCount, Zenon

-----------------------------------------------------------------------------
(***************************************************************************)
(* check_offline: what it forgets is of messages none of whose fragments   *)
(* can still arrive, or was never filled.                                  *)
(***************************************************************************)

LEMMA RecentIsYoung ==
    ASSUME SenderInv, NEW k, NEW age, Open(k), Recent(age, k)
    PROVE  ~(age >= DeadTicks)
<1>1. age \in 0..DeadTicks /\ age <= sent[k].age
  BY Zenon DEF Recent
<1>2. sent[k].age \in Nat /\ sent[k].age <= Lifetime
  BY OpenFacts, Zenon
<1> QED
  BY <1>1, <1>2, TimeFacts

LEMMA ExpireStep ==
    ASSUME Inv, Expire
    PROVE  Inv'
<1> USE DEF Inv
<1>1. /\ UNCHANGED sender /\ arrived' = arrived /\ enough' = enough
      /\ delivered' = delivered /\ rx' = rx
  BY Zenon DEF Expire, history
<1>2. /\ DOMAIN incoming' = DOMAIN incoming \ Old(incoming)
      /\ \A j \in DOMAIN incoming' : incoming'[j] = incoming[j]
  BY Zenon DEF Expire, Without
<1>3. /\ DOMAIN completed' = DOMAIN completed \ OldCompleted
      /\ \A j \in DOMAIN completed' : completed'[j] = completed[j]
  BY Zenon DEF Expire, Without
<1>4. \A j : Busy(j)' <=> Busy(j)
  BY <1>1, Zenon DEF Busy
<1>5. RxInv'
  <2>1. CASE rx.pc = "idle"
    BY <1>1, <2>1, Zenon DEF RxInv
  <2>2. CASE rx.pc # "idle"
    BY <1>1, <1>3, <2>2, SameSender, Zenon DEF RxInv
  <2> QED
    BY <2>1, <2>2, Zenon
<1>6. EntryInv'
  <2> SUFFICES ASSUME NEW j \in DOMAIN incoming'
               PROVE  /\ j \in Ids /\ j \notin DOMAIN completed' /\ K(j)' \in DOMAIN sent'
                      /\ \/ incoming'[j] = Blank /\ rx'.pc = "store" /\ Busy(j)'
                         \/ rx'.pc = "complete" /\ Busy(j)' /\ Recent(incoming[j].age, K(j))'
                         \/ Kept(j)'
    BY Zenon DEF EntryInv, Blank
  <2>1. j \in DOMAIN incoming /\ incoming'[j] = incoming[j]
    BY <1>2, Zenon
  <2>2. Kept(j) => Kept(j)'
    BY <1>1, <2>1, KeptSame, Zenon
  <2>3. Recent(incoming[j].age, K(j)) => Recent(incoming[j].age, K(j))'
    BY <1>1, <2>1, SameSender, Zenon DEF Recent, Open
  <2> QED
    BY <1>1, <1>3, <1>4, <2>1, <2>2, <2>3, SameSender, Zenon DEF EntryInv
<1>7. CompletedInv'
  <2> SUFFICES ASSUME NEW j \in DOMAIN completed'
               PROVE  j \in Ids /\ K(j)' \in enough' /\ Recent(completed[j], K(j))'
    BY Zenon DEF CompletedInv
  <2>1. j \in Ids /\ K(j) \in enough /\ Recent(completed[j], K(j))
    BY <1>3, Zenon DEF CompletedInv
  <2>2. completed'[j] = completed[j] /\ K(j)' = K(j)
    BY <1>1, <1>3, SameSender, Zenon
  <2> QED
    BY <1>1, <2>1, <2>2, SameSender, Zenon DEF Recent, Open
<1>8. ASSUME NEW j \in Ids PROVE Tracked(j)'
  <2>1. CASE ~Open(K(j))
    <3>1. ~Open(K(j))'
      BY <1>1, <2>1, SameSender, Zenon DEF Open
    <3> QED
      BY <3>1, Zenon DEF Tracked
  <2>2. CASE Open(K(j))
    <3>1. j \in DOMAIN completed => j \in DOMAIN completed'
      <4> HAVE j \in DOMAIN completed
      <4>1. Recent(completed[j], K(j))
        BY Zenon DEF CompletedInv
      <4>2. ~(completed[j] >= DeadTicks)
        BY <2>2, <4>1, RecentIsYoung, Zenon
      <4> QED
        BY <1>3, <4>2, Zenon DEF OldCompleted
    <3>2. ASSUME j \in DOMAIN incoming, incoming[j] # Blank
          PROVE  j \in DOMAIN incoming'
      <4>1. Recent(incoming[j].age, K(j))
        BY <3>2, Zenon DEF EntryInv, Kept
      <4>2. ~(incoming[j].age >= DeadTicks)
        BY <2>2, <4>1, RecentIsYoung, Zenon
      <4> QED
        BY <1>2, <3>2, <4>2, Zenon DEF Old
    <3>3. Part(j)' = Part(j)
      <4>1. Blank' = Blank
        BY Zenon DEF Blank
      <4>2. CASE j \in DOMAIN incoming /\ incoming[j] # Blank
        BY <1>2, <3>2, <4>1, <4>2, Zenon DEF Part
      <4>3. CASE ~(j \in DOMAIN incoming /\ incoming[j] # Blank)
        BY <1>2, <4>1, <4>3, Zenon DEF Part
      <4> QED
        BY <4>2, <4>3, Zenon
    <3>4. Seen(j)' = Seen(j)
      BY <1>1, <1>4, <3>3, Zenon DEF Seen
    <3>5. Tracked(j)
      BY Zenon DEF HistoryInv
    <3> QED
      BY <1>1, <1>4, <3>1, <3>4, <3>5, TrackedSame, Zenon
  <2> QED
    BY <2>1, <2>2, Zenon
<1>9. \A j \in Ids : Pending(j)' = Pending(j)
  <2> SUFFICES ASSUME NEW j \in Ids PROVE Pending(j)' = Pending(j)
    OBVIOUS
  <2>1. K(j)' = K(j) /\ (Busy(j)' <=> Busy(j))
    BY <1>1, <1>4, SameSender, Zenon
  <2>2. (K(j) \in enough)' <=> K(j) \in enough
    BY <1>1, <2>1, Zenon
  <2> QED
    BY <1>1, <2>1, <2>2, Zenon DEF Pending
<1> QED
  BY <1>1, <1>5, <1>6, <1>7, <1>8, <1>9, SameHistory, SameCount, Zenon

-----------------------------------------------------------------------------
(***************************************************************************)
(* The clock moves on: all ages grow together.                             *)
(***************************************************************************)

LEMMA TickSender ==
    ASSUME SenderInv, Tick
    PROVE  /\ SenderInv' /\ DOMAIN sent' = DOMAIN sent
           /\ \A id : K(id)' = K(id) /\ Sent(id)' = Sent(id)
           /\ \A k \in DOMAIN sent : /\ sent'[k].msg = sent[k].msg
                                     /\ sent'[k].parity = sent[k].parity
           /\ \A k \in DOMAIN sent : Fragments(k)' = Fragments(k) /\ (Fits(k)' <=> Fits(k))
           /\ \A k : Open(k)' => Open(k) /\ sent'[k].age = sent[k].age + 1
           /\ silence \in Nat /\ silence' \in Nat /\ silence' <= silence + 1
<1>1. /\ session' = session /\ msg_id_out' = msg_id_out /\ silence' = Older(silence, RestartPause)
      /\ sent' = [k \in DOMAIN sent |-> [sent[k] EXCEPT !.age = Older(@, Lifetime + 1)]]
  BY Zenon DEF Tick
<1>2. DOMAIN sent' = DOMAIN sent
  BY <1>1, Zenon
<1>3. silence \in Nat /\ silence' \in Nat /\ silence' <= silence + 1
  <2>1. silence \in Nat
    BY Zenon DEF SenderInv
  <2> QED
    BY <1>1, <2>1 DEF Older
<1>4. ASSUME NEW k \in DOMAIN sent
      PROVE  /\ sent'[k].msg = sent[k].msg /\ sent'[k].parity = sent[k].parity
             /\ sent'[k].age = Older(sent[k].age, Lifetime + 1)
             /\ sent'[k] = [msg |-> sent'[k].msg, parity |-> sent'[k].parity,
                            age |-> sent'[k].age]
  <2>1. sent'[k] = [sent[k] EXCEPT !.age = Older(@, Lifetime + 1)]
    BY <1>1, Zenon
  <2>2. PICK e : e = sent[k]
    OBVIOUS
  <2>3. PICK g : g = Older(e.age, Lifetime + 1)
    OBVIOUS
  <2>4. e = [msg |-> e.msg, parity |-> e.parity, age |-> e.age]
    BY <2>2, Zenon DEF SenderInv
  <2>5. sent'[k] = [e EXCEPT !.age = g]
    BY <2>1, <2>2, <2>3, Zenon
  <2>6. sent'[k] = [msg |-> e.msg, parity |-> e.parity, age |-> g]
    BY <2>4, <2>5
  <2> QED
    BY <2>2, <2>3, <2>6
<1>5. ASSUME NEW k \in DOMAIN sent
      PROVE  /\ sent'[k].age \in 0..(Lifetime + 1)
             /\ sent'[k].age <= Lifetime => sent[k].age <= Lifetime /\ sent'[k].age = sent[k].age + 1
  <2>1. sent[k].age \in 0..(Lifetime + 1)
    BY SentFacts, Zenon
  <2>2. sent'[k].age = Older(sent[k].age, Lifetime + 1)
    BY <1>4, Zenon
  <2> QED
    BY <2>1, <2>2, TimeFacts DEF Older
<1>6. SenderInv'
  <2>1. /\ session' \in Sessions /\ msg_id_out' \in 1..(MaxMsg + 1) /\ silence' \in Nat
        /\ DOMAIN sent' \subseteq Sessions \X Ids
    BY <1>1, <1>2, <1>3, Zenon DEF SenderInv
  <2>2. \A id \in Ids : K(id)' \in DOMAIN sent' => id < msg_id_out'
    BY <1>1, <1>2, Zenon DEF SenderInv, K
  <2>3. ASSUME NEW k \in DOMAIN sent
        PROVE  /\ sent'[k].msg \in Payloads[k[1]]
               /\ sent'[k].parity \in ParityCounts(data_count(sent'[k].msg))
               /\ k[1] <= session'
    BY <1>1, <1>4, Zenon DEF SenderInv
  <2>4. ASSUME NEW k \in DOMAIN sent, sent'[k].age <= Lifetime
        PROVE  k[1] = session' /\ silence' <= sent'[k].age
    <3>1. sent[k].age <= Lifetime /\ sent'[k].age = sent[k].age + 1 /\ sent[k].age \in Nat
      BY <1>5, <2>4, SentFacts, Zenon
    <3>2. k[1] = session /\ silence <= sent[k].age
      BY <3>1, Zenon DEF SenderInv
    <3>3. silence' <= sent'[k].age
      BY <1>3, <3>1, <3>2
    <3> QED
      BY <1>1, <3>2, <3>3, Zenon
  <2> QED
    BY <1>2, <1>4, <1>5, <2>1, <2>2, <2>3, <2>4, Zenon DEF SenderInv
<1>7. \A id : K(id)' = K(id) /\ Sent(id)' = Sent(id)
  BY <1>1, <1>2, Zenon DEF K, Sent
<1>8. \A k \in DOMAIN sent : Fragments(k)' = Fragments(k) /\ (Fits(k)' <=> Fits(k))
  BY <1>4, Zenon DEF Fragments, Fits
<1>9. \A k : Open(k)' => Open(k) /\ sent'[k].age = sent[k].age + 1
  BY <1>2, <1>5, Zenon DEF Open
<1> QED
  BY <1>2, <1>3, <1>4, <1>6, <1>7, <1>8, <1>9, Zenon

LEMMA TickRecent ==
    ASSUME SenderInv, Tick, NEW k, NEW age, Recent(age, k), ~(age >= DeadTicks)
    PROVE  Recent(age + 1, k)' /\ age \in Nat
<1>1. age \in 0..DeadTicks /\ silence <= Lifetime + age /\ age + 1 \in 0..DeadTicks /\ age \in Nat
  BY TimeFacts DEF Recent
<1>2. silence' <= Lifetime + (age + 1)
  <2>1. silence \in Nat /\ silence' \in Nat /\ silence' <= silence + 1
    BY TickSender, Zenon
  <2> QED
    BY <1>1, <2>1, TimeFacts
<1>3. ASSUME Open(k)' PROVE age + 1 <= sent'[k].age
  <2>1. Open(k) /\ sent'[k].age = sent[k].age + 1
    BY <1>3, TickSender, Zenon
  <2>2. age <= sent[k].age /\ sent[k].age \in Nat
    BY <2>1, OpenFacts, Zenon DEF Recent
  <2> QED
    BY <1>1, <2>1, <2>2
<1> QED
  BY <1>1, <1>2, <1>3, Zenon DEF Recent

LEMMA AgedHolding ==
    ASSUME NEW m, NEW p, NEW S, NEW age
    PROVE  [Holding(m, p, S, age) EXCEPT !.age = @ + 1] = Holding(m, p, S, age + 1)
<1> DEFINE t == data_count(m) + p
           d == data_count(m)
           fr == [i \in S |-> Content(m, i)]
           sz == [i \in S |-> Size(m, i)]
<1>1. \A a : Holding(m, p, S, a) = [total |-> t, data |-> d, fragments |-> fr, sizes |-> sz, age |-> a]
  BY Zenon DEF Holding
<1> HIDE DEF t, d, fr, sz
<1> QED
  BY <1>1

LEMMA TickKept ==
    ASSUME SenderInv, Tick, NEW id \in DOMAIN incoming, K(id) \in DOMAIN sent, Kept(id)
    PROVE  Kept(id)' /\ Part(id)' = Part(id)
<1>a. PICK k : k = K(id)
  OBVIOUS
<1>b. PICK a : a = incoming[id].age
  OBVIOUS
<1>c. PICK S : S = DOMAIN incoming[id].fragments
  OBVIOUS
<1>d. PICK m : m = sent[k].msg
  OBVIOUS
<1>e. PICK p : p = sent[k].parity
  OBVIOUS
<1>1. Recent(a, k) /\ S \subseteq Fragments(k) /\ incoming[id] = Holding(m, p, S, a)
  BY <1>a, <1>b, <1>c, <1>d, <1>e, Zenon DEF Kept
<1>2. ~(a >= DeadTicks)
  BY <1>b, Zenon DEF Tick, Old
<1>3. Recent(a + 1, k)'
  BY <1>1, <1>2, TickRecent, Zenon
<1>4. incoming'[id] = Holding(m, p, S, a + 1) /\ DOMAIN incoming' = DOMAIN incoming
  <2>1. incoming' = [j \in DOMAIN incoming |-> [incoming[j] EXCEPT !.age = @ + 1]]
    BY Zenon DEF Tick
  <2>2. incoming'[id] = [incoming[id] EXCEPT !.age = @ + 1]
    BY <2>1, Zenon
  <2>3. incoming'[id] = [Holding(m, p, S, a) EXCEPT !.age = @ + 1]
    BY <1>1, <2>2, Zenon
  <2>4. [Holding(m, p, S, a) EXCEPT !.age = @ + 1] = Holding(m, p, S, a + 1)
    BY AgedHolding
  <2> QED
    BY <2>1, <2>3, <2>4, Zenon
<1>5. incoming'[id].age = a + 1 /\ DOMAIN incoming'[id].fragments = S
  <2>1. /\ Holding(m, p, S, a + 1).age = a + 1
        /\ Holding(m, p, S, a + 1).fragments = [i \in S |-> Content(m, i)]
    BY DEF Holding
  <2> QED
    BY <1>4, <2>1, Zenon
<1>6. K(id)' = k /\ sent'[k].msg = m /\ sent'[k].parity = p /\ Fragments(k)' = Fragments(k)
  BY <1>a, <1>d, <1>e, TickSender, Zenon
<1>7. Kept(id)'
  <2>1. Recent(incoming[id].age, K(id))'
    BY <1>3, <1>5, <1>6, Zenon DEF Recent, Open
  <2>2. (DOMAIN incoming[id].fragments \subseteq Fragments(K(id)))'
    BY <1>1, <1>5, <1>6, Zenon DEF Fragments
  <2> QED
    BY <1>4, <1>5, <1>6, <2>1, <2>2, Zenon DEF Kept
<1>8. incoming[id] # Blank /\ incoming'[id] # Blank
  <2>1. k[1] \in Sessions /\ m \in Payloads[k[1]] /\ p \in ParityCounts(data_count(m))
    BY <1>a, <1>d, <1>e, SentFacts, Zenon
  <2> QED
    BY <1>1, <1>4, <2>1, NotBlank, Zenon
<1>9. Part(id)' = Part(id)
  <2>1. Part(id) = S
    BY <1>8, <1>c, Zenon DEF Part
  <2>2. Part(id)' = S
    BY <1>4, <1>5, <1>8, Zenon DEF Part, Blank
  <2> QED
    BY <2>1, <2>2, Zenon
<1> QED
  BY <1>7, <1>9, Zenon

LEMMA TickStep ==
    ASSUME Inv, Tick
    PROVE  Inv'
<1> USE DEF Inv
<1>1. /\ rx.pc = "idle" /\ rx' = rx /\ Old(incoming) = {} /\ OldCompleted = {}
      /\ completed' = [id \in DOMAIN completed |-> completed[id] + 1]
      /\ arrived' = arrived /\ enough' = enough /\ delivered' = delivered
  BY Zenon DEF Tick, history
<1>2. DOMAIN completed' = DOMAIN completed /\ DOMAIN incoming' = DOMAIN incoming
  BY Zenon DEF Tick
<1>3. \A j : ~Busy(j) /\ ~Busy(j)'
  BY <1>1, Zenon DEF Busy
<1>4. RxInv'
  BY <1>1, Zenon DEF RxInv
<1>5. ASSUME NEW j \in DOMAIN incoming
      PROVE  /\ j \in Ids /\ j \notin DOMAIN completed /\ K(j)' \in DOMAIN sent'
             /\ Kept(j)' /\ Part(j)' = Part(j)
  <2>1. j \in Ids /\ j \notin DOMAIN completed /\ K(j) \in DOMAIN sent /\ Kept(j)
    BY <1>3, Zenon DEF EntryInv
  <2> QED
    BY <2>1, TickKept, TickSender, Zenon
<1>6. EntryInv'
  BY <1>2, <1>5, Zenon DEF EntryInv
<1>7. CompletedInv'
  <2> SUFFICES ASSUME NEW j \in DOMAIN completed
               PROVE  j \in Ids /\ K(j)' \in enough' /\ Recent(completed[j], K(j))'
    BY <1>2, Zenon DEF CompletedInv
  <2>1. PICK k : k = K(j)
    OBVIOUS
  <2>2. PICK a : a = completed[j]
    OBVIOUS
  <2>3. j \in Ids /\ k \in enough /\ Recent(a, k)
    BY <2>1, <2>2, Zenon DEF CompletedInv
  <2>4. ~(a >= DeadTicks)
    BY <1>1, <2>2, Zenon DEF OldCompleted
  <2>5. Recent(a + 1, k)'
    BY <2>3, <2>4, TickRecent, Zenon
  <2>6. completed'[j] = a + 1 /\ K(j)' = k
    BY <1>1, <2>1, <2>2, TickSender, Zenon
  <2> QED
    BY <1>1, <2>3, <2>5, <2>6, Zenon DEF Recent, Open
<1>8. ASSUME NEW j \in Ids PROVE Tracked(j)'
  <2>1. PICK k : k = K(j)
    OBVIOUS
  <2>2. K(j)' = k
    BY <2>1, TickSender, Zenon
  <2>3. SUFFICES ASSUME Open(k)', Fits(k)'
                 PROVE  IF k \notin enough THEN Seen(j)' = arrived[k]
                        ELSE j \in DOMAIN completed'
    BY <1>1, <2>2, Zenon DEF Tracked, Open, Fits
  <2>4. Open(k) /\ k \in DOMAIN sent /\ Fits(k)
    BY <2>3, TickSender, OpenFacts, Zenon
  <2>5. Part(j)' = Part(j)
    <3>1. CASE j \in DOMAIN incoming
      BY <1>5, <3>1, Zenon
    <3>2. CASE j \notin DOMAIN incoming
      BY <1>2, <3>2, Zenon DEF Part
    <3> QED
      BY <3>1, <3>2, Zenon
  <2>6. Seen(j)' = Seen(j)
    BY <1>3, <2>5, Zenon DEF Seen
  <2>7. Tracked(j)
    BY Zenon DEF HistoryInv
  <2> QED
    BY <1>2, <1>3, <2>1, <2>4, <2>6, <2>7, Zenon DEF Tracked
<1>9. HistoryInv'
  <2>1. /\ enough' \subseteq DOMAIN sent' /\ DOMAIN arrived' = DOMAIN sent' \ enough'
        /\ DOMAIN arrived \subseteq DOMAIN sent
    BY <1>1, TickSender, Zenon DEF HistoryInv
  <2>2. ASSUME NEW k \in DOMAIN arrived
        PROVE  /\ arrived'[k] \subseteq Fragments(k)'
               /\ Cardinality(arrived'[k]) < data_count(sent'[k].msg)
    <3>1. arrived[k] \subseteq Fragments(k) /\ Cardinality(arrived[k]) < data_count(sent[k].msg)
      BY Zenon DEF HistoryInv
    <3>2. Fragments(k)' = Fragments(k) /\ sent'[k].msg = sent[k].msg
      BY <2>1, TickSender, Zenon
    <3> QED
      BY <1>1, <3>1, <3>2, Zenon
  <2> QED
    BY <1>1, <1>8, <2>1, <2>2, Zenon DEF HistoryInv
<1>10. CountInv'
  <2>1. ASSUME NEW j \in Ids PROVE Counted(j)'
    <3>1. Counted(j) /\ Pending(j) = 0 /\ Pending(j)' = 0
      BY <1>3, Zenon DEF CountInv, Pending
    <3>2. Sent(j)' = Sent(j) /\ \A k \in Sent(j) : sent'[k].msg = sent[k].msg
      <4>1. \A k \in Sent(j) : k \in DOMAIN sent
        BY Zenon DEF Sent
      <4> QED
        BY <4>1, TickSender, Zenon
    <3> QED
      BY <1>1, <3>1, <3>2, Zenon DEF Counted
  <2> QED
    BY <1>1, <2>1, Zenon DEF CountInv
<1> QED
  BY <1>4, <1>6, <1>7, <1>9, <1>10, TickSender, Zenon

-----------------------------------------------------------------------------
(***************************************************************************)
(* All steps together.                                                     *)
(***************************************************************************)

LEMMA InvInit ==
    ASSUME CountingFacts, Init
    PROVE  IInv
<1>1. /\ session = 0 /\ msg_id_out = 1 /\ silence = 0 /\ rx.pc = "idle" /\ undefined = FALSE
      /\ sent = Empty /\ incoming = Empty /\ completed = Empty /\ arrived = Empty
      /\ enough = {} /\ delivered = [id \in Ids |-> <<>>]
  BY DEF Init
<1>2. DOMAIN Empty = {}
  BY Zenon DEF Empty
<1>3. SenderInv
  <2>1. session \in Sessions /\ msg_id_out \in 1..(MaxMsg + 1) /\ silence \in Nat
    BY <1>1, TimeFacts DEF Sessions
  <2> QED
    BY <1>1, <1>2, <2>1, Zenon DEF SenderInv
<1>4. RxInv
  BY <1>1, Zenon DEF RxInv
<1>5. EntryInv /\ CompletedInv
  BY <1>1, <1>2, Zenon DEF EntryInv, CompletedInv
<1>6. HistoryInv
  BY <1>1, <1>2, Zenon DEF HistoryInv, Tracked, Open
<1>7. ASSUME NEW id \in Ids PROVE Counted(id)
  <2>1. delivered[id] = <<>> /\ Len(<<>>) = 0 /\ 1..0 = {}
    BY <1>1
  <2>2. Sent(id) \cap enough = {} /\ Pending(id) = 0
    BY <1>1, Zenon DEF Pending, Busy
  <2>3. IsFiniteSet({}) /\ Cardinality({}) = 0 /\ 0 + 0 = 0 /\ 0 <= 0
    BY DEF CountingFacts
  <2> QED
    BY <2>1, <2>2, <2>3, Zenon DEF Counted
<1>8. delivered \in [Ids -> Seq(Messages)]
  <2>1. <<>> \in Seq(Messages)
    OBVIOUS
  <2> QED
    BY <1>1, <2>1, Zenon
<1> QED
  BY <1>1, <1>3, <1>4, <1>5, <1>6, <1>7, <1>8, Zenon DEF IInv, Inv, CountInv

LEMMA InvStep ==
    ASSUME ErasureCode, QuietRestarts, Library, IInv, [Next]_vars
    PROVE  IInv'
<1>1. CASE UNCHANGED vars
  <2>1. /\ UNCHANGED sender /\ incoming' = incoming /\ completed' = completed /\ rx' = rx
        /\ undefined' = undefined /\ arrived' = arrived /\ enough' = enough
        /\ delivered' = delivered
    BY <1>1, Zenon DEF vars, receiver, history
  <2>2. ASSUME Inv PROVE Inv'
    <3> USE DEF Inv
    <3>1. \A j : (Busy(j)' <=> Busy(j)) /\ Part(j)' = Part(j)
      BY <2>1, Zenon DEF Busy, Part, Blank
    <3>2. \A j : Seen(j)' = Seen(j)
      BY <2>1, <3>1, Zenon DEF Seen
    <3>3. \A j \in Ids : Tracked(j)'
      BY <2>1, <2>2, <3>1, <3>2, TrackedSame, Zenon DEF HistoryInv
    <3>4. ASSUME NEW j PROVE Pending(j)' = Pending(j)
      <4>1. (K(j) \in enough)' <=> K(j) \in enough
        BY <2>1, SameSender, Zenon
      <4> QED
        BY <2>1, <3>1, <4>1, Zenon DEF Pending
    <3>5. RxInv'
      BY <2>1, <2>2, SameSender, Zenon DEF RxInv
    <3>6. EntryInv'
      BY <2>1, <2>2, <3>1, KeptSame, SameSender, Zenon DEF EntryInv
    <3>7. CompletedInv'
      BY <2>1, <2>2, SameSender, Zenon DEF CompletedInv
    <3> QED
      BY <2>1, <2>2, <3>3, <3>4, <3>5, <3>6, <3>7, SameHistory, SameCount, Zenon
  <2> QED
    BY <2>1, <2>2, Zenon DEF IInv
<1>2. CASE Dangling
  BY <1>2, Zenon DEF Dangling, IInv
<1>3. ASSUME undefined' = undefined, Inv => Inv'
      PROVE  IInv'
  BY <1>3, Zenon DEF IInv
<1>4. CASE Send
  BY <1>3, <1>4, SendStep, Zenon DEF Send, receiver, Library
<1>5. CASE Restart
  BY <1>3, <1>5, RestartStep, Zenon DEF Restart, receiver
<1>6. ASSUME NEW k \in DOMAIN sent, NEW idx \in Fragments(k), Arrive(k, idx)
      PROVE  IInv'
  BY <1>3, <1>6, ArriveStep, Zenon DEF Arrive, Library
<1>7. CASE Index
  BY <1>3, <1>7, IndexStep, Zenon DEF Index
<1>8. CASE Store
  BY <1>3, <1>8, StoreStep, Zenon DEF Store
<1>9. CASE Assemble
  BY <1>3, <1>9, AssembleStep, Zenon DEF Assemble, Library
<1>10. CASE Finish
  BY <1>3, <1>10, FinishStep, Zenon DEF Finish
<1>11. CASE Expire
  BY <1>3, <1>11, ExpireStep, Zenon DEF Expire
<1>12. CASE Tick
  BY <1>3, <1>12, TickStep, Zenon DEF Tick
<1> QED
  BY <1>1, <1>2, <1>4, <1>5, <1>6, <1>7, <1>8, <1>9, <1>10, <1>11, <1>12, Zenon
     DEF Next, ReceiverStep, Fragments

-----------------------------------------------------------------------------
(***************************************************************************)
(* No dangling reference in lite mode.                                     *)
(***************************************************************************)

\* In lite mode one thread does the receiving and the expiring, and an entry it
\* works on is there until it is done.
LiteInv ==
    /\ undefined \in BOOLEAN /\ (lite => ~undefined)
    /\ rx.pc = "idle" \/ rx = [pc |-> rx.pc, packet |-> rx.packet]
    /\ lite /\ rx.pc \in {"store", "assemble"} => rx.packet.id \in DOMAIN incoming

\* In lite mode no entry is used after check_offline erased it, so there the
\* other theorems hold of every state.
THEOREM LiteTheorem == Spec => [](lite => Defined)
<1>1. ASSUME Init PROVE LiteInv
  <2>1. undefined = FALSE /\ rx.pc = "idle" /\ rx.pc \notin {"store", "assemble"}
    BY <1>1 DEF Init
  <2> QED
    BY <2>1, Zenon DEF LiteInv
<1>2. ASSUME LiteInv, [Next]_vars PROVE LiteInv'
  <2>1. CASE UNCHANGED vars
    BY <1>2, <2>1, Zenon DEF vars, receiver, LiteInv
  <2>2. CASE Send \/ Restart
    <3>1. incoming' = incoming /\ rx' = rx /\ undefined' = undefined /\ lite' = lite
      BY <2>2, Zenon DEF Send, Restart, receiver
    <3> QED
      BY <1>2, <3>1, Zenon DEF LiteInv
  <2>3. ASSUME undefined' = undefined, lite' = lite, rx' = [pc |-> "idle"]
        PROVE  LiteInv'
    <3>1. rx'.pc = "idle" /\ rx'.pc \notin {"store", "assemble"}
      BY <2>3
    <3> QED
      BY <1>2, <2>3, <3>1, Zenon DEF LiteInv
  <2>4. ASSUME NEW k, NEW idx, Arrive(k, idx) PROVE LiteInv'
    <3>1. /\ undefined' = undefined /\ lite' = lite
          /\ \/ rx' = [pc |-> "idle"]
             \/ \E f : rx' = [pc |-> "index", packet |-> f]
      BY <2>4, Zenon DEF Arrive
    <3>2. ASSUME NEW f, rx' = [pc |-> "index", packet |-> f] PROVE LiteInv'
      <4>1. rx'.pc \notin {"store", "assemble"} /\ rx' = [pc |-> rx'.pc, packet |-> rx'.packet]
        BY <3>2
      <4> QED
        BY <1>2, <3>1, <3>2, <4>1, Zenon DEF LiteInv
    <3> QED
      BY <2>3, <3>1, <3>2, Zenon
  <2>5. ASSUME NEW c, undefined' = undefined, lite' = lite, rx.pc # "idle",
               rx' = [rx EXCEPT !.pc = c], rx.packet.id \in DOMAIN incoming'
        PROVE  LiteInv'
    <3>1. rx = [pc |-> rx.pc, packet |-> rx.packet]
      BY <1>2, <2>5, Zenon DEF LiteInv
    <3>2. rx' = [pc |-> rx'.pc, packet |-> rx'.packet] /\ rx'.packet = rx.packet
      BY <2>5, <3>1
    <3> QED
      BY <1>2, <2>5, <3>2, Zenon DEF LiteInv
  <2>6. CASE Index
    <3>1. undefined' = undefined /\ lite' = lite /\ rx' = [rx EXCEPT !.pc = "store"]
      BY <2>6, Zenon DEF Index
    <3>2. rx.packet.id \in DOMAIN incoming' /\ rx.pc = "index"
      BY <2>6, Zenon DEF Index, With
    <3>3. rx.pc # "idle"
      BY <3>2
    <3> QED
      BY <2>5, <3>1, <3>2, <3>3, Zenon
  <2>7. CASE Dangling
    <3>1. ~lite /\ lite' = lite /\ undefined' = TRUE /\ rx' = [pc |-> "idle"]
      BY <1>2, <2>7, Zenon DEF Dangling, LiteInv
    <3>2. rx'.pc = "idle"
      BY <3>1
    <3> QED
      BY <3>1, <3>2, Zenon DEF LiteInv
  <2>8. CASE Store \/ Assemble
    <3>1. /\ undefined' = undefined /\ lite' = lite /\ DOMAIN incoming' = DOMAIN incoming
          /\ rx.packet.id \in DOMAIN incoming
      BY <2>8, Zenon DEF Store, Assemble
    <3>2. rx' = [pc |-> "idle"] \/ \E c : rx' = [rx EXCEPT !.pc = c]
      BY <2>8, Zenon DEF Store, Assemble
    <3>3. rx.pc # "idle"
      BY <2>8 DEF Store, Assemble
    <3> QED
      BY <2>3, <2>5, <3>1, <3>2, <3>3, Zenon
  <2>9. CASE Finish
    BY <2>3, <2>9, Zenon DEF Finish
  <2>10. CASE Expire \/ Tick
    <3>1. rx' = rx /\ undefined' = undefined /\ lite' = lite /\ (lite => rx.pc = "idle")
      BY <2>10, Zenon DEF Expire, Tick
    <3>2. lite' => rx'.pc \notin {"store", "assemble"}
      BY <3>1
    <3> QED
      BY <1>2, <3>1, <3>2, Zenon DEF LiteInv
  <2> QED
    BY <1>2, <2>1, <2>2, <2>4, <2>6, <2>7, <2>8, <2>9, <2>10, Zenon DEF Next, ReceiverStep
<1>3. LiteInv => (lite => Defined)
  BY Zenon DEF LiteInv, Defined
<1> QED
  BY <1>1, <1>2, <1>3, PTL DEF Spec

-----------------------------------------------------------------------------
(***************************************************************************)
(* The facts of the library that were taken as assumptions so far.         *)
(***************************************************************************)

Sets == INSTANCE FiniteSetTheorems

LEMMA SameSets ==
    \A S : Sets!Cardinality(S) = Cardinality(S) /\ (Sets!IsFiniteSet(S) <=> IsFiniteSet(S))
<1>1. \A S : Sets!IsFiniteSet(S) <=> IsFiniteSet(S)
  BY Zenon DEF Sets!IsFiniteSet, IsFiniteSet
<1>2. \A S : Sets!Cardinality(S) = Cardinality(S)
  BY Zenon DEF Sets!Cardinality, Cardinality
<1> QED
  BY <1>1, <1>2, Zenon

\* What holds of 0 and, with a number, of the next one holds of all numbers:
\* there is no least number for which it does not.
LEMMA InductionHolds == Induction
<1> SUFFICES ASSUME NEW T \in SUBSET Nat, 0 \in T, \A n \in T : n + 1 \in T
             PROVE  T = Nat
  BY DEF Induction
<1> DEFINE M == Nat \ T
           Less == {ss \in Nat \X Nat : ss[1] < ss[2]}
<1>1. ASSUME M # {} PROVE FALSE
  <2>1. Sets!IsWellFoundedOn(Less, Nat)
    BY Sets!NatLessThanWellFounded DEF Sets!OpToRel
  <2>2. PICK x \in M : \A y \in M : ~(<<y, x>> \in Less)
    <3>1. M \subseteq Nat
      OBVIOUS
    <3> HIDE DEF M, Less
    <3> QED
      BY <1>1, <2>1, <3>1, Sets!WFMin, Zenon
  <2>3. x \in Nat /\ x # 0
    OBVIOUS
  <2>4. x - 1 \in Nat /\ <<x - 1, x>> \in Less
    BY <2>3
  <2>5. x - 1 \in T
    BY <2>2, <2>4
  <2>6. (x - 1) + 1 \in T
    BY <2>5
  <2> QED
    BY <2>3, <2>6
<1> QED
  BY <1>1, Zenon

LEMMA CountingHolds == CountingFacts
<1>1. IsFiniteSet({}) /\ Cardinality({}) = 0
  BY SameSets, Sets!FS_EmptySet, Zenon
<1>2. \A S : IsFiniteSet(S) => Cardinality(S) \in Nat
  BY SameSets, Sets!FS_CardinalityType, Zenon
<1>3. \A S, x : IsFiniteSet(S) =>
          /\ IsFiniteSet(S \cup {x})
          /\ x \notin S => Cardinality(S \cup {x}) = Cardinality(S) + 1
  BY SameSets, Sets!FS_AddElement, Zenon
<1>4. ASSUME NEW n \in Int, NEW S \in SUBSET (0..n) PROVE IsFiniteSet(S)
  <2>1. 0 \in Int
    OBVIOUS
  <2>2. Sets!IsFiniteSet(0..n)
    BY <2>1, Sets!FS_Interval, Zenon
  <2> QED
    BY <2>2, SameSets, Sets!FS_Subset, Zenon
<1> QED
  BY <1>1, <1>2, <1>3, <1>4, Zenon DEF CountingFacts

\* Shifted by d, the numbers of the parity fragments at hand are their indices.
LEMMA ShiftedCount ==
    ASSUME NEW d \in Nat, NEW Q \in SUBSET Nat, NEW T, IsFiniteSet(Q),
           T = {d + q : q \in Q}
    PROVE  IsFiniteSet(T) /\ Cardinality(T) = Cardinality(Q)
<1> DEFINE g == [q \in Q |-> d + q]
<1>1. g \in [Q -> T] /\ \A t \in T : \E q \in Q : g[q] = t
  BY Zenon
<1>2. \A a \in Q : \A b \in Q : g[a] = g[b] => a = b
  OBVIOUS
<1>3. DOMAIN g = Q
  BY Zenon
<1> HIDE DEF g
<1>4. Sets!IsInjective(g)
  BY <1>2, <1>3, Zenon DEF Sets!IsInjective
<1>5. g \in Sets!Bijection(Q, T)
  BY <1>1, <1>4, Zenon DEF Sets!Bijection, Sets!Injection, Sets!Surjection
<1>6. Sets!ExistsBijection(Q, T)
  BY <1>5, Zenon DEF Sets!ExistsBijection
<1> QED
  BY <1>6, SameSets, Sets!FS_Bijection, Zenon

LEMMA PartCountHolds == PartCount
<1> SUFFICES ASSUME NEW d \in Nat \ {0}, NEW p \in Nat, NEW S \in SUBSET (0..(d + p - 1))
             PROVE  Cardinality((0..(d - 1)) \ (S \cap 0..(d - 1)))
                            <= Cardinality({q \in 0..(p - 1) : d + q \in S})
                        <=> Cardinality(S) >= d
  BY Zenon DEF PartCount
<1> DEFINE W == 0..(d - 1)
           D == S \cap W
           Q == {q \in 0..(p - 1) : d + q \in S}
           T == {d + q : q \in Q}
<1>1. d - 1 \in Int /\ p - 1 \in Int /\ d + p - 1 \in Int
  OBVIOUS
<1>2. IsFiniteSet(S) /\ IsFiniteSet(D) /\ IsFiniteSet(Q)
  <2>1. D \in SUBSET (0..(d - 1)) /\ Q \in SUBSET (0..(p - 1))
    BY Zenon
  <2> HIDE DEF D, Q
  <2> QED
    BY <1>1, <2>1, CountingHolds, Zenon DEF CountingFacts
<1>3. S = D \cup T /\ D \cap T = {}
  <2>1. \A x \in S : x \in W \/ (x - d \in 0..(p - 1) /\ x = d + (x - d))
    OBVIOUS
  <2>2. \A q \in Q : d + q \in S /\ d + q \notin W
    OBVIOUS
  <2>3. \A x \in S : x \in W \/ x \in T
    BY <2>1, Zenon
  <2> HIDE DEF W
  <2> QED
    BY <2>2, <2>3, Zenon
<1>4. IsFiniteSet(T) /\ Cardinality(T) = Cardinality(Q)
  <2>1. Q \in SUBSET Nat /\ d \in Nat
    OBVIOUS
  <2> HIDE DEF Q
  <2> QED
    BY <1>2, <2>1, ShiftedCount, Zenon
<1>5. IsFiniteSet(W) /\ Cardinality(W) = d
  <2>1. 0 \in Int /\ ~(0 > d - 1) /\ (d - 1) - 0 + 1 = d
    OBVIOUS
  <2>2. /\ Sets!IsFiniteSet(W)
        /\ Sets!Cardinality(W) = IF 0 > d - 1 THEN 0 ELSE (d - 1) - 0 + 1
    BY <1>1, <2>1, Sets!FS_Interval, Zenon
  <2> HIDE DEF W
  <2> QED
    BY <2>1, <2>2, SameSets, Zenon
<1> HIDE DEF W, Q, T
<1>6. Cardinality(W \ D) = d - Cardinality(D)
  <2>1. W \cap D = D
    BY Zenon
  <2> HIDE DEF D
  <2> QED
    <3>1. Sets!Cardinality(W \ D) = Sets!Cardinality(W) - Sets!Cardinality(W \cap D)
      BY <1>5, SameSets, Sets!FS_Difference, Zenon
    <3> QED
      BY <1>5, <2>1, <3>1, SameSets, Zenon
<1>7. Cardinality(S) = Cardinality(D) + Cardinality(T)
  <2> HIDE DEF D
  <2>1. Cardinality(D \cup T) = Cardinality(D) + Cardinality(T) - Cardinality(D \cap T)
    BY <1>2, <1>4, SameSets, Sets!FS_Union, Zenon
  <2>2. Cardinality(D \cap T) = 0 /\ Cardinality(D) \in Nat /\ Cardinality(T) \in Nat
    BY <1>2, <1>3, <1>4, CountingHolds, Zenon DEF CountingFacts
  <2> QED
    BY <1>3, <2>1, <2>2
<1>8. Cardinality(D) \in Nat /\ Cardinality(T) \in Nat
  BY <1>2, <1>4, CountingHolds, ZenonT(30) DEF CountingFacts
<1>9. Cardinality(W \ D) <= Cardinality(Q) <=> Cardinality(S) >= d
  <2> HIDE DEF D
  <2> QED
    BY <1>4, <1>6, <1>7, <1>8, SMTT(30)
<1> QED
  BY <1>9, Zenon DEF W, Q

-----------------------------------------------------------------------------
(***************************************************************************)
(* The theorems.                                                           *)
(***************************************************************************)

LEMMA Invariance ==
    ASSUME ErasureCode, QuietRestarts
    PROVE  Spec => []IInv
<1>1. Library
  BY InductionHolds, CountingHolds, PartCountHolds, Zenon DEF Library
<1>2. Init => IInv
  BY InvInit, CountingHolds, Zenon
<1>3. IInv /\ [Next]_vars => IInv'
  BY <1>1, InvStep, Zenon
<1> QED
  BY <1>2, <1>3, PTL DEF Spec

\* No message is delivered twice, and none before as many fragments arrived as
\* it has data fragments: m_completed outlives the copies of the fragments, and
\* a restarted process's ids are new to the receiving end.
THEOREM OnceTheorem == ErasureCode /\ QuietRestarts => (Spec => []DeliveredOnce)
<1> SUFFICES ASSUME ErasureCode, QuietRestarts PROVE Spec => []DeliveredOnce
  BY Zenon
<1>1. IInv => DeliveredOnce
  <2> SUFFICES ASSUME Inv, NEW id \in Ids
               PROVE  Len(delivered[id]) <= Cardinality(Sent(id) \cap enough)
    BY Zenon DEF IInv, DeliveredOnce
  <2>1. /\ Counted(id) /\ Len(delivered[id]) \in Nat /\ Pending(id) \in Nat
        /\ Cardinality(Sent(id) \cap enough) \in Nat
    <3>1. Counted(id) /\ delivered[id] \in Seq(Messages)
      BY Zenon DEF Inv, CountInv
    <3>2. Len(delivered[id]) \in Nat
      BY <3>1, LenFacts, Zenon
    <3>3. Pending(id) \in Nat
      BY DEF Pending
    <3>4. Cardinality(Sent(id) \cap enough) \in Nat
      BY <3>1, CountingHolds, Zenon DEF Counted, CountingFacts
    <3> QED
      BY <3>1, <3>2, <3>3, <3>4, Zenon
  <2>2. Len(delivered[id]) + Pending(id) <= Cardinality(Sent(id) \cap enough)
    BY <2>1, Zenon DEF Counted
  <2> QED
    BY <2>1, <2>2
<1> QED
  BY <1>1, Invariance, PTL

\* With limits that let every message pass, a message is delivered as soon as
\* as many of its fragments were handled as it has data fragments, whichever
\* they are and in whichever order copies of them arrived.
THEOREM EnoughTheorem ==
    ErasureCode /\ QuietRestarts /\ AllFit => (Spec => []EnoughDelivered)
<1> SUFFICES ASSUME ErasureCode, QuietRestarts, AllFit PROVE Spec => []EnoughDelivered
  BY Zenon
<1>1. IInv => EnoughDelivered
  <2> SUFFICES ASSUME Inv, rx.pc = "idle", NEW id \in Ids
               PROVE  Len(delivered[id]) >= Cardinality(Sent(id) \cap enough)
    BY Zenon DEF IInv, EnoughDelivered
  <2>1. Counted(id) /\ delivered[id] \in Seq(Messages)
    BY Zenon DEF Inv, CountInv
  <2>2. Len(delivered[id]) \in Nat
    BY <2>1, LenFacts, Zenon
  <2>3. Pending(id) = 0
    BY Zenon DEF Pending, Busy
  <2>4. Len(delivered[id]) + 0 = Cardinality(Sent(id) \cap enough)
    BY <2>1, <2>3, Zenon DEF Counted
  <2> QED
    BY <2>2, <2>4
<1> QED
  BY <1>1, Invariance, PTL

\* With limits that let every message pass, what is delivered under an id is a
\* message sent under that id, byte for byte: ReedSolomon::decode and the padding of
\* the fragments leave no trace in it.
THEOREM IntactTheorem ==
    ErasureCode /\ QuietRestarts /\ AllFit => (Spec => []DeliveredIntact)
<1> SUFFICES ASSUME ErasureCode, QuietRestarts, AllFit PROVE Spec => []DeliveredIntact
  BY Zenon
<1>1. IInv => DeliveredIntact
  BY Zenon DEF IInv, Inv, CountInv, Counted, DeliveredIntact
<1> QED
  BY <1>1, Invariance, PTL
=============================================================================
