---------------------------- MODULE SendPathProofs ----------------------------
(***************************************************************************)
(* What holds of the way of a message to the socket for any priorities,    *)
(* capacities, limits and numbers of changes, in every interleaving of the *)
(* application, the reactor, the two threads and set_lite_mode.            *)
(*                                                                         *)
(* The argument sees the queues, the threads' hands and the socket as      *)
(* places, each with a sequence of messages.  A step moves the first       *)
(* message of a place to the end of another one, or gives it up, or adds a *)
(* new one at the start of the way: from this it follows that no message   *)
(* is in two places, that none gets lost and that the order is kept.       *)
(***************************************************************************)
EXTENDS SendPath, SequenceFacts

\* The packet the reactor works on is in m_lite_pending and not in its hand; one
\* it has sent is at the socket and not in m_lite_pending any more.
Pending == IF reactor = "sent" THEN <<>> ELSE lite_pending
InHand == IF reactor = "holding" THEN <<>> ELSE hand["reactor"]

Sent == <<"sent", 0>>
Pend == <<"pending", 0>>
Sender == <<"sender", 0>>
Outbound == <<"outbound", 0>>
Reactor == <<"reactor", 0>>
Encoder == <<"encoder", 0>>
Encode == <<"encode", 0>>
Local(p) == <<"local", p>>
Send(p) == <<"send", p>>

Single == {Sent, Pend, Sender, Outbound, Reactor, Encoder, Encode}
Places == Single \cup {Local(p) : p \in Priorities} \cup {Send(p) : p \in Priorities}

At(x) == CASE x[1] = "sent" -> sent
           [] x[1] = "pending" -> Pending
           [] x[1] = "sender" -> hand["sender"]
           [] x[1] = "outbound" -> outbound_queue
           [] x[1] = "reactor" -> InHand
           [] x[1] = "encoder" -> hand["encode"]
           [] x[1] = "encode" -> encode_queue
           [] x[1] = "local" -> local[x[2]]
           [] x[1] = "send" -> send_queue[x[2]]

Line == [x \in Places |-> At(x)]

\* How far a place is from the socket.
Rank(x) == CASE x[1] = "sent" -> 1
             [] x[1] = "pending" -> 2
             [] x[1] = "sender" -> 2
             [] x[1] = "outbound" -> 3
             [] x[1] = "reactor" -> 4
             [] x[1] = "encoder" -> 4
             [] x[1] = "encode" -> 5
             [] x[1] = "local" -> 6
             [] x[1] = "send" -> 7

-----------------------------------------------------------------------------
\* The invariant, of the places with their messages as a function F.

MsgOnce(s) == \A i, j \in DOMAIN s : s[i].msg = s[j].msg => i = j

Distinct(F) ==
    /\ \A x \in Places : MsgOnce(F[x])
    /\ \A x, y \in Places : x # y => MsgsOf(F[x]) \cap MsgsOf(F[y]) = {}

All(F) == UNION {MsgsOf(F[x]) : x \in Places}

\* u may be in front of v.
Ok(u, v) == u.whole /\ v.whole /\ Priority[u.msg] = Priority[v.msg] => u.msg < v.msg

InOrder(s) == \A i, j \in DOMAIN s : i < j => Ok(s[i], s[j])

Ordered(F) ==
    /\ \A x \in Places : InOrder(F[x])
    /\ \A x, y \in Places : Rank(x) < Rank(y) =>
          \A u \in Range(F[x]), v \in Range(F[y]) : Ok(u, v)

\* The messages of one queue of process_send_queue have its priority, but for
\* those that lost their payload.
OfPriority(s, p) == \A u \in Range(s) : IF u.whole THEN Priority[u.msg] = p ELSE p = 0

Calm == changes = 0 /\ switches = 0 /\ link = "Online"

TypeInv ==
    /\ link \in {"none", "Handshake", "Online", "Closed"}
    /\ send_queue \in [Priorities -> Seq(Items)] /\ local \in [Priorities -> Seq(Items)]
    /\ encode_queue \in Seq(Items) /\ outbound_queue \in Seq(Items) /\ sent \in Seq(Items)
    /\ lite_pending \in Seq(Items) /\ Len(lite_pending) <= 1
    /\ hand \in [Workers \cup {"reactor"} -> Seq(Items)]
    /\ \A t \in Workers \cup {"reactor"} : Len(hand[t]) <= 1
    /\ thread \in [Workers -> {"off", "loop", "drain"}]
    /\ lite \in BOOLEAN /\ workers_running \in BOOLEAN
    /\ changes \in Nat /\ switches \in Nat

\* Where the threads stand tells which places are empty.
ThreadInv ==
    /\ reactor # "queue" => \A p \in Priorities : local[p] = <<>>
    /\ reactor \notin {"encode", "holding"} => hand["reactor"] = <<>>
    /\ NeverRaised /\ reactor = "holding" => hand["reactor"] = lite_pending /\ lite_pending # <<>>
    /\ switches = 0 =>
          /\ setter = "idle" /\ workers_running = ~lite
          /\ thread = [t \in Workers |-> IF lite THEN "off" ELSE "loop"]
          /\ lite => hand["encode"] = <<>> /\ hand["sender"] = <<>>
          /\ ~lite => lite_pending = <<>> /\ reactor \in {"top", "queue"}

PriorityInv ==
    \A p \in Priorities : OfPriority(send_queue[p], p) /\ OfPriority(local[p], p)

LineInv ==
    /\ NeverRaised => Distinct(Line) /\ All(Line) \subseteq accepted
    /\ switches = 0 => accepted \subseteq All(Line) \cup dropped
    /\ Calm => Ordered(Line)

IInv == TypeInv /\ ThreadInv /\ PriorityInv /\ LineInv

-----------------------------------------------------------------------------
(***************************************************************************)
(* Sequences of messages                                                   *)
(***************************************************************************)

LEMMA EmptyLine ==
    Range(<<>>) = {} /\ MsgsOf(<<>>) = {} /\ MsgOnce(<<>>) /\ InOrder(<<>>)
BY DEF Range, MsgsOf, MsgOnce, InOrder

LEMMA MsgsOfRange ==
    ASSUME NEW s
    PROVE  MsgsOf(s) = {u.msg : u \in Range(s)}
BY Zenon DEF MsgsOf, Range

\* Taking the first message.
LEMMA TailLine ==
    ASSUME NEW s \in Seq(Items), s # <<>>
    PROVE  /\ Head(s) \in Items /\ Tail(s) \in Seq(Items)
           /\ Range(s) = {Head(s)} \cup Range(Tail(s))
           /\ MsgsOf(s) = {Head(s).msg} \cup MsgsOf(Tail(s))
           /\ MsgOnce(s) => MsgOnce(Tail(s)) /\ Head(s).msg \notin MsgsOf(Tail(s))
           /\ InOrder(s) => InOrder(Tail(s)) /\ \A v \in Range(Tail(s)) : Ok(Head(s), v)
<1> DEFINE r == Tail(s)
           h == Head(s)
<1>1. /\ h \in Items /\ r \in Seq(Items) /\ Len(s) \in Nat \ {0} /\ Len(r) = Len(s) - 1
      /\ h = s[1] /\ \A i \in 1..Len(r) : r[i] = s[i + 1]
  BY TailFacts
<1>2. DOMAIN s = 1..Len(s) /\ DOMAIN r = 1..Len(r)
  BY <1>1, LenFacts
<1> HIDE DEF r, h
<1>3. /\ 1 \in DOMAIN s /\ \A i \in DOMAIN r : i + 1 \in DOMAIN s /\ i + 1 # 1 /\ 1 < i + 1
      /\ \A i \in DOMAIN s : i = 1 \/ \E j \in DOMAIN r : i = j + 1
      /\ \A i, j \in DOMAIN r : (i < j => i + 1 < j + 1) /\ (i + 1 = j + 1 => i = j)
  <2>1. /\ 1 \in DOMAIN s /\ \A i \in DOMAIN r : i + 1 \in DOMAIN s /\ i + 1 # 1 /\ 1 < i + 1
    BY <1>1, <1>2
  <2>2. \A i, j \in DOMAIN r : (i < j => i + 1 < j + 1) /\ (i + 1 = j + 1 => i = j)
    BY <1>1, <1>2
  <2>3. \A i \in DOMAIN s : i = 1 \/ (i - 1 \in DOMAIN r /\ i = (i - 1) + 1)
    BY <1>1, <1>2
  <2> QED
    BY <2>1, <2>2, <2>3, Zenon
<1>4. \A i \in DOMAIN r : r[i] = s[i + 1]
  BY <1>1, <1>2, Zenon
<1>5. Range(s) = {h} \cup Range(r)
  <2>1. \A i \in DOMAIN s : s[i] \in {h} \cup Range(r)
    BY <1>1, <1>3, <1>4 DEF Range
  <2>2. \A i \in DOMAIN r : r[i] \in Range(s)
    BY <1>3, <1>4, Zenon DEF Range
  <2>3. h \in Range(s)
    BY <1>1, <1>3, Zenon DEF Range
  <2> QED
    BY <2>1, <2>2, <2>3 DEF Range
<1>6. MsgsOf(s) = {h.msg} \cup MsgsOf(r)
  BY <1>5, MsgsOfRange, Zenon
<1>7. ASSUME MsgOnce(s) PROVE MsgOnce(r) /\ h.msg \notin MsgsOf(r)
  <2>1. ASSUME NEW i \in DOMAIN r, NEW j \in DOMAIN r, r[i].msg = r[j].msg PROVE i = j
    <3>1. s[i + 1].msg = s[j + 1].msg /\ i + 1 \in DOMAIN s /\ j + 1 \in DOMAIN s
      BY <1>3, <1>4, <2>1, Zenon
    <3>2. i + 1 = j + 1
      BY <3>1, <1>7, Zenon DEF MsgOnce
    <3> QED
      BY <3>2, <1>3, Zenon
  <2>2. ASSUME NEW i \in DOMAIN r, r[i].msg = h.msg PROVE FALSE
    <3>1. s[i + 1].msg = s[1].msg /\ i + 1 \in DOMAIN s /\ 1 \in DOMAIN s /\ i + 1 # 1
      BY <1>1, <1>3, <1>4, <2>2, Zenon
    <3> QED
      BY <3>1, <1>7, Zenon DEF MsgOnce
  <2> QED
    BY <2>1, <2>2, Zenon DEF MsgsOf, MsgOnce
<1>8. ASSUME InOrder(s) PROVE InOrder(r) /\ \A v \in Range(r) : Ok(h, v)
  <2>1. InOrder(r)
    BY <1>3, <1>4, <1>8, Zenon DEF InOrder
  <2>2. \A i \in DOMAIN r : Ok(h, r[i])
    BY <1>1, <1>3, <1>4, <1>8, Zenon DEF InOrder
  <2> QED
    BY <2>1, <2>2, Zenon DEF Range
<1> QED
  BY <1>1, <1>5, <1>6, <1>7, <1>8, Zenon DEF r, h

\* Adding one at the end.
LEMMA AppendLine ==
    ASSUME NEW s \in Seq(Items), NEW z \in Items
    PROVE  /\ Append(s, z) \in Seq(Items)
           /\ Range(Append(s, z)) = Range(s) \cup {z}
           /\ MsgsOf(Append(s, z)) = MsgsOf(s) \cup {z.msg}
           /\ MsgOnce(s) /\ z.msg \notin MsgsOf(s) => MsgOnce(Append(s, z))
           /\ InOrder(s) /\ (\A u \in Range(s) : Ok(u, z)) => InOrder(Append(s, z))
<1> DEFINE r == Append(s, z)
           k == Len(s) + 1
<1>1. /\ r \in Seq(Items) /\ Len(s) \in Nat /\ DOMAIN s = 1..Len(s) /\ DOMAIN r = 1..k
      /\ r[k] = z /\ \A i \in 1..Len(s) : r[i] = s[i]
  BY AppendFacts, LenFacts
<1>2. /\ k \in DOMAIN r /\ DOMAIN s \subseteq DOMAIN r
      /\ \A i \in DOMAIN r : i = k \/ i \in DOMAIN s
      /\ \A i, j \in DOMAIN r : i < j => i \in DOMAIN s
  BY <1>1
<1> HIDE DEF r, k
<1>3. \A i \in DOMAIN s : r[i] = s[i]
  BY <1>1, Zenon
<1>4. Range(r) = Range(s) \cup {z}
  BY <1>1, <1>2, <1>3, Zenon DEF Range
<1>5. MsgsOf(r) = MsgsOf(s) \cup {z.msg}
  BY <1>4, MsgsOfRange, Zenon
<1>6. ASSUME MsgOnce(s), z.msg \notin MsgsOf(s) PROVE MsgOnce(r)
  <2>1. \A i \in DOMAIN s : s[i].msg # z.msg
    BY <1>6, Zenon DEF MsgsOf
  <2> QED
    BY <1>1, <1>2, <1>3, <1>6, <2>1, Zenon DEF MsgOnce
<1>7. ASSUME InOrder(s), \A u \in Range(s) : Ok(u, z) PROVE InOrder(r)
  <2>1. \A i \in DOMAIN s : Ok(s[i], z)
    BY <1>7, Zenon DEF Range
  <2> QED
    BY <1>1, <1>2, <1>3, <1>7, <2>1, Zenon DEF InOrder
<1> QED
  BY <1>1, <1>4, <1>5, <1>6, <1>7, Zenon DEF r

-----------------------------------------------------------------------------
(***************************************************************************)
(* The steps a message can make, of the places as functions F and G        *)
(***************************************************************************)

Lines == [Places -> Seq(Items)]

\* The first message of x leaves it.
Gone(F, G, x) ==
    /\ F[x] # <<>> /\ G[x] = Tail(F[x])
    /\ \A w \in Places \ {x} : G[w] = F[w]

\* z is added at the end of y.
Put(F, G, y, z) ==
    /\ G[y] = Append(F[y], z)
    /\ \A w \in Places \ {y} : G[w] = F[w]

\* The first message of x, as z, goes to the end of y.
Moved(F, G, x, y, z) ==
    /\ F[x] # <<>> /\ x # y /\ z.msg = Head(F[x]).msg
    /\ G[x] = Tail(F[x]) /\ G[y] = Append(F[y], z)
    /\ \A w \in Places \ {x, y} : G[w] = F[w]

\* All that is in the queue of send_message goes to the empty copy.
Swapped(F, G) ==
    /\ \A p \in Priorities : /\ F[Local(p)] = <<>> /\ G[Local(p)] = F[Send(p)]
                             /\ G[Send(p)] = <<>>
    /\ \A w \in Single : G[w] = F[w]

\* z is behind everything nearer to the socket, and in front of the rest.
Fits(F, y, z) ==
    \A w \in Places : \A u \in Range(F[w]) :
        /\ Rank(w) < Rank(y) \/ w = y => Ok(u, z)
        /\ Rank(y) < Rank(w) => Ok(z, u)

\* Nothing that could be overtaken is where z passes.
Carried(F, x, y, z) ==
    ~z.whole \/ /\ z = Head(F[x]) /\ Rank(y) < Rank(x)
                /\ \A w \in Places \ {x} :
                      Rank(y) < Rank(w) /\ ~(Rank(x) < Rank(w)) =>
                         \A u \in Range(F[w]) : Ok(z, u)

LEMMA GoneDistinct ==
    ASSUME NEW F \in Lines, NEW G \in Lines, NEW x \in Places, Gone(F, G, x)
    PROVE  /\ All(F) = All(G) \cup {Head(F[x]).msg}
           /\ Distinct(F) => Distinct(G) /\ Head(F[x]).msg \notin All(G)
<1> DEFINE h == Head(F[x]).msg
<1>1. F[x] \in Seq(Items) /\ F[x] # <<>> /\ G[x] = Tail(F[x])
  BY DEF Lines, Gone
<1>2. /\ MsgsOf(F[x]) = {h} \cup MsgsOf(G[x])
      /\ MsgOnce(F[x]) => MsgOnce(G[x]) /\ h \notin MsgsOf(G[x])
  BY <1>1, TailLine
<1>3. \A w \in Places \ {x} : G[w] = F[w]
  BY DEF Gone
<1> HIDE DEF h
<1>4. All(F) = All(G) \cup {h}
  <2>1. \A w \in Places : MsgsOf(F[w]) \subseteq All(G) \cup {h}
    BY <1>2, <1>3, Zenon DEF All
  <2>2. \A w \in Places : MsgsOf(G[w]) \subseteq All(F)
    BY <1>2, <1>3, Zenon DEF All
  <2>3. h \in All(F)
    BY <1>2, Zenon DEF All
  <2> QED
    BY <2>1, <2>2, <2>3, Zenon DEF All
<1>5. ASSUME Distinct(F) PROVE Distinct(G) /\ h \notin All(G)
  <2>1. \A w \in Places : MsgOnce(G[w])
    BY <1>2, <1>3, <1>5, Zenon DEF Distinct
  <2>2. \A w \in Places : MsgsOf(G[w]) \subseteq MsgsOf(F[w])
    BY <1>2, <1>3, Zenon
  <2>3. ASSUME NEW v \in Places, NEW w \in Places, v # w
        PROVE  MsgsOf(G[v]) \cap MsgsOf(G[w]) = {}
    BY <2>2, <2>3, <1>5, Zenon DEF Distinct
  <2>4. \A w \in Places : h \notin MsgsOf(G[w])
    <3>1. h \notin MsgsOf(G[x])
      BY <1>2, <1>5, Zenon DEF Distinct
    <3>2. ASSUME NEW w \in Places, w # x PROVE h \notin MsgsOf(G[w])
      BY <1>2, <1>3, <1>5, <3>2, Zenon DEF Distinct
    <3> QED
      BY <3>1, <3>2, Zenon
  <2> QED
    BY <2>1, <2>3, <2>4, Zenon DEF Distinct, All
<1> QED
  BY <1>4, <1>5, Zenon DEF h

LEMMA GoneOrdered ==
    ASSUME NEW F \in Lines, NEW G \in Lines, NEW x \in Places, Gone(F, G, x), Ordered(F)
    PROVE  Ordered(G)
<1>1. F[x] \in Seq(Items) /\ F[x] # <<>> /\ G[x] = Tail(F[x])
  BY DEF Lines, Gone
<1>2. Range(G[x]) \subseteq Range(F[x]) /\ (InOrder(F[x]) => InOrder(G[x]))
  BY <1>1, TailLine
<1>3. \A w \in Places \ {x} : G[w] = F[w]
  BY DEF Gone
<1>4. \A w \in Places : Range(G[w]) \subseteq Range(F[w]) /\ InOrder(G[w])
  BY <1>2, <1>3 DEF Ordered
<1> QED
  BY <1>4, Zenon DEF Ordered

LEMMA PutDistinct ==
    ASSUME NEW F \in Lines, NEW G \in Lines, NEW y \in Places, NEW z \in Items,
           Put(F, G, y, z)
    PROVE  /\ All(G) = All(F) \cup {z.msg}
           /\ Distinct(F) /\ z.msg \notin All(F) => Distinct(G)
<1>1. F[y] \in Seq(Items) /\ G[y] = Append(F[y], z)
  BY DEF Lines, Put
<1>2. /\ MsgsOf(G[y]) = MsgsOf(F[y]) \cup {z.msg}
      /\ MsgOnce(F[y]) /\ z.msg \notin MsgsOf(F[y]) => MsgOnce(G[y])
  BY <1>1, AppendLine
<1>3. \A w \in Places \ {y} : G[w] = F[w]
  BY DEF Put
<1>4. All(G) = All(F) \cup {z.msg}
  <2>1. \A w \in Places : MsgsOf(G[w]) \subseteq All(F) \cup {z.msg}
    BY <1>2, <1>3, Zenon DEF All
  <2>2. \A w \in Places : MsgsOf(F[w]) \subseteq All(G)
    BY <1>2, <1>3, Zenon DEF All
  <2>3. z.msg \in All(G)
    BY <1>2, Zenon DEF All
  <2> QED
    BY <2>1, <2>2, <2>3, Zenon DEF All
<1>5. ASSUME Distinct(F), z.msg \notin All(F) PROVE Distinct(G)
  <2>1. \A w \in Places : z.msg \notin MsgsOf(F[w])
    BY <1>5, Zenon DEF All
  <2>2. \A w \in Places : MsgOnce(G[w])
    BY <1>2, <1>3, <1>5, <2>1, Zenon DEF Distinct
  <2>3. ASSUME NEW v \in Places, NEW w \in Places, v # w
        PROVE  MsgsOf(G[v]) \cap MsgsOf(G[w]) = {}
    <3>1. MsgsOf(F[v]) \cap MsgsOf(F[w]) = {}
      BY <2>3, <1>5, Zenon DEF Distinct
    <3>2. CASE v = y
      BY <3>1, <3>2, <1>2, <1>3, <2>1, <2>3, Zenon
    <3>3. CASE w = y
      BY <3>1, <3>3, <1>2, <1>3, <2>1, <2>3, Zenon
    <3>4. CASE v # y /\ w # y
      BY <3>1, <3>4, <1>3
    <3> QED
      BY <3>2, <3>3, <3>4, Zenon
  <2> QED
    BY <2>2, <2>3, Zenon DEF Distinct
<1> QED
  BY <1>4, <1>5, Zenon

LEMMA PutOrdered ==
    ASSUME NEW F \in Lines, NEW G \in Lines, NEW y \in Places, NEW z \in Items,
           Put(F, G, y, z), Ordered(F), ~z.whole \/ Fits(F, y, z), ~(Rank(y) < Rank(y))
    PROVE  Ordered(G)
<1>1. F[y] \in Seq(Items) /\ G[y] = Append(F[y], z)
  BY DEF Lines, Put
<1>2. /\ Range(G[y]) = Range(F[y]) \cup {z}
      /\ InOrder(F[y]) /\ (\A u \in Range(F[y]) : Ok(u, z)) => InOrder(G[y])
  BY <1>1, AppendLine
<1>3. \A w \in Places \ {y} : G[w] = F[w]
  BY DEF Put
<1>4. Fits(F, y, z)
  <2>1. ~z.whole => \A u : Ok(u, z) /\ Ok(z, u)
    BY Zenon DEF Ok
  <2> QED
    BY <2>1, Zenon DEF Fits
<1>5. \A w \in Places : InOrder(G[w])
  <2>1. InOrder(G[y])
    BY <1>2, <1>4, Zenon DEF Fits, Ordered
  <2> QED
    BY <2>1, <1>3 DEF Ordered
<1>6. ASSUME NEW v \in Places, NEW w \in Places, Rank(v) < Rank(w),
             NEW a \in Range(G[v]), NEW b \in Range(G[w])
      PROVE  Ok(a, b)
  <2>0. \A x \in Places : \A c \in Range(G[x]) : c \in Range(F[x]) \/ (x = y /\ c = z)
    <3>1. \A c \in Range(G[y]) : c \in Range(F[y]) \/ c = z
      BY <1>2, Zenon
    <3>2. ASSUME NEW x \in Places, x # y, NEW c \in Range(G[x]) PROVE c \in Range(F[x])
      <4>1. G[x] = F[x]
        BY <3>2, <1>3, Zenon
      <4> QED
        BY <4>1, <3>2, Zenon
    <3> QED
      BY <3>1, <3>2, Zenon
  <2>1. a \in Range(F[v]) \/ (v = y /\ a = z)
    BY <2>0, Zenon
  <2>2. b \in Range(F[w]) \/ (w = y /\ b = z)
    BY <2>0, Zenon
  <2>3. CASE a \in Range(F[v]) /\ b \in Range(F[w])
    BY <2>3, <1>6, Zenon DEF Ordered
  <2>4. CASE a \in Range(F[v]) /\ w = y /\ b = z
    BY <2>4, <1>4, <1>6, Zenon DEF Fits
  <2>5. CASE v = y /\ a = z /\ b \in Range(F[w])
    BY <2>5, <1>4, <1>6, Zenon DEF Fits
  <2> QED
    BY <2>1, <2>2, <2>3, <2>4, <2>5, <1>6, Zenon
<1> QED
  BY <1>5, <1>6, Zenon DEF Ordered

LEMMA PlaceFacts ==
    /\ Single \subseteq Places
    /\ \A p \in Priorities : Local(p) \in Places /\ Send(p) \in Places
    /\ \A x \in Places : x \in Single \/ \E p \in Priorities : x = Local(p) \/ x = Send(p)
    /\ \A p, q \in Priorities :
          /\ (Local(p) = Local(q) \/ Send(p) = Send(q) => p = q)
          /\ Local(p) # Send(q) /\ Local(p) \notin Single /\ Send(p) \notin Single
    /\ Sent # Pend /\ Sent # Sender /\ Outbound # Pend /\ Outbound # Sender
    /\ Outbound # Reactor /\ Outbound # Encoder /\ Encode # Reactor /\ Encode # Encoder
<1>1. /\ Single \subseteq Places
      /\ \A p \in Priorities : Local(p) \in Places /\ Send(p) \in Places
      /\ \A x \in Places : x \in Single \/ \E p \in Priorities : x = Local(p) \/ x = Send(p)
  BY Zenon DEF Places
<1>2. \A p, q \in Priorities :
          /\ (Local(p) = Local(q) \/ Send(p) = Send(q) => p = q)
          /\ Local(p) # Send(q) /\ Local(p) \notin Single /\ Send(p) \notin Single
  BY DEF Local, Send, Single, Sent, Pend, Sender, Outbound, Reactor, Encoder, Encode
<1>3. /\ Sent # Pend /\ Sent # Sender /\ Outbound # Pend /\ Outbound # Sender
      /\ Outbound # Reactor /\ Outbound # Encoder /\ Encode # Reactor /\ Encode # Encoder
  BY DEF Sent, Pend, Sender, Outbound, Reactor, Encoder, Encode
<1> QED
  BY <1>1, <1>2, <1>3, Zenon

LEMMA RankFacts ==
    /\ Rank(Sent) = 1 /\ Rank(Pend) = 2 /\ Rank(Sender) = 2 /\ Rank(Outbound) = 3
    /\ Rank(Reactor) = 4 /\ Rank(Encoder) = 4 /\ Rank(Encode) = 5
    /\ \A p : Rank(Local(p)) = 6 /\ Rank(Send(p)) = 7
    /\ \A x \in Places : Rank(x) \in 1..7
<1>1. /\ Rank(Sent) = 1 /\ Rank(Pend) = 2 /\ Rank(Sender) = 2 /\ Rank(Outbound) = 3
      /\ Rank(Reactor) = 4 /\ Rank(Encoder) = 4 /\ Rank(Encode) = 5
  BY DEF Rank, Sent, Pend, Sender, Outbound, Reactor, Encoder, Encode
<1>2. \A p : Rank(Local(p)) = 6 /\ Rank(Send(p)) = 7
  BY DEF Rank, Local, Send
<1>3. \A x \in Single : Rank(x) \in 1..7
  BY <1>1 DEF Single
<1> QED
  BY <1>1, <1>2, <1>3, PlaceFacts

\* A move is a message gone from x and put into y.
LEMMA MovedFacts ==
    ASSUME NEW F \in Lines, NEW G \in Lines, NEW x \in Places, NEW y \in Places,
           NEW z \in Items, Moved(F, G, x, y, z)
    PROVE  /\ All(G) = All(F)
           /\ Distinct(F) => Distinct(G)
           /\ Ordered(F) /\ Carried(F, x, y, z) => Ordered(G)
<1> DEFINE H == [F EXCEPT ![x] = Tail(F[x])]
<1>1. F[x] \in Seq(Items) /\ F[x] # <<>> /\ F \in [Places -> Seq(Items)]
  BY DEF Lines, Moved
<1>2. Tail(F[x]) \in Seq(Items) /\ Head(F[x]) \in Items
  BY <1>1, TailLine
<1>3. H \in Lines /\ H[x] = Tail(F[x]) /\ \A w \in Places \ {x} : H[w] = F[w]
  BY <1>1, <1>2, Zenon DEF Lines
<1> HIDE DEF H
<1>4. Gone(F, H, x)
  BY <1>1, <1>3, Zenon DEF Gone
<1>5. Put(H, G, y, z)
  <2>1. G[y] = Append(H[y], z)
    BY <1>3 DEF Moved
  <2>2. ASSUME NEW w \in Places \ {y} PROVE G[w] = H[w]
    BY <1>3, <2>2 DEF Moved
  <2> QED
    BY <2>1, <2>2, Zenon DEF Put
<1>6. z.msg = Head(F[x]).msg
  BY Zenon DEF Moved
<1>7. All(G) = All(F)
  <2>1. All(F) = All(H) \cup {Head(F[x]).msg}
    BY <1>3, <1>4, GoneDistinct
  <2>2. All(G) = All(H) \cup {z.msg}
    BY <1>3, <1>5, PutDistinct
  <2> QED
    BY <2>1, <2>2, <1>6, Zenon
<1>8. ASSUME Distinct(F) PROVE Distinct(G)
  <2>1. Distinct(H) /\ Head(F[x]).msg \notin All(H)
    BY <1>3, <1>4, <1>8, GoneDistinct
  <2>2. z.msg \notin All(H)
    BY <2>1, <1>6, Zenon
  <2> QED
    BY <2>1, <2>2, <1>3, <1>5, PutDistinct
<1>9. ASSUME Ordered(F), Carried(F, x, y, z) PROVE Ordered(G)
  <2>1. Ordered(H)
    BY <1>3, <1>4, <1>9, GoneOrdered, Zenon
  <2>2. ASSUME z.whole PROVE Fits(H, y, z)
    <3>1. z = Head(F[x]) /\ Rank(y) < Rank(x)
      BY <2>2, <1>9, Zenon DEF Carried
    <3>2. /\ Range(F[x]) = {z} \cup Range(H[x])
          /\ \A u \in Range(H[x]) : Ok(z, u)
      BY <3>1, <1>1, <1>3, <1>9, TailLine DEF Ordered
    <3>3. \A v, w \in Places : Rank(v) \in Nat /\ Rank(w) \in Nat
      BY RankFacts
    <3>4. ASSUME NEW w \in Places, NEW u \in Range(H[w])
          PROVE  /\ Rank(w) < Rank(y) \/ w = y => Ok(u, z)
                 /\ Rank(y) < Rank(w) => Ok(z, u)
      <4>1. CASE w = x
        <5>1. u \in Range(H[x]) /\ ~(Rank(x) < Rank(y)) /\ x # y
          BY <4>1, <3>1, <3>3, <3>4 DEF Moved
        <5> QED
          BY <5>1, <4>1, <3>2, Zenon
      <4>2. CASE w # x
        <5>1. u \in Range(F[w]) /\ z \in Range(F[x])
          <6>1. H[w] = F[w]
            BY <4>2, <1>3, Zenon
          <6> QED
            BY <6>1, <3>2, <3>4, Zenon
        <5>2. Rank(w) < Rank(x) => Ok(u, z)
          BY <5>1, <1>9, Zenon DEF Ordered
        <5>3. Rank(x) < Rank(w) => Ok(z, u)
          BY <5>1, <1>9, Zenon DEF Ordered
        <5>4. Rank(y) < Rank(w) /\ ~(Rank(x) < Rank(w)) => Ok(z, u)
          BY <5>1, <4>2, <2>2, <1>9, Zenon DEF Carried
        <5>5. Rank(w) < Rank(y) \/ w = y => Rank(w) < Rank(x)
          BY <3>1, <3>3
        <5> QED
          BY <5>2, <5>3, <5>4, <5>5, Zenon
      <4> QED
        BY <4>1, <4>2, Zenon
    <3> QED
      BY <3>4, Zenon DEF Fits
  <2>3. ~(Rank(y) < Rank(y))
    BY RankFacts
  <2> QED
    BY <2>1, <2>2, <2>3, <1>3, <1>5, PutOrdered, Zenon
<1> QED
  BY <1>7, <1>8, <1>9, Zenon

\* What G has at a place, F had at this place or one behind it.
LEMMA SwappedFacts ==
    ASSUME NEW F \in Lines, NEW G \in Lines, Swapped(F, G)
    PROVE  /\ All(G) = All(F)
           /\ Distinct(F) => Distinct(G)
           /\ Ordered(F) => Ordered(G)
<1> DEFINE Empty(x) == \E p \in Priorities : x = Send(p)
           Behind(x, v) == \/ x \in Single /\ v = x
                           \/ \E p \in Priorities : x = Local(p) /\ v = Send(p)
<1>1. \A x \in Places : Empty(x) => Range(G[x]) = {} /\ MsgsOf(G[x]) = {} /\ MsgOnce(G[x])
                                    /\ InOrder(G[x])
  BY EmptyLine, Zenon DEF Swapped
<1>2. \A x \in Places : Empty(x) \/ \E v \in Places : Behind(x, v)
  BY PlaceFacts, Zenon
<1>3. \A x, v \in Places : Behind(x, v) => G[x] = F[v]
  BY Zenon DEF Swapped
<1>4. ASSUME NEW x \in Places, NEW y \in Places, NEW v \in Places,
             Behind(x, v), Behind(y, v)
      PROVE  x = y
  <2>1. CASE x \in Single
    BY <2>1, <1>4, PlaceFacts, ZenonT(60)
  <2>2. ASSUME NEW p \in Priorities, x = Local(p) PROVE x = y
    <3>1. v = Send(p)
      BY <2>2, <1>4, PlaceFacts, Zenon
    <3>2. PICK q \in Priorities : y = Local(q) /\ v = Send(q)
      BY <3>1, <1>4, PlaceFacts, Zenon
    <3>3. Send(p) = Send(q)
      BY <3>1, <3>2, Zenon
    <3>4. p = q
      BY <3>3, PlaceFacts, Zenon
    <3> QED
      BY <2>2, <3>2, <3>4, Zenon
  <2> QED
    BY <2>1, <2>2, <1>4, Zenon
<1>5. ASSUME NEW x \in Places, NEW y \in Places, NEW v \in Places, NEW w \in Places,
             Behind(x, v), Behind(y, w), Rank(x) < Rank(y)
      PROVE  Rank(v) < Rank(w)
  <2>1. \/ v = x /\ Rank(x) \in 1..7
        \/ Rank(x) = 6 /\ Rank(v) = 7
    BY <1>5, RankFacts, Zenon
  <2>2. \/ w = y /\ y \in Single /\ Rank(y) \in 1..7
        \/ Rank(y) = 6 /\ Rank(w) = 7
    BY <1>5, RankFacts, Zenon
  <2>3. \A s \in Single : Rank(s) \in 1..5
    BY RankFacts DEF Single
  <2> QED
    BY <2>1, <2>2, <2>3, <1>5
<1>6. \A v \in Places : F[v] = <<>> \/ \E x \in Places : Behind(x, v)
  BY PlaceFacts, Zenon DEF Swapped
<1> HIDE DEF Empty, Behind
<1>7. All(G) = All(F)
  <2>1. \A x \in Places : MsgsOf(G[x]) \subseteq All(F)
    BY <1>1, <1>2, <1>3, ZenonT(60) DEF All
  <2>2. ASSUME NEW v \in Places PROVE MsgsOf(F[v]) \subseteq All(G)
    <3>1. CASE F[v] = <<>>
      BY <3>1, EmptyLine
    <3>2. ASSUME NEW x \in Places, G[x] = F[v] PROVE MsgsOf(F[v]) \subseteq All(G)
      <4>1. MsgsOf(G[x]) \subseteq All(G)
        BY Zenon DEF All
      <4> QED
        BY <4>1, <3>2
    <3> QED
      BY <3>1, <3>2, <1>3, <1>6, Zenon
  <2> QED
    BY <2>1, <2>2, Zenon DEF All
<1>8. ASSUME Distinct(F) PROVE Distinct(G)
  <2>1. \A x \in Places : MsgOnce(G[x])
    BY <1>1, <1>2, <1>3, <1>8, Zenon DEF Distinct
  <2>2. ASSUME NEW x \in Places, NEW y \in Places, x # y
        PROVE  MsgsOf(G[x]) \cap MsgsOf(G[y]) = {}
    <3>1. CASE Empty(x) \/ Empty(y)
      BY <3>1, <1>1, Zenon
    <3>2. ASSUME NEW v \in Places, NEW w \in Places, Behind(x, v), Behind(y, w)
          PROVE  MsgsOf(G[x]) \cap MsgsOf(G[y]) = {}
      <4>1. v # w /\ G[x] = F[v] /\ G[y] = F[w]
        BY <3>2, <2>2, <1>3, <1>4, Zenon
      <4> QED
        BY <4>1, <1>8, Zenon DEF Distinct
    <3> QED
      BY <3>1, <3>2, <1>2, Zenon
  <2> QED
    BY <2>1, <2>2, Zenon DEF Distinct
<1>9. ASSUME Ordered(F) PROVE Ordered(G)
  <2>1. \A x \in Places : InOrder(G[x])
    BY <1>1, <1>2, <1>3, <1>9, Zenon DEF Ordered
  <2>2. ASSUME NEW x \in Places, NEW y \in Places, Rank(x) < Rank(y),
               NEW a \in Range(G[x]), NEW b \in Range(G[y])
        PROVE  Ok(a, b)
    <3>1. PICK v \in Places, w \in Places : Behind(x, v) /\ Behind(y, w)
      BY <2>2, <1>1, <1>2, Zenon
    <3>2. Rank(v) < Rank(w) /\ a \in Range(F[v]) /\ b \in Range(F[w])
      <4>1. G[x] = F[v] /\ G[y] = F[w]
        BY <3>1, <1>3, Zenon
      <4> QED
        BY <4>1, <3>1, <2>2, <1>5, Zenon
    <3> QED
      BY <3>2, <1>9, Zenon DEF Ordered
  <2> QED
    BY <2>1, <2>2, Zenon DEF Ordered
<1> QED
  BY <1>7, <1>8, <1>9, Zenon

-----------------------------------------------------------------------------
(***************************************************************************)
(* The places of a state                                                   *)
(***************************************************************************)

LEMMA LineValues ==
    /\ Line[Sent] = sent /\ Line[Pend] = Pending /\ Line[Sender] = hand["sender"]
    /\ Line[Outbound] = outbound_queue /\ Line[Reactor] = InHand
    /\ Line[Encoder] = hand["encode"] /\ Line[Encode] = encode_queue
    /\ \A p \in Priorities : Line[Local(p)] = local[p] /\ Line[Send(p)] = send_queue[p]
<1>1. /\ Line[Sent] = sent /\ Line[Pend] = Pending /\ Line[Sender] = hand["sender"]
      /\ Line[Outbound] = outbound_queue
  BY DEF Line, At, Places, Single, Sent, Pend, Sender, Outbound
<1>2. /\ Line[Reactor] = InHand
      /\ Line[Encoder] = hand["encode"] /\ Line[Encode] = encode_queue
  BY DEF Line, At, Places, Single, Reactor, Encoder, Encode
<1>3. \A p \in Priorities : Line[Local(p)] = local[p] /\ Line[Send(p)] = send_queue[p]
  BY DEF Line, At, Places, Local, Send
<1> QED
  BY <1>1, <1>2, <1>3, Zenon

LEMMA LineValuesNext ==
    /\ Line'[Sent] = sent' /\ Line'[Pend] = Pending' /\ Line'[Sender] = hand'["sender"]
    /\ Line'[Outbound] = outbound_queue' /\ Line'[Reactor] = InHand'
    /\ Line'[Encoder] = hand'["encode"] /\ Line'[Encode] = encode_queue'
    /\ \A p \in Priorities : Line'[Local(p)] = local'[p] /\ Line'[Send(p)] = send_queue'[p]
<1>1. /\ Line'[Sent] = sent' /\ Line'[Pend] = Pending' /\ Line'[Sender] = hand'["sender"]
      /\ Line'[Outbound] = outbound_queue'
  BY DEF Line, At, Places, Single, Sent, Pend, Sender, Outbound
<1>2. /\ Line'[Reactor] = InHand'
      /\ Line'[Encoder] = hand'["encode"] /\ Line'[Encode] = encode_queue'
  BY DEF Line, At, Places, Single, Reactor, Encoder, Encode
<1>3. \A p \in Priorities : Line'[Local(p)] = local'[p] /\ Line'[Send(p)] = send_queue'[p]
  BY DEF Line, At, Places, Local, Send
<1> QED
  BY <1>1, <1>2, <1>3, Zenon

\* Line is the function with these values.
LEMMA LineType ==
    /\ TypeInv => Line \in Lines
    /\ TypeInv' => Line' \in Lines
<1>1. Line = [x \in Places |-> Line[x]] /\ Line' = [x \in Places |-> Line'[x]]
  BY DEF Line
<1>2. ASSUME TypeInv PROVE \A x \in Places : Line[x] \in Seq(Items)
  <2>1. Pending \in Seq(Items) /\ InHand \in Seq(Items)
    BY <1>2 DEF TypeInv, Pending, InHand, Workers
  <2>2. hand["sender"] \in Seq(Items) /\ hand["encode"] \in Seq(Items)
    BY <1>2 DEF TypeInv, Workers
  <2>3. \A x \in Single : Line[x] \in Seq(Items)
    BY <2>1, <2>2, <1>2, LineValues DEF Single, TypeInv
  <2>4. \A p \in Priorities : local[p] \in Seq(Items) /\ send_queue[p] \in Seq(Items)
    BY <1>2 DEF TypeInv
  <2> QED
    BY <2>3, <2>4, LineValues, PlaceFacts, Zenon
<1>3. ASSUME TypeInv' PROVE \A x \in Places : Line'[x] \in Seq(Items)
  <2>1. Pending' \in Seq(Items) /\ InHand' \in Seq(Items)
    BY <1>3 DEF TypeInv, Pending, InHand, Workers
  <2>2. hand'["sender"] \in Seq(Items) /\ hand'["encode"] \in Seq(Items)
    BY <1>3 DEF TypeInv, Workers
  <2>3. \A x \in Single : Line'[x] \in Seq(Items)
    BY <2>1, <2>2, <1>3, LineValuesNext DEF Single, TypeInv
  <2>4. \A p \in Priorities : local'[p] \in Seq(Items) /\ send_queue'[p] \in Seq(Items)
    BY <1>3 DEF TypeInv
  <2> QED
    BY <2>3, <2>4, LineValuesNext, PlaceFacts, Zenon
<1> QED
  BY <1>1, <1>2, <1>3, Zenon DEF Lines

\* The places outside X keep their messages.
LEMMA Others ==
    ASSUME NEW X,
           Sent \in X \/ sent' = sent, Pend \in X \/ Pending' = Pending,
           Sender \in X \/ hand'["sender"] = hand["sender"],
           Outbound \in X \/ outbound_queue' = outbound_queue,
           Reactor \in X \/ InHand' = InHand,
           Encoder \in X \/ hand'["encode"] = hand["encode"],
           Encode \in X \/ encode_queue' = encode_queue,
           \A p \in Priorities : Local(p) \in X \/ local'[p] = local[p],
           \A p \in Priorities : Send(p) \in X \/ send_queue'[p] = send_queue[p]
    PROVE  \A w \in Places \ X : Line'[w] = Line[w]
<1>1. \A w \in Single \ X : Line'[w] = Line[w]
  BY LineValues, LineValuesNext DEF Single
<1>2. \A p \in Priorities : /\ Local(p) \notin X => Line'[Local(p)] = Line[Local(p)]
                            /\ Send(p) \notin X => Line'[Send(p)] = Line[Send(p)]
  BY LineValues, LineValuesNext, Zenon
<1>3. ASSUME NEW w \in Places, w \notin X PROVE Line'[w] = Line[w]
  <2>1. w \in Single \/ \E p \in Priorities : w = Local(p) \/ w = Send(p)
    BY PlaceFacts, Zenon
  <2> QED
    BY <2>1, <1>1, <1>2, <1>3, Zenon
<1> QED
  BY <1>3, Zenon

\* No place changes.
LEMMA AllSame ==
    ASSUME sent' = sent, Pending' = Pending, hand'["sender"] = hand["sender"],
           outbound_queue' = outbound_queue, InHand' = InHand,
           hand'["encode"] = hand["encode"], encode_queue' = encode_queue,
           local' = local, send_queue' = send_queue
    PROVE  Line' = Line
<1>1. \A w \in Places : Line'[w] = Line[w]
  BY Others, Zenon
<1>2. Line = [x \in Places |-> Line[x]] /\ Line' = [x \in Places |-> Line'[x]]
  BY DEF Line
<1> QED
  BY <1>1, <1>2, Zenon

-----------------------------------------------------------------------------
(***************************************************************************)
(* Every step is one of these, until set_lite_mode(false) is called.       *)
(***************************************************************************)

Refused == \E m \in Msgs : accepted' = accepted \cup {m} /\ m \in dropped' /\ Line' = Line

Entered ==
    \E m \in Msgs : /\ accepted = 1..(m - 1) /\ accepted' = accepted \cup {m}
                    /\ Put(Line, Line', Send(Priority[m]), Item(m))

GivenUp ==
    \E x \in Places : /\ Gone(Line, Line', x) /\ accepted' = accepted
                      /\ Head(Line[x]).msg \in dropped' \/ switches' # 0

HandedOn ==
    \E x, y \in Places, z \in Items :
        /\ Moved(Line, Line', x, y, z) /\ accepted' = accepted
        /\ Calm' => Carried(Line, x, y, z)

LineStep ==
    \/ Line' = Line /\ accepted' = accepted
    \/ Swapped(Line, Line') /\ accepted' = accepted
    \/ Refused \/ Entered \/ GivenUp \/ HandedOn

\* What was so before a step that leaves it so.
Kept ==
    /\ dropped \subseteq dropped'
    /\ (NeverRaised' => NeverRaised) /\ (switches' = 0 => switches = 0) /\ (Calm' => Calm)

\* A message send_message enters is behind all there are.
LEMMA EnteredFits ==
    ASSUME NEW F \in Lines, NEW m \in Msgs, All(F) \subseteq 1..(m - 1)
    PROVE  Item(m) \in Items /\ Item(m).msg = m /\ Send(Priority[m]) \in Places
           /\ Fits(F, Send(Priority[m]), Item(m))
<1>1. Item(m) \in Items /\ Item(m).msg = m
  BY DEF Item, Items
<1>2. Priority[m] \in Priorities
  BY Zenon DEF Priorities
<1>3. ASSUME NEW w \in Places, NEW u \in Range(F[w])
      PROVE  Ok(u, Item(m)) /\ ~(Rank(Send(Priority[m])) < Rank(w))
  <2>1. u.msg \in MsgsOf(F[w])
    BY <1>3, MsgsOfRange, Zenon
  <2>2. u.msg \in All(F)
    BY <2>1, Zenon DEF All
  <2>3. u.msg \in 1..(m - 1)
    BY <2>2, Zenon
  <2>4. u.msg < m
    BY <2>3 DEF Msgs
  <2>5. Rank(w) \in 1..7 /\ Rank(Send(Priority[m])) = 7
    BY RankFacts
  <2> QED
    BY <2>4, <2>5, <1>1 DEF Ok
<1> QED
  BY <1>1, <1>2, <1>3, PlaceFacts, Zenon DEF Fits

LEMMA LineStepKept ==
    ASSUME TypeInv, TypeInv', LineInv, Kept, NeverRaised' => LineStep
    PROVE  LineInv'
<1> DEFINE F == Line
           G == Line'
<1>1. F \in Lines /\ G \in Lines
  BY LineType, Zenon
<1>2. switches' = 0 => NeverRaised'
  BY Zenon DEF NeverRaised
<1>3. SUFFICES ASSUME NeverRaised'
               PROVE  LineInv'
  BY <1>2, Zenon DEF LineInv, Calm
<1>4. NeverRaised /\ Distinct(F) /\ All(F) \subseteq accepted /\ dropped \subseteq dropped'
  BY <1>3, Zenon DEF Kept, LineInv
<1>5. switches' = 0 => accepted \subseteq All(F) \cup dropped'
  BY <1>4, Zenon DEF Kept, LineInv
<1>6. Calm' => Ordered(F)
  BY Zenon DEF Kept, LineInv
<1>7. SUFFICES /\ Distinct(G) /\ All(G) \subseteq accepted'
               /\ switches' = 0 => accepted' \subseteq All(G) \cup dropped'
               /\ Calm' => Ordered(G)
  BY Zenon DEF LineInv
<1> HIDE DEF F, G
<1>8. CASE G = F /\ accepted' = accepted
  BY <1>4, <1>5, <1>6, <1>8, Zenon
<1>9. CASE Swapped(F, G) /\ accepted' = accepted
  <2>1. All(G) = All(F) /\ Distinct(G) /\ (Ordered(F) => Ordered(G))
    BY <1>1, <1>4, <1>9, SwappedFacts, Zenon
  <2> QED
    BY <2>1, <1>4, <1>5, <1>6, <1>9, Zenon
<1> DEFINE Goal == /\ Distinct(G) /\ All(G) \subseteq accepted'
                   /\ switches' = 0 => accepted' \subseteq All(G) \cup dropped'
                   /\ Calm' => Ordered(G)
<1>10. ASSUME NEW m \in Msgs, accepted' = accepted \cup {m}, m \in dropped', G = F
       PROVE  Goal
  BY <1>4, <1>5, <1>6, <1>10, Zenon
<1>11. ASSUME NEW m \in Msgs, accepted = 1..(m - 1), accepted' = accepted \cup {m},
              Put(F, G, Send(Priority[m]), Item(m))
       PROVE  Goal
  <2>1. /\ Item(m) \in Items /\ Item(m).msg = m /\ Send(Priority[m]) \in Places
        /\ Fits(F, Send(Priority[m]), Item(m))
    BY <1>1, <1>4, <1>11, EnteredFits
  <2>2. m \notin All(F)
    <3>1. m \notin accepted
      BY <1>11 DEF Msgs
    <3> QED
      BY <3>1, <1>4, Zenon
  <2>3. All(G) = All(F) \cup {m} /\ Distinct(G)
    BY <2>1, <2>2, <1>1, <1>4, <1>11, PutDistinct
  <2>4. Ordered(F) => Ordered(G)
    BY <2>1, <1>1, <1>11, PutOrdered, RankFacts
  <2> QED
    BY <2>3, <2>4, <1>4, <1>5, <1>6, <1>11, Zenon
<1>12. ASSUME NEW x \in Places, Gone(F, G, x), accepted' = accepted,
              Head(F[x]).msg \in dropped' \/ switches' # 0
       PROVE  Goal
  <2>1. All(F) = All(G) \cup {Head(F[x]).msg} /\ Distinct(G)
    BY <1>1, <1>4, <1>12, GoneDistinct
  <2>2. Ordered(F) => Ordered(G)
    BY <1>1, <1>12, GoneOrdered, Zenon
  <2> QED
    BY <2>1, <2>2, <1>4, <1>5, <1>6, <1>12, Zenon
<1>13. ASSUME NEW x \in Places, NEW y \in Places, NEW z \in Items,
              Moved(F, G, x, y, z), accepted' = accepted, Calm' => Carried(F, x, y, z)
       PROVE  Goal
  <2>1. All(G) = All(F) /\ Distinct(G) /\ (Ordered(F) /\ Carried(F, x, y, z) => Ordered(G))
    BY <1>1, <1>4, <1>13, MovedFacts, Zenon
  <2> QED
    BY <2>1, <1>4, <1>5, <1>6, <1>13, Zenon
<1>14. LineStep
  BY <1>3, Zenon
<1> HIDE DEF Goal
<1>15. Goal
  BY <1>8, <1>9, <1>10, <1>11, <1>12, <1>13, <1>14, Zenon
     DEF LineStep, Refused, Entered, GivenUp, HandedOn, F, G, Goal
<1> QED
  BY <1>15, Zenon DEF Goal

-----------------------------------------------------------------------------
(***************************************************************************)
(* Types                                                                   *)
(***************************************************************************)

\* The actions that move no message.
Standing ==
    \/ LinkChange \/ QueueDone \/ DrainEncodeDone \/ LeaveEncodeLoop
    \/ EnterLite \/ EnterFull \/ StopWorkers \/ JoinWorkers \/ StartWorkers \/ SpawnWorkers
    \/ LeaveLite
    \/ UNCHANGED vars

LEMMA NextCases ==
    ASSUME [Next]_vars
    PROVE  \/ Standing \/ SendMessage \/ SwapQueue \/ ProcessNext
           \/ \E t \in {"encode", "reactor"} : TakeTask(t) \/ PushPacket(t)
           \/ SenderTake \/ SenderSend \/ LeaveSenderLoop
           \/ DrainSender \/ HoldBack \/ LiteSend \/ LiteReset
           \/ FlushPending \/ ResetPending
BY Zenon DEF Next, ReactorLoop, EncodeThread, DrainEncode, SetLiteMode, Standing

LEMMA ItemFacts ==
    /\ \A m \in Msgs : Item(m) \in Items /\ Item(m).msg = m /\ Item(m).whole
                       /\ Priority[m] \in Priorities
    /\ \A x \in Items : Emptied(x) \in Items /\ Emptied(x).msg = x.msg /\ ~Emptied(x).whole
    /\ 0 \in Priorities
<1>1. \A m \in Msgs : Item(m) \in Items /\ Item(m).msg = m /\ Item(m).whole
  BY DEF Item, Items
<1>2. \A x \in Items : Emptied(x) \in Items /\ Emptied(x).msg = x.msg /\ ~Emptied(x).whole
  <2>1. ASSUME NEW x \in Items
        PROVE  Emptied(x) \in Items /\ Emptied(x).msg = x.msg /\ Emptied(x).whole = FALSE
    BY DEF Emptied, Items
  <2> QED
    BY <2>1, Zenon
<1>3. 0 \in Priorities /\ \A m \in Msgs : Priority[m] \in Priorities
  BY Zenon DEF Priorities
<1> QED
  BY <1>1, <1>2, <1>3, Zenon

\* The queue of priority p gets one more message, or loses its first one.
LEMMA QueueChange ==
    ASSUME NEW Q \in [Priorities -> Seq(Items)], NEW p \in Priorities
    PROVE  /\ \A z \in Items : [Q EXCEPT ![p] = Append(@, z)] \in [Priorities -> Seq(Items)]
           /\ Q[p] # <<>> => [Q EXCEPT ![p] = Tail(@)] \in [Priorities -> Seq(Items)]
<1>1. \A z \in Items : Append(Q[p], z) \in Seq(Items)
  OBVIOUS
<1>2. Q[p] # <<>> => Tail(Q[p]) \in Seq(Items)
  OBVIOUS
<1> QED
  BY <1>1, <1>2, Zenon

LEMMA RequeueType ==
    ASSUME NEW p \in Priorities, NEW z \in Items, Requeue(p, z),
           send_queue \in [Priorities -> Seq(Items)]
    PROVE  send_queue' \in [Priorities -> Seq(Items)]
<1>1. send_queue' = send_queue \/ send_queue' = [send_queue EXCEPT ![p] = Append(@, z)]
  BY Zenon DEF Requeue
<1>2. [send_queue EXCEPT ![p] = Append(@, z)] \in [Priorities -> Seq(Items)]
  BY QueueChange, Zenon
<1> QED
  BY <1>1, <1>2, Zenon

LEMMA TypeStep ==
    ASSUME TypeInv, [Next]_vars
    PROVE  TypeInv'
<1> USE DEF queues, threads, history, vars
<1> DEFINE Hands == hand' \in [Workers \cup {"reactor"} -> Seq(Items)]
                    /\ \A t \in Workers \cup {"reactor"} : Len(hand'[t]) <= 1
<1>1. \A x \in Items : <<x>> \in Seq(Items) /\ Len(<<x>>) <= 1
  OBVIOUS
<1>2. <<>> \in Seq(Items) /\ Len(<<>>) <= 1
  OBVIOUS
<1>3. ASSUME NEW t \in Workers \cup {"reactor"}, NEW s \in Seq(Items), Len(s) <= 1,
             hand' = [hand EXCEPT ![t] = s]
      PROVE  Hands
  BY <1>3, Zenon DEF TypeInv
<1>4. \A s \in Seq(Items) : s # <<>> => Head(s) \in Items /\ Tail(s) \in Seq(Items)
  BY TailLine
<1>5. \A s, r \in Seq(Items) : s \o r \in Seq(Items)
  BY ConcatFacts
<1>6. \A t \in {"encode", "reactor", "sender"} :
          t \in Workers \cup {"reactor"} /\ hand[t] \in Seq(Items)
  BY DEF Workers, TypeInv
<1>7. CASE Standing
  <2>1. /\ lite' \in BOOLEAN /\ workers_running' \in BOOLEAN
        /\ link' \in {"none", "Handshake", "Online", "Closed"}
    BY <1>7, Zenon DEF Standing, TypeInv, LinkChange, QueueDone, DrainEncodeDone,
          LeaveEncodeLoop, EnterLite, EnterFull, StopWorkers, JoinWorkers, Join,
          StartWorkers, SpawnWorkers, Spawn, LeaveLite
  <2>3. changes' \in {changes, changes + 1} /\ switches' \in {switches, switches + 1}
    BY <1>7, Zenon DEF Standing, LinkChange, QueueDone, DrainEncodeDone, LeaveEncodeLoop,
                EnterLite, EnterFull, StopWorkers, JoinWorkers, Join,
          StartWorkers, SpawnWorkers, Spawn, LeaveLite
  <2>4. \/ thread' = thread \/ thread' = [thread EXCEPT !["encode"] = "drain"]
        \/ thread' = [thread EXCEPT !["encode"] = "off"] \/ thread' = [thread EXCEPT !["encode"] = "loop"]
        \/ thread' = [thread EXCEPT !["sender"] = "loop"]
    BY <1>7, Zenon DEF Standing, LinkChange, QueueDone, DrainEncodeDone, LeaveEncodeLoop,
                EnterLite, EnterFull, StopWorkers, JoinWorkers, Join,
          StartWorkers, SpawnWorkers, Spawn, LeaveLite
  <2>5. thread' \in [Workers -> {"off", "loop", "drain"}]
    <3>1. thread \in [Workers -> {"off", "loop", "drain"}]
      BY Zenon DEF TypeInv
    <3>2. \A s \in {"off", "loop", "drain"}, t \in {"encode", "sender"} :
             [thread EXCEPT ![t] = s] \in [Workers -> {"off", "loop", "drain"}]
      BY <3>1, Zenon
    <3> QED
      BY <2>4, <3>1, <3>2, Zenon
  <2>6. changes' \in Nat /\ switches' \in Nat
    BY <2>3 DEF TypeInv
  <2>2. UNCHANGED <<queues, sent>>
    BY <1>7, Zenon DEF Standing, LinkChange, QueueDone, DrainEncodeDone, LeaveEncodeLoop,
                EnterLite, EnterFull, StopWorkers, JoinWorkers, Join,
          StartWorkers, SpawnWorkers, Spawn, LeaveLite
  <2> QED
    BY <2>1, <2>2, <2>5, <2>6, Zenon DEF TypeInv
<1>8. CASE SendMessage
  <2>1. send_queue' \in [Priorities -> Seq(Items)]
    <3>1. \/ send_queue' = send_queue
          \/ \E m \in Msgs : send_queue' = [send_queue EXCEPT ![Priority[m]] = Append(@, Item(m))]
      BY <1>8, Zenon DEF SendMessage
    <3>2. send_queue \in [Priorities -> Seq(Items)]
      BY Zenon DEF TypeInv
    <3> QED
      <4>1. ASSUME NEW m \in Msgs
            PROVE  [send_queue EXCEPT ![Priority[m]] = Append(@, Item(m))]
                      \in [Priorities -> Seq(Items)]
        BY <3>2, QueueChange, ItemFacts, Zenon
      <4> QED
        BY <3>1, <3>2, <4>1, Zenon
  <2> QED
    BY <1>8, <2>1, Zenon DEF TypeInv, SendMessage
<1>9. CASE SwapQueue
  <2>1. send_queue' \in [Priorities -> Seq(Items)] /\ local' \in [Priorities -> Seq(Items)]
    BY <1>9, <1>2, Zenon DEF TypeInv, SwapQueue
  <2> QED
    BY <1>9, <2>1, Zenon DEF TypeInv, SwapQueue
<1>10. CASE ProcessNext
  <2>1. PICK p \in Priorities :
          /\ local[p] # <<>>
          /\ local' = [local EXCEPT ![p] = Tail(@)]
          /\ \/ NotOnline(p, Head(local[p])) /\ UNCHANGED encode_queue
             \/ encode_queue' = Append(encode_queue, Head(local[p])) /\ UNCHANGED send_queue
             \/ Requeue(0, Emptied(Head(local[p]))) /\ UNCHANGED encode_queue
    BY <1>10, Zenon DEF ProcessNext, NextPriority
  <2>2. Head(local[p]) \in Items /\ Emptied(Head(local[p])) \in Items
    BY <2>1, <1>4, ItemFacts DEF TypeInv
  <2>3. local' \in [Priorities -> Seq(Items)]
    BY <2>1, QueueChange, Zenon DEF TypeInv
  <2>4. send_queue' \in [Priorities -> Seq(Items)]
    BY <2>1, <2>2, RequeueType, ItemFacts, Zenon DEF TypeInv, NotOnline
  <2>5. encode_queue' \in Seq(Items)
    <3>1. encode_queue \in Seq(Items) /\ Append(encode_queue, Head(local[p])) \in Seq(Items)
      BY <2>2, AppendLine, Zenon DEF TypeInv
    <3> QED
      BY <2>1, <3>1, Zenon
  <2> QED
    BY <1>10, <2>3, <2>4, <2>5, Zenon DEF TypeInv, ProcessNext
<1>11. ASSUME NEW t \in {"encode", "reactor"}, TakeTask(t) PROVE TypeInv'
  <2>1. Hands /\ encode_queue' \in Seq(Items)
    BY <1>1, <1>3, <1>4, <1>6, <1>11, Zenon DEF TypeInv, TakeTask
  <2> QED
    BY <1>11, <2>1, Zenon DEF TypeInv, TakeTask
<1>12. ASSUME NEW t \in {"encode", "reactor"}, PushPacket(t) PROVE TypeInv'
  <2>1. Hands
    BY <1>2, <1>3, <1>6, <1>12, Zenon DEF PushPacket
  <2>2. outbound_queue' = outbound_queue \/ outbound_queue' = outbound_queue \o hand[t]
    BY <1>12, Zenon DEF PushPacket
  <2>3. outbound_queue \in Seq(Items) /\ hand[t] \in Seq(Items)
    BY <1>6, Zenon DEF TypeInv
  <2>4. outbound_queue' \in Seq(Items)
    BY <2>2, <2>3, <1>5, Zenon
  <2> QED
    BY <1>12, <2>1, <2>4, Zenon DEF TypeInv, PushPacket
<1>13. CASE SenderTake
  <2>1. Hands /\ outbound_queue' \in Seq(Items)
    BY <1>1, <1>3, <1>4, <1>6, <1>13, Zenon DEF TypeInv, SenderTake
  <2> QED
    BY <1>13, <2>1, Zenon DEF TypeInv, SenderTake
<1>14. CASE SenderSend
  <2>1. Hands /\ sent' \in Seq(Items)
    BY <1>2, <1>3, <1>5, <1>6, <1>14, Zenon DEF TypeInv, SenderSend
  <2> QED
    BY <1>14, <2>1, Zenon DEF TypeInv, SenderSend
<1>15. CASE LeaveSenderLoop
  <2>1. outbound_queue' \in Seq(Items)
    BY <1>4, <1>15, Zenon DEF TypeInv, LeaveSenderLoop
  <2>2. thread' \in [Workers -> {"off", "loop", "drain"}]
    <3>1. \/ thread' = thread \/ thread' = [thread EXCEPT !["sender"] = "drain"]
          \/ thread' = [thread EXCEPT !["sender"] = "off"]
      BY <1>15, Zenon DEF LeaveSenderLoop
    <3>2. thread \in [Workers -> {"off", "loop", "drain"}]
      BY Zenon DEF TypeInv
    <3>3. \A s \in {"off", "loop", "drain"} :
             [thread EXCEPT !["sender"] = s] \in [Workers -> {"off", "loop", "drain"}]
      BY <3>2, Zenon
    <3> QED
      BY <3>1, <3>2, <3>3, Zenon
  <2> QED
    BY <1>15, <2>1, <2>2, Zenon DEF TypeInv, LeaveSenderLoop
<1>16. CASE DrainSender
  <2>0. \/ UNCHANGED <<lite_pending, outbound_queue>>
        \/ /\ outbound_queue # <<>> /\ lite_pending' = <<Head(outbound_queue)>>
           /\ outbound_queue' = Tail(outbound_queue)
    BY <1>16, Zenon DEF DrainSender
  <2>1. lite_pending' \in Seq(Items) /\ Len(lite_pending') <= 1 /\ outbound_queue' \in Seq(Items)
    BY <2>0, <1>1, <1>4, Zenon DEF TypeInv
  <2>2. Hands
    BY <2>1, <1>3, <1>6, <1>16, Zenon DEF TypeInv, DrainSender
  <2> QED
    BY <1>16, <2>1, <2>2, Zenon DEF TypeInv, DrainSender
<1>17. CASE HoldBack
  <2>1. Hands
    BY <1>2, <1>3, <1>6, <1>17, Zenon DEF HoldBack
  <2> QED
    BY <1>17, <2>1, Zenon DEF TypeInv, HoldBack
<1>18. CASE LiteSend
  <2>1. Hands
    BY <1>2, <1>3, <1>6, <1>18, Zenon DEF LiteSend
  <2>2. sent' = sent \/ sent' = sent \o hand["reactor"]
    BY <1>18 DEF LiteSend
  <2>3. sent' \in Seq(Items)
    BY <2>2, <1>5, <1>6, Zenon DEF TypeInv
  <2> QED
    BY <1>18, <2>1, <2>3, Zenon DEF TypeInv, LiteSend
<1>19. CASE LiteReset \/ ResetPending \/ FlushPending
  <2>1. /\ lite_pending' \in Seq(Items) /\ Len(lite_pending') <= 1 /\ sent' \in Seq(Items)
    BY <1>2, <1>5, <1>19, Zenon DEF TypeInv, LiteReset, ResetPending, FlushPending
  <2> QED
    BY <1>19, <2>1, Zenon DEF TypeInv, LiteReset, ResetPending, FlushPending
<1> QED
  BY <1>7, <1>8, <1>9, <1>10, <1>11, <1>12, <1>13, <1>14, <1>15, <1>16, <1>17, <1>18, <1>19,
     NextCases, Zenon

-----------------------------------------------------------------------------
(***************************************************************************)
(* Where the threads stand                                                 *)
(***************************************************************************)

\* The actions that leave the mode, the peer and the counters alone.
Steady == UNCHANGED <<link, lite, setter, changes, switches>>

LEMMA SteadySteps ==
    ASSUME [Next]_vars
    PROVE  \/ Steady
           \/ LinkChange \/ EnterLite \/ EnterFull \/ StopWorkers \/ JoinWorkers \/ FlushPending
           \/ ResetPending \/ StartWorkers \/ SpawnWorkers \/ LeaveLite
<1> USE DEF queues, threads, history, vars
<1>1. CASE UNCHANGED vars
  BY <1>1, Zenon DEF Steady
<1>2. CASE SendMessage \/ SwapQueue \/ QueueDone \/ DrainEncodeDone \/ LeaveEncodeLoop
  BY <1>2, Zenon DEF Steady, SendMessage, SwapQueue, QueueDone, DrainEncodeDone, LeaveEncodeLoop
<1>3. CASE ProcessNext \/ SenderTake \/ SenderSend \/ LeaveSenderLoop
  BY <1>3, Zenon DEF Steady, ProcessNext, SenderTake, SenderSend, LeaveSenderLoop
<1>4. CASE DrainSender \/ HoldBack \/ LiteSend \/ LiteReset
  BY <1>4, Zenon DEF Steady, DrainSender, HoldBack, LiteSend, LiteReset
<1>5. CASE EncodeThread \/ DrainEncode
  BY <1>5, Zenon DEF Steady, EncodeThread, DrainEncode, TakeTask, PushPacket
<1> QED
  BY <1>1, <1>2, <1>3, <1>4, <1>5, Zenon DEF Next, ReactorLoop, SetLiteMode

LEMMA DroppedGrows ==
    ASSUME [Next]_vars
    PROVE  dropped \subseteq dropped'
<1> USE DEF queues, threads, history, vars
<1>1. CASE Standing
  BY <1>1, Zenon DEF Standing, LinkChange, QueueDone, DrainEncodeDone, LeaveEncodeLoop,
            EnterLite, EnterFull, StopWorkers, JoinWorkers, Join,
          StartWorkers, SpawnWorkers, Spawn, LeaveLite
<1>2. CASE SendMessage \/ SwapQueue
  BY <1>2, Zenon DEF SendMessage, SwapQueue
<1>3. CASE ProcessNext
  BY <1>3, Zenon DEF ProcessNext, NotOnline, Requeue
<1>4. ASSUME NEW t, TakeTask(t) \/ PushPacket(t) PROVE dropped \subseteq dropped'
  BY <1>4, Zenon DEF TakeTask, PushPacket
<1>5. CASE SenderTake \/ SenderSend \/ LeaveSenderLoop \/ FlushPending \/ ResetPending
  BY <1>5, Zenon DEF SenderTake, SenderSend, LeaveSenderLoop, FlushPending, ResetPending
<1>6. CASE DrainSender \/ HoldBack \/ LiteSend \/ LiteReset
  BY <1>6, Zenon DEF DrainSender, HoldBack, LiteSend, LiteReset
<1> QED
  BY <1>1, <1>2, <1>3, <1>4, <1>5, <1>6, NextCases, Zenon

LEMMA KeptStep ==
    ASSUME TypeInv, ThreadInv, [Next]_vars
    PROVE  Kept
<1> USE DEF queues, threads, history, vars
<1>1. changes \in Nat /\ switches \in Nat
  BY Zenon DEF TypeInv
<1>2. changes + 1 # 0 /\ switches + 1 # 0 /\ (switches + 1 = 1 => switches = 0)
  BY <1>1
<1>3. SUFFICES /\ NeverRaised' => NeverRaised
               /\ switches' = 0 => switches = 0
               /\ Calm' => Calm
  BY DroppedGrows, Zenon DEF Kept
<1>4. CASE Steady
  BY <1>4, Zenon DEF Steady, NeverRaised, Calm
<1>5. CASE LinkChange
  BY <1>5, <1>2, Zenon DEF LinkChange, NeverRaised, Calm
<1>6. CASE EnterLite
  BY <1>6, <1>2, Zenon DEF EnterLite, NeverRaised, Calm
<1>7. CASE EnterFull \/ FlushPending \/ ResetPending \/ StartWorkers \/ SpawnWorkers
  <2>1. /\ setter' \in {"flushing", "resetting", "starting", "spawnEncode", "spawnSender", "leaving"}
        /\ switches' = 0 => switches = 0
    BY <1>7, <1>2, Zenon DEF EnterFull, FlushPending, ResetPending, StartWorkers, SpawnWorkers,
          Spawn
  <2>2. switches' = 0 => UNCHANGED <<link, changes, switches>>
    BY <1>7, <1>2, Zenon DEF EnterFull, FlushPending, ResetPending, StartWorkers, SpawnWorkers,
          Spawn
  <2>3. setter' \notin {"idle"} \cup Lowering
    BY <2>1, Zenon DEF Lowering
  <2> QED
    BY <2>2, <2>3, <2>1, Zenon DEF NeverRaised, Calm
<1>8. CASE StopWorkers \/ JoinWorkers
  <2>1. /\ UNCHANGED <<link, lite, changes, switches>>
        /\ setter \in {"stopping", "joinEncode", "joinSender"}
    BY <1>8, Zenon DEF StopWorkers, JoinWorkers, Join
  <2> QED
    BY <2>1, Zenon DEF NeverRaised, Lowering, Calm
<1>9. CASE LeaveLite
  BY <1>9, Zenon DEF LeaveLite, NeverRaised, Calm
<1> QED
  BY <1>4, <1>5, <1>6, <1>7, <1>8, <1>9, SteadySteps, Zenon

\* The actions that take no part in what the reactor does.
Aside ==
    /\ UNCHANGED <<local, reactor>> /\ hand'["reactor"] = hand["reactor"]
    /\ UNCHANGED lite_pending \/ setter = "resetting"

LEMMA AsideSteps ==
    ASSUME TypeInv, [Next]_vars
    PROVE  \/ Aside
           \/ SwapQueue \/ ProcessNext \/ QueueDone \/ DrainEncode \/ DrainEncodeDone
           \/ DrainSender \/ HoldBack \/ LiteSend \/ LiteReset
<1> USE DEF queues, threads, history, vars
<1>1. CASE UNCHANGED vars \/ LinkChange \/ SendMessage \/ LeaveEncodeLoop \/ LeaveSenderLoop
  BY <1>1, Zenon DEF Aside, LinkChange, SendMessage, LeaveEncodeLoop, LeaveSenderLoop
<1>2. CASE EnterLite \/ EnterFull \/ SetLiteMode
  BY <1>2, Zenon DEF Aside, EnterLite, EnterFull, SetLiteMode, StopWorkers, JoinWorkers, Join,
       FlushPending, ResetPending, StartWorkers, SpawnWorkers, Spawn, LeaveLite
<1>3. CASE EncodeThread \/ SenderTake \/ SenderSend
  <2>1. UNCHANGED <<local, reactor, lite_pending>>
    BY <1>3, Zenon DEF EncodeThread, TakeTask, PushPacket, SenderTake, SenderSend
  <2>2. \E t \in {"encode", "sender"} : \E s : hand' = [hand EXCEPT ![t] = s]
    BY <1>3, Zenon DEF EncodeThread, TakeTask, PushPacket, SenderTake, SenderSend
  <2>3. hand'["reactor"] = hand["reactor"]
    BY <2>2 DEF TypeInv, Workers
  <2> QED
    BY <2>1, <2>3, Zenon DEF Aside
<1> QED
  BY <1>1, <1>2, <1>3, Zenon DEF Next, ReactorLoop

LEMMA ReactorStep ==
    ASSUME TypeInv, ThreadInv, [Next]_vars
    PROVE  /\ reactor' # "queue" => \A p \in Priorities : local'[p] = <<>>
           /\ reactor' \notin {"encode", "holding"} => hand'["reactor"] = <<>>
           /\ NeverRaised' /\ reactor' = "holding" =>
                 hand'["reactor"] = lite_pending' /\ lite_pending' # <<>>
<1> USE DEF queues, threads, history, vars
<1>1. "reactor" \in DOMAIN hand
  BY DEF TypeInv, Workers
<1>2. \A s : [hand EXCEPT !["reactor"] = s]["reactor"] = s
  BY <1>1, Zenon
<1>3. NeverRaised' => NeverRaised
  BY KeptStep, Zenon DEF Kept
<1>4. CASE Aside
  <2>1. NeverRaised' => UNCHANGED lite_pending
    <3>1. NeverRaised => setter # "resetting"
      BY Zenon DEF NeverRaised, Lowering, ThreadInv
    <3> QED
      BY <3>1, <1>3, <1>4, Zenon DEF Aside
  <2> QED
    BY <2>1, <1>3, <1>4, Zenon DEF Aside, ThreadInv
<1>5. CASE SwapQueue \/ ProcessNext
  <2>1. reactor' = "queue" /\ UNCHANGED hand /\ reactor \in {"top", "queue"}
    BY <1>5, Zenon DEF SwapQueue, ProcessNext
  <2> QED
    BY <2>1, Zenon DEF ThreadInv
<1>6. CASE QueueDone
  BY <1>6, Zenon DEF QueueDone, ThreadInv
<1>7. CASE DrainEncode
  <2>1. reactor' = "encode" /\ reactor = "encode" /\ UNCHANGED local
    BY <1>7, Zenon DEF DrainEncode, TakeTask, PushPacket
  <2> QED
    BY <2>1, Zenon DEF ThreadInv
<1>8. CASE DrainEncodeDone
  BY <1>8, Zenon DEF DrainEncodeDone, ThreadInv
<1>9. CASE DrainSender
  <2>1. /\ UNCHANGED local /\ reactor = "sender"
        /\ \/ reactor' = "top" /\ UNCHANGED hand
           \/ /\ reactor' = "holding" /\ hand'["reactor"] = lite_pending'
              /\ \/ lite_pending' = <<Head(outbound_queue)>>
                 \/ UNCHANGED lite_pending /\ lite_pending # <<>>
    <3>1. /\ UNCHANGED local /\ reactor = "sender"
          /\ \/ reactor' = "top" /\ UNCHANGED hand
             \/ /\ reactor' = "holding" /\ hand' = [hand EXCEPT !["reactor"] = lite_pending']
                /\ lite_pending' = <<Head(outbound_queue)>>
             \/ /\ reactor' = "holding" /\ hand' = [hand EXCEPT !["reactor"] = lite_pending]
                /\ UNCHANGED lite_pending /\ lite_pending # <<>>
      BY <1>9, Zenon DEF DrainSender
    <3> QED
      BY <3>1, <1>2
  <2>2. \A x : <<x>> # <<>>
    OBVIOUS
  <2> QED
    BY <2>1, <2>2, Zenon DEF ThreadInv
<1>10. CASE HoldBack \/ LiteSend
  <2>1. /\ UNCHANGED local /\ reactor = "holding" /\ reactor' \in {"top", "sent"}
        /\ hand'["reactor"] = <<>>
    BY <1>2, <1>10, Zenon DEF HoldBack, LiteSend
  <2> QED
    BY <2>1, Zenon DEF ThreadInv
<1>11. CASE LiteReset
  BY <1>11, Zenon DEF LiteReset, ThreadInv
<1> QED
  BY <1>4, <1>5, <1>6, <1>7, <1>8, <1>9, <1>10, <1>11, AsideSteps, Zenon

\* As long as set_lite_mode is not called the mode decides which threads work.
LEMMA ModeStep ==
    ASSUME TypeInv, ThreadInv, [Next]_vars, switches' = 0
    PROVE  /\ setter' = "idle" /\ workers_running' = ~lite'
           /\ thread' = [t \in Workers |-> IF lite' THEN "off" ELSE "loop"]
           /\ lite' => hand'["encode"] = <<>> /\ hand'["sender"] = <<>>
           /\ ~lite' => lite_pending' = <<>> /\ reactor' \in {"top", "queue"}
<1> USE DEF queues, threads, history, vars
<1>1. switches = 0
  BY KeptStep, Zenon DEF Kept
<1>2. /\ setter = "idle" /\ workers_running = ~lite
      /\ thread = [t \in Workers |-> IF lite THEN "off" ELSE "loop"]
      /\ lite => hand["encode"] = <<>> /\ hand["sender"] = <<>>
      /\ ~lite => lite_pending = <<>> /\ reactor \in {"top", "queue"}
  BY <1>1, Zenon DEF ThreadInv
<1>3. \A t \in {"encode", "sender"} :
         /\ lite => thread[t] = "off"
         /\ ~lite => thread[t] = "loop" /\ workers_running
  <2>1. lite \in BOOLEAN /\ workers_running = ~lite
    BY <1>2, Zenon DEF TypeInv
  <2>2. \A t \in {"encode", "sender"} : thread[t] = IF lite THEN "off" ELSE "loop"
    BY <1>2, Zenon DEF Workers
  <2> QED
    BY <2>1, <2>2, Zenon
<1>4. Steady \/ LinkChange
  <2>1. ~EnterLite /\ ~EnterFull
    BY <1>1 DEF EnterLite, EnterFull
  <2> QED
    BY <2>1, <1>2, SteadySteps, Zenon DEF StopWorkers, JoinWorkers, Join,
       FlushPending, ResetPending, StartWorkers, SpawnWorkers, Spawn, LeaveLite
<1>5. ~LeaveEncodeLoop /\ ~LeaveSenderLoop
  <2>1. \A t \in {"encode", "sender"} :
           (thread[t] = "loop" => workers_running) /\ thread[t] # "drain"
    BY <1>3, Zenon
  <2> QED
    BY <2>1, Zenon DEF LeaveEncodeLoop, LeaveSenderLoop
<1>6. UNCHANGED <<lite, setter>>
  BY <1>4, Zenon DEF Steady, LinkChange
<1> DEFINE Hold == /\ UNCHANGED <<workers_running, thread>>
                   /\ lite => hand'["encode"] = <<>> /\ hand'["sender"] = <<>>
                   /\ ~lite => lite_pending' = <<>> /\ reactor' \in {"top", "queue"}
<1>7. SUFFICES Hold
  BY <1>2, <1>6, Zenon
<1>8. CASE UNCHANGED vars \/ LinkChange \/ SendMessage \/ SwapQueue \/ ProcessNext
  BY <1>2, <1>8, Zenon DEF LinkChange, SendMessage, SwapQueue, ProcessNext
<1>9. CASE QueueDone
  BY <1>2, <1>9, Zenon DEF QueueDone
<1>10. CASE EncodeThread \/ SenderTake \/ SenderSend
  <2>1. ~lite
    <3>1. lite => thread["encode"] \notin {"loop", "drain"} /\ thread["sender"] # "loop"
      BY <1>3, Zenon
    <3> QED
      BY <3>1, <1>2, <1>10, Zenon DEF EncodeThread, SenderTake, SenderSend
  <2> QED
    BY <2>1, <1>2, <1>10, Zenon
       DEF EncodeThread, TakeTask, PushPacket, SenderTake, SenderSend
<1>11. CASE DrainEncode \/ DrainEncodeDone \/ DrainSender \/ HoldBack \/ LiteSend \/ LiteReset
  <2>1. lite
    BY <1>2, <1>11, Zenon
       DEF DrainEncode, DrainEncodeDone, DrainSender, HoldBack, LiteSend, LiteReset
  <2>2. UNCHANGED <<workers_running, thread>>
    BY <1>11, Zenon DEF DrainEncode, TakeTask, PushPacket, DrainEncodeDone, DrainSender,
          HoldBack, LiteSend, LiteReset
  <2>3. hand' = hand \/ \E s : hand' = [hand EXCEPT !["reactor"] = s]
    BY <1>11, Zenon DEF DrainEncode, TakeTask, PushPacket, DrainEncodeDone, DrainSender,
          HoldBack, LiteSend, LiteReset
  <2>4. hand'["encode"] = hand["encode"] /\ hand'["sender"] = hand["sender"]
    BY <2>3 DEF TypeInv, Workers
  <2> QED
    BY <2>1, <2>2, <2>4, <1>2, Zenon
<1>12. ~(EnterLite \/ EnterFull \/ SetLiteMode)
  <2>1. ~EnterLite /\ ~EnterFull
    BY <1>1 DEF EnterLite, EnterFull
  <2> QED
    BY <2>1, <1>2, Zenon DEF SetLiteMode, StopWorkers, JoinWorkers, Join,
       FlushPending, ResetPending, StartWorkers, SpawnWorkers, Spawn, LeaveLite
<1> QED
  BY <1>5, <1>8, <1>9, <1>10, <1>11, <1>12, Zenon DEF Next, ReactorLoop

LEMMA ThreadStep ==
    ASSUME TypeInv, ThreadInv, [Next]_vars
    PROVE  ThreadInv'
BY ReactorStep, ModeStep, Zenon DEF ThreadInv

-----------------------------------------------------------------------------
(***************************************************************************)
(* Priorities                                                              *)
(***************************************************************************)

LEMMA OfPriorityFacts ==
    ASSUME NEW s \in Seq(Items), NEW p, OfPriority(s, p)
    PROVE  /\ \A z \in Items : OfPriority(<<z>>, p) => OfPriority(Append(s, z), p)
           /\ s # <<>> => OfPriority(<<Head(s)>>, p) /\ OfPriority(Tail(s), p)
<1>1. \A z : Range(<<z>>) = {z}
  BY DEF Range
<1>2. ASSUME NEW z \in Items, OfPriority(<<z>>, p) PROVE OfPriority(Append(s, z), p)
  <2>1. Range(Append(s, z)) = Range(s) \cup {z}
    BY AppendLine
  <2>2. \A u \in Range(Append(s, z)) : u \in Range(s) \/ u \in Range(<<z>>)
    BY <2>1, <1>1, Zenon
  <2> QED
    BY <2>2, <1>2, Zenon DEF OfPriority
<1>3. ASSUME s # <<>> PROVE OfPriority(<<Head(s)>>, p) /\ OfPriority(Tail(s), p)
  <2>1. Range(s) = {Head(s)} \cup Range(Tail(s))
    BY <1>3, TailLine
  <2>2. \A u \in Range(Tail(s)) \cup Range(<<Head(s)>>) : u \in Range(s)
    BY <2>1, <1>1, Zenon
  <2> QED
    BY <2>2, Zenon DEF OfPriority
<1> QED
  BY <1>2, <1>3, Zenon

LEMMA PriorityAppended ==
    ASSUME NEW Q \in [Priorities -> Seq(Items)], \A p \in Priorities : OfPriority(Q[p], p),
           NEW q \in Priorities, NEW z \in Items, OfPriority(<<z>>, q)
    PROVE  \A p \in Priorities : OfPriority([Q EXCEPT ![q] = Append(@, z)][p], p)
<1> DEFINE R == [Q EXCEPT ![q] = Append(@, z)]
<1>1. R[q] = Append(Q[q], z) /\ \A p \in Priorities \ {q} : R[p] = Q[p]
  BY Zenon
<1>2. Q[q] \in Seq(Items) /\ OfPriority(Q[q], q)
  BY Zenon
<1> HIDE DEF R
<1>3. OfPriority(R[q], q)
  BY <1>1, <1>2, OfPriorityFacts, Zenon
<1>4. ASSUME NEW p \in Priorities, p # q PROVE OfPriority(R[p], p)
  <2>1. R[p] = Q[p]
    BY <1>1, <1>4, Zenon
  <2> QED
    BY <2>1, Zenon
<1>5. \A p \in Priorities : OfPriority(R[p], p)
  BY <1>3, <1>4, Zenon
<1> QED
  BY <1>5, Zenon DEF R

LEMMA PriorityTaken ==
    ASSUME NEW Q \in [Priorities -> Seq(Items)], \A p \in Priorities : OfPriority(Q[p], p),
           NEW q \in Priorities, Q[q] # <<>>
    PROVE  \A p \in Priorities : OfPriority([Q EXCEPT ![q] = Tail(@)][p], p)
<1> DEFINE R == [Q EXCEPT ![q] = Tail(@)]
<1>1. R[q] = Tail(Q[q]) /\ \A p \in Priorities \ {q} : R[p] = Q[p]
  BY Zenon
<1>2. Q[q] \in Seq(Items) /\ OfPriority(Q[q], q)
  BY Zenon
<1> HIDE DEF R
<1>3. OfPriority(R[q], q)
  BY <1>1, <1>2, OfPriorityFacts, Zenon
<1>4. ASSUME NEW p \in Priorities, p # q PROVE OfPriority(R[p], p)
  <2>1. R[p] = Q[p]
    BY <1>1, <1>4, Zenon
  <2> QED
    BY <2>1, Zenon
<1>5. \A p \in Priorities : OfPriority(R[p], p)
  BY <1>3, <1>4, Zenon
<1> QED
  BY <1>5, Zenon DEF R

LEMMA PriorityStep ==
    ASSUME TypeInv, PriorityInv, [Next]_vars
    PROVE  PriorityInv'
<1> USE DEF queues, threads, history, vars
<1> DEFINE Fine(Q) == \A p \in Priorities : OfPriority(Q[p], p)
<1>1. /\ send_queue \in [Priorities -> Seq(Items)] /\ local \in [Priorities -> Seq(Items)]
      /\ Fine(send_queue) /\ Fine(local)
  BY Zenon DEF TypeInv, PriorityInv
<1>2. \A z \in Items, q \in Priorities :
         OfPriority(<<z>>, q) /\ Requeue(q, z) => Fine(send_queue')
  <2>1. ASSUME NEW z \in Items, NEW q \in Priorities, OfPriority(<<z>>, q), Requeue(q, z)
        PROVE  Fine(send_queue')
    <3>1. \/ send_queue' = send_queue
          \/ send_queue' = [send_queue EXCEPT ![q] = Append(@, z)]
      BY <2>1, Zenon DEF Requeue
    <3> HIDE DEF Fine
    <3>2. Fine([send_queue EXCEPT ![q] = Append(@, z)])
      BY <1>1, <2>1, PriorityAppended, Zenon DEF Fine
    <3> QED
      BY <3>1, <3>2, <1>1, Zenon
  <2> QED
    BY <2>1, Zenon
<1>3. SUFFICES Fine(send_queue') /\ Fine(local')
  BY Zenon DEF PriorityInv
<1>4. \A z, p : (IF z.whole THEN Priority[z.msg] = p ELSE p = 0) => OfPriority(<<z>>, p)
  BY DEF OfPriority, Range
<1> HIDE DEF Fine
<1>5. CASE UNCHANGED <<send_queue, local>>
  BY <1>1, <1>5, Zenon
<1>6. CASE SendMessage
  <2>1. PICK m \in Msgs : \/ send_queue' = send_queue
                          \/ send_queue' = [send_queue EXCEPT ![Priority[m]] = Append(@, Item(m))]
    BY <1>6, Zenon DEF SendMessage
  <2>2. Item(m) \in Items /\ Priority[m] \in Priorities /\ OfPriority(<<Item(m)>>, Priority[m])
    BY <1>4, ItemFacts, Zenon
  <2>3. Fine([send_queue EXCEPT ![Priority[m]] = Append(@, Item(m))])
    BY <1>1, <2>2, PriorityAppended, Zenon DEF Fine
  <2>4. UNCHANGED local
    BY <1>6, Zenon DEF SendMessage
  <2> QED
    BY <2>1, <2>3, <2>4, <1>1, Zenon
<1>7. CASE SwapQueue
  <2>1. \A p : OfPriority(<<>>, p)
    BY EmptyLine, Zenon DEF OfPriority
  <2>2. local' = send_queue /\ send_queue' = [p \in Priorities |-> <<>>]
    BY <1>7, Zenon DEF SwapQueue
  <2>3. \A p \in Priorities : send_queue'[p] = <<>>
    BY <2>2, Zenon
  <2> QED
    BY <2>1, <2>2, <2>3, <1>1, Zenon DEF Fine
<1>8. CASE ProcessNext
  <2>1. PICK p \in Priorities :
          /\ local[p] # <<>>
          /\ local' = [local EXCEPT ![p] = Tail(@)]
          /\ \/ Requeue(p, Head(local[p]))
             \/ UNCHANGED send_queue
             \/ Requeue(0, Emptied(Head(local[p])))
    BY <1>8, Zenon DEF ProcessNext, NextPriority, NotOnline
  <2>2. local[p] \in Seq(Items) /\ OfPriority(local[p], p)
    BY <1>1, Zenon DEF Fine
  <2>3. Head(local[p]) \in Items /\ OfPriority(<<Head(local[p])>>, p)
    BY <2>1, <2>2, TailLine, OfPriorityFacts, Zenon
  <2>4. /\ Emptied(Head(local[p])) \in Items /\ 0 \in Priorities
        /\ OfPriority(<<Emptied(Head(local[p]))>>, 0)
    BY <2>3, <1>4, ItemFacts, Zenon
  <2>5. Fine(local')
    BY <2>1, <1>1, PriorityTaken, Zenon DEF Fine
  <2>6. Fine(send_queue')
    BY <2>1, <2>3, <2>4, <1>1, <1>2, Zenon
  <2> QED
    BY <2>5, <2>6, Zenon
<1>9. CASE Standing \/ SenderTake \/ SenderSend \/ LeaveSenderLoop \/ FlushPending \/ ResetPending
  <2>1. CASE Standing
    BY <2>1, <1>5, Zenon DEF Standing, LinkChange, QueueDone, DrainEncodeDone, LeaveEncodeLoop,
              EnterLite, EnterFull, StopWorkers, JoinWorkers, Join,
          StartWorkers, SpawnWorkers, Spawn, LeaveLite
  <2> QED
    BY <2>1, <1>5, <1>9, Zenon DEF SenderTake, SenderSend, LeaveSenderLoop, FlushPending,
       ResetPending
<1>10. CASE DrainSender \/ HoldBack \/ LiteSend \/ LiteReset
  BY <1>5, <1>10, Zenon DEF DrainSender, HoldBack, LiteSend, LiteReset
<1>11. ASSUME NEW t, TakeTask(t) \/ PushPacket(t) PROVE UNCHANGED <<send_queue, local>>
  BY <1>11, Zenon DEF TakeTask, PushPacket
<1> QED
  BY <1>5, <1>6, <1>7, <1>8, <1>9, <1>10, <1>11, NextCases, Zenon

-----------------------------------------------------------------------------
(***************************************************************************)
(* Every action is a LineStep                                              *)
(***************************************************************************)

LEMMA SingleLine ==
    ASSUME NEW s \in Seq(Items), s # <<>>, Len(s) <= 1
    PROVE  /\ Head(s) \in Items /\ Tail(s) = <<>> /\ s[1] = Head(s)
           /\ \A r \in Seq(Items) : r \o s = Append(r, Head(s))
<1>0. Len(s) = 1 /\ Head(s) = s[1] /\ Head(s) \in Items /\ Len(Tail(s)) = 0
      /\ Tail(s) \in Seq(Items)
  <2>1. /\ Len(s) \in Nat \ {0} /\ Head(s) = s[1] /\ Head(s) \in Items
        /\ Tail(s) \in Seq(Items) /\ Len(Tail(s)) = Len(s) - 1
    BY TailFacts, Zenon
  <2>2. \A n \in Nat \ {0} : n <= 1 => n = 1 /\ n - 1 = 0
    OBVIOUS
  <2> QED
    BY <2>1, <2>2, Zenon
<1>1. Head(s) = s[1] /\ Head(s) \in Items /\ Tail(s) = <<>>
  BY <1>0, EmptyFacts, Zenon
<1>2. s = <<Head(s)>>
  BY <1>0
<1>3. \A r \in Seq(Items) : Append(r, Head(s)) = r \o <<Head(s)>>
  BY <1>1, AppendFacts
<1> QED
  BY <1>1, <1>2, <1>3, Zenon

LEMMA AppendToEmpty == \A x : Append(<<>>, x) = <<x>>
OBVIOUS

LEMMA RankPlaces ==
    \A w \in Places :
        /\ Rank(w) = 2 => w \in {Pend, Sender}
        /\ Rank(w) = 3 => w = Outbound
        /\ Rank(w) = 4 => w \in {Reactor, Encoder}
        /\ Rank(w) = 5 => w = Encode
        /\ Rank(w) = 6 => \E p \in Priorities : w = Local(p)
<1>1. ASSUME NEW w \in Single
      PROVE  /\ Rank(w) = 2 => w \in {Pend, Sender}
             /\ Rank(w) = 3 => w = Outbound
             /\ Rank(w) = 4 => w \in {Reactor, Encoder}
             /\ Rank(w) = 5 => w = Encode
             /\ Rank(w) # 6
  BY RankFacts DEF Single
<1>2. ASSUME NEW p \in Priorities
      PROVE  Rank(Local(p)) = 6 /\ Rank(Send(p)) = 7
  BY RankFacts
<1>3. 6 # 2 /\ 6 # 3 /\ 6 # 4 /\ 6 # 5 /\ 7 # 2 /\ 7 # 3 /\ 7 # 4 /\ 7 # 5 /\ 7 # 6
  OBVIOUS
<1>4. ASSUME NEW w \in Places
      PROVE  /\ Rank(w) = 2 => w \in {Pend, Sender}
             /\ Rank(w) = 3 => w = Outbound
             /\ Rank(w) = 4 => w \in {Reactor, Encoder}
             /\ Rank(w) = 5 => w = Encode
             /\ Rank(w) = 6 => \E p \in Priorities : w = Local(p)
  <2>1. CASE w \in Single
    BY <2>1, <1>1, Zenon
  <2>2. ASSUME NEW p \in Priorities, w = Local(p) PROVE Rank(w) = 6
    BY <2>2, <1>2, Zenon
  <2>3. ASSUME NEW p \in Priorities, w = Send(p) PROVE Rank(w) = 7
    BY <2>3, <1>2, Zenon
  <2>4. w \in Single \/ (\E p \in Priorities : w = Local(p)) \/ (\E p \in Priorities : w = Send(p))
    BY PlaceFacts, Zenon
  <2> QED
    BY <2>1, <2>2, <2>3, <2>4, <1>3, Zenon
<1> QED
  BY <1>4, Zenon

\* From one place to the next, with nothing beside the one it leaves.
LEMMA CarriedAlone ==
    ASSUME NEW F \in Lines, NEW x \in Places, NEW y \in Places, Rank(x) = Rank(y) + 1,
           \A w \in Places \ {x} : Rank(w) = Rank(x) => \A u \in Range(F[w]) : Ok(Head(F[x]), u)
    PROVE  Carried(F, x, y, Head(F[x]))
<1>1. Rank(x) \in Nat /\ Rank(y) \in Nat /\ \A w \in Places : Rank(w) \in Nat
  BY RankFacts
<1>2. Rank(y) < Rank(x)
  BY <1>1
<1>3. \A w \in Places : Rank(y) < Rank(w) /\ ~(Rank(x) < Rank(w)) => Rank(w) = Rank(x)
  BY <1>1
<1> QED
  BY <1>2, <1>3, Zenon DEF Carried

\* A message goes from one place to the next, in the first case as it is.
LEMMA HandOn ==
    ASSUME TypeInv, NEW x \in Places, NEW y \in Places, x # y, Line[x] # <<>>,
           Line'[x] = Tail(Line[x]), Line'[y] = Append(Line[y], Head(Line[x])),
           \A w \in Places \ {x, y} : Line'[w] = Line[w],
           accepted' = accepted, Rank(x) = Rank(y) + 1,
           Calm' => \A w \in Places \ {x} :
                       Rank(w) = Rank(x) => \A u \in Range(Line[w]) : Ok(Head(Line[x]), u)
    PROVE  LineStep
<1>1. Line \in Lines
  BY LineType, Zenon
<1>2. Line[x] \in Seq(Items)
  BY <1>1, Zenon DEF Lines
<1>3. Head(Line[x]) \in Items
  BY <1>2, TailLine, Zenon
<1>4. Moved(Line, Line', x, y, Head(Line[x]))
  BY Zenon DEF Moved
<1>5. Calm' => Carried(Line, x, y, Head(Line[x]))
  BY <1>1, CarriedAlone, Zenon
<1> QED
  BY <1>3, <1>4, <1>5, Zenon DEF LineStep, HandedOn

LEMMA NobodyBeside ==
    ASSUME NEW x \in Places, \A w \in Places \ {x} : Rank(w) = Rank(x) => Line[w] = <<>>
    PROVE  \A w \in Places \ {x} : Rank(w) = Rank(x) =>
               \A u \in Range(Line[w]) : Ok(Head(Line[x]), u)
<1>1. ASSUME NEW w \in Places \ {x}, Rank(w) = Rank(x) PROVE Range(Line[w]) = {}
  <2>1. Line[w] = <<>>
    BY <1>1, Zenon
  <2> QED
    BY <2>1, EmptyLine
<1> QED
  BY <1>1, Zenon

\* The other hands keep what they hold.
LEMMA HandChange ==
    ASSUME TypeInv, NEW t \in {"encode", "sender", "reactor"}, NEW s,
           hand' = [hand EXCEPT ![t] = s]
    PROVE  /\ hand'[t] = s
           /\ \A r \in {"encode", "sender", "reactor"} \ {t} : hand'[r] = hand[r]
BY DEF TypeInv, Workers

\* The steps that move no message.
LEMMA StandingLine ==
    ASSUME Standing
    PROVE  LineStep
<1> USE DEF queues, threads, history, vars
<1>1. UNCHANGED <<queues, sent, accepted>>
  BY Zenon DEF Standing, LinkChange, QueueDone, DrainEncodeDone, LeaveEncodeLoop,
        EnterLite, EnterFull, StopWorkers, JoinWorkers, Join,
          StartWorkers, SpawnWorkers, Spawn, LeaveLite
<1>2. UNCHANGED reactor \/ (reactor \notin {"sent", "holding"} /\ reactor' \notin {"sent", "holding"})
  <2>1. CASE QueueDone
    BY <2>1 DEF QueueDone
  <2> QED
    BY <2>1, Zenon DEF Standing, LinkChange, DrainEncodeDone, LeaveEncodeLoop,
        EnterLite, EnterFull, StopWorkers, JoinWorkers, Join,
          StartWorkers, SpawnWorkers, Spawn, LeaveLite
<1>3. Pending' = Pending /\ InHand' = InHand
  BY <1>1, <1>2, Zenon DEF Pending, InHand
<1>4. Line' = Line
  BY <1>1, <1>3, AllSame, Zenon
<1> QED
  BY <1>1, <1>4, Zenon DEF LineStep

LEMMA SendLine ==
    ASSUME TypeInv, SendMessage
    PROVE  LineStep
<1> USE DEF queues, threads, history, vars
<1>1. PICK m \in Msgs :
        /\ accepted = 1..(m - 1) /\ accepted' = accepted \cup {m}
        /\ \/ dropped' = dropped \cup {m} /\ UNCHANGED send_queue
           \/ send_queue' = [send_queue EXCEPT ![Priority[m]] = Append(@, Item(m))]
  BY Zenon DEF SendMessage
<1>2. UNCHANGED <<local, encode_queue, outbound_queue, lite_pending, hand, reactor, sent>>
  BY Zenon DEF SendMessage
<1>3. Pending' = Pending /\ InHand' = InHand
  BY <1>2, Zenon DEF Pending, InHand
<1>4. CASE dropped' = dropped \cup {m} /\ UNCHANGED send_queue
  <2>1. Line' = Line
    BY <1>2, <1>3, <1>4, AllSame, Zenon
  <2>2. m \in dropped'
    BY <1>4, Zenon
  <2> QED
    BY <2>1, <2>2, <1>1, Zenon DEF LineStep, Refused
<1>5. CASE send_queue' = [send_queue EXCEPT ![Priority[m]] = Append(@, Item(m))]
  <2>1. Priority[m] \in Priorities /\ send_queue \in [Priorities -> Seq(Items)]
    BY ItemFacts, Zenon DEF TypeInv
  <2>2. /\ send_queue'[Priority[m]] = Append(send_queue[Priority[m]], Item(m))
        /\ \A p \in Priorities \ {Priority[m]} : send_queue'[p] = send_queue[p]
    BY <2>1, <1>5, Zenon
  <2>3. \A p \in Priorities : Send(p) \in {Send(Priority[m])} \/ send_queue'[p] = send_queue[p]
    BY <2>2, Zenon
  <2>4. \A w \in Places \ {Send(Priority[m])} : Line'[w] = Line[w]
    BY <2>3, <1>2, <1>3, Others, Zenon
  <2>5. Line'[Send(Priority[m])] = Append(Line[Send(Priority[m])], Item(m))
    BY <2>1, <2>2, LineValues, LineValuesNext, Zenon
  <2>6. Put(Line, Line', Send(Priority[m]), Item(m))
    BY <2>4, <2>5, Zenon DEF Put
  <2> QED
    BY <2>6, <1>1, Zenon DEF LineStep, Entered
<1> QED
  BY <1>1, <1>4, <1>5, Zenon

LEMMA SwapLine ==
    ASSUME TypeInv, ThreadInv, SwapQueue
    PROVE  LineStep
<1> USE DEF queues, threads, history, vars
<1>1. /\ UNCHANGED <<encode_queue, outbound_queue, lite_pending, hand, sent, accepted>>
      /\ reactor = "top" /\ reactor' = "queue"
      /\ local' = send_queue /\ send_queue' = [p \in Priorities |-> <<>>]
  BY Zenon DEF SwapQueue
<1>2. Pending' = Pending /\ InHand' = InHand
  BY <1>1, Zenon DEF Pending, InHand
<1>3. \A p \in Priorities : /\ local[p] = <<>> /\ local'[p] = send_queue[p]
                            /\ send_queue'[p] = <<>>
  BY <1>1, Zenon DEF ThreadInv
<1>4. \A p \in Priorities : /\ Line[Local(p)] = <<>> /\ Line'[Local(p)] = Line[Send(p)]
                            /\ Line'[Send(p)] = <<>>
  BY <1>3, LineValues, LineValuesNext, ZenonT(60)
<1>5. \A w \in Single : Line'[w] = Line[w]
  BY <1>1, <1>2, LineValues, LineValuesNext DEF Single
<1> QED
  BY <1>1, <1>4, <1>5, Zenon DEF LineStep, Swapped

\* A message leaves the reactor's copy.
LEMMA LeavesLocal ==
    ASSUME TypeInv, NEW p \in Priorities, local[p] # <<>>,
           local' = [local EXCEPT ![p] = Tail(@)],
           UNCHANGED <<outbound_queue, lite_pending, hand, reactor, sent, accepted>>
    PROVE  /\ Line[Local(p)] = local[p] /\ Line'[Local(p)] = Tail(local[p])
           /\ Head(local[p]) \in Items
           /\ \A X : /\ Local(p) \in X /\ (Encode \in X \/ encode_queue' = encode_queue)
                     /\ \A q \in Priorities : Send(q) \in X \/ send_queue'[q] = send_queue[q]
                     => \A w \in Places \ X : Line'[w] = Line[w]
<1>1. local \in [Priorities -> Seq(Items)] /\ local[p] \in Seq(Items)
  BY Zenon DEF TypeInv
<1>2. local'[p] = Tail(local[p]) /\ \A q \in Priorities \ {p} : local'[q] = local[q]
  BY <1>1, Zenon
<1>3. Line[Local(p)] = local[p] /\ Line'[Local(p)] = Tail(local[p])
  BY <1>2, LineValues, LineValuesNext, Zenon
<1>4. Head(local[p]) \in Items
  BY <1>1, TailLine, Zenon
<1>5. Pending' = Pending /\ InHand' = InHand
  BY Zenon DEF Pending, InHand
<1>6. ASSUME NEW X, Local(p) \in X, Encode \in X \/ encode_queue' = encode_queue,
             \A q \in Priorities : Send(q) \in X \/ send_queue'[q] = send_queue[q]
      PROVE  \A w \in Places \ X : Line'[w] = Line[w]
  <2>1. \A q \in Priorities : Local(q) \in X \/ local'[q] = local[q]
    BY <1>2, <1>6, Zenon
  <2> QED
    BY <2>1, <1>5, <1>6, Others, Zenon
<1> QED
  BY <1>3, <1>4, <1>6, Zenon

\* Put back or given up.
LEMMA RequeueLine ==
    ASSUME TypeInv, NEW p \in Priorities, NEW q \in Priorities, local[p] # <<>>,
           local' = [local EXCEPT ![p] = Tail(@)], NEW z \in Items,
           z.msg = Head(local[p]).msg, Calm' => ~z.whole,
           UNCHANGED <<encode_queue, outbound_queue, lite_pending, hand, reactor, sent, accepted>>,
           \/ send_queue' = [send_queue EXCEPT ![q] = Append(@, z)]
           \/ dropped' = dropped \cup {z.msg} /\ UNCHANGED send_queue
    PROVE  LineStep
<1>1. /\ Line[Local(p)] = local[p] /\ Line'[Local(p)] = Tail(local[p])
      /\ Local(p) \in Places /\ Send(q) \in Places /\ Local(p) # Send(q)
  BY LeavesLocal, PlaceFacts, Zenon
<1>2. CASE dropped' = dropped \cup {z.msg} /\ UNCHANGED send_queue
  <2>1. \A w \in Places \ {Local(p)} : Line'[w] = Line[w]
    BY <1>2, LeavesLocal, Zenon
  <2>2. Gone(Line, Line', Local(p))
    BY <2>1, <1>1, Zenon DEF Gone
  <2>3. Head(Line[Local(p)]).msg \in dropped'
    BY <1>1, <1>2, Zenon
  <2> QED
    BY <2>2, <2>3, <1>1, Zenon DEF LineStep, GivenUp
<1>3. CASE send_queue' = [send_queue EXCEPT ![q] = Append(@, z)]
  <2>1. send_queue \in [Priorities -> Seq(Items)]
    BY Zenon DEF TypeInv
  <2>2. /\ send_queue'[q] = Append(send_queue[q], z)
        /\ \A r \in Priorities \ {q} : send_queue'[r] = send_queue[r]
    BY <2>1, <1>3, Zenon
  <2>3. \A w \in Places \ {Local(p), Send(q)} : Line'[w] = Line[w]
    <3>1. \A r \in Priorities : Send(r) \in {Local(p), Send(q)} \/ send_queue'[r] = send_queue[r]
      BY <2>2, Zenon
    <3> QED
      BY <3>1, LeavesLocal, Zenon
  <2>4. Line'[Send(q)] = Append(Line[Send(q)], z)
    BY <2>2, LineValues, LineValuesNext, Zenon
  <2>5. Moved(Line, Line', Local(p), Send(q), z)
    BY <2>3, <2>4, <1>1, Zenon DEF Moved
  <2>6. Calm' => Carried(Line, Local(p), Send(q), z)
    BY Zenon DEF Carried
  <2> QED
    BY <2>5, <2>6, <1>1, Zenon DEF LineStep, HandedOn
<1> QED
  BY <1>2, <1>3, Zenon

\* On to the encode queue: beside it are messages of other priorities only.
LEMMA EncodeLine ==
    ASSUME TypeInv, PriorityInv, NEW p \in Priorities, local[p] # <<>>,
           local' = [local EXCEPT ![p] = Tail(@)],
           encode_queue' = Append(encode_queue, Head(local[p])), UNCHANGED send_queue,
           UNCHANGED <<outbound_queue, lite_pending, hand, reactor, sent, accepted>>
    PROVE  LineStep
<1>1. /\ Line[Local(p)] = local[p] /\ Line'[Local(p)] = Tail(local[p])
      /\ Head(local[p]) \in Items
      /\ \A w \in Places \ {Local(p), Encode} : Line'[w] = Line[w]
  BY LeavesLocal, Zenon
<1>2. Line'[Encode] = Append(Line[Encode], Head(Line[Local(p)]))
  BY <1>1, LineValues, LineValuesNext, Zenon
<1>3. Local(p) \in Places /\ Encode \in Places /\ Local(p) # Encode
  BY PlaceFacts DEF Single
<1>4. Rank(Local(p)) = 6 /\ Rank(Encode) = 5 /\ 6 = 5 + 1
  BY RankFacts
<1>5. OfPriority(<<Head(local[p])>>, p)
  BY OfPriorityFacts, Zenon DEF TypeInv, PriorityInv
<1>6. Head(local[p]).whole => Priority[Head(local[p]).msg] = p
  BY <1>5 DEF OfPriority, Range
<1>7. ASSUME NEW w \in Places \ {Local(p)}, Rank(w) = 6, NEW u \in Range(Line[w])
      PROVE  Ok(Head(Line[Local(p)]), u)
  <2>1. PICK q \in Priorities : w = Local(q)
    BY <1>7, RankPlaces, Zenon
  <2>2. q # p /\ Line[w] = local[q]
    BY <2>1, <1>7, LineValues, Zenon
  <2>3. u.whole => Priority[u.msg] = q
    BY <2>2, <1>7, Zenon DEF PriorityInv, OfPriority
  <2> QED
    BY <2>2, <2>3, <1>1, <1>6, Zenon DEF Ok
<1> QED
  BY <1>1, <1>2, <1>3, <1>4, <1>7, HandOn, SMTT(60)

LEMMA ProcessLine ==
    ASSUME TypeInv, PriorityInv, ProcessNext
    PROVE  LineStep
<1> USE DEF queues, threads, history, vars
<1>1. PICK p \in Priorities :
        /\ local[p] # <<>> /\ local' = [local EXCEPT ![p] = Tail(@)]
        /\ \/ link # "Online" /\ NotOnline(p, Head(local[p])) /\ UNCHANGED encode_queue
           \/ encode_queue' = Append(encode_queue, Head(local[p])) /\ UNCHANGED send_queue
           \/ Requeue(0, Emptied(Head(local[p]))) /\ UNCHANGED encode_queue
  BY Zenon DEF ProcessNext, NextPriority
<1>2. UNCHANGED <<outbound_queue, lite_pending, hand, reactor, sent, accepted>>
  BY Zenon DEF ProcessNext
<1>3. link' = link
  BY Zenon DEF ProcessNext
<1> DEFINE h == Head(local[p])
<1>4. h \in Items /\ Emptied(h) \in Items /\ Emptied(h).msg = h.msg /\ ~Emptied(h).whole
  BY <1>1, <1>2, LeavesLocal, ItemFacts, Zenon
<1>5. CASE link # "Online" /\ NotOnline(p, h) /\ UNCHANGED encode_queue
  <2>1. \/ send_queue' = [send_queue EXCEPT ![p] = Append(@, h)]
        \/ dropped' = dropped \cup {h.msg} /\ UNCHANGED send_queue
    BY <1>5, Zenon DEF NotOnline, Requeue
  <2>2. ~Calm'
    BY <1>3, <1>5, Zenon DEF Calm
  <2> QED
    BY <2>1, <2>2, <1>1, <1>2, <1>4, <1>5, RequeueLine, Zenon
<1>6. CASE encode_queue' = Append(encode_queue, h) /\ UNCHANGED send_queue
  BY <1>1, <1>2, <1>6, EncodeLine, Zenon
<1>7. CASE Requeue(0, Emptied(h)) /\ UNCHANGED encode_queue
  <2>1. \/ send_queue' = [send_queue EXCEPT ![0] = Append(@, Emptied(h))]
        \/ dropped' = dropped \cup {Emptied(h).msg} /\ UNCHANGED send_queue
    BY <1>7, Zenon DEF Requeue
  <2>2. 0 \in Priorities
    BY ItemFacts, Zenon
  <2> QED
    BY <2>1, <2>2, <1>1, <1>2, <1>4, <1>7, RequeueLine, Zenon
<1> QED
  BY <1>1, <1>5, <1>6, <1>7, Zenon

\* Who runs fragment_and_send, and the place of what it holds.
Encodes(t, y) == \/ t = "encode" /\ y = Encoder
                 \/ t = "reactor" /\ y = Reactor /\ reactor = "encode"

LEMMA EncodesFacts ==
    ASSUME TypeInv, NEW t, NEW y, Encodes(t, y), NEW s, hand' = [hand EXCEPT ![t] = s],
           UNCHANGED reactor
    PROVE  /\ t \in {"encode", "reactor"} /\ y \in Places /\ Rank(y) = 4
           /\ y # Encode /\ y # Outbound
           /\ Line[y] = hand[t] /\ Line'[y] = s
           /\ hand[t] \in Seq(Items) /\ Len(hand[t]) <= 1
           /\ hand'["sender"] = hand["sender"]
           /\ Encoder = y \/ hand'["encode"] = hand["encode"]
           /\ Reactor = y \/ InHand' = InHand
<1>1. /\ t \in {"encode", "reactor"} /\ y \in Places /\ Rank(y) = 4
      /\ y # Encode /\ y # Outbound
  BY PlaceFacts, RankFacts DEF Encodes, Single
<1>2. hand'[t] = s /\ \A r \in {"encode", "sender", "reactor"} \ {t} : hand'[r] = hand[r]
  BY <1>1, HandChange, Zenon
<1>3. "sender" # t
  BY <1>1
<1>4. hand'["sender"] = hand["sender"]
  BY <1>2, <1>3, Zenon
<1>5. t = "encode" => hand'["reactor"] = hand["reactor"] /\ InHand' = InHand
  <2>1. t = "encode" => hand'["reactor"] = hand["reactor"]
    BY <1>2
  <2> QED
    BY <2>1, Zenon DEF InHand
<1>6. t = "reactor" => hand'["encode"] = hand["encode"]
  BY <1>2
<1>7. Line[y] = hand[t] /\ Line'[y] = s
  <2>1. CASE t = "encode" /\ y = Encoder
    BY <2>1, <1>2, LineValues, LineValuesNext, Zenon
  <2>2. CASE t = "reactor" /\ y = Reactor /\ reactor = "encode"
    <3>1. InHand = hand["reactor"] /\ InHand' = hand'["reactor"]
      BY <2>2, Zenon DEF InHand
    <3> QED
      BY <3>1, <2>2, <1>2, LineValues, LineValuesNext, Zenon
  <2> QED
    BY <2>1, <2>2, Zenon DEF Encodes
<1>8. hand[t] \in Seq(Items) /\ Len(hand[t]) <= 1
  BY <1>1 DEF TypeInv, Workers
<1> QED
  BY <1>1, <1>4, <1>5, <1>6, <1>7, <1>8, Zenon DEF Encodes

LEMMA TakeLine ==
    ASSUME TypeInv, NEW t, NEW y, Encodes(t, y), TakeTask(t)
    PROVE  LineStep
<1> USE DEF queues, threads, history, vars
<1>1. /\ hand[t] = <<>> /\ encode_queue # <<>>
      /\ hand' = [hand EXCEPT ![t] = <<Head(encode_queue)>>]
      /\ encode_queue' = Tail(encode_queue)
      /\ UNCHANGED <<send_queue, local, outbound_queue, lite_pending, reactor, accepted, sent>>
  BY Zenon DEF TakeTask
<1>2. Pending' = Pending
  BY <1>1, Zenon DEF Pending
<1>3. /\ y \in Places /\ Rank(y) = 4 /\ y # Encode
      /\ Line[y] = <<>> /\ Line'[y] = <<Head(encode_queue)>>
  BY <1>1, EncodesFacts, Zenon
<1>4. \A w \in Places \ {Encode, y} : Line'[w] = Line[w]
  <2>1. /\ hand'["sender"] = hand["sender"]
        /\ Encoder = y \/ hand'["encode"] = hand["encode"]
        /\ Reactor = y \/ InHand' = InHand
    BY <1>1, EncodesFacts, Zenon
  <2>2. /\ Encoder \in {Encode, y} \/ hand'["encode"] = hand["encode"]
        /\ Reactor \in {Encode, y} \/ InHand' = InHand
        /\ Encode \in {Encode, y}
    BY <2>1, Zenon
  <2> QED
    BY <1>1, <1>2, <2>1, <2>2, Others, Zenon
<1>5. /\ Line[Encode] # <<>> /\ Line'[Encode] = Tail(Line[Encode])
      /\ Line'[y] = Append(Line[y], Head(Line[Encode]))
  BY <1>1, <1>3, LineValues, LineValuesNext, AppendToEmpty, Zenon
<1>6. Encode \in Places /\ Rank(Encode) = 5 /\ 5 = 4 + 1
  BY PlaceFacts, RankFacts DEF Single
<1>7. \A w \in Places \ {Encode} : Rank(w) # 5
  BY RankPlaces, Zenon
<1> QED
  BY <1>1, <1>3, <1>4, <1>5, <1>6, <1>7, HandOn, ZenonT(60)

LEMMA PushLine ==
    ASSUME TypeInv, ThreadInv, NEW t, NEW y, Encodes(t, y), PushPacket(t)
    PROVE  LineStep
<1> USE DEF queues, threads, history, vars
<1>1. /\ hand[t] # <<>> /\ hand' = [hand EXCEPT ![t] = <<>>]
      /\ \/ outbound_queue' = outbound_queue \o hand[t]
         \/ dropped' = dropped \cup {hand[t][1].msg} /\ UNCHANGED outbound_queue
      /\ UNCHANGED <<send_queue, local, encode_queue, lite_pending, reactor, accepted, sent>>
  BY Zenon DEF PushPacket
<1>2. Pending' = Pending
  BY <1>1, Zenon DEF Pending
<1>3. /\ y \in Places /\ Rank(y) = 4 /\ y # Outbound
      /\ Line[y] = hand[t] /\ Line'[y] = <<>> /\ hand[t] \in Seq(Items) /\ Len(hand[t]) <= 1
  <2>1. y \in Places /\ Rank(y) = 4 /\ y # Outbound /\ Line[y] = hand[t] /\ Line'[y] = <<>>
    BY <1>1, EncodesFacts, Zenon
  <2>2. hand[t] \in Seq(Items) /\ Len(hand[t]) <= 1
    BY <1>1, EncodesFacts, Zenon
  <2> QED
    BY <2>1, <2>2, Zenon
<1>4. \A w \in Places \ {Outbound, y} : Line'[w] = Line[w]
  <2>1. /\ hand'["sender"] = hand["sender"]
        /\ Encoder = y \/ hand'["encode"] = hand["encode"]
        /\ Reactor = y \/ InHand' = InHand
    BY <1>1, EncodesFacts, Zenon
  <2>2. /\ Encoder \in {Outbound, y} \/ hand'["encode"] = hand["encode"]
        /\ Reactor \in {Outbound, y} \/ InHand' = InHand
        /\ Outbound \in {Outbound, y}
    BY <2>1, Zenon
  <2> QED
    BY <1>1, <1>2, <2>1, <2>2, Others, Zenon
<1>5. /\ Tail(hand[t]) = <<>> /\ hand[t][1] = Head(hand[t])
      /\ \A r \in Seq(Items) : r \o hand[t] = Append(r, Head(hand[t]))
  BY <1>1, <1>3, SingleLine, Zenon
<1>6. Line[Outbound] = outbound_queue /\ Line'[Outbound] = outbound_queue'
  BY LineValues, LineValuesNext, Zenon
<1>7. CASE dropped' = dropped \cup {hand[t][1].msg} /\ UNCHANGED outbound_queue
  <2>1. \A w \in Places \ {y} : Line'[w] = Line[w]
    BY <1>4, <1>6, <1>7, Zenon
  <2>2. Gone(Line, Line', y)
    BY <2>1, <1>1, <1>3, <1>5, Zenon DEF Gone
  <2>3. Head(Line[y]).msg \in dropped'
    BY <1>3, <1>5, <1>7, Zenon
  <2> QED
    BY <2>2, <2>3, <1>1, <1>3, Zenon DEF LineStep, GivenUp
<1>8. CASE outbound_queue' = outbound_queue \o hand[t]
  <2>1. outbound_queue \in Seq(Items)
    BY Zenon DEF TypeInv
  <2>2. Line'[Outbound] = Append(Line[Outbound], Head(Line[y])) /\ Line'[y] = Tail(Line[y])
    BY <2>1, <1>3, <1>5, <1>6, <1>8, Zenon
  <2>3. Outbound \in Places /\ Rank(Outbound) = 3 /\ 4 = 3 + 1
    BY PlaceFacts, RankFacts DEF Single
  <2>4. ASSUME Calm' PROVE \A w \in Places \ {y} : Rank(w) = 4 => Line[w] = <<>>
    <3>1. switches = 0
      BY <2>4, Zenon DEF Calm, PushPacket
    <3>2. CASE t = "encode" /\ y = Encoder
      <4>1. reactor \in {"top", "queue"}
        BY <3>1, <3>2, <1>1, Zenon DEF ThreadInv
      <4>2. InHand = <<>>
        BY <4>1, Zenon DEF ThreadInv, InHand
      <4> QED
        BY <4>2, <3>2, LineValues, RankPlaces, Zenon
    <3>3. CASE t = "reactor" /\ y = Reactor /\ reactor = "encode"
      <4>1. hand["encode"] = <<>>
        BY <3>1, <3>3, Zenon DEF ThreadInv
      <4> QED
        BY <4>1, <3>3, LineValues, RankPlaces, Zenon
    <3> QED
      BY <3>2, <3>3, Zenon DEF Encodes
  <2>5. Line[y] # <<>>
    BY <1>1, <1>3, Zenon
  <2>6. Calm' => \A w \in Places \ {y} :
                    Rank(w) = Rank(y) => \A u \in Range(Line[w]) : Ok(Head(Line[y]), u)
    BY <2>4, <1>3, NobodyBeside, Zenon
  <2> QED
    BY <1>1, <1>3, <1>4, <2>2, <2>3, <2>5, <2>6, HandOn, ZenonT(60)
<1> QED
  BY <1>1, <1>7, <1>8, Zenon

\* The first packet of the outbound queue goes to y, which is empty.
LEMMA OutboundLine ==
    ASSUME TypeInv, NEW y \in {Pend, Sender}, Line[y] = <<>>, outbound_queue # <<>>,
           Line'[y] = <<Head(outbound_queue)>>, outbound_queue' = Tail(outbound_queue),
           \A w \in Places \ {Outbound, y} : Line'[w] = Line[w], accepted' = accepted
    PROVE  LineStep
<1>1. y \in Places /\ y # Outbound /\ Outbound \in Places
  BY PlaceFacts DEF Single
<1>2. Rank(y) = 2 /\ Rank(Outbound) = 3 /\ 3 = 2 + 1
  BY RankFacts
<1>3. Line[Outbound] = outbound_queue /\ Line'[Outbound] = outbound_queue'
  BY LineValues, LineValuesNext, Zenon
<1>4. Line'[y] = Append(Line[y], Head(Line[Outbound]))
  BY <1>3, AppendToEmpty, Zenon
<1>5. \A w \in Places \ {Outbound} : Rank(w) # 3
  BY RankPlaces, Zenon
<1>6. Line[Outbound] # <<>> /\ Line'[Outbound] = Tail(Line[Outbound])
  BY <1>3, Zenon
<1> QED
  BY <1>1, <1>2, <1>4, <1>5, <1>6, HandOn, ZenonT(60)

\* The packet in y goes to the socket; nobody else holds one.
LEMMA SocketLine ==
    ASSUME TypeInv, NEW y \in {Pend, Sender}, Line[y] # <<>>, Len(Line[y]) <= 1,
           Line'[y] = <<>>, sent' = sent \o Line[y], accepted' = accepted,
           \A w \in Places \ {Sent, y} : Line'[w] = Line[w],
           Calm' => \A w \in {Pend, Sender} \ {y} : Line[w] = <<>>
    PROVE  LineStep
<1>1. y \in Places /\ y # Sent /\ Sent \in Places
  BY PlaceFacts DEF Single
<1>2. Rank(y) = 2 /\ Rank(Sent) = 1 /\ 2 = 1 + 1
  BY RankFacts
<1>3. Line[y] \in Seq(Items) /\ sent \in Seq(Items)
  BY <1>1, LineType, Zenon DEF Lines, TypeInv
<1>4. Line'[Sent] = Append(Line[Sent], Head(Line[y])) /\ Line'[y] = Tail(Line[y])
  BY <1>3, LineValues, LineValuesNext, SingleLine, Zenon
<1>5. Calm' => \A w \in Places \ {y} : Rank(w) = Rank(y) => Line[w] = <<>>
  BY <1>2, RankPlaces, Zenon
<1>6. Calm' => \A w \in Places \ {y} :
                  Rank(w) = Rank(y) => \A u \in Range(Line[w]) : Ok(Head(Line[y]), u)
  BY <1>1, <1>5, NobodyBeside, Zenon
<1> QED
  BY <1>1, <1>2, <1>4, <1>6, HandOn, Zenon

LEMMA SenderTakeLine ==
    ASSUME TypeInv, SenderTake
    PROVE  LineStep
<1> USE DEF queues, threads, history, vars
<1>1. /\ hand["sender"] = <<>> /\ outbound_queue # <<>>
      /\ hand' = [hand EXCEPT !["sender"] = <<Head(outbound_queue)>>]
      /\ outbound_queue' = Tail(outbound_queue)
      /\ UNCHANGED <<send_queue, local, encode_queue, lite_pending, reactor, accepted, sent>>
  BY Zenon DEF SenderTake
<1>2. /\ hand'["sender"] = <<Head(outbound_queue)>>
      /\ hand'["encode"] = hand["encode"] /\ hand'["reactor"] = hand["reactor"]
  BY <1>1 DEF TypeInv, Workers
<1>3. Pending' = Pending /\ InHand' = InHand
  BY <1>1, <1>2, Zenon DEF Pending, InHand
<1>4. \A w \in Places \ {Outbound, Sender} : Line'[w] = Line[w]
  BY <1>1, <1>2, <1>3, Others, Zenon
<1>5. Line[Sender] = <<>> /\ Line'[Sender] = <<Head(outbound_queue)>>
  BY <1>1, <1>2, LineValues, LineValuesNext, Zenon
<1> QED
  BY <1>1, <1>4, <1>5, OutboundLine, Zenon

LEMMA SenderSendLine ==
    ASSUME TypeInv, ThreadInv, SenderSend
    PROVE  LineStep
<1> USE DEF queues, threads, history, vars
<1>1. /\ hand["sender"] # <<>> /\ sent' = sent \o hand["sender"]
      /\ hand' = [hand EXCEPT !["sender"] = <<>>]
      /\ UNCHANGED <<send_queue, local, encode_queue, outbound_queue, lite_pending, reactor,
                     accepted, switches>>
  BY Zenon DEF SenderSend
<1>2. /\ hand'["sender"] = <<>> /\ Len(hand["sender"]) <= 1
      /\ hand'["encode"] = hand["encode"] /\ hand'["reactor"] = hand["reactor"]
  BY <1>1 DEF TypeInv, Workers
<1>3. Pending' = Pending /\ InHand' = InHand
  BY <1>1, <1>2, Zenon DEF Pending, InHand
<1>4. \A w \in Places \ {Sent, Sender} : Line'[w] = Line[w]
  BY <1>1, <1>2, <1>3, Others, Zenon
<1>5. Line[Sender] = hand["sender"] /\ Line'[Sender] = <<>> /\ Line[Pend] = Pending
  BY <1>2, LineValues, LineValuesNext, Zenon
<1>6. ASSUME Calm' PROVE Pending = <<>>
  BY <1>1, <1>6, Zenon DEF Calm, ThreadInv, Pending
<1>7. Calm' => \A w \in {Pend, Sender} \ {Sender} : Line[w] = <<>>
  BY <1>5, <1>6, Zenon
<1>8. Line[Sender] # <<>> /\ Len(Line[Sender]) <= 1 /\ sent' = sent \o Line[Sender]
  BY <1>1, <1>2, <1>5, Zenon
<1> QED
  BY <1>1, <1>4, <1>5, <1>7, <1>8, SocketLine, Zenon

\* A packet the leaving sender thread throws away: set_lite_mode was called.
LEMMA LeaveSenderLine ==
    ASSUME TypeInv, ThreadInv, LeaveSenderLoop
    PROVE  LineStep
<1> USE DEF queues, threads, history, vars
<1>1. /\ UNCHANGED <<send_queue, local, encode_queue, lite_pending, hand, reactor, accepted,
                     sent, switches>>
      /\ \/ UNCHANGED outbound_queue
         \/ /\ thread["sender"] = "drain" /\ outbound_queue # <<>>
            /\ outbound_queue' = Tail(outbound_queue)
  BY Zenon DEF LeaveSenderLoop
<1>2. Pending' = Pending /\ InHand' = InHand
  BY <1>1, Zenon DEF Pending, InHand
<1>3. CASE UNCHANGED outbound_queue
  <2>1. Line' = Line
    BY <1>1, <1>2, <1>3, AllSame, Zenon
  <2> QED
    BY <2>1, <1>1, Zenon DEF LineStep
<1>4. CASE /\ thread["sender"] = "drain" /\ outbound_queue # <<>>
           /\ outbound_queue' = Tail(outbound_queue)
  <2>1. \A w \in Places \ {Outbound} : Line'[w] = Line[w]
    BY <1>1, <1>2, Others, Zenon
  <2>2. Gone(Line, Line', Outbound)
    BY <2>1, <1>4, LineValues, LineValuesNext, Zenon DEF Gone
  <2>3. switches' # 0
    <3>1. ASSUME switches = 0 PROVE FALSE
      <4>1. thread = [t \in Workers |-> IF lite THEN "off" ELSE "loop"]
        BY <3>1, Zenon DEF ThreadInv
      <4>2. thread["sender"] = IF lite THEN "off" ELSE "loop"
        BY <4>1, Zenon DEF Workers
      <4>3. thread["sender"] = "off" \/ thread["sender"] = "loop"
        BY <4>2, Zenon
      <4> QED
        BY <4>3, <1>4, Zenon
    <3> QED
      BY <3>1, <1>1, Zenon
  <2>4. Outbound \in Places
    BY PlaceFacts DEF Single
  <2> QED
    BY <2>2, <2>3, <2>4, <1>1, Zenon DEF LineStep, GivenUp
<1> QED
  BY <1>1, <1>3, <1>4, Zenon

LEMMA DrainSenderLine ==
    ASSUME TypeInv, ThreadInv, DrainSender
    PROVE  LineStep
<1> USE DEF queues, threads, history, vars
<1>1. /\ reactor = "sender"
      /\ \/ reactor' = "top" /\ UNCHANGED <<lite_pending, outbound_queue, hand>>
         \/ /\ lite_pending = <<>> /\ outbound_queue # <<>> /\ reactor' = "holding"
            /\ lite_pending' = <<Head(outbound_queue)>> /\ outbound_queue' = Tail(outbound_queue)
            /\ \E s : hand' = [hand EXCEPT !["reactor"] = s]
         \/ /\ reactor' = "holding" /\ UNCHANGED <<lite_pending, outbound_queue>>
            /\ \E s : hand' = [hand EXCEPT !["reactor"] = s]
      /\ UNCHANGED <<send_queue, local, encode_queue, accepted, sent>>
  BY Zenon DEF DrainSender
<1>2. hand["reactor"] = <<>>
  BY <1>1, Zenon DEF ThreadInv
<1>3. hand'["encode"] = hand["encode"] /\ hand'["sender"] = hand["sender"]
  <2>1. hand' = hand \/ \E s : hand' = [hand EXCEPT !["reactor"] = s]
    BY <1>1, Zenon
  <2> QED
    BY <2>1 DEF TypeInv, Workers
<1>4. InHand = <<>> /\ InHand' = <<>>
  BY <1>1, <1>2, Zenon DEF InHand
<1>5. Pending = lite_pending /\ Pending' = lite_pending'
  BY <1>1, Zenon DEF Pending
<1>6. CASE UNCHANGED <<lite_pending, outbound_queue>>
  <2>1. Line' = Line
    BY <1>1, <1>3, <1>4, <1>5, <1>6, AllSame, Zenon
  <2> QED
    BY <2>1, <1>1, Zenon DEF LineStep
<1>7. CASE /\ lite_pending = <<>> /\ outbound_queue # <<>>
           /\ lite_pending' = <<Head(outbound_queue)>> /\ outbound_queue' = Tail(outbound_queue)
  <2>1. \A w \in Places \ {Outbound, Pend} : Line'[w] = Line[w]
    BY <1>1, <1>3, <1>4, Others, Zenon
  <2>2. Line[Pend] = <<>> /\ Line'[Pend] = <<Head(outbound_queue)>>
    BY <1>5, <1>7, LineValues, LineValuesNext, Zenon
  <2> QED
    BY <2>1, <2>2, <1>1, <1>7, OutboundLine, Zenon
<1> QED
  BY <1>1, <1>6, <1>7, Zenon

LEMMA LiteSendLine ==
    ASSUME TypeInv, ThreadInv, NeverRaised, LiteSend
    PROVE  LineStep
<1> USE DEF queues, threads, history, vars
<1>1. /\ reactor = "holding" /\ reactor' = "sent"
      /\ hand' = [hand EXCEPT !["reactor"] = <<>>]
      /\ UNCHANGED <<send_queue, local, encode_queue, outbound_queue, lite_pending, accepted,
                     switches>>
  BY Zenon DEF LiteSend
<1>2. hand["reactor"] = lite_pending /\ lite_pending # <<>>
  BY <1>1, Zenon DEF ThreadInv
<1>3. sent' = sent \o lite_pending
  BY <1>2 DEF LiteSend
<1>4. /\ hand'["reactor"] = <<>> /\ Len(lite_pending) <= 1
      /\ hand'["encode"] = hand["encode"] /\ hand'["sender"] = hand["sender"]
  BY <1>1 DEF TypeInv, Workers
<1>5. /\ Pending = lite_pending /\ Pending' = <<>> /\ InHand = <<>> /\ InHand' = <<>>
  BY <1>1, <1>4, Zenon DEF Pending, InHand
<1>6. \A w \in Places \ {Sent, Pend} : Line'[w] = Line[w]
  BY <1>1, <1>4, <1>5, Others, Zenon
<1>7. ASSUME Calm' PROVE hand["sender"] = <<>>
  BY <1>1, <1>7, Zenon DEF Calm, ThreadInv
<1>8. Line[Pend] = lite_pending /\ Line'[Pend] = <<>> /\ Line[Sender] = hand["sender"]
  BY <1>5, LineValues, LineValuesNext, Zenon
<1>9. Calm' => \A w \in {Pend, Sender} \ {Pend} : Line[w] = <<>>
  BY <1>7, <1>8, Zenon
<1>10. Line[Pend] # <<>> /\ Len(Line[Pend]) <= 1 /\ sent' = sent \o Line[Pend]
  BY <1>2, <1>3, <1>4, <1>8, Zenon
<1> QED
  BY <1>1, <1>6, <1>8, <1>9, <1>10, SocketLine, Zenon

\* The packet goes on waiting, or m_lite_pending forgets what is sent.
LEMMA LiteOtherLine ==
    ASSUME TypeInv, ThreadInv, HoldBack \/ LiteReset
    PROVE  LineStep
<1> USE DEF queues, threads, history, vars
<1>1. UNCHANGED <<send_queue, local, encode_queue, outbound_queue, accepted, sent>>
  BY Zenon DEF HoldBack, LiteReset
<1>2. CASE HoldBack
  <2>1. /\ reactor = "holding" /\ reactor' = "top" /\ UNCHANGED lite_pending
        /\ hand' = [hand EXCEPT !["reactor"] = <<>>]
    BY <1>2, Zenon DEF HoldBack
  <2>2. /\ hand'["reactor"] = <<>>
        /\ hand'["encode"] = hand["encode"] /\ hand'["sender"] = hand["sender"]
    BY <2>1 DEF TypeInv, Workers
  <2>3. Pending' = Pending /\ InHand = <<>> /\ InHand' = <<>>
    BY <2>1, <2>2, Zenon DEF Pending, InHand
  <2>4. Line' = Line
    BY <1>1, <2>2, <2>3, AllSame, Zenon
  <2> QED
    BY <2>4, <1>1, Zenon DEF LineStep
<1>3. CASE LiteReset
  <2>1. /\ reactor = "sent" /\ reactor' = "sender" /\ UNCHANGED hand /\ lite_pending' = <<>>
    BY <1>3, Zenon DEF LiteReset
  <2>2. Pending = <<>> /\ Pending' = <<>> /\ InHand' = InHand
    BY <2>1, Zenon DEF Pending, InHand
  <2>3. Line' = Line
    BY <1>1, <2>1, <2>2, AllSame, Zenon
  <2> QED
    BY <2>3, <1>1, Zenon DEF LineStep
<1> QED
  BY <1>2, <1>3, Zenon

LEMMA PathStep ==
    ASSUME TypeInv, ThreadInv, PriorityInv, [Next]_vars, NeverRaised'
    PROVE  LineStep
<1>1. Kept
  BY KeptStep, Zenon
<1>2. NeverRaised
  BY <1>1, Zenon DEF Kept
<1>3. ~FlushPending /\ ~ResetPending
  <2>1. NeverRaised => setter \in {"idle"} \cup Lowering
    BY Zenon DEF NeverRaised, ThreadInv
  <2> QED
    BY <2>1, <1>2, Zenon DEF Lowering, FlushPending, ResetPending
<1>4. CASE EncodeThread
  BY <1>4, TakeLine, PushLine, Zenon DEF EncodeThread, Encodes
<1>5. CASE DrainEncode
  BY <1>5, TakeLine, PushLine, Zenon DEF DrainEncode, Encodes
<1>6. CASE SendMessage \/ SwapQueue \/ ProcessNext
  BY <1>6, SendLine, SwapLine, ProcessLine, Zenon
<1>7. CASE SenderTake \/ SenderSend \/ LeaveSenderLoop
  BY <1>7, SenderTakeLine, SenderSendLine, LeaveSenderLine, Zenon
<1>8. CASE DrainSender \/ HoldBack \/ LiteSend \/ LiteReset
  BY <1>2, <1>8, DrainSenderLine, LiteSendLine, LiteOtherLine, Zenon
<1>9. CASE Standing
  BY <1>9, StandingLine, Zenon
<1> QED
  BY <1>3, <1>4, <1>5, <1>6, <1>7, <1>8, <1>9, Zenon
     DEF Next, ReactorLoop, SetLiteMode, Standing

-----------------------------------------------------------------------------
(***************************************************************************)
(* Results                                                                 *)
(***************************************************************************)

LEMMA InitInv ==
    ASSUME Init
    PROVE  IInv
<1>1. <<>> \in Seq(Items) /\ Len(<<>>) <= 1
  OBVIOUS
<1>2. TypeInv
  <2>1. /\ send_queue \in [Priorities -> Seq(Items)] /\ local \in [Priorities -> Seq(Items)]
        /\ hand \in [Workers \cup {"reactor"} -> Seq(Items)]
        /\ \A t \in Workers \cup {"reactor"} : Len(hand[t]) <= 1
    BY <1>1, Zenon DEF Init
  <2>2. /\ link \in {"none", "Handshake", "Online", "Closed"} /\ lite \in BOOLEAN
        /\ workers_running \in BOOLEAN
    BY StartAssumption DEF Init
  <2>3. thread \in [Workers -> {"off", "loop", "drain"}]
    <3>1. thread = [t \in Workers |-> IF lite THEN "off" ELSE "loop"]
      BY Zenon DEF Init
    <3>2. (IF lite THEN "off" ELSE "loop") \in {"off", "loop", "drain"}
      BY Zenon
    <3> QED
      BY <3>1, <3>2, Zenon
  <2>4. changes \in Nat /\ switches \in Nat
    BY DEF Init
  <2> QED
    BY <2>1, <2>2, <2>3, <2>4, <1>1, Zenon DEF Init, TypeInv
<1>3. /\ \A p \in Priorities : local[p] = <<>> /\ send_queue[p] = <<>>
      /\ \A t \in {"encode", "sender", "reactor"} : hand[t] = <<>>
  BY Zenon DEF Init, Workers
<1>4. ThreadInv
  <2>1. reactor = "top"
    BY Zenon DEF Init
  <2> QED
    BY <2>1, <1>3, Zenon DEF Init, ThreadInv
<1>5. PriorityInv
  BY <1>3, EmptyLine, Zenon DEF PriorityInv, OfPriority
<1>6. \A w \in Places : Line[w] = <<>>
  <2>1. Pending = <<>> /\ InHand = <<>>
    BY <1>3, Zenon DEF Init, Pending, InHand
  <2>2. \A w \in Single : Line[w] = <<>>
    BY <2>1, <1>3, LineValues DEF Init, Single
  <2>3. \A p \in Priorities : Line[Local(p)] = <<>> /\ Line[Send(p)] = <<>>
    BY <1>3, LineValues, Zenon
  <2>4. \A w \in Places : w \in Single \/ \E p \in Priorities : w = Local(p) \/ w = Send(p)
    BY PlaceFacts, Zenon
  <2> QED
    BY <2>2, <2>3, <2>4, Zenon
<1>7. \A w \in Places : /\ MsgsOf(Line[w]) = {} /\ Range(Line[w]) = {}
                        /\ MsgOnce(Line[w]) /\ InOrder(Line[w])
  BY <1>6, EmptyLine, Zenon
<1>8. Distinct(Line) /\ All(Line) = {} /\ Ordered(Line)
  <2>1. All(Line) = {}
    BY <1>7, Zenon DEF All
  <2> QED
    BY <2>1, <1>7, Zenon DEF Distinct, Ordered
<1>9. accepted = {}
  BY Zenon DEF Init
<1>10. LineInv
  BY <1>8, <1>9, Zenon DEF LineInv
<1> QED
  BY <1>2, <1>4, <1>5, <1>10, Zenon DEF IInv

\* The inductive invariant: in every state each message is in one place, none
\* is missing, the places are in order and where the threads stand decides
\* which of them hold something.
THEOREM PathInvariant == Spec => []IInv
<1>1. Init => IInv
  BY InitInv, Zenon
<1>2. IInv /\ [Next]_vars => IInv'
  <2> SUFFICES ASSUME IInv, [Next]_vars
               PROVE  IInv'
    OBVIOUS
  <2>1. TypeInv /\ ThreadInv /\ PriorityInv /\ LineInv
    BY Zenon DEF IInv
  <2>2. TypeInv' /\ ThreadInv' /\ PriorityInv' /\ Kept
    BY <2>1, TypeStep, ThreadStep, PriorityStep, KeptStep, Zenon
  <2>3. NeverRaised' => LineStep
    BY <2>1, PathStep, Zenon
  <2>4. LineInv'
    BY <2>1, <2>2, <2>3, LineStepKept, Zenon
  <2> QED
    BY <2>2, <2>4, Zenon DEF IInv
<1> QED
  BY <1>1, <1>2, PTL DEF Spec

\* No packet goes to the socket twice, in full mode, in lite mode and while
\* set_lite_mode(true) has the reactor and the threads take from the same
\* queues.
THEOREM OnceTheorem == Spec => []SentOnce
<1>1. IInv => SentOnce
  <2> SUFFICES ASSUME IInv, NeverRaised
               PROVE  MsgOnce(sent)
    BY Zenon DEF SentOnce, MsgOnce
  <2>1. Distinct(Line)
    BY Zenon DEF IInv, LineInv
  <2>2. Sent \in Places /\ Line[Sent] = sent
    BY PlaceFacts, LineValues DEF Single
  <2> QED
    BY <2>1, <2>2, Zenon DEF Distinct
<1> QED
  BY <1>1, PathInvariant, PTL

\* While the peer stays Online and the mode the same, messages of one priority
\* leave in the order send_message took them in.
THEOREM InOrderTheorem == Spec => []SentInOrder
<1>1. IInv => SentInOrder
  <2> SUFFICES ASSUME IInv, Calm
               PROVE  InOrder(sent)
    BY Zenon DEF SentInOrder, InOrder, Ok, Calm
  <2>1. Ordered(Line)
    BY Zenon DEF IInv, LineInv
  <2>2. Sent \in Places /\ Line[Sent] = sent
    BY PlaceFacts, LineValues DEF Single
  <2> QED
    BY <2>1, <2>2, Zenon DEF Ordered
<1> QED
  BY <1>1, PathInvariant, PTL

\* No message of send_message is lost between the queues and the threads: it
\* is in one of them, or was sent, or given up for a reason.
THEOREM VanishTheorem == Spec => []NothingVanishes
<1>1. IInv => NothingVanishes
  <2> SUFFICES ASSUME IInv, switches = 0
               PROVE  accepted \subseteq Underway \cup MsgsOf(sent) \cup dropped
    BY Zenon DEF NothingVanishes
  <2>1. accepted \subseteq All(Line) \cup dropped /\ TypeInv
    BY Zenon DEF IInv, LineInv
  <2>2. \A p \in Priorities : local[p] \in Range(local) /\ send_queue[p] \in Range(send_queue)
    BY <2>1, Zenon DEF TypeInv, Range
  <2>3. \A t \in {"encode", "sender", "reactor"} : hand[t] \in Range(hand)
    BY <2>1 DEF TypeInv, Range, Workers
  <2>4. /\ MsgsOf(Pending) \subseteq Underway /\ MsgsOf(InHand) \subseteq Underway
    BY <2>3, EmptyLine, Zenon DEF Pending, InHand, Underway
  <2>5. /\ MsgsOf(encode_queue) \subseteq Underway /\ MsgsOf(outbound_queue) \subseteq Underway
        /\ MsgsOf(hand["encode"]) \subseteq Underway /\ MsgsOf(hand["sender"]) \subseteq Underway
        /\ \A p \in Priorities : /\ MsgsOf(local[p]) \subseteq Underway
                                 /\ MsgsOf(send_queue[p]) \subseteq Underway
    BY <2>2, <2>3, Zenon DEF Underway
  <2>6. \A w \in Single : MsgsOf(Line[w]) \subseteq Underway \cup MsgsOf(sent)
    BY <2>4, <2>5, LineValues, Zenon DEF Single
  <2>7. \A w \in Places : MsgsOf(Line[w]) \subseteq Underway \cup MsgsOf(sent)
    <3>1. \A p \in Priorities : /\ MsgsOf(Line[Local(p)]) \subseteq Underway
                                /\ MsgsOf(Line[Send(p)]) \subseteq Underway
      BY <2>5, LineValues, Zenon
    <3>2. \A w \in Places : w \in Single \/ \E p \in Priorities : w = Local(p) \/ w = Send(p)
      BY PlaceFacts, Zenon
    <3> QED
      BY <3>1, <3>2, <2>6, Zenon
  <2>8. All(Line) \subseteq Underway \cup MsgsOf(sent)
    BY <2>7, Zenon DEF All
  <2> QED
    BY <2>1, <2>8, Zenon
<1> QED
  BY <1>1, PathInvariant, PTL

\* The message that moves on to the encode queue, and what stays in the copy.
LEMMA MovedOn ==
    ASSUME TypeInv, [Next]_vars, Len(encode_queue') > Len(encode_queue)
    PROVE  \E p \in Priorities :
              /\ NextPriority(p) /\ local' = [local EXCEPT ![p] = Tail(@)]
              /\ encode_queue'[Len(encode_queue')] = Head(local[p])
<1> USE DEF queues, threads, history, vars
<1>1. encode_queue \in Seq(Items) /\ Len(encode_queue) \in Nat
  BY LenFacts DEF TypeInv
<1>2. encode_queue' # encode_queue
  BY <1>1
<1>3. encode_queue # <<>> => encode_queue' # Tail(encode_queue)
  BY <1>1, TailFacts
<1>4. \A t : ~TakeTask(t) /\ ~PushPacket(t)
  BY <1>2, <1>3, Zenon DEF TakeTask, PushPacket
<1>5. ~Standing
  BY <1>2, Zenon DEF Standing, LinkChange, QueueDone, DrainEncodeDone, LeaveEncodeLoop,
     EnterLite, EnterFull, StopWorkers, JoinWorkers, Join,
          StartWorkers, SpawnWorkers, Spawn, LeaveLite
<1>6. ~SendMessage /\ ~SwapQueue /\ ~SenderTake /\ ~SenderSend /\ ~LeaveSenderLoop
  BY <1>2, Zenon DEF SendMessage, SwapQueue, SenderTake, SenderSend, LeaveSenderLoop
<1>7. ~DrainSender /\ ~HoldBack /\ ~LiteSend /\ ~LiteReset /\ ~FlushPending /\ ~ResetPending
  BY <1>2, Zenon DEF DrainSender, HoldBack, LiteSend, LiteReset, FlushPending, ResetPending
<1>8. ProcessNext
  BY <1>4, <1>5, <1>6, <1>7, NextCases, Zenon
<1>9. PICK p \in Priorities :
        /\ NextPriority(p) /\ local' = [local EXCEPT ![p] = Tail(@)]
        /\ encode_queue' = Append(encode_queue, Head(local[p]))
  BY <1>2, <1>8, Zenon DEF ProcessNext
<1>10. local[p] \in Seq(Items) /\ local[p] # <<>>
  BY <1>9, Zenon DEF NextPriority, TypeInv
<1>11. Head(local[p]) \in Items
  BY <1>10, TailLine, Zenon
<1>12. encode_queue'[Len(encode_queue')] = Head(local[p])
  BY <1>1, <1>9, <1>11, AppendFacts
<1> QED
  BY <1>9, <1>12, Zenon

\* The higher priority leaves first: what process_send_queue moves to the
\* encode queue leaves no message of a higher priority in the copy.
THEOREM HigherTheorem == Spec => HigherFirst
<1> DEFINE first == Len(encode_queue') > Len(encode_queue) =>
                      LET moved == encode_queue'[Len(encode_queue')]
                      IN  \A q \in Range(local') : \A i \in DOMAIN q :
                             q[i].whole => Priority[q[i].msg] <= Priority[moved.msg]
<1>1. IInv /\ [Next]_vars => [first]_vars
  <2> SUFFICES ASSUME IInv, [Next]_vars, Len(encode_queue') > Len(encode_queue),
                      NEW q \in Range(local'), NEW i \in DOMAIN q, q[i].whole
               PROVE  Priority[q[i].msg] <= Priority[encode_queue'[Len(encode_queue')].msg]
    BY Zenon
  <2>1. TypeInv /\ PriorityInv /\ TypeInv' /\ PriorityInv'
    BY TypeStep, PriorityStep, Zenon DEF IInv
  <2>2. PICK p \in Priorities :
          /\ NextPriority(p) /\ local' = [local EXCEPT ![p] = Tail(@)]
          /\ encode_queue'[Len(encode_queue')] = Head(local[p])
    BY <2>1, MovedOn, Zenon
  <2>3. local \in [Priorities -> Seq(Items)] /\ local' \in [Priorities -> Seq(Items)]
    BY <2>1, Zenon DEF TypeInv
  <2>4. PICK r \in Priorities : q = local'[r]
    BY <2>3, Zenon DEF Range
  <2>5. local[r] # <<>>
    <3>1. local'[r] # <<>>
      <4>1. DOMAIN <<>> = {}
        OBVIOUS
      <4> QED
        BY <4>1, <2>4, Zenon
    <3>2. r = p \/ local'[r] = local[r]
      BY <2>2, <2>3, Zenon
    <3> QED
      BY <3>1, <3>2, <2>2, Zenon DEF NextPriority
  <2>6. r <= p
    BY <2>2, <2>5, Zenon DEF NextPriority
  <2>7. Priority[q[i].msg] = r
    <3>1. OfPriority(local'[r], r)
      BY <2>1, Zenon DEF PriorityInv
    <3>2. OfPriority(q, r) /\ q[i] \in Range(q)
      BY <3>1, <2>4, Zenon DEF Range
    <3> QED
      BY <3>2, Zenon DEF OfPriority
  <2> DEFINE h == Head(local[p])
  <2>8. h \in Items /\ OfPriority(<<h>>, p)
    BY <2>1, <2>2, <2>3, TailLine, OfPriorityFacts, Zenon DEF PriorityInv, NextPriority
  <2>9. IF h.whole THEN Priority[h.msg] = p ELSE p = 0
    BY <2>8 DEF OfPriority, Range
  <2>10. Priority[h.msg] \in Nat /\ r \in Nat /\ p \in Nat
    <3>1. h.msg \in Msgs
      BY <2>8 DEF Items
    <3>2. \A m \in Msgs : Priority[m] \in Nat
      BY SendPathAssumption, Zenon
    <3>3. \A x \in Priorities : x \in Nat
      BY <3>2 DEF Priorities
    <3> QED
      BY <3>1, <3>2, <3>3, Zenon
  <2> HIDE DEF h
  <2>11. r <= Priority[h.msg]
    BY <2>6, <2>9, <2>10
  <2> QED
    BY <2>2, <2>7, <2>11, Zenon DEF h
<1> QED
  BY <1>1, PathInvariant, PTL DEF Spec, HigherFirst

-----------------------------------------------------------------------------
(***************************************************************************)
(* Room in the queues.  The positions of the queues of all priorities are  *)
(* a finite set, and no step makes more of them than the limit.            *)
(***************************************************************************)

Counted(q) == IsFiniteSet(Positions(q)) /\ Total(q) <= QueueLimit

\* What the counting needs to know of finite sets; SetFacts below proves it.
CountingFacts ==
    /\ IsFiniteSet({}) /\ Cardinality({}) = 0
    /\ \A S : IsFiniteSet(S) => Cardinality(S) \in Nat
    /\ \A S, x : IsFiniteSet(S) =>
          /\ IsFiniteSet(S \cup {x})
          /\ Cardinality(S \cup {x}) \in {Cardinality(S), Cardinality(S) + 1}
    /\ \A S, T : IsFiniteSet(S) /\ T \subseteq S =>
          IsFiniteSet(T) /\ Cardinality(T) <= Cardinality(S)

RoomInv ==
    /\ Counted(send_queue) /\ Counted(local)
    /\ Len(encode_queue) <= EncodeCap /\ Len(outbound_queue) <= OutboundCap
    /\ accepted \subseteq Msgs /\ dropped \subseteq Msgs

\* The reactor's loops do no more iterations than their bounds.
TurnInv ==
    /\ reactor \in {"top", "queue", "encode", "sender", "holding", "sent"}
    /\ setter \in {"idle", "stopping", "joinEncode", "joinSender", "flushing",
                   "resetting", "starting", "spawnEncode", "spawnSender", "leaving"}
    /\ turn \in Nat
    /\ reactor \in {"top", "queue"} => turn = 0
    /\ reactor = "encode" => turn <= LiteTasks
    /\ reactor = "sender" => turn <= LitePackets
    /\ reactor \in {"holding", "sent"} => turn < LitePackets

LEMMA TurnStep ==
    ASSUME TurnInv, [Next]_vars
    PROVE  TurnInv'
<1> USE DEF queues, threads, history, vars
<1>0. LiteTasks \in Nat \ {0} /\ LitePackets \in Nat \ {0}
  BY SendPathAssumption, Zenon
<1> DEFINE Setters == {"idle", "stopping", "joinEncode", "joinSender", "flushing",
                   "resetting", "starting", "spawnEncode", "spawnSender", "leaving"}
<1>1. ASSUME setter' \in Setters, reactor' = reactor, turn' = turn
      PROVE  TurnInv'
  BY <1>1, Zenon DEF TurnInv
<1>2. CASE UNCHANGED vars \/ LinkChange \/ SendMessage \/ ProcessNext \/ EncodeThread
           \/ LeaveEncodeLoop \/ SenderTake \/ SenderSend \/ LeaveSenderLoop
  <2>1. setter' = setter /\ reactor' = reactor /\ turn' = turn
    BY <1>2, Zenon DEF LinkChange, SendMessage, ProcessNext, EncodeThread, LeaveEncodeLoop,
       SenderTake, SenderSend, LeaveSenderLoop, TakeTask, PushPacket
  <2> QED
    BY <1>1, <2>1, Zenon DEF TurnInv
<1>3. CASE EnterLite \/ EnterFull \/ SetLiteMode
  <2>1. reactor' = reactor /\ turn' = turn /\ setter' \in Setters
    BY <1>3, Zenon DEF EnterLite, EnterFull, SetLiteMode, StopWorkers, JoinWorkers, Join,
       FlushPending, ResetPending, StartWorkers, SpawnWorkers, Spawn, LeaveLite
  <2> QED
    BY <1>1, <2>1, Zenon
<1>4. CASE SwapQueue
  BY <1>4, Zenon DEF SwapQueue, TurnInv
<1>5. CASE QueueDone
  BY <1>0, <1>5 DEF QueueDone, TurnInv
<1>6. CASE DrainEncode
  <2>1. /\ reactor = "encode" /\ reactor' = "encode" /\ setter' = setter
        /\ turn' = turn \/ (turn < LiteTasks /\ turn' = turn + 1)
    BY <1>6, Zenon DEF DrainEncode, TakeTask, PushPacket
  <2> QED
    BY <1>0, <2>1 DEF TurnInv
<1>7. CASE DrainEncodeDone
  BY <1>0, <1>7 DEF DrainEncodeDone, TurnInv
<1>8. CASE DrainSender
  <2>1. /\ reactor = "sender" /\ setter' = setter
        /\ \/ reactor' = "top" /\ turn' = 0
           \/ reactor' = "holding" /\ turn' = turn /\ turn < LitePackets
    BY <1>8, Zenon DEF DrainSender
  <2> QED
    BY <1>0, <2>1 DEF TurnInv
<1>9. CASE HoldBack
  BY <1>0, <1>9 DEF HoldBack, TurnInv
<1>10. CASE LiteSend
  <2>1. reactor = "holding" /\ reactor' = "sent" /\ turn' = turn /\ setter' = setter
    BY <1>10, Zenon DEF LiteSend
  <2> QED
    BY <1>0, <2>1 DEF TurnInv
<1>11. CASE LiteReset
  BY <1>0, <1>11 DEF LiteReset, TurnInv
<1> QED
  BY <1>2, <1>3, <1>4, <1>5, <1>6, <1>7, <1>8, <1>9, <1>10, <1>11, Zenon DEF Next, ReactorLoop

LEMMA PositionsDef ==
    \A Q, y : y \in Positions(Q) <=> \E r \in DOMAIN Q : \E i \in DOMAIN Q[r] : y = <<r, i>>
BY DEF Positions

\* A message appended takes one more position; a message taken gives one up.
LEMMA PositionsChange ==
    ASSUME NEW Q \in [Priorities -> Seq(Items)], NEW p \in Priorities
    PROVE  /\ \A z \in Items : Positions([Q EXCEPT ![p] = Append(@, z)])
                                = Positions(Q) \cup {<<p, Len(Q[p]) + 1>>}
           /\ Q[p] # <<>> => Positions([Q EXCEPT ![p] = Tail(@)]) \subseteq Positions(Q)
<1>1. Q[p] \in Seq(Items) /\ DOMAIN Q = Priorities
  OBVIOUS
<1>2. ASSUME NEW z \in Items
      PROVE  Positions([Q EXCEPT ![p] = Append(@, z)]) = Positions(Q) \cup {<<p, Len(Q[p]) + 1>>}
  <2> DEFINE R == [Q EXCEPT ![p] = Append(@, z)]
  <2>1. DOMAIN Append(Q[p], z) = DOMAIN Q[p] \cup {Len(Q[p]) + 1}
    BY <1>1
  <2>2. /\ DOMAIN R = Priorities /\ R[p] = Append(Q[p], z)
        /\ \A r \in Priorities : r # p => R[r] = Q[r]
    BY <1>1, Zenon
  <2> HIDE DEF R
  <2>3. \A r \in Priorities : DOMAIN R[r] = DOMAIN Q[r] \cup (IF r = p THEN {Len(Q[p]) + 1} ELSE {})
    BY <2>1, <2>2, Zenon
  <2>4. Positions(R) = Positions(Q) \cup {<<p, Len(Q[p]) + 1>>}
    BY <1>1, <2>2, <2>3, PositionsDef
  <2> QED
    BY <2>4, Zenon DEF R
<1>3. ASSUME Q[p] # <<>>
      PROVE  Positions([Q EXCEPT ![p] = Tail(@)]) \subseteq Positions(Q)
  <2>1. DOMAIN Tail(Q[p]) \subseteq DOMAIN Q[p]
    BY <1>1, <1>3, TailFacts, LenFacts
  <2> QED
    <3> DEFINE R == [Q EXCEPT ![p] = Tail(@)]
    <3>1. DOMAIN R = Priorities /\ \A r \in Priorities : R[r] = IF r = p THEN Tail(Q[p]) ELSE Q[r]
      BY <1>1, Zenon
    <3> HIDE DEF R
    <3>2. \A r \in DOMAIN R : r \in DOMAIN Q /\ DOMAIN R[r] \subseteq DOMAIN Q[r]
      BY <1>1, <2>1, <3>1, Zenon
    <3>3. Positions(R) \subseteq Positions(Q)
      BY <3>2, PositionsDef
    <3> QED
      BY <3>3, Zenon DEF R
<1> QED
  BY <1>2, <1>3, Zenon

LEMMA CountedFacts ==
    CountingFacts =>
      /\ Counted([p \in Priorities |-> <<>>])
      /\ \A Q \in [Priorities -> Seq(Items)] : \A p \in Priorities :
            Counted(Q) =>
              /\ \A z \in Items : Total(Q) < QueueLimit => Counted([Q EXCEPT ![p] = Append(@, z)])
              /\ Q[p] # <<>> => Counted([Q EXCEPT ![p] = Tail(@)])
<1> SUFFICES ASSUME CountingFacts
             PROVE  /\ Counted([p \in Priorities |-> <<>>])
                    /\ \A Q \in [Priorities -> Seq(Items)] : \A p \in Priorities :
                          Counted(Q) =>
                            /\ \A z \in Items : Total(Q) < QueueLimit =>
                                  Counted([Q EXCEPT ![p] = Append(@, z)])
                            /\ Q[p] # <<>> => Counted([Q EXCEPT ![p] = Tail(@)])
  BY Zenon
<1>0. QueueLimit \in Nat
  BY SendPathAssumption
<1>1. Counted([p \in Priorities |-> <<>>])
  <2>1. Positions([p \in Priorities |-> <<>>]) = {}
    <3>1. DOMAIN <<>> = {}
      OBVIOUS
    <3> QED
      BY <3>1, Zenon DEF Positions
  <2>2. Total([p \in Priorities |-> <<>>]) = 0 /\ IsFiniteSet(Positions([p \in Priorities |-> <<>>]))
    BY <2>1, Zenon DEF CountingFacts, Total
  <2> QED
    BY <1>0, <2>2 DEF Counted
<1>2. ASSUME NEW Q \in [Priorities -> Seq(Items)], NEW p \in Priorities, Counted(Q),
             NEW z \in Items, Total(Q) < QueueLimit
      PROVE  Counted([Q EXCEPT ![p] = Append(@, z)])
  <2> DEFINE R == [Q EXCEPT ![p] = Append(@, z)]
  <2>1. Positions(R) = Positions(Q) \cup {<<p, Len(Q[p]) + 1>>}
    BY PositionsChange, Zenon
  <2> HIDE DEF R
  <2>2. IsFiniteSet(Positions(Q)) /\ Cardinality(Positions(Q)) \in Nat
    BY <1>2, Zenon DEF CountingFacts, Counted
  <2>3. IsFiniteSet(Positions(R)) /\ Total(R) \in {Total(Q), Total(Q) + 1}
    BY <2>1, <2>2, Zenon DEF CountingFacts, Total
  <2>4. Total(Q) \in Nat
    BY <2>2 DEF Total
  <2>5. Counted(R)
    BY <1>0, <1>2, <2>3, <2>4 DEF Counted
  <2> QED
    BY <2>5, Zenon DEF R
<1>3. ASSUME NEW Q \in [Priorities -> Seq(Items)], NEW p \in Priorities, Counted(Q), Q[p] # <<>>
      PROVE  Counted([Q EXCEPT ![p] = Tail(@)])
  <2> DEFINE R == [Q EXCEPT ![p] = Tail(@)]
  <2>1. Positions(R) \in SUBSET Positions(Q)
    BY <1>3, PositionsChange, Zenon
  <2> HIDE DEF R
  <2>2. IsFiniteSet(Positions(R)) /\ Total(R) <= Total(Q)
    BY <1>3, <2>1, Zenon DEF CountingFacts, Counted, Total
  <2>3. Total(R) \in Nat /\ Total(Q) \in Nat
    BY <1>3, <2>2, Zenon DEF CountingFacts, Counted, Total
  <2>4. Counted(R)
    BY <1>0, <1>3, <2>2, <2>3 DEF Counted
  <2> QED
    BY <2>4, Zenon DEF R
<1> QED
  BY <1>1, <1>2, <1>3, Zenon

LEMMA RequeueRoom ==
    ASSUME CountingFacts, TypeInv, RoomInv, NEW p \in Priorities, NEW z \in Items, Requeue(p, z)
    PROVE  Counted(send_queue') /\ dropped' \subseteq Msgs
<1>1. Total(send_queue) < Limit => Total(send_queue) < QueueLimit
  <2>1. Limit \in Nat /\ QueueLimit \in Nat /\ Limit <= QueueLimit
    BY SendPathAssumption DEF Limit
  <2>2. Total(send_queue) \in Nat
    BY Zenon DEF CountingFacts, RoomInv, Counted, Total
  <2> QED
    BY <2>1, <2>2
<1>2. z.msg \in Msgs
  BY DEF Items
<1>3. send_queue \in [Priorities -> Seq(Items)] /\ Counted(send_queue) /\ dropped \subseteq Msgs
  BY Zenon DEF TypeInv, RoomInv
<1> QED
  BY <1>1, <1>2, <1>3, CountedFacts, Zenon DEF Requeue

LEMMA RoomStep ==
    ASSUME CountingFacts, TypeInv, RoomInv, [Next]_vars
    PROVE  RoomInv'
<1> USE DEF queues, threads, history, vars
<1>1. /\ send_queue \in [Priorities -> Seq(Items)] /\ local \in [Priorities -> Seq(Items)]
      /\ encode_queue \in Seq(Items) /\ outbound_queue \in Seq(Items)
      /\ \A t \in Workers \cup {"reactor"} : hand[t] \in Seq(Items) /\ Len(hand[t]) <= 1
  BY Zenon DEF TypeInv
<1>2. EncodeCap \in Nat /\ OutboundCap \in Nat
  BY SendPathAssumption
<1>3. \A q \in Seq(Items) : q # <<>> => /\ Len(Tail(q)) \in Nat /\ Len(q) \in Nat
                                          /\ Len(Tail(q)) <= Len(q)
  BY TailFacts
<1> DEFINE Rest == /\ Len(encode_queue') <= EncodeCap /\ Len(outbound_queue') <= OutboundCap
                   /\ accepted' \subseteq Msgs /\ dropped' \subseteq Msgs
<1>4. encode_queue # <<>> => Len(Tail(encode_queue)) <= EncodeCap
  BY <1>1, <1>2, <1>3 DEF RoomInv
<1>5. outbound_queue # <<>> => Len(Tail(outbound_queue)) <= OutboundCap
  BY <1>1, <1>2, <1>3 DEF RoomInv
<1>6. CASE Standing
  BY <1>6, Zenon DEF RoomInv, Standing, LinkChange, QueueDone, DrainEncodeDone,
     LeaveEncodeLoop, EnterLite, EnterFull, StopWorkers, JoinWorkers, Join,
          StartWorkers, SpawnWorkers, Spawn, LeaveLite
<1>7. CASE SenderSend \/ HoldBack \/ LiteSend \/ LiteReset \/ FlushPending \/ ResetPending
  BY <1>7, Zenon DEF RoomInv, SenderSend, HoldBack, LiteSend, LiteReset, FlushPending,
     ResetPending
<1>8. CASE SenderTake \/ LeaveSenderLoop \/ DrainSender
  BY <1>5, <1>8, Zenon DEF RoomInv, SenderTake, LeaveSenderLoop, DrainSender
<1>9. CASE \E t \in {"encode", "reactor"} : TakeTask(t)
  BY <1>4, <1>9, Zenon DEF RoomInv, TakeTask
<1>10. CASE \E t \in {"encode", "reactor"} : PushPacket(t)
  <2>1. PICK t \in {"encode", "reactor"} : PushPacket(t)
    BY <1>10, Zenon
  <2>2. hand[t] \in Seq(Items) /\ Len(hand[t]) <= 1 /\ hand[t] # <<>>
    BY <1>1, <2>1, Zenon DEF PushPacket, Workers
  <2>3. Len(outbound_queue) < OutboundCap => Len(outbound_queue \o hand[t]) <= OutboundCap
    BY <1>1, <1>2, <2>2
  <2>4. hand[t][1].msg \in Msgs
    <3>1. hand[t][1] \in Items
      BY <2>2, LenFacts
    <3> QED
      BY <3>1 DEF Items
  <2> QED
    BY <2>1, <2>3, <2>4, Zenon DEF RoomInv, PushPacket
<1>11. CASE SwapQueue
  BY <1>11, CountedFacts, Zenon DEF RoomInv, SwapQueue
<1>12. CASE SendMessage
  <2>1. PICK m \in Msgs :
          /\ accepted' = accepted \cup {m}
          /\ \/ dropped' = dropped \cup {m} /\ UNCHANGED send_queue
             \/ /\ ~(Total(send_queue) >= Limit) /\ UNCHANGED dropped
                /\ send_queue' = [send_queue EXCEPT ![Priority[m]] = Append(@, Item(m))]
          /\ UNCHANGED <<local, encode_queue, outbound_queue>>
    BY <1>12, Zenon DEF SendMessage
  <2>2. ~(Total(send_queue) >= Limit) => Total(send_queue) < QueueLimit
    <3>1. Limit \in Nat /\ QueueLimit \in Nat /\ Limit <= QueueLimit
      BY SendPathAssumption DEF Limit
    <3>2. Total(send_queue) \in Nat
      BY Zenon DEF CountingFacts, RoomInv, Counted, Total
    <3> QED
      BY <3>1, <3>2
  <2>3. Counted(send_queue')
    <3>1. Item(m) \in Items /\ Priority[m] \in Priorities
      BY ItemFacts, Zenon
    <3>2. Counted(send_queue)
      BY Zenon DEF RoomInv
    <3>3. Total(send_queue) < QueueLimit =>
            Counted([send_queue EXCEPT ![Priority[m]] = Append(@, Item(m))])
      BY <1>1, <3>1, <3>2, CountedFacts, Zenon
    <3> QED
      BY <2>1, <2>2, <3>2, <3>3, Zenon
  <2> QED
    BY <2>1, <2>3, Zenon DEF RoomInv
<1>13. CASE ProcessNext
  <2>1. PICK p \in Priorities :
          /\ NextPriority(p) /\ local' = [local EXCEPT ![p] = Tail(@)]
          /\ \/ NotOnline(p, Head(local[p])) /\ UNCHANGED encode_queue
             \/ /\ Len(encode_queue) < EncodeCap
                /\ encode_queue' = Append(encode_queue, Head(local[p]))
                /\ UNCHANGED <<send_queue, dropped>>
             \/ Requeue(0, Emptied(Head(local[p]))) /\ UNCHANGED encode_queue
          /\ UNCHANGED <<outbound_queue, accepted>>
    BY <1>13, Zenon DEF ProcessNext
  <2>2. local[p] # <<>> /\ local[p] \in Seq(Items) /\ Head(local[p]) \in Items
    BY <1>1, <2>1, TailFacts, Zenon DEF NextPriority
  <2>3. Counted(local')
    BY <1>1, <2>1, <2>2, CountedFacts, Zenon DEF RoomInv
  <2>4. Len(encode_queue) < EncodeCap =>
          Len(Append(encode_queue, Head(local[p]))) <= EncodeCap
    BY <1>1, <1>2, <2>2
  <2>5. Head(local[p]).msg \in Msgs
    BY <2>2 DEF Items
  <2>6. Emptied(Head(local[p])) \in Items /\ 0 \in Priorities
    BY <2>2, ItemFacts, Zenon
  <2>7. NotOnline(p, Head(local[p])) => Counted(send_queue') /\ dropped' \subseteq Msgs
    BY <2>2, <2>5, RequeueRoom, Zenon DEF NotOnline, RoomInv
  <2>8. Requeue(0, Emptied(Head(local[p]))) => Counted(send_queue') /\ dropped' \subseteq Msgs
    BY <2>6, RequeueRoom, Zenon
  <2> QED
    BY <2>1, <2>3, <2>4, <2>7, <2>8, Zenon DEF RoomInv
<1> QED
  BY <1>6, <1>7, <1>8, <1>9, <1>10, <1>11, <1>12, <1>13, NextCases, Zenon

\* The library's facts about finite sets are taken here and not extended, as
\* every proof above would carry them along.
Sets == INSTANCE FiniteSetTheorems

LEMMA SameSets ==
    \A S : Sets!Cardinality(S) = Cardinality(S) /\ (Sets!IsFiniteSet(S) <=> IsFiniteSet(S))
<1>1. \A S : Sets!IsFiniteSet(S) <=> IsFiniteSet(S)
  BY Zenon DEF Sets!IsFiniteSet, IsFiniteSet
<1>2. \A S : Sets!Cardinality(S) = Cardinality(S)
  BY Zenon DEF Sets!Cardinality, Cardinality
<1> QED
  BY <1>1, <1>2, Zenon

LEMMA SetFacts == CountingFacts
<1>1. IsFiniteSet({}) /\ Cardinality({}) = 0
  BY SameSets, Sets!FS_EmptySet, Zenon
<1>2. \A S : IsFiniteSet(S) => Cardinality(S) \in Nat
  BY SameSets, Sets!FS_CardinalityType, Zenon
<1>3. \A S, x : IsFiniteSet(S) =>
          /\ IsFiniteSet(S \cup {x})
          /\ Cardinality(S \cup {x}) \in {Cardinality(S), Cardinality(S) + 1}
  BY SameSets, Sets!FS_AddElement, Zenon
<1>4. ASSUME NEW S, NEW T, IsFiniteSet(S), T \subseteq S
      PROVE  IsFiniteSet(T) /\ Cardinality(T) <= Cardinality(S)
  <2>1. T \in SUBSET S
    BY <1>4, Zenon
  <2> QED
    BY <1>4, <2>1, SameSets, Sets!FS_Subset, Zenon
<1> QED
  BY <1>1, <1>2, <1>3, <1>4, Zenon DEF CountingFacts

\* Every variable has its type and no queue exceeds its limit, though the
\* reactor puts messages back while the application adds new ones, and
\* whichever mode and link state the steps meet.
THEOREM TypeTheorem == Spec => []TypeOK
<1>1. Init => RoomInv /\ TurnInv
  <2>1. EncodeCap \in Nat /\ OutboundCap \in Nat /\ Len(<<>>) = 0
    BY SendPathAssumption
  <2>2. Len(<<>>) <= EncodeCap /\ Len(<<>>) <= OutboundCap
    BY <2>1
  <2>3. Init => RoomInv
    BY <2>2, SetFacts, CountedFacts, Zenon DEF Init, RoomInv
  <2>4. Init => TurnInv
    BY DEF Init, TurnInv
  <2> QED
    BY <2>3, <2>4, Zenon
<1>2. IInv /\ RoomInv /\ TurnInv /\ [Next]_vars => RoomInv' /\ TurnInv'
  BY SetFacts, RoomStep, TurnStep, Zenon DEF IInv
<1>3. IInv /\ RoomInv /\ TurnInv => TypeOK
  <2> SUFFICES ASSUME IInv, RoomInv, TurnInv
               PROVE  TypeOK
    BY Zenon
  <2>1. turn \in 0..(IF reactor = "encode" THEN LiteTasks ELSE LitePackets)
    BY SendPathAssumption DEF TurnInv
  <2> QED
    BY <2>1, Zenon DEF TypeOK, IInv, TypeInv, RoomInv, TurnInv, Counted
<1> QED
  BY <1>1, <1>2, <1>3, PathInvariant, PTL DEF Spec

=============================================================================
