------------------------------- MODULE SendPath -------------------------------
(***************************************************************************)
(* The way of an application's messages to the socket of one transport:    *)
(* send_message puts a message into the priority queues, the reactor moves *)
(* it to the encode queue when the peer is Online, the encode thread       *)
(* cuts it into packets for the outbound queue, the sender thread gives    *)
(* them to the socket when the token bucket allows.  In lite mode the      *)
(* reactor does the work of both threads, and set_lite_mode changes the    *)
(* mode while everything runs.                                             *)
(*                                                                         *)
(* A message is one packet.  Both BlockingQueues are used through try_push *)
(* and poll / take_for, each atomic under the queue's own mutex.           *)
(***************************************************************************)
EXTENDS Integers, Sequences, FiniteSets, Functions

CONSTANTS MaxMsg,          \* bound: messages the application sends
          Priority,        \* the priority each is sent with
          QueueLimit,      \* config.queue_limit
          LiteQueueLimit,  \* the same in lite mode
          EncodeCap,       \* capacity of m_encode_queue
          OutboundCap,     \* capacity of m_outbound_queue
          LiteTasks,       \* tasks one call of drain_encode takes (16)
          LitePackets,     \* packets one call of drain_sender handles (64)
          MaxEvents,       \* bound: changes of the peer's m_state and calls of
                           \* set_lite_mode together
          StartLite,       \* the choices of config.lite_mode
          StartLink        \* the choices of the peer's m_state at first

Msgs == 1..MaxMsg
Priorities == {0} \cup {Priority[m] : m \in Msgs}

ASSUME SendPathAssumption ==
    /\ MaxMsg \in Nat \ {0}
    /\ Priority \in [Msgs -> Nat]
    /\ QueueLimit \in Nat \ {0} /\ LiteQueueLimit \in 1..QueueLimit
    /\ EncodeCap \in Nat \ {0} /\ OutboundCap \in Nat \ {0}
    /\ LiteTasks \in Nat \ {0} /\ LitePackets \in Nat \ {0}
    /\ MaxEvents \in Nat

ASSUME StartAssumption ==
    StartLite \subseteq BOOLEAN /\ StartLink \subseteq {"none", "Handshake", "Online"}

VARIABLES link,            \* m_state of the peer; "none" while m_peers has no record
          send_queue,      \* m_send_queue: priority -> messages
          local,           \* process_send_queue's copy of it
          encode_queue, outbound_queue,
          lite_pending,    \* m_lite_pending: at most one packet
          hand,            \* what a thread has taken from a queue
          reactor,         \* where reactor_loop stands
          turn,            \* iterations its drain_encode or drain_sender did
          thread,          \* where encode_loop and sender_loop stand
          lite,            \* m_lite_mode
          workers_running, \* m_workers_running
          setter,          \* where set_lite_mode stands
          accepted,        \* messages send_message was called for
          sent,            \* what the socket was given, in order
          dropped,         \* messages given up because the peer is unknown or
                           \* closed, or a queue is full
          changes, switches

queues == <<send_queue, local, encode_queue, outbound_queue, lite_pending, hand>>
threads == <<reactor, thread, lite, workers_running, setter>>
history == <<sent, dropped, changes, switches>>
vars == <<link, queues, threads, turn, accepted, history>>

\* A message, and whether its payload is still there.
Items == [msg : Msgs, whole : BOOLEAN]
Item(m) == [msg |-> m, whole |-> TRUE]
Emptied(x) == [msg |-> x.msg, whole |-> FALSE]

Workers == {"encode", "sender"}

Init ==
    /\ link \in StartLink
    /\ send_queue = [p \in Priorities |-> <<>>]
    /\ local = [p \in Priorities |-> <<>>]
    /\ encode_queue = <<>> /\ outbound_queue = <<>>
    /\ lite_pending = <<>>
    /\ hand = [t \in Workers \cup {"reactor"} |-> <<>>]
    /\ reactor = "top" /\ turn = 0
    /\ lite \in StartLite
    /\ thread = [t \in Workers |-> IF lite THEN "off" ELSE "loop"]
    /\ workers_running = ~lite
    /\ setter = "idle"
    /\ accepted = {} /\ sent = <<>> /\ dropped = {}
    /\ changes = 0 /\ switches = 0

\* The peer's state, moved by the other threads (module Link).  The record is
\* made in the handshake; connect() erasing it for another id is left out.
LinkChange ==
    /\ changes + switches < MaxEvents
    /\ changes' = changes + 1
    /\ link' \in IF link = "none" THEN {"Handshake"}
                                  ELSE {"Handshake", "Online", "Closed"} \ {link}
    /\ UNCHANGED <<queues, threads, turn, accepted, sent, dropped, switches>>

-----------------------------------------------------------------------------
\* The number of messages in the queues q of all priorities.
Positions(q) == UNION {{p} \X DOMAIN q[p] : p \in DOMAIN q}
Total(q) == Cardinality(Positions(q))

Limit == IF lite THEN LiteQueueLimit ELSE QueueLimit

\* send_message; a full queue refuses the message.
SendMessage ==
    \E m \in Msgs :
        /\ accepted = 1..(m - 1)
        /\ accepted' = accepted \cup {m}
        /\ IF Total(send_queue) >= Limit
             THEN /\ dropped' = dropped \cup {m}
                  /\ UNCHANGED send_queue
             ELSE /\ send_queue' = [send_queue EXCEPT ![Priority[m]] = Append(@, Item(m))]
                  /\ UNCHANGED dropped
        /\ UNCHANGED <<link, turn, local, encode_queue, outbound_queue, lite_pending,
                       hand, threads, sent, changes, switches>>

-----------------------------------------------------------------------------
(***************************************************************************)
(* process_send_queue, on the reactor                                      *)
(***************************************************************************)

SwapQueue ==
    /\ reactor = "top"
    /\ reactor' = "queue"
    /\ local' = send_queue
    /\ send_queue' = [p \in Priorities |-> <<>>]
    /\ UNCHANGED <<link, turn, encode_queue, outbound_queue, lite_pending, hand, thread,
                   lite, workers_running, setter, accepted, history>>

\* Mutant: lowest priority first.
LowestNext(p) == local[p] # <<>> /\ \A q \in Priorities : local[q] # <<>> => p <= q

\* p is the highest priority with messages left in the copy.
NextPriority(p) == local[p] # <<>> /\ \A q \in Priorities : local[q] # <<>> => q <= p

\* Mutant: requeued without looking at the limit.
UnlimitedRequeue(p, x) ==
    /\ send_queue' = [send_queue EXCEPT ![p] = Append(@, x)]
    /\ UNCHANGED dropped

\* The message goes back to the end of a queue, if there is room.
Requeue(p, x) ==
    IF Total(send_queue) < Limit
      THEN /\ send_queue' = [send_queue EXCEPT ![p] = Append(@, x)]
           /\ UNCHANGED dropped
      ELSE /\ dropped' = dropped \cup {x.msg}
           /\ UNCHANGED send_queue

\* Mutant: the message of a peer that is not Online is not put back.
ForgottenUnlessOnline(p, x) == UNCHANGED <<send_queue, dropped>>

\* Unknown or Closed: given up; not yet Online: back to its queue.
NotOnline(p, x) ==
    IF link \in {"none", "Closed"}
      THEN dropped' = dropped \cup {x.msg} /\ UNCHANGED send_queue
      ELSE Requeue(p, x)

\* try_push takes the task by value, so a full encode queue leaves an empty
\* payload behind; it goes back with priority 0.
ProcessNext ==
    /\ reactor = "queue"
    /\ \E p \in Priorities :
         /\ NextPriority(p)
         /\ local' = [local EXCEPT ![p] = Tail(@)]
         /\ LET x == Head(local[p])
            IN  \/ /\ link # "Online"
                   /\ NotOnline(p, x)
                   /\ UNCHANGED encode_queue
                \/ /\ link = "Online" /\ Len(encode_queue) < EncodeCap
                   /\ encode_queue' = Append(encode_queue, x)
                   /\ UNCHANGED <<send_queue, dropped>>
                \/ /\ link = "Online" /\ Len(encode_queue) >= EncodeCap
                   /\ Requeue(0, Emptied(x))
                   /\ UNCHANGED encode_queue
    /\ UNCHANGED <<link, turn, outbound_queue, lite_pending, hand, threads, accepted,
                   sent, changes, switches>>

\* The copy is empty; m_lite_mode decides what the rest of the round does.
QueueDone ==
    /\ reactor = "queue" /\ \A p \in Priorities : local[p] = <<>>
    /\ reactor' = IF lite THEN "encode" ELSE "top"
    /\ UNCHANGED <<link, turn, queues, thread, lite, workers_running, setter, accepted,
                   history>>

-----------------------------------------------------------------------------
(***************************************************************************)
(* fragment_and_send, on the encode thread or, in lite mode, the reactor   *)
(***************************************************************************)

\* t takes the oldest task ...
TakeTask(t) ==
    /\ hand[t] = <<>> /\ encode_queue # <<>>
    /\ hand' = [hand EXCEPT ![t] = <<Head(encode_queue)>>]
    /\ encode_queue' = Tail(encode_queue)
    /\ UNCHANGED <<link, send_queue, local, outbound_queue, lite_pending, threads,
                   accepted, history>>

\* Mutant: the packet goes to the front of the outbound queue.
PushFront(t) ==
    /\ hand[t] # <<>>
    /\ hand' = [hand EXCEPT ![t] = <<>>]
    /\ outbound_queue' = hand[t] \o outbound_queue
    /\ UNCHANGED <<link, send_queue, local, encode_queue, lite_pending, threads, accepted,
                   history>>

\* ... and hands its packet to send_raw, which drops it if the outbound queue
\* is full.
PushPacket(t) ==
    /\ hand[t] # <<>>
    /\ hand' = [hand EXCEPT ![t] = <<>>]
    /\ IF Len(outbound_queue) < OutboundCap
         THEN /\ outbound_queue' = outbound_queue \o hand[t]
              /\ UNCHANGED dropped
         ELSE /\ dropped' = dropped \cup {hand[t][1].msg}
              /\ UNCHANGED outbound_queue
    /\ UNCHANGED <<link, send_queue, local, encode_queue, lite_pending, threads, accepted,
                   sent, changes, switches>>

\* take_for waits, so a task may be taken after m_workers_running is cleared;
\* on the way out the encode thread empties the queue.
EncodeThread ==
    /\ thread["encode"] \in {"loop", "drain"}
    /\ TakeTask("encode") \/ PushPacket("encode")
    /\ UNCHANGED turn

LeaveEncodeLoop ==
    /\ hand["encode"] = <<>>
    /\ \/ /\ thread["encode"] = "loop" /\ ~workers_running
          /\ thread' = [thread EXCEPT !["encode"] = "drain"]
       \/ /\ thread["encode"] = "drain" /\ encode_queue = <<>>
          /\ thread' = [thread EXCEPT !["encode"] = "off"]
    /\ UNCHANGED <<link, turn, queues, reactor, lite, workers_running, setter, accepted,
                   history>>

DrainEncode ==
    /\ reactor = "encode"
    /\ \/ turn < LiteTasks /\ TakeTask("reactor") /\ turn' = turn + 1
       \/ PushPacket("reactor") /\ UNCHANGED turn

DrainEncodeDone ==
    /\ reactor = "encode" /\ hand["reactor"] = <<>>
    /\ encode_queue = <<>> \/ turn = LiteTasks
    /\ reactor' = "sender" /\ turn' = 0
    /\ UNCHANGED <<link, queues, thread, lite, workers_running, setter, accepted, history>>

-----------------------------------------------------------------------------
(***************************************************************************)
(* sender_loop, and drain_sender on the reactor in lite mode               *)
(***************************************************************************)

SenderTake ==
    /\ thread["sender"] = "loop" /\ hand["sender"] = <<>> /\ outbound_queue # <<>>
    /\ hand' = [hand EXCEPT !["sender"] = <<Head(outbound_queue)>>]
    /\ outbound_queue' = Tail(outbound_queue)
    /\ UNCHANGED <<link, turn, send_queue, local, encode_queue, lite_pending, threads,
                   accepted, history>>

\* The packet is sent when there are tokens enough, however long that takes.
SenderSend ==
    /\ hand["sender"] # <<>>
    /\ sent' = sent \o hand["sender"]
    /\ hand' = [hand EXCEPT !["sender"] = <<>>]
    /\ UNCHANGED <<link, turn, send_queue, local, encode_queue, outbound_queue,
                   lite_pending, threads, accepted, dropped, changes, switches>>

\* Mutant: the sender loop looks at m_running only.
StubbornSenderLoop == FALSE /\ UNCHANGED vars

\* On the way out the sender thread empties the queue and sends nothing.
LeaveSenderLoop ==
    /\ hand["sender"] = <<>>
    /\ \/ /\ thread["sender"] = "loop" /\ ~workers_running
          /\ thread' = [thread EXCEPT !["sender"] = "drain"]
          /\ UNCHANGED outbound_queue
       \/ /\ thread["sender"] = "drain" /\ outbound_queue # <<>>
          /\ outbound_queue' = Tail(outbound_queue)
          /\ UNCHANGED thread
       \/ /\ thread["sender"] = "drain" /\ outbound_queue = <<>>
          /\ thread' = [thread EXCEPT !["sender"] = "off"]
          /\ UNCHANGED outbound_queue
    /\ UNCHANGED <<link, turn, send_queue, local, encode_queue, lite_pending, hand,
                   reactor, lite, workers_running, setter, accepted, history>>

\* The packet the reactor works on stays in m_lite_pending; hand is the
\* reactor's reference to it.
DrainSender ==
    /\ reactor = "sender"
    /\ \/ /\ turn = LitePackets \/ (lite_pending = <<>> /\ outbound_queue = <<>>)
          /\ reactor' = "top" /\ turn' = 0
          /\ UNCHANGED <<lite_pending, outbound_queue, hand>>
       \/ /\ turn < LitePackets /\ lite_pending = <<>> /\ outbound_queue # <<>>
          /\ lite_pending' = <<Head(outbound_queue)>>
          /\ outbound_queue' = Tail(outbound_queue)
          /\ hand' = [hand EXCEPT !["reactor"] = lite_pending']
          /\ reactor' = "holding" /\ UNCHANGED turn
       \/ /\ turn < LitePackets /\ lite_pending # <<>>
          /\ hand' = [hand EXCEPT !["reactor"] = lite_pending]
          /\ reactor' = "holding" /\ UNCHANGED turn
          /\ UNCHANGED <<lite_pending, outbound_queue>>
    /\ UNCHANGED <<link, send_queue, local, encode_queue, thread, lite, workers_running,
                   setter, accepted, history>>

\* Too few tokens: the packet waits for the next round.
HoldBack ==
    /\ reactor = "holding"
    /\ reactor' = "top" /\ turn' = 0
    /\ hand' = [hand EXCEPT !["reactor"] = <<>>]
    /\ UNCHANGED <<link, send_queue, local, encode_queue, outbound_queue, lite_pending,
                   thread, lite, workers_running, setter, accepted, history>>

\* sendto through the reference.  If set_lite_mode has cleared m_lite_pending
\* meanwhile, the freed buffer holds the packet still or something no decoder
\* accepts.
LiteSend ==
    /\ reactor = "holding"
    /\ sent' \in {sent \o hand["reactor"]}
                   \cup (IF lite_pending = hand["reactor"] THEN {} ELSE {sent})
    /\ hand' = [hand EXCEPT !["reactor"] = <<>>]
    /\ reactor' = "sent"
    /\ UNCHANGED <<link, turn, send_queue, local, encode_queue, outbound_queue,
                   lite_pending, thread, lite, workers_running, setter, accepted, dropped,
                   changes, switches>>

\* Mutant: m_lite_pending is not reset.
KeptLiteReset ==
    /\ reactor = "sent"
    /\ reactor' = "sender" /\ turn' = turn + 1
    /\ UNCHANGED <<link, queues, thread, lite, workers_running, setter, accepted, history>>

LiteReset ==
    /\ reactor = "sent"
    /\ lite_pending' = <<>>
    /\ reactor' = "sender" /\ turn' = turn + 1
    /\ UNCHANGED <<link, send_queue, local, encode_queue, outbound_queue, hand, thread,
                   lite, workers_running, setter, accepted, history>>

-----------------------------------------------------------------------------
(***************************************************************************)
(* set_lite_mode, one call at a time (m_workers_mutex).  The receiver      *)
(* thread, joined and started with the others, takes no part here.         *)
(***************************************************************************)

\* To lite: the reactor takes over ...
EnterLite ==
    /\ setter = "idle" /\ ~lite /\ changes + switches < MaxEvents
    /\ switches' = switches + 1
    /\ lite' = TRUE
    /\ setter' = "stopping"
    /\ UNCHANGED <<link, turn, queues, reactor, thread, workers_running, accepted, sent,
                   dropped, changes>>

\* ... the threads are told to leave ...
StopWorkers ==
    /\ setter = "stopping"
    /\ workers_running' = FALSE
    /\ setter' = "joinEncode"
    /\ UNCHANGED <<link, turn, queues, reactor, thread, lite, accepted, history>>

\* ... and joined, one after the other.
Join(t, here, next) ==
    /\ setter = here /\ thread[t] = "off"
    /\ setter' = next
    /\ UNCHANGED <<link, turn, queues, reactor, thread, lite, workers_running, accepted,
                   history>>

JoinWorkers == \/ Join("encode", "joinEncode", "joinSender")
               \/ Join("sender", "joinSender", "idle")

\* To full: a packet in m_lite_pending is sent first ...
EnterFull ==
    /\ setter = "idle" /\ lite /\ changes + switches < MaxEvents
    /\ switches' = switches + 1
    /\ setter' = IF lite_pending = <<>> THEN "starting" ELSE "flushing"
    /\ UNCHANGED <<link, turn, queues, reactor, thread, lite, workers_running, accepted,
                   sent, dropped, changes>>

FlushPending ==
    /\ setter = "flushing"
    /\ sent' = sent \o lite_pending
    /\ setter' = "resetting"
    /\ UNCHANGED <<link, turn, queues, reactor, thread, lite, workers_running, accepted,
                   dropped, changes, switches>>

ResetPending ==
    /\ setter = "resetting"
    /\ lite_pending' = <<>>
    /\ setter' = "starting"
    /\ UNCHANGED <<link, turn, send_queue, local, encode_queue, outbound_queue, hand,
                   reactor, thread, lite, workers_running, accepted, history>>

\* ... the threads are started, one after the other, and only then is the
\* reactor relieved.
StartWorkers ==
    /\ setter = "starting"
    /\ workers_running' = TRUE
    /\ setter' = "spawnEncode"
    /\ UNCHANGED <<link, turn, queues, reactor, thread, lite, accepted, history>>

Spawn(t, here, next) ==
    /\ setter = here
    /\ thread' = [thread EXCEPT ![t] = "loop"]
    /\ setter' = next
    /\ UNCHANGED <<link, turn, queues, reactor, lite, workers_running, accepted, history>>

SpawnWorkers == \/ Spawn("encode", "spawnEncode", "spawnSender")
                \/ Spawn("sender", "spawnSender", "leaving")

LeaveLite ==
    /\ setter = "leaving"
    /\ lite' = FALSE
    /\ setter' = "idle"
    /\ UNCHANGED <<link, turn, queues, reactor, thread, workers_running, accepted, history>>

SetLiteMode == \/ StopWorkers \/ JoinWorkers
               \/ FlushPending \/ ResetPending \/ StartWorkers \/ SpawnWorkers \/ LeaveLite

ReactorLoop == \/ SwapQueue \/ ProcessNext \/ QueueDone
               \/ DrainEncode \/ DrainEncodeDone
               \/ DrainSender \/ HoldBack \/ LiteSend \/ LiteReset

Next == \/ LinkChange \/ SendMessage
        \/ ReactorLoop
        \/ EncodeThread \/ LeaveEncodeLoop
        \/ SenderTake \/ SenderSend \/ LeaveSenderLoop
        \/ EnterLite \/ EnterFull \/ SetLiteMode

Spec == Init /\ [][Next]_vars

\* Every thread runs, and the token bucket fills: a packet is not held back
\* for ever.
Fairness ==
    /\ WF_vars(ReactorLoop) /\ SF_vars(LiteSend)
    /\ WF_vars(EncodeThread) /\ WF_vars(LeaveEncodeLoop)
    /\ WF_vars(SenderTake) /\ WF_vars(SenderSend) /\ WF_vars(LeaveSenderLoop)
    /\ WF_vars(SetLiteMode)

FairSpec == Spec /\ Fairness

-----------------------------------------------------------------------------
(***************************************************************************)
(* Properties                                                              *)
(***************************************************************************)

\* Every variable has its type and no queue exceeds its limit, though the
\* reactor puts messages back while the application adds new ones.
TypeOK ==
    /\ link \in {"none", "Handshake", "Online", "Closed"}
    /\ send_queue \in [Priorities -> Seq(Items)] /\ Total(send_queue) <= QueueLimit
    /\ local \in [Priorities -> Seq(Items)] /\ Total(local) <= QueueLimit
    /\ encode_queue \in Seq(Items) /\ Len(encode_queue) <= EncodeCap
    /\ outbound_queue \in Seq(Items) /\ Len(outbound_queue) <= OutboundCap
    /\ lite_pending \in Seq(Items) /\ Len(lite_pending) <= 1
    /\ hand \in [Workers \cup {"reactor"} -> Seq(Items)]
    /\ reactor \in {"top", "queue", "encode", "sender", "holding", "sent"}
    /\ turn \in 0..(IF reactor = "encode" THEN LiteTasks ELSE LitePackets)
    /\ thread \in [Workers -> {"off", "loop", "drain"}]
    /\ lite \in BOOLEAN /\ workers_running \in BOOLEAN
    /\ setter \in {"idle", "stopping", "joinEncode", "joinSender", "flushing",
                   "resetting", "starting", "spawnEncode", "spawnSender", "leaving"}
    /\ accepted \subseteq Msgs /\ dropped \subseteq Msgs /\ sent \in Seq(Items)

MsgsOf(q) == {q[i].msg : i \in DOMAIN q}

Underway ==
    UNION {MsgsOf(q) : q \in {encode_queue, outbound_queue, lite_pending}
                             \cup Range(send_queue) \cup Range(local) \cup Range(hand)}

\* Each message send_message took is somewhere on its way, or was sent, or
\* was given up because the peer is unknown or Closed or a queue is full:
\* moving messages between queues and threads loses none, as long as
\* set_lite_mode was not called.
NothingVanishes == switches = 0 => accepted \subseteq Underway \cup MsgsOf(sent) \cup dropped

\* set_lite_mode(true) before it returns.
Lowering == {"stopping", "joinEncode", "joinSender"}

\* set_lite_mode(false) was not called.
NeverRaised == switches = 0 \/ (switches = 1 /\ lite /\ setter \in {"idle"} \cup Lowering)

\* No packet goes to the socket twice, also while set_lite_mode(true) has the
\* reactor and the threads take from the same queues (transport.cpp:177).
SentOnce ==
    NeverRaised => \A i, j \in DOMAIN sent : sent[i].msg = sent[j].msg => i = j

\* While the peer stays Online and the mode the same, messages of one
\* priority leave in the order they were sent in, though four threads hand
\* them on; those the encode queue refused fall behind, with priority 0.
SentInOrder ==
    changes = 0 /\ switches = 0 /\ link = "Online" =>
        \A i, j \in DOMAIN sent :
            i < j /\ sent[i].whole /\ sent[j].whole
                  /\ Priority[sent[i].msg] = Priority[sent[j].msg]
                => sent[i].msg < sent[j].msg

\* usage.md:31, the higher priority leaves the queue first: when a message
\* moves on to the encode queue, none with a higher priority is left behind
\* in the reactor's copy, but those that were put back with priority 0.
HigherFirst ==
    [][Len(encode_queue') > Len(encode_queue) =>
         LET moved == encode_queue'[Len(encode_queue')]
         IN  \A q \in Range(local') : \A i \in DOMAIN q :
                q[i].whole => Priority[q[i].msg] <= Priority[moved.msg]]_vars

\* What is sent is what send_message was given.
PayloadKept == \A i \in DOMAIN sent : sent[i].whole

\* A message that was taken is sent or given up, unless the peer stays in
\* the handshake or the mode changes: again and again none is left underway.
Departs ==
    <>[](link # "Handshake") =>
        []<>(switches > 0 \/ accepted \subseteq MsgsOf(sent) \cup dropped)

\* set_lite_mode returns: the threads it waits for leave their loops.
SwitchReturns == setter # "idle" ~> setter = "idle"

=============================================================================
